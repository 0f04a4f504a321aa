------------------------------ MODULE FileCache ------------------------------
(***************************************************************************)
(* The in-memory file cache of the server (file_cache.h, file_cache.cpp):  *)
(* FileCache, a map from paths to CachedFile objects, and                  *)
(* CachedFile::refresh_if_expired, which compares the clock with the       *)
(* expiration time, stats the file, and reads it again if its modification *)
(* time is not the remembered one.                                         *)
(*                                                                         *)
(* The server is single-threaded, so one get() runs at a time; but people  *)
(* and other processes change the files at any moment, in particular       *)
(* between the stat and the read of one refresh.  So get() is a sequence   *)
(* of steps, between which the disk and the clock may move.  The process   *)
(* may also end and be started again between any two steps: the cache is   *)
(* then empty, and a get() in progress is lost.                            *)
(***************************************************************************)
EXTENDS Integers

CONSTANTS
    Files,              \* the paths that can be asked for
    Contents,           \* what a file can hold
    Size,               \* Size[c]: the number of bytes of the contents c
    Absent,             \* no regular file under that path (or a directory)
    NULL,               \* the null pointer: an entry without data
    Unused,             \* no CachedFile object for the path yet
    NoAnswer,           \* the get() in progress has not returned yet
    Period,             \* expiration_period_
    MaxTime,            \* the bound of the clock
    QuietTime,          \* files change and the server restarts up to this time only
    FirstStamp,         \* the least modification time of a file: 0 is the epoch
    DistinctStamps,     \* every write gives the file a new modification time
    SteadyPermissions   \* an existing file can always be opened

ASSUME CacheAssumption ==
    /\ Size \in [Contents -> Nat]
    /\ Absent \notin Contents
    /\ Period \in Nat \ {0}
    /\ MaxTime \in Nat
    /\ QuietTime \in Nat
    /\ FirstStamp \in {0, 1}
    /\ DistinctStamps \in BOOLEAN
    /\ SteadyPermissions \in BOOLEAN

-----------------------------------------------------------------------------
(* The shape of the state.                                                 *)

\* A data_ array: the first len bytes of some contents.
Copy == [of : Contents, len : Nat]

\* A CachedFile object.
Entry == [data : Copy \cup {NULL}, expiration_time : Nat, last_modified : Nat]

File == [content : Contents \cup {Absent}, readable : BOOLEAN, mtime : Nat]

Get == [step : {"idle", "refresh", "stat", "read"},
        file : Files, asked : Nat, size : Nat]

Answers == [file : Files, found : BOOLEAN, data : Copy \cup {NULL}]

\* What FreshStore sees of a get() in progress and of an answer.
Questions == [file : Files, asked : Nat]
Replies == [file : Files, shown : Contents \cup {Absent, NULL}]

ASSUME NotValues ==
    /\ NULL \notin Copy
    /\ Unused \notin Entry
    /\ NoAnswer \notin Answers \cup Questions \cup Replies

VARIABLES
    now,        \* time(NULL)
    disk,       \* disk[f]: the file under the path f
    cache,      \* cached_files_
    get,        \* the get() in progress, or the last one
    answer,     \* what the last get() returned
    left        \* history: left[f][c] is when f last stopped holding c

vars == <<now, disk, cache, get, answer, left>>

-----------------------------------------------------------------------------
TypeOK ==
    /\ now \in Nat
    /\ disk \in [Files -> File]
    /\ cache \in [Files -> Entry \cup {Unused}]
    /\ get \in Get
    /\ answer \in Answers \cup {NoAnswer}
    /\ left \in [Files -> [Contents \cup {Absent} -> Int]]

-----------------------------------------------------------------------------
(* The cache.                                                              *)

\* The constructor of CachedFile.
NewEntry == [data |-> NULL, expiration_time |-> 0, last_modified |-> 0]

data_size(e) == IF e.data = NULL THEN 0 ELSE e.data.len

Smaller(m, n) == IF m < n THEN m ELSE n

\* The entry the get() in progress works on.
entry == cache[get.file]

Return(found, data) ==
    /\ get' = [get EXCEPT !.step = "idle"]
    /\ answer' = [file |-> get.file, found |-> found, data |-> data]

\* Mutant: "return false" without releasing the data.
Mutant_empty_data == UNCHANGED cache /\ Return(FALSE, NULL)

\* empty_data() and "return false".
empty_data ==
    /\ cache' = [cache EXCEPT ![get.file].data = NULL]
    /\ Return(FALSE, NULL)

\* get_cached_object up to the refresh: find the object or create it.
get_cached_object(f) ==
    /\ get.step = "idle"
    /\ get' = [step |-> "refresh", file |-> f, asked |-> now, size |-> 0]
    /\ cache' = [cache EXCEPT ![f] = IF @ = Unused THEN NewEntry ELSE @]
    /\ answer' = NoAnswer
    /\ UNCHANGED <<now, disk, left>>

\* Mutant: an entry without data is served while it has not expired.
MutantServeEmpty ==
    /\ get.step = "refresh"
    /\ now < entry.expiration_time
    /\ Return(TRUE, entry.data)
    /\ UNCHANGED <<now, disk, cache, left>>

\* Mutant: a copy is served at the moment of its expiration.
MutantServeLate ==
    /\ get.step = "refresh"
    /\ now <= entry.expiration_time
    /\ data_size(entry) # 0
    /\ Return(TRUE, entry.data)
    /\ UNCHANGED <<now, disk, cache, left>>

\* refresh_if_expired finds a copy that has neither expired nor is empty.
ServeUnexpired ==
    /\ get.step = "refresh"
    /\ now < entry.expiration_time
    /\ data_size(entry) # 0
    /\ Return(TRUE, entry.data)
    /\ UNCHANGED <<now, disk, cache, left>>

\* Mutant: the cache keeps its files for longer than the max-age.
MutantBeginRefresh ==
    /\ get.step = "refresh"
    /\ now >= entry.expiration_time \/ data_size(entry) = 0
    /\ cache' = [cache EXCEPT ![get.file].expiration_time = now + 2 * Period]
    /\ get' = [get EXCEPT !.step = "stat"]
    /\ UNCHANGED <<now, disk, answer, left>>

\* refresh_if_expired starts a refresh: the copy expired or has no bytes.
BeginRefresh ==
    /\ get.step = "refresh"
    /\ now >= entry.expiration_time \/ data_size(entry) = 0
    /\ cache' = [cache EXCEPT ![get.file].expiration_time = now + Period]
    /\ get' = [get EXCEPT !.step = "stat"]
    /\ UNCHANGED <<now, disk, answer, left>>

\* stat() fails or finds a directory.
StatFails ==
    /\ get.step = "stat"
    /\ disk[get.file].content = Absent
    /\ empty_data
    /\ UNCHANGED <<now, disk, left>>

\* stat() finds the remembered modification time: the copy is kept.
StatUnmodified ==
    /\ get.step = "stat"
    /\ disk[get.file].content # Absent
    /\ disk[get.file].mtime = entry.last_modified
    /\ Return(TRUE, entry.data)
    /\ UNCHANGED <<now, disk, cache, left>>

\* stat() finds another modification time, which is remembered at once,
\* before anything is read.
StatModified ==
    /\ get.step = "stat"
    /\ disk[get.file].content # Absent
    /\ disk[get.file].mtime # entry.last_modified
    /\ cache' = [cache EXCEPT ![get.file].last_modified = disk[get.file].mtime]
    /\ get' = [get EXCEPT !.step = "read", !.size = Size[disk[get.file].content]]
    /\ UNCHANGED <<now, disk, answer, left>>

\* The ifstream is not good(): the file is gone or may not be read.
OpenFails ==
    /\ get.step = "read"
    /\ disk[get.file].content = Absent \/ ~disk[get.file].readable
    /\ empty_data
    /\ UNCHANGED <<now, disk, left>>

\* Mutant: the modification time is taken after the read, not before it.
MutantReadFile ==
    LET copy == [of  |-> disk[get.file].content,
                 len |-> Smaller(get.size, Size[disk[get.file].content])]
    IN  /\ get.step = "read"
        /\ disk[get.file].content # Absent
        /\ disk[get.file].readable
        /\ cache' = [cache EXCEPT ![get.file].data = copy,
                                  ![get.file].last_modified = disk[get.file].mtime]
        /\ Return(TRUE, copy)
        /\ UNCHANGED <<now, disk, left>>

\* readsome() into an array of the size that stat() gave.
ReadFile ==
    LET copy == [of  |-> disk[get.file].content,
                 len |-> Smaller(get.size, Size[disk[get.file].content])]
    IN  /\ get.step = "read"
        /\ disk[get.file].content # Absent
        /\ disk[get.file].readable
        /\ cache' = [cache EXCEPT ![get.file].data = copy]
        /\ Return(TRUE, copy)
        /\ UNCHANGED <<now, disk, left>>

refresh_if_expired ==
    \/ ServeUnexpired
    \/ BeginRefresh
    \/ StatFails
    \/ StatUnmodified
    \/ StatModified
    \/ OpenFails
    \/ ReadFile

-----------------------------------------------------------------------------
(* The file system, which other processes change, and the clock.           *)

Tick ==
    /\ now < MaxTime
    /\ now' = now + 1
    /\ UNCHANGED <<disk, cache, get, answer, left>>

SetContent(f, c) ==
    /\ now <= QuietTime
    /\ left' = IF c = disk[f].content THEN left
                                      ELSE [left EXCEPT ![f][disk[f].content] = now]
    /\ UNCHANGED <<now, cache, get, answer>>

\* A file is written, another one is moved over it, or its permissions or
\* times are set.  Without DistinctStamps the modification time may be any:
\* two writes in one second, touch -d, cp -p, mv.
ChangeFile(f, c, m, r) ==
    /\ SetContent(f, c)
    /\ DistinctStamps =>
         \/ c = disk[f].content /\ m = disk[f].mtime
         \/ m = now /\ m > disk[f].mtime
    /\ SteadyPermissions => r
    /\ disk' = [disk EXCEPT ![f] = [content |-> c, readable |-> r, mtime |-> m]]

\* The modification time of a removed file is kept, to remember the stamps
\* that were used.
RemoveFile(f) ==
    /\ disk[f].content # Absent
    /\ SetContent(f, Absent)
    /\ disk' = [disk EXCEPT ![f].content = Absent]

\* Somebody changes a file.
ChangeDisk ==
    \E f \in Files :
        \/ RemoveFile(f)
        \/ \E c \in Contents, m \in FirstStamp .. now, r \in BOOLEAN : ChangeFile(f, c, m, r)

-----------------------------------------------------------------------------
\* The server ends or is killed, and is started again with a new FileCache.
Restart ==
    /\ now <= QuietTime
    /\ cache' = [f \in Files |-> Unused]
    /\ get' = [get EXCEPT !.step = "idle"]
    /\ answer' = NoAnswer
    /\ UNCHANGED <<now, disk, left>>

Init ==
    /\ now = 1
    /\ disk \in [Files -> {[content |-> c, readable |-> TRUE,
                            mtime |-> IF c = Absent THEN 0 ELSE FirstStamp] :
                              c \in Contents \cup {Absent}}]
    /\ cache = [f \in Files |-> Unused]
    /\ \E f \in Files : get = [step |-> "idle", file |-> f, asked |-> 0, size |-> 0]
    /\ answer = NoAnswer
    /\ left = [f \in Files |-> [c \in Contents \cup {Absent} |-> 0 - Period]]

Next ==
    \/ Tick
    \/ Restart
    \/ ChangeDisk
    \/ refresh_if_expired
    \/ \E f \in Files : get_cached_object(f)

Spec == Init /\ [][Next]_vars

-----------------------------------------------------------------------------
(* Properties.                                                             *)

\* When get() returns true, the data pointer it hands out is not null, as
\* the callers that use it as a C string rely on (file_cache.h 148-155).
\* The steps that threaten it: a file that is gone or unreadable at the
\* wrong moment leaves an entry without data whose modification time is
\* remembered.
FoundHasData ==
    answer # NoAnswer /\ answer.found => answer.data # NULL

\* c was on disk under f at some moment after t - Period.
OnDiskWithin(f, c, t) ==
    disk[f].content = c \/ t < left[f][c] + Period

\* The contents get() returns were on disk less than one expiration period
\* before the question ("If the cached object is out of date, it will be
\* refreshed", file_cache.h 80).
BoundedStaleness ==
    answer # NoAnswer /\ answer.data # NULL =>
        OnDiskWithin(answer.file, answer.data.of, get.asked)

\* The test st_mtime == last_modified_ (file_cache.cpp 149) is sound: an
\* entry that remembers the modification time of the file on disk holds all
\* of that file, unless it is just being read.  So a copy torn by a write
\* between stat() and read is replaced at the next refresh.
Loading(f) == get.step = "read" /\ get.file = f

Whole(c) == [of |-> c, len |-> Size[c]]

UnmodifiedIsCurrent ==
    \A f \in Files :
        cache[f] # Unused /\ disk[f].content # Absent /\ ~Loading(f)
          /\ cache[f].last_modified = disk[f].mtime
            => cache[f].data = Whole(disk[f].content)

\* The cache keeps the promise of FreshStore.
Shown(a) == IF a.found THEN IF a.data = NULL THEN NULL ELSE a.data.of ELSE Absent

Promise == INSTANCE FreshStore WITH
    Nobody   <- NoAnswer,
    content  <- [f \in Files |-> disk[f].content],
    question <- IF get.step = "idle" THEN NoAnswer
                ELSE [file |-> get.file, asked |-> get.asked],
    answer   <- IF answer = NoAnswer THEN NoAnswer
                ELSE [file |-> answer.file, shown |-> Shown(answer)]

KeepsPromise == Promise!Spec

-----------------------------------------------------------------------------
(* The inductive invariant behind the properties above, for a file system  *)
(* with DistinctStamps.                                                    *)

\* An entry that remembers the modification time of a file has its data:
\* no open fails in between, and no file has the time of a new entry.
StampsHaveData == SteadyPermissions /\ FirstStamp # 0

Refreshing(f) == get.step \in {"stat", "read"} /\ get.file = f

\* What holds of an entry of the cache.
EntryInv(f) ==
    /\ cache[f].last_modified <= disk[f].mtime
    /\ cache[f].expiration_time <= now + Period
    /\ disk[f].content # Absent /\ cache[f].last_modified = disk[f].mtime =>
         IF Loading(f) THEN get.size = Size[disk[f].content]
                       ELSE \/ cache[f].data = Whole(disk[f].content)
                            \/ cache[f].data = NULL /\ ~StampsHaveData
    /\ cache[f].data # NULL /\ ~Refreshing(f) =>
         OnDiskWithin(f, cache[f].data.of, cache[f].expiration_time - 1)

FileInv(f) ==
    /\ disk[f].content # Absent => disk[f].mtime >= FirstStamp
    /\ SteadyPermissions => disk[f].readable
    /\ cache[f] # Unused => EntryInv(f)

GetInv ==
    /\ get.asked <= now
    /\ get.step # "idle" => cache[get.file] # Unused /\ answer = NoAnswer

CacheInv ==
    /\ TypeOK
    /\ GetInv
    /\ \A f \in Files : FileInv(f)
    /\ StampsHaveData => FoundHasData
    /\ BoundedStaleness
=============================================================================
