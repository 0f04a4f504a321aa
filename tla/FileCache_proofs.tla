-------------------------- MODULE FileCache_proofs --------------------------
(***************************************************************************)
(* Theorems about FileCache, for any set of files, any contents, any       *)
(* expiration period and an unbounded clock, with their proofs.            *)
(*                                                                         *)
(* The type invariant holds of the code as it is.  The bound of staleness  *)
(* needs a file system in which every write gives a new modification time. *)
(* That what is found has data, and the refinement of FreshStore, need     *)
(* also that no permission is taken away and no file is of the epoch: the  *)
(* run of FileCacheUnreadable.cfg shows what happens without the first.    *)
(***************************************************************************)
EXTENDS FileCache, TLAPS

\* An entry in use is a CachedFile object.
InUse == TypeOK /\ (get.step # "idle" => cache[get.file] # Unused)

LEMMA InitInUse == Init => InUse
<1> SUFFICES ASSUME Init PROVE InUse
  OBVIOUS
<1> USE CacheAssumption DEF Init, InUse, TypeOK
<1>1. disk \in [Files -> File]
  <2>1. \A c \in Contents \cup {Absent} :
          [content |-> c, readable |-> TRUE, mtime |-> IF c = Absent THEN 0 ELSE FirstStamp] \in File
    BY DEF File
  <2> QED BY <2>1
<1>2. get \in Get /\ get.step = "idle"
  BY DEF Get
<1>3. left \in [Files -> [Contents \cup {Absent} -> Int]]
  OBVIOUS
<1> QED BY <1>1, <1>2, <1>3

LEMMA NextInUse == InUse /\ [Next]_vars => InUse'
<1> SUFFICES ASSUME InUse, [Next]_vars PROVE InUse'
  OBVIOUS
<1> USE CacheAssumption DEF InUse, TypeOK
<1>1. CASE Tick
  <2>1. now' \in Nat
    BY <1>1 DEF Tick
  <2> QED BY <1>1, <2>1 DEF Tick
<1>2. CASE refresh_if_expired
  <2> DEFINE e == cache[get.file]
  <2>0. get.file \in Files
    BY DEF Get
  <2>1. \A r \in BOOLEAN, d \in Copy \cup {NULL} :
          Return(r, d) => get' \in Get /\ get'.step = "idle" /\ answer' \in Answers
    BY <2>0 DEF Return, Get, Answers
  <2>2. \A x \in Entry : 
          /\ [cache EXCEPT ![get.file] = x] \in [Files -> Entry \cup {Unused}]
          /\ [cache EXCEPT ![get.file] = x][get.file] = x
    BY <2>0
  <2>3. get.step # "idle" => e \in Entry /\ e # Unused
    BY <2>0
  <2>4. CASE ServeUnexpired
    BY <2>1, <2>3, <2>4 DEF ServeUnexpired, entry, Entry
  <2>5. CASE BeginRefresh
    <3>1. [e EXCEPT !.expiration_time = now + Period] \in Entry
      BY <2>3, <2>5 DEF BeginRefresh, Entry
    <3>2. cache' = [cache EXCEPT ![get.file] = [e EXCEPT !.expiration_time = now + Period]]
      BY <2>5 DEF BeginRefresh
    <3>3. get' \in Get /\ get'.file = get.file
      BY <2>5 DEF BeginRefresh, Get
    <3>5. cache' \in [Files -> Entry \cup {Unused}] /\ cache'[get'.file] \in Entry
      BY <2>2, <3>1, <3>2, <3>3
    <3>6. UNCHANGED <<now, disk, answer, left>>
      BY <2>5 DEF BeginRefresh
    <3> QED BY NotValues, <3>3, <3>5, <3>6
  <2>6. CASE StatFails \/ OpenFails
    <3>1. get.step # "idle" /\ empty_data
      BY <2>6 DEF StatFails, OpenFails
    <3>2. [e EXCEPT !.data = NULL] \in Entry
      BY <2>3, <3>1 DEF Entry
    <3>3. cache' = [cache EXCEPT ![get.file] = [e EXCEPT !.data = NULL]]
      BY <3>1 DEF empty_data
    <3>4. get' \in Get /\ get'.step = "idle" /\ answer' \in Answers
      BY <2>1, <3>1 DEF empty_data
    <3> QED BY <2>2, <2>6, <3>2, <3>3, <3>4 DEF StatFails, OpenFails
  <2>7. CASE StatUnmodified
    BY <2>1, <2>3, <2>7 DEF StatUnmodified, entry, Entry
  <2>8. CASE StatModified
    <3> DEFINE m == disk[get.file].mtime
    <3>1. [e EXCEPT !.last_modified = m] \in Entry
      BY <2>0, <2>3, <2>8 DEF StatModified, Entry, File
    <3>2. cache' = [cache EXCEPT ![get.file] = [e EXCEPT !.last_modified = m]]
      BY <2>8 DEF StatModified
    <3>3. Size[disk[get.file].content] \in Nat
      BY <2>0, <2>8 DEF StatModified, File
    <3>4. get' \in Get /\ get'.file = get.file
      BY <2>8, <3>3 DEF StatModified, Get
    <3>5. cache' \in [Files -> Entry \cup {Unused}] /\ cache'[get'.file] \in Entry
      BY <2>2, <3>1, <3>2, <3>4
    <3>6. UNCHANGED <<now, disk, answer, left>>
      BY <2>8 DEF StatModified
    <3> QED BY NotValues, <3>4, <3>5, <3>6
  <2>9. CASE ReadFile
    <3> DEFINE c == disk[get.file].content
               copy == [of |-> c, len |-> Smaller(get.size, Size[c])]
    <3>1. copy \in Copy
      BY <2>0, <2>9 DEF ReadFile, File, Get, Copy, Smaller
    <3>2. [e EXCEPT !.data = copy] \in Entry
      BY <2>3, <2>9, <3>1 DEF ReadFile, Entry
    <3>3. cache' = [cache EXCEPT ![get.file] = [e EXCEPT !.data = copy]]
      BY <2>9 DEF ReadFile
    <3>4. get' \in Get /\ get'.step = "idle" /\ answer' \in Answers
      BY <2>1, <2>9, <3>1 DEF ReadFile
    <3> QED BY <2>2, <2>9, <3>2, <3>3, <3>4 DEF ReadFile
  <2> QED BY <1>2, <2>4, <2>5, <2>6, <2>7, <2>8, <2>9 DEF refresh_if_expired
<1>3. ASSUME NEW f \in Files, get_cached_object(f) PROVE InUse'
  <2>1. NewEntry \in Entry
    BY DEF NewEntry, Entry
  <2>2. cache' \in [Files -> Entry \cup {Unused}] /\ cache'[f] # Unused
    BY NotValues, <1>3, <2>1 DEF get_cached_object
  <2>3. get' \in Get /\ get'.file = f
    BY <1>3 DEF get_cached_object, Get
  <2> QED BY <1>3, <2>2, <2>3 DEF get_cached_object
<1>4. ASSUME NEW f \in Files, NEW c \in Contents \cup {Absent}, SetContent(f, c)
      PROVE  /\ left' \in [Files -> [Contents \cup {Absent} -> Int]]
             /\ UNCHANGED <<now, cache, get, answer>>
  <2>1. left' = left \/ left' = [left EXCEPT ![f] = [left[f] EXCEPT ![disk[f].content] = now]]
    BY <1>4 DEF SetContent
  <2>2. \A S, x : \A g \in [S -> Int], t \in Int : [g EXCEPT ![x] = t] \in [S -> Int]
    OBVIOUS
  <2>3. \A g \in [Contents \cup {Absent} -> Int] :
          [left EXCEPT ![f] = g] \in [Files -> [Contents \cup {Absent} -> Int]]
    OBVIOUS
  <2>4. [left[f] EXCEPT ![disk[f].content] = now] \in [Contents \cup {Absent} -> Int]
    <3>1. now \in Int
      OBVIOUS
    <3>2. left[f] \in [Contents \cup {Absent} -> Int]
      OBVIOUS
    <3> QED BY <2>2, <3>1, <3>2
  <2>5. UNCHANGED <<now, cache, get, answer>>
    BY <1>4 DEF SetContent
  <2> QED BY <2>1, <2>3, <2>4, <2>5
<1>5. ASSUME NEW f \in Files, RemoveFile(f) PROVE InUse'
  <2>1. disk' \in [Files -> File]
    BY <1>5 DEF RemoveFile, File
  <2> QED BY <1>4, <1>5, <2>1 DEF RemoveFile
<1>6. ASSUME NEW f \in Files, NEW c \in Contents, NEW m \in FirstStamp .. now, NEW r \in BOOLEAN,
             ChangeFile(f, c, m, r)
      PROVE  InUse'
  <2>1. [content |-> c, readable |-> r, mtime |-> m] \in File
    BY DEF File
  <2>2. disk' = [disk EXCEPT ![f] = [content |-> c, readable |-> r, mtime |-> m]]
    BY <1>6 DEF ChangeFile
  <2>3. disk' \in [Files -> File]
    BY <2>1, <2>2
  <2> QED BY <1>4, <1>6, <2>3 DEF ChangeFile
<1>7. CASE UNCHANGED vars
  BY <1>7 DEF vars
<1>8. CASE Restart
  BY <1>8 DEF Restart, Get
<1> HIDE DEF InUse, TypeOK
<1> QED BY <1>1, <1>2, <1>3, <1>5, <1>6, <1>7, <1>8 DEF Next, ChangeDisk

\* Every state of the cache has its type: in particular no step of a get()
\* uses an entry that was not created (file_cache.cpp 71-90).
THEOREM TypeCorrect == Spec => []TypeOK
<1>1. InUse => TypeOK
  BY DEF InUse
<1> QED BY <1>1, InitInUse, NextInUse, PTL DEF Spec

-----------------------------------------------------------------------------
LEMMA InitCacheInv == Init => CacheInv
<1> SUFFICES ASSUME Init PROVE CacheInv
  OBVIOUS
<1>1. TypeOK
  BY InitInUse DEF InUse
<1>2. GetInv
  BY DEF Init, GetInv
<1>3. ASSUME NEW f \in Files PROVE FileInv(f)
  <2>1. disk[f].content # Absent => disk[f].mtime = FirstStamp
    BY DEF Init
  <2> QED BY <2>1, CacheAssumption DEF Init, FileInv
<1>4. (StampsHaveData => FoundHasData) /\ BoundedStaleness
  BY DEF Init, FoundHasData, BoundedStaleness
<1> QED BY <1>1, <1>2, <1>3, <1>4 DEF CacheInv

\* A step of a get() leaves the other files alone.
LEMMA OtherFiles ==
    ASSUME NEW f \in Files, FileInv(f), f # get.file, get'.file = get.file,
           cache'[f] = cache[f], UNCHANGED <<now, disk, left>>
    PROVE  FileInv(f)'
BY DEF FileInv, EntryInv, Loading, Refreshing, OnDiskWithin

\* The steps of a get() keep the invariant.
LEMMA GetStepCacheInv == CacheInv /\ refresh_if_expired => CacheInv'
<1> SUFFICES ASSUME CacheInv, refresh_if_expired PROVE CacheInv'
  OBVIOUS
<1> DEFINE g == get.file
           e == cache[g]
<1>1. InUse
  BY DEF CacheInv, GetInv, InUse
<1>2. InUse'
  BY <1>1, NextInUse DEF Next
<1>3. g \in Files /\ disk[g] \in File /\ now \in Nat /\ Period \in Nat \ {0}
      /\ get.asked \in Nat /\ left[g] \in [Contents \cup {Absent} -> Int]
  BY <1>1, CacheAssumption DEF InUse, TypeOK, Get
<1>4. get.step # "idle"
  BY DEF refresh_if_expired, ServeUnexpired, BeginRefresh, StatFails,
         StatUnmodified, StatModified, OpenFails, ReadFile
<1>5. e \in Entry /\ e # Unused /\ FileInv(g) /\ EntryInv(g) /\ get.asked <= now
      /\ answer = NoAnswer
  BY <1>1, <1>3, <1>4 DEF InUse, TypeOK, CacheInv, GetInv, FileInv
<1>6. get'.file = g /\ get'.asked = get.asked /\ UNCHANGED <<now, disk, left>>
      /\ \A f \in Files \ {g} : cache'[f] = cache[f]
  <2>1. get' = [get EXCEPT !.step = "idle"] \/ get' = [get EXCEPT !.step = "stat"]
        \/ \E s : get' = [get EXCEPT !.step = "read", !.size = s]
    BY DEF refresh_if_expired, ServeUnexpired, BeginRefresh, StatFails,
           StatUnmodified, StatModified, OpenFails, ReadFile, empty_data, Return
  <2>2. get'.file = g /\ get'.asked = get.asked
    BY <1>1, <2>1 DEF InUse, TypeOK, Get
  <2>3. UNCHANGED <<now, disk, left>>
    BY DEF refresh_if_expired, ServeUnexpired, BeginRefresh, StatFails,
           StatUnmodified, StatModified, OpenFails, ReadFile
  <2>4. cache' = cache \/ \E x : cache' = [cache EXCEPT ![g] = x]
    BY DEF refresh_if_expired, ServeUnexpired, BeginRefresh, StatFails,
           StatUnmodified, StatModified, OpenFails, ReadFile, empty_data
  <2> QED BY <1>1, <2>2, <2>3, <2>4 DEF InUse, TypeOK
<1>7. SUFFICES FileInv(g)' /\ (get.step # "idle" => answer = NoAnswer)'
               /\ (StampsHaveData => FoundHasData') /\ BoundedStaleness'
  <2>1. ASSUME NEW f \in Files, f # g PROVE FileInv(f)'
    BY <1>6, <2>1, OtherFiles DEF CacheInv
  <2> QED BY <1>2, <1>5, <1>6, <1>7, <2>1 DEF CacheInv, InUse, GetInv
\* The answer of a get() that returns.
<1>8. ASSUME NEW r \in BOOLEAN, NEW d, Return(r, d), StampsHaveData /\ r => d # NULL,
             d # NULL => OnDiskWithin(g, d.of, get.asked)
      PROVE  /\ (StampsHaveData => FoundHasData') /\ BoundedStaleness'
             /\ get'.step = "idle" /\ answer' = [file |-> g, found |-> r, data |-> d]
  <2>1. answer' = [file |-> g, found |-> r, data |-> d] /\ get'.step = "idle"
    BY <1>1, <1>8 DEF Return, InUse, TypeOK, Get
  <2>2. StampsHaveData => FoundHasData'
    BY <1>8, <2>1 DEF FoundHasData
  <2>3. BoundedStaleness'
    BY <1>6, <1>8, <2>1 DEF BoundedStaleness, OnDiskWithin
  <2> QED BY <2>1, <2>2, <2>3
<1>9. CASE ServeUnexpired
  <2>1. Return(TRUE, e.data) /\ cache' = cache /\ now < e.expiration_time /\ e.data # NULL
        /\ get.step = "refresh"
    BY <1>9 DEF ServeUnexpired, entry, data_size
  <2>2. OnDiskWithin(g, e.data.of, get.asked)
    <3>1. e.data \in Copy /\ left[g][e.data.of] \in Int
      BY <1>3, <1>5, <2>1 DEF Entry, Copy
    <3>2. OnDiskWithin(g, e.data.of, e.expiration_time - 1)
      BY <1>5, <2>1 DEF EntryInv, Refreshing
    <3> QED BY <1>3, <1>5, <2>1, <3>1, <3>2 DEF OnDiskWithin, Entry
  <2>3. FileInv(g)'
    BY <1>3, <1>5, <1>6, <1>8, <2>1, <2>2
       DEF FileInv, EntryInv, Loading, Refreshing, OnDiskWithin
  <2> QED BY <1>8, <2>1, <2>2, <2>3
<1>10. CASE BeginRefresh
  <2>1. cache'[g] = [e EXCEPT !.expiration_time = now + Period] /\ get'.step = "stat"
        /\ get.step = "refresh" /\ answer' = answer
    BY <1>1, <1>3, <1>10 DEF BeginRefresh, InUse, TypeOK, Get
  <2>2. FileInv(g)'
    BY <1>3, <1>5, <1>6, <2>1 DEF FileInv, EntryInv, Loading, Refreshing, Entry
  <2> QED BY <1>5, <2>1, <2>2 DEF FoundHasData, BoundedStaleness
<1>11. CASE StatFails \/ OpenFails
  <2>1. /\ disk[g].content = Absent \/ ~StampsHaveData
        /\ Return(FALSE, NULL)
        /\ cache'[g] = [e EXCEPT !.data = NULL]
    BY <1>1, <1>3, <1>5, <1>11
       DEF StatFails, OpenFails, empty_data, FileInv, InUse, TypeOK, StampsHaveData
  <2>3. get'.step = "idle"
    BY <1>8, <2>1
  <2>2. FileInv(g)'
    BY <1>3, <1>5, <1>6, <2>1, <2>3 DEF FileInv, EntryInv, Entry, Loading
  <2> QED BY <1>8, <2>1, <2>2
<1>12. CASE StatUnmodified
  <2>1. Return(TRUE, e.data) /\ cache' = cache /\ get.step = "stat"
        /\ disk[g].content # Absent /\ disk[g].mtime = e.last_modified
    BY <1>12 DEF StatUnmodified, entry
  <2>2. e.data = Whole(disk[g].content) \/ (e.data = NULL /\ ~StampsHaveData)
    BY <1>5, <2>1 DEF EntryInv, Loading
  <2>3. /\ StampsHaveData => e.data # NULL
        /\ e.data # NULL => OnDiskWithin(g, e.data.of, get.asked)
    BY <1>3, <2>1, <2>2, NotValues, CacheAssumption DEF Whole, Copy, File, OnDiskWithin
  <2>4. (StampsHaveData => FoundHasData') /\ BoundedStaleness' /\ get'.step = "idle"
        /\ answer' = [file |-> g, found |-> TRUE, data |-> e.data]
    BY <1>8, <2>1, <2>3
  <2>5. e.data # NULL => e.data.of = disk[g].content
    BY <2>2 DEF Whole
  <2>6. FileInv(g)'
    BY <1>3, <1>5, <1>6, <2>1, <2>2, <2>4, <2>5
       DEF FileInv, EntryInv, Loading, Refreshing, OnDiskWithin
  <2> QED BY <2>4, <2>6
<1>13. CASE StatModified
  <2>1. cache'[g] = [e EXCEPT !.last_modified = disk[g].mtime] /\ answer' = answer
        /\ get'.step = "read" /\ get'.size = Size[disk[g].content]
    BY <1>1, <1>3, <1>13 DEF StatModified, InUse, TypeOK, Get
  <2>2. FileInv(g)'
    BY <1>3, <1>5, <1>6, <2>1 DEF FileInv, EntryInv, Loading, Refreshing, Entry, File
  <2> QED BY <1>5, <2>1, <2>2 DEF FoundHasData, BoundedStaleness
<1>14. CASE ReadFile
  <2> DEFINE c == disk[g].content
             copy == [of |-> c, len |-> Smaller(get.size, Size[c])]
  <2>1. Return(TRUE, copy) /\ c # Absent /\ get.step = "read"
        /\ cache'[g] = [e EXCEPT !.data = copy]
    BY <1>1, <1>3, <1>14 DEF ReadFile, InUse, TypeOK
  <2>2. copy # NULL /\ OnDiskWithin(g, copy.of, get.asked)
    <3>1. copy \in Copy
      BY <1>1, <1>3, <2>1, CacheAssumption DEF InUse, TypeOK, Get, File, Copy, Smaller
    <3> QED BY <3>1, NotValues DEF OnDiskWithin
  <2>3. e.last_modified = disk[g].mtime => copy = Whole(c)
    BY <1>3, <1>5, <2>1, CacheAssumption DEF EntryInv, Loading, Whole, Smaller, File
  <2>4. (StampsHaveData => FoundHasData') /\ BoundedStaleness' /\ get'.step = "idle"
        /\ answer' = [file |-> g, found |-> TRUE, data |-> copy]
    BY <1>8, <2>1, <2>2
  <2>5. cache'[g].data = copy /\ cache'[g].last_modified = e.last_modified
        /\ cache'[g].expiration_time = e.expiration_time /\ copy.of = c
    BY <1>5, <2>1 DEF Entry
  <2>6. FileInv(g)'
    BY <1>3, <1>5, <1>6, <2>1, <2>3, <2>4, <2>5
       DEF FileInv, EntryInv, Loading, Refreshing, OnDiskWithin
  <2> QED BY <2>4, <2>6
<1> QED
  BY <1>9, <1>10, <1>11, <1>12, <1>13, <1>14 DEF refresh_if_expired

\* A change of the file f to other contents c leaves every copy within its
\* bound: what is replaced was on disk until now.
LEMMA SetContentOnDisk ==
    ASSUME InUse, NEW f \in Files, NEW c \in Contents \cup {Absent}, SetContent(f, c),
           disk'[f].content = c, \A h \in Files \ {f} : disk'[h] = disk[h],
           NEW g \in Files, NEW d \in Contents, NEW t \in Int, t < now + Period,
           OnDiskWithin(g, d, t)
    PROVE  disk'[g].content = d \/ t < left'[g][d] + Period
<1>1. left' = (IF c = disk[f].content THEN left ELSE [left EXCEPT ![f][disk[f].content] = now])
      /\ now \in Nat /\ Period \in Nat \ {0}
      /\ left \in [Files -> [Contents \cup {Absent} -> Int]]
  BY CacheAssumption DEF SetContent, InUse, TypeOK
<1>2. d # Absent /\ d \in Contents \cup {Absent}
  BY CacheAssumption
<1>3. CASE g = f /\ disk[f].content = d /\ c # d
  <2>1. left'[g][d] = now
    BY <1>1, <1>2, <1>3
  <2> QED BY <2>1
<1>4. CASE ~(g = f /\ disk[f].content = d /\ c # d)
  <2>1. left'[g][d] = left[g][d]
    BY <1>1, <1>2, <1>4
  <2>2. disk[g].content = d => disk'[g].content = d
    BY <1>4
  <2> QED BY <2>1, <2>2 DEF OnDiskWithin
<1> QED BY <1>3, <1>4

\* Changing a file keeps the invariant: if its stamp or its contents change,
\* no entry remembers the new stamp.
LEMMA ChangeCacheInv ==
    ASSUME CacheInv, InUse', NEW f \in Files, NEW c \in Contents \cup {Absent}, SetContent(f, c),
           disk'[f].content = c, disk'[f].mtime \in Nat,
           SteadyPermissions => disk'[f].readable, disk'[f].content # Absent => disk'[f].mtime >= FirstStamp,
           disk'[f].mtime >= disk[f].mtime,
           \/ c = Absent
           \/ c = disk[f].content /\ disk'[f].mtime = disk[f].mtime
           \/ disk'[f].mtime > disk[f].mtime,
           \A h \in Files \ {f} : disk'[h] = disk[h]
    PROVE  CacheInv'
<1>1. InUse /\ UNCHANGED <<now, cache, get, answer>>
  BY DEF CacheInv, GetInv, InUse, SetContent
<1>2. now \in Nat /\ Period \in Nat \ {0} /\ get.asked \in Nat
  BY <1>1, CacheAssumption DEF InUse, TypeOK, Get
<1>3. StampsHaveData => FoundHasData'
  BY <1>1 DEF CacheInv, FoundHasData
<1>4. BoundedStaleness'
  <2>1. SUFFICES ASSUME answer # NoAnswer, answer.data # NULL
                 PROVE  disk'[answer.file].content = answer.data.of
                        \/ get.asked < left'[answer.file][answer.data.of] + Period
    BY <1>1 DEF BoundedStaleness, OnDiskWithin
  <2>2. answer.file \in Files /\ answer.data.of \in Contents
    BY <1>1, <2>1 DEF InUse, TypeOK, Answers, Copy
  <2>3. OnDiskWithin(answer.file, answer.data.of, get.asked) /\ get.asked < now + Period
    BY <1>2, <2>1 DEF CacheInv, BoundedStaleness, GetInv
  <2> QED BY <1>1, <1>2, <2>2, <2>3, SetContentOnDisk
<1>5. ASSUME NEW g \in Files PROVE FileInv(g)'
  <2>1. FileInv(g) /\ disk[g] \in File /\ disk[f] \in File
    BY <1>1 DEF CacheInv, InUse, TypeOK
  <2>2. /\ disk'[g].content # Absent => disk'[g].mtime >= FirstStamp
        /\ SteadyPermissions => disk'[g].readable
    BY <2>1 DEF FileInv, File
  <2>3. ASSUME cache[g] # Unused PROVE EntryInv(g)'
    <3>1. EntryInv(g) /\ cache[g] \in Entry
      BY <1>1, <2>1, <2>3 DEF FileInv, InUse, TypeOK
    <3>2. cache[g].data # NULL /\ ~Refreshing(g) =>
            disk'[g].content = cache[g].data.of
            \/ cache[g].expiration_time - 1 < left'[g][cache[g].data.of] + Period
      <4>1. SUFFICES ASSUME cache[g].data # NULL, ~Refreshing(g)
                     PROVE  disk'[g].content = cache[g].data.of
                            \/ cache[g].expiration_time - 1 < left'[g][cache[g].data.of] + Period
        OBVIOUS
      <4>2. cache[g].data.of \in Contents /\ cache[g].expiration_time - 1 \in Int
            /\ cache[g].expiration_time - 1 < now + Period
            /\ OnDiskWithin(g, cache[g].data.of, cache[g].expiration_time - 1)
        BY <1>2, <3>1, <4>1 DEF EntryInv, Entry, Copy
      <4> QED BY <1>1, <4>2, SetContentOnDisk
    <3>3. disk'[g].mtime >= cache[g].last_modified
          /\ (disk'[g].content # Absent /\ disk'[g].mtime = cache[g].last_modified
                => disk'[g].content = disk[g].content /\ disk'[g].mtime = disk[g].mtime)
      BY <2>1, <3>1 DEF EntryInv, Entry, File
    <3> QED BY <1>1, <3>1, <3>2, <3>3 DEF EntryInv, Loading, Refreshing, OnDiskWithin
  <2> QED BY <1>1, <2>2, <2>3 DEF FileInv
<1> QED BY <1>1, <1>3, <1>4, <1>5 DEF CacheInv, GetInv, InUse

LEMMA NextCacheInv ==
    ASSUME DistinctStamps
    PROVE  CacheInv /\ [Next]_vars => CacheInv'
<1> SUFFICES ASSUME CacheInv, [Next]_vars PROVE CacheInv'
  OBVIOUS
<1>1. InUse /\ InUse'
  BY NextInUse DEF CacheInv, GetInv, InUse
<1>2. TypeOK /\ now \in Nat /\ get \in Get /\ Period \in Nat \ {0}
  BY <1>1, CacheAssumption DEF InUse, TypeOK
<1>3. CASE Tick
  <2>1. now' = now + 1 /\ UNCHANGED <<disk, cache, get, answer, left>>
    BY <1>3 DEF Tick
  <2>2. ASSUME NEW f \in Files PROVE FileInv(f)'
    <3>1. FileInv(f) /\ (cache[f] # Unused => cache[f] \in Entry)
      BY <1>2 DEF CacheInv, TypeOK
    <3> QED BY <1>2, <2>1, <3>1
            DEF FileInv, EntryInv, Loading, Refreshing, OnDiskWithin, Entry
  <2>3. GetInv' /\ (StampsHaveData => FoundHasData') /\ BoundedStaleness'
    BY <1>2, <2>1
       DEF CacheInv, GetInv, FoundHasData, BoundedStaleness, OnDiskWithin, Get
  <2> QED BY <1>1, <2>2, <2>3 DEF CacheInv, InUse
<1>4. ASSUME NEW f \in Files, get_cached_object(f) PROVE CacheInv'
  <2>1. get' = [step |-> "refresh", file |-> f, asked |-> now, size |-> 0]
        /\ answer' = NoAnswer /\ UNCHANGED <<now, disk, left>> /\ get.step = "idle"
        /\ cache' = [cache EXCEPT ![f] = IF @ = Unused THEN NewEntry ELSE @]
    BY <1>4 DEF get_cached_object
  <2>2. ASSUME NEW g \in Files PROVE FileInv(g)'
    <3>1. FileInv(g) /\ disk[g] \in File
      BY <1>2 DEF CacheInv, TypeOK
    <3>2. CASE cache[g] # Unused
      <4>1. cache'[g] = cache[g]
        BY <1>2, <2>1, <3>2 DEF TypeOK
      <4> QED BY <2>1, <3>1, <3>2, <4>1
              DEF FileInv, EntryInv, Loading, Refreshing, OnDiskWithin
    <3>3. CASE cache[g] = Unused
      <4>1. cache'[g] \in {Unused, NewEntry}
        BY <1>2, <2>1, <3>3 DEF TypeOK
      <4> QED BY <1>2, <2>1, <3>1, <4>1, CacheAssumption
              DEF FileInv, EntryInv, NewEntry, File, Loading, StampsHaveData
    <3> QED BY <3>2, <3>3
  <2>3. GetInv' /\ (StampsHaveData => FoundHasData') /\ BoundedStaleness'
    <3>1. cache'[f] # Unused
      BY <1>1, <2>1 DEF InUse
    <3> QED BY <1>2, <2>1, <3>1 DEF GetInv, FoundHasData, BoundedStaleness
  <2> QED BY <1>1, <2>2, <2>3 DEF CacheInv, InUse
<1>5. ASSUME NEW f \in Files, RemoveFile(f) PROVE CacheInv'
  <2>1. /\ disk'[f].content = Absent /\ disk'[f].readable = disk[f].readable
        /\ disk'[f].mtime = disk[f].mtime /\ disk[f].mtime \in Nat
        /\ SteadyPermissions => disk[f].readable
        /\ \A h \in Files \ {f} : disk'[h] = disk[h]
    BY <1>2, <1>5 DEF RemoveFile, TypeOK, File, CacheInv, FileInv
  <2>2. SetContent(f, Absent)
    BY <1>5 DEF RemoveFile
  <2>3. SteadyPermissions => disk'[f].readable
    BY <2>1, Zenon
  <2>4. /\ disk'[f].mtime \in Nat /\ disk'[f].mtime >= disk[f].mtime
        /\ disk'[f].content # Absent => disk'[f].mtime >= FirstStamp
    BY <2>1
  <2> QED BY <1>1, <2>1, <2>2, <2>3, <2>4, ChangeCacheInv
<1>6. ASSUME NEW f \in Files, NEW c \in Contents, NEW m \in FirstStamp .. now, NEW r \in BOOLEAN,
             ChangeFile(f, c, m, r)
      PROVE  CacheInv'
  <2>0. disk' = [disk EXCEPT ![f] = [content |-> c, readable |-> r, mtime |-> m]]
    BY <1>6 DEF ChangeFile
  <2>4. SteadyPermissions => r
    BY <1>6 DEF ChangeFile
  <2>5. \/ c = disk[f].content /\ m = disk[f].mtime
        \/ m = now /\ m > disk[f].mtime
    BY <1>6 DEF ChangeFile
  <2>1. disk'[f] = [content |-> c, readable |-> r, mtime |-> m]
        /\ \A h \in Files \ {f} : disk'[h] = disk[h]
    <3>1. disk \in [Files -> File]
      BY <1>2 DEF TypeOK
    <3> QED BY <2>0, <3>1, Zenon
  <2>2. SetContent(f, c) /\ m \in Nat /\ m >= FirstStamp /\ disk[f].mtime \in Nat
    BY <1>2, <1>6, CacheAssumption DEF ChangeFile, TypeOK, File
  <2>3. /\ SteadyPermissions => disk'[f].readable
        /\ disk'[f].mtime \in Nat /\ disk'[f].mtime >= disk[f].mtime
        /\ disk'[f].content = c /\ disk'[f].mtime >= FirstStamp
        /\ (disk'[f].mtime > disk[f].mtime
            \/ (c = disk[f].content /\ disk'[f].mtime = disk[f].mtime))
    <3>1. disk'[f].mtime = m /\ disk'[f].content = c
      BY <2>1
    <3>2. SteadyPermissions => disk'[f].readable
      BY <2>1, <2>4
    <3>3. disk'[f].mtime >= FirstStamp /\ disk'[f].mtime \in Nat /\ disk'[f].mtime >= disk[f].mtime
      BY <2>2, <2>5, <3>1
    <3>4. \/ disk'[f].mtime > disk[f].mtime
          \/ c = disk[f].content /\ disk'[f].mtime = disk[f].mtime
      BY <2>5, <3>1
    <3> QED BY <3>1, <3>2, <3>3, <3>4
  <2> QED BY <1>1, <2>1, <2>2, <2>3, ChangeCacheInv
<1>7. CASE UNCHANGED vars
  BY <1>7 DEF vars, CacheInv, TypeOK, GetInv, FileInv, EntryInv, Loading, Refreshing,
              OnDiskWithin, FoundHasData, BoundedStaleness
<1>8. CASE Restart
  <2>1. cache' = [f \in Files |-> Unused] /\ answer' = NoAnswer /\ UNCHANGED <<now, disk, left>>
        /\ get'.step = "idle" /\ get'.asked = get.asked
    BY <1>2, <1>8 DEF Restart, Get
  <2>2. ASSUME NEW f \in Files PROVE FileInv(f)'
    BY <2>1 DEF CacheInv, FileInv
  <2>3. GetInv' /\ (StampsHaveData => FoundHasData') /\ BoundedStaleness'
    BY <2>1 DEF CacheInv, GetInv, FoundHasData, BoundedStaleness
  <2> QED BY <1>1, <2>2, <2>3 DEF CacheInv, InUse
<1> QED BY <1>3, <1>4, <1>5, <1>6, <1>7, <1>8, GetStepCacheInv DEF Next, ChangeDisk

THEOREM CacheInvariant ==
    ASSUME DistinctStamps
    PROVE  Spec => []CacheInv
BY InitCacheInv, NextCacheInv, PTL DEF Spec

\* With distinct stamps and steady permissions, and without files of the epoch,
\* get() never returns true with a null data pointer (file_cache.h 148-155).
THEOREM FoundNeverNull ==
    ASSUME DistinctStamps, StampsHaveData
    PROVE  Spec => []FoundHasData
<1>1. CacheInv => FoundHasData
  BY DEF CacheInv
<1> QED BY <1>1, CacheInvariant, PTL

\* With distinct stamps alone get() returns nothing that has been off the disk
\* for an expiration period (file_cache.h 80), whatever cannot be opened.
THEOREM StalenessIsBounded ==
    ASSUME DistinctStamps
    PROVE  Spec => []BoundedStaleness
<1>1. CacheInv => BoundedStaleness
  BY DEF CacheInv
<1> QED BY <1>1, CacheInvariant, PTL

\* With distinct stamps and steady permissions, and without files of the epoch,
\* an equal modification time means equal contents (file_cache.cpp 149), torn
\* copies included.
THEOREM UnmodifiedMeansCurrent ==
    ASSUME DistinctStamps, StampsHaveData
    PROVE  Spec => []UnmodifiedIsCurrent
<1>1. CacheInv => UnmodifiedIsCurrent
  BY DEF CacheInv, FileInv, EntryInv, UnmodifiedIsCurrent
<1> QED BY <1>1, CacheInvariant, PTL

-----------------------------------------------------------------------------
(* FileCache implements FreshStore.                                        *)

asking == IF get.step = "idle" THEN NoAnswer ELSE [file |-> get.file, asked |-> get.asked]
telling == IF answer = NoAnswer THEN NoAnswer
           ELSE [file |-> answer.file, shown |-> Shown(answer)]
onDisk == [f \in Files |-> disk[f].content]

LEMMA InitPromise == Init => Promise!Init
<1> SUFFICES ASSUME Init PROVE Promise!Init
  OBVIOUS
<1>1. now = 1 /\ get.step = "idle" /\ answer = NoAnswer
      /\ left = [f \in Files |-> [c \in Contents \cup {Absent} |-> 0 - Period]]
  BY DEF Init
<1>2. onDisk \in [Files -> Contents \cup {Absent}]
  <2>1. TypeOK
    BY InitInUse DEF InUse
  <2> QED BY <2>1 DEF onDisk, TypeOK, File
<1> QED BY <1>1, <1>2 DEF Promise!Init, onDisk

\* A get() that returns answers the pending question.
LEMMA ReturnAnswers ==
    ASSUME CacheInv, get.step # "idle",
           NEW r \in BOOLEAN, NEW d \in Copy \cup {NULL}, Return(r, d),
           UNCHANGED <<now, disk, left>>,
           NEW c \in Contents \cup {Absent},
           c = IF r THEN IF d = NULL THEN NULL ELSE d.of ELSE Absent,
           \/ c = disk[get.file].content
           \/ c # Absent /\ get.asked < left[get.file][c] + Period
    PROVE  Promise!Answer(c)
<1>1. get \in Get /\ get.file \in Files /\ get.asked \in Nat
  BY DEF CacheInv, TypeOK, Get
<1>2. get'.step = "idle" /\ answer' = [file |-> get.file, found |-> r, data |-> d]
  BY <1>1 DEF Return, Get
<1>3. answer' # NoAnswer
  BY <1>1, <1>2, NotValues DEF Answers
<1>4. asking = [file |-> get.file, asked |-> get.asked] /\ asking # NoAnswer
  BY <1>1, NotValues DEF asking, Questions
<1>5. asking' = NoAnswer /\ telling' = [file |-> get.file, shown |-> c]
  BY <1>2, <1>3 DEF asking, telling, Shown
<1>6. UNCHANGED <<now, onDisk, left>> /\ onDisk[get.file] = disk[get.file].content
  BY <1>1 DEF onDisk
<1> QED BY <1>4, <1>5, <1>6 DEF Promise!Answer, Promise!Acceptable, asking, telling, onDisk

\* Every step of the cache is a step of FreshStore or changes nothing there.
LEMMA NextPromise ==
    ASSUME DistinctStamps, StampsHaveData
    PROVE  CacheInv /\ [Next]_vars => [Promise!Next]_(Promise!vars)
<1> SUFFICES ASSUME CacheInv, [Next]_vars PROVE [Promise!Next]_(Promise!vars)
  OBVIOUS
<1> DEFINE g == get.file
           e == cache[g]
<1>1. TypeOK /\ get \in Get /\ g \in Files /\ get.asked \in Nat /\ disk[g] \in File
      /\ now \in Nat /\ Period \in Nat \ {0}
  BY CacheAssumption DEF CacheInv, TypeOK, Get
<1>2. get.step # "idle" => e \in Entry /\ EntryInv(g) /\ answer = NoAnswer
  BY <1>1 DEF CacheInv, GetInv, FileInv, TypeOK
<1>3. CASE Tick
  BY <1>3 DEF Tick, Promise!Next, Promise!Tick
<1>4. CASE ServeUnexpired
  <2>1. Return(TRUE, e.data) /\ get.step = "refresh" /\ now < e.expiration_time
        /\ e.data # NULL /\ UNCHANGED <<now, disk, left>>
    BY <1>4 DEF ServeUnexpired, entry, data_size
  <2>2. e.data \in Copy /\ e.data.of \in Contents /\ e.data.of # Absent
        /\ left[g][e.data.of] \in Int
    BY <1>1, <1>2, <2>1, CacheAssumption DEF Entry, Copy, TypeOK
  <2>3. e.data.of = disk[g].content \/ get.asked < left[g][e.data.of] + Period
    BY <1>1, <1>2, <2>1, <2>2
       DEF EntryInv, Refreshing, OnDiskWithin, Entry, CacheInv, GetInv
  <2>4. Promise!Answer(e.data.of)
    BY <2>1, <2>2, <2>3, ReturnAnswers
  <2> QED BY <2>2, <2>4 DEF Promise!Next
<1>5. CASE BeginRefresh \/ StatModified
  <2>1. UNCHANGED <<now, disk, answer, left>> /\ get.step # "idle" /\ get'.step # "idle"
        /\ get'.file = g /\ get'.asked = get.asked
    BY <1>1, <1>5 DEF BeginRefresh, StatModified, Get
  <2> QED BY <2>1 DEF Promise!vars
<1>6. CASE StatFails \/ OpenFails
  <2>1. disk[g].content = Absent /\ Return(FALSE, NULL) /\ get.step # "idle"
        /\ UNCHANGED <<now, disk, left>>
    BY <1>1, <1>6 DEF StatFails, OpenFails, empty_data, CacheInv, FileInv, StampsHaveData
  <2>2. Promise!Answer(Absent)
    BY <2>1, ReturnAnswers
  <2> QED BY <2>2 DEF Promise!Next
<1>7. CASE StatUnmodified
  <2>1. Return(TRUE, e.data) /\ get.step = "stat" /\ UNCHANGED <<now, disk, left>>
        /\ disk[g].content \in Contents /\ disk[g].mtime = e.last_modified
        /\ disk[g].content # Absent
    BY <1>1, <1>7 DEF StatUnmodified, entry, File
  <2>2. e.data = Whole(disk[g].content)
    BY <1>2, <2>1 DEF EntryInv, Loading
  <2>3. e.data \in Copy /\ e.data # NULL /\ e.data.of = disk[g].content
    BY <2>1, <2>2, NotValues, CacheAssumption DEF Whole, Copy
  <2>4. Promise!Answer(disk[g].content)
    BY <2>1, <2>3, ReturnAnswers
  <2> QED BY <2>1, <2>4 DEF Promise!Next
<1>8. CASE ReadFile
  <2> DEFINE c == disk[g].content
             copy == [of |-> c, len |-> Smaller(get.size, Size[c])]
  <2>1. Return(TRUE, copy) /\ get.step = "read" /\ UNCHANGED <<now, disk, left>>
        /\ c \in Contents
    BY <1>1, <1>8 DEF ReadFile, File
  <2>2. copy \in Copy /\ copy # NULL /\ copy.of = c
    BY <1>1, <2>1, NotValues, CacheAssumption DEF Copy, Smaller, Get
  <2>3. Promise!Answer(c)
    BY <2>1, <2>2, ReturnAnswers
  <2> QED BY <2>1, <2>3 DEF Promise!Next
<1>9. ASSUME NEW f \in Files, get_cached_object(f) PROVE Promise!Ask(f)
  <2>1. get' = [step |-> "refresh", file |-> f, asked |-> now, size |-> 0]
        /\ answer' = NoAnswer /\ UNCHANGED <<now, disk, left>> /\ get.step = "idle"
    BY <1>9 DEF get_cached_object
  <2> QED BY <2>1 DEF Promise!Ask
<1>10. ASSUME NEW f \in Files, NEW c \in Contents \cup {Absent}, SetContent(f, c),
              disk' \in [Files -> File], disk'[f].content = c,
              \A h \in Files \ {f} : disk'[h] = disk[h]
       PROVE  Promise!Change(f, c) \/ UNCHANGED Promise!vars
  <2>1. onDisk' = [onDisk EXCEPT ![f] = c] /\ onDisk[f] = disk[f].content
    BY <1>10 DEF onDisk
  <2>2. CASE c = disk[f].content
    <3>1. onDisk' = onDisk
      BY <2>1, <2>2 DEF onDisk
    <3> QED BY <1>10, <2>2, <3>1 DEF SetContent, Promise!vars, onDisk
  <2>3. CASE c # disk[f].content
    BY <1>10, <2>1, <2>3 DEF SetContent, Promise!Change, onDisk
  <2> QED BY <2>2, <2>3
<1>11. ASSUME NEW f \in Files, RemoveFile(f)
       PROVE  Promise!Change(f, Absent) \/ UNCHANGED Promise!vars
  <2>1. TypeOK'
    BY NextInUse DEF CacheInv, GetInv, InUse
  <2> QED BY <1>1, <1>10, <1>11, <2>1 DEF RemoveFile, TypeOK, File
<1>12. ASSUME NEW f \in Files, NEW c \in Contents, NEW m \in FirstStamp .. now, NEW r \in BOOLEAN,
              ChangeFile(f, c, m, r)
       PROVE  Promise!Change(f, c) \/ UNCHANGED Promise!vars
  <2>1. TypeOK'
    BY NextInUse DEF CacheInv, GetInv, InUse
  <2> QED BY <1>1, <1>10, <1>12, <2>1 DEF ChangeFile, TypeOK, File
<1>13. CASE UNCHANGED vars
  BY <1>13 DEF vars, Promise!vars
<1>14. CASE Restart
  <2>1. get'.step = "idle" /\ answer' = NoAnswer /\ UNCHANGED <<now, disk, left>>
    BY <1>1, <1>14 DEF Restart, Get
  <2> QED BY <2>1 DEF Promise!Next, Promise!Withdraw
<1> QED
  BY <1>3, <1>4, <1>5, <1>6, <1>7, <1>8, <1>9, <1>11, <1>12, <1>13, <1>14
     DEF Next, ChangeDisk, refresh_if_expired, Promise!Next

\* With distinct stamps and steady permissions, and without files of the epoch,
\* the cache implements FreshStore: whatever expires, is torn or disappears on the way, every
\* answer is one that FreshStore allows.
THEOREM CacheKeepsPromise ==
    ASSUME DistinctStamps, StampsHaveData
    PROVE  Spec => KeepsPromise
BY InitPromise, NextPromise, CacheInvariant, PTL DEF Spec, KeepsPromise, Promise!Spec
=============================================================================
