----------------------------- MODULE FileHandler -----------------------------
(***************************************************************************)
(* Static files: FileHandler::handle_request (file_handler.cpp), which     *)
(* answers from the file cache, and the browsers that ask for the files.   *)
(*                                                                         *)
(* A browser keeps what it got with the Last-Modified time of the answer,  *)
(* uses it without asking for the max-age of the Cache-Control header, and *)
(* sends the time back in If-Modified-Since afterwards.  The server then   *)
(* compares two numbers, one that came back through time_to_string(), a    *)
(* browser and string_to_time(), and one that the cache remembered before  *)
(* it read the file; and it may have been restarted in between.            *)
(*                                                                         *)
(* FileHandler gives the cache its own max-age as the expiration period    *)
(* (file_handler.cpp 77-82), so Period is both.                            *)
(***************************************************************************)
EXTENDS FileCache

CONSTANTS
    Browsers,
    Nobody,         \* no request is being served
    NoCopy,         \* the browser has no copy of the file
    Nothing,        \* no response is under way to the browser
    Shifts          \* what mktime() can add to a time that is in GMT

ASSUME HandlerAssumption ==
    /\ Nobody \notin Browsers
    /\ Shifts \subseteq Int

\* What a response tells of a file: its data and modification time, and when
\* the server was asked for it.
Version == [data : Copy \cup {NULL}, last_modified : Nat, asked : Nat]

Response == [status : {"OK", "NOTMODIFIED", "NOTFOUND"}, file : Files, version : Version]

ASSUME NoVersion == NoCopy \notin Version /\ Nothing \notin Response

VARIABLES
    serving,    \* the browser whose request is handled
    copies,     \* copies[b][f]: the copy of f in the cache of the browser b
    wire        \* wire[b]: the response under way to b

browserVars == <<serving, copies, wire>>
handlerVars == <<vars, browserVars>>

HandlerTypeOK ==
    /\ TypeOK
    /\ serving \in Browsers \cup {Nobody}
    /\ copies \in [Browsers -> [Files -> Version \cup {NoCopy}]]
    /\ wire \in [Browsers -> Response \cup {Nothing}]

-----------------------------------------------------------------------------
(* The server.                                                             *)

\* The max-age of the copy has not passed.
Fresh(b, f) == copies[b][f] # NoCopy /\ now < copies[b][f].asked + Period

\* A request of the browser b for f arrives, and f is looked up.
Ask(b, f) ==
    /\ serving = Nobody
    /\ wire[b] = Nothing
    /\ get_cached_object(f)
    /\ serving' = b
    /\ UNCHANGED <<copies, wire>>

\* string_to_time() of the If-Modified-Since header, 0 if there is none.
if_modified_since(b, shift) ==
    IF copies[b][get.file] = NoCopy THEN 0
                                    ELSE copies[b][get.file].last_modified + shift

has_loaded == answer.found

\* get_cached_object() has returned; the handler responds to b and ends.  For
\* a response without a body, data is what the server knows the file to hold.
send_response(b, status, data, last_modified) ==
    /\ serving = b
    /\ answer # NoAnswer
    /\ serving' = Nobody
    /\ wire' = [wire EXCEPT ![b] =
         [status |-> status, file |-> get.file,
          version |-> [data |-> data, last_modified |-> last_modified,
                       asked |-> get.asked]]]
    /\ UNCHANGED <<vars, copies>>

\* Mutant: a file that is not there has the time that marks an error.
MutantSendNotFound(b) ==
    /\ send_response(b, "NOTFOUND", NULL, 0 - 1)
    /\ ~has_loaded

SendNotFound(b) ==
    /\ send_response(b, "NOTFOUND", NULL, 0)
    /\ ~has_loaded

\* Mutant: one tick of difference is taken for rounding.
MutantSendNotModified(b) ==
    /\ send_response(b, "NOTMODIFIED", entry.data, entry.last_modified)
    /\ has_loaded
    /\ \E shift \in Shifts : if_modified_since(b, shift) + 1 >= entry.last_modified

\* The copy of the browser is not older than that of the server.
SendNotModified(b) ==
    /\ send_response(b, "NOTMODIFIED", entry.data, entry.last_modified)
    /\ has_loaded
    /\ \E shift \in Shifts : if_modified_since(b, shift) >= entry.last_modified

SendFile(b) ==
    /\ send_response(b, "OK", entry.data, entry.last_modified)
    /\ has_loaded
    /\ \E shift \in Shifts : if_modified_since(b, shift) < entry.last_modified

handle_request(b) == SendNotFound(b) \/ SendNotModified(b) \/ SendFile(b)

-----------------------------------------------------------------------------
(* The browsers and the network.                                           *)

\* What b has when the response under way has arrived: a new copy, its copy
\* confirmed for another max-age with the new Last-Modified, or none.
Received(b) ==
    LET r == wire[b]
        copy == copies[b][r.file]
    IN  CASE r.status = "OK" -> r.version
          [] r.status = "NOTMODIFIED" /\ copy # NoCopy -> [r.version EXCEPT !.data = copy.data]
          [] OTHER -> NoCopy

Receive(b) ==
    /\ wire[b] # Nothing
    /\ wire' = [wire EXCEPT ![b] = Nothing]
    /\ copies' = [copies EXCEPT ![b][wire[b].file] = Received(b)]
    /\ UNCHANGED <<vars, serving>>

\* The connection breaks before the response arrives.
Lose(b) ==
    /\ wire[b] # Nothing
    /\ wire' = [wire EXCEPT ![b] = Nothing]
    /\ UNCHANGED <<vars, serving, copies>>

\* The browser makes room in its cache.
Evict(b, f) ==
    /\ serving # b
    /\ wire[b] = Nothing
    /\ copies' = [copies EXCEPT ![b][f] = NoCopy]
    /\ UNCHANGED <<vars, serving, wire>>

-----------------------------------------------------------------------------
HandlerInit ==
    /\ Init
    /\ serving = Nobody
    /\ copies = [b \in Browsers |-> [f \in Files |-> NoCopy]]
    /\ wire = [b \in Browsers |-> Nothing]

\* The server ends: the request it was serving gets no answer.
RestartServer ==
    /\ Restart
    /\ serving' = Nobody
    /\ UNCHANGED <<copies, wire>>

HandlerNext ==
    \/ RestartServer
    \/ (Tick \/ ChangeDisk \/ refresh_if_expired) /\ UNCHANGED browserVars
    \/ \E b \in Browsers :
         \/ handle_request(b)
         \/ Receive(b)
         \/ Lose(b)
         \/ \E f \in Files : Ask(b, f) \/ Evict(b, f)

HandlerSpec == HandlerInit /\ [][HandlerNext]_handlerVars

\* A browser whose copy is not fresh asks again; the server, which has one
\* thread and does not wait for anybody, ends what it began; and of the
\* responses to a browser not all are lost.
HandlerFairness ==
    /\ WF_handlerVars(Tick /\ UNCHANGED browserVars)
    /\ WF_handlerVars(refresh_if_expired /\ UNCHANGED browserVars)
    /\ \A b \in Browsers :
         /\ WF_handlerVars(handle_request(b))
         /\ SF_handlerVars(Receive(b))
         /\ \A f \in Files : SF_handlerVars(~Fresh(b, f) /\ Ask(b, f))

HandlerFairSpec == HandlerSpec /\ HandlerFairness

-----------------------------------------------------------------------------
(* Properties.                                                             *)

\* "Check whether the user agent already has the right version of the file"
\* (file_handler.cpp 183): a browser that is told "not modified" has a copy
\* of a version that was on disk less than one expiration period before it
\* asked, so one that the server itself might have answered with.
NotModifiedIsRight ==
    \A b \in Browsers :
        wire[b] # Nothing /\ wire[b].status = "NOTMODIFIED" =>
            LET f == wire[b].file
            IN  /\ copies[b][f] # NoCopy
                /\ copies[b][f].data # NULL
                /\ OnDiskWithin(f, copies[b][f].data.of, wire[b].version.asked)

\* The two caches do not add up to more than their two periods: what a browser
\* shows without asking was on disk less than twice the period ago, whatever
\* was restarted, lost or confirmed in between (file_handler.cpp 77-82).
BrowserStaleness ==
    \A b \in Browsers, f \in Files :
        Fresh(b, f) /\ copies[b][f].data # NULL =>
            OnDiskWithin(f, copies[b][f].data.of, now - Period)

\* Once the files are left alone every browser comes to have the file on disk,
\* whole, or no copy: no torn or old copy is confirmed for ever.
BrowserIsCurrent(b, f) ==
    copies[b][f] # NoCopy =>
        /\ disk[f].content # Absent
        /\ copies[b][f].data = Whole(disk[f].content)

BrowserConverges == \A b \in Browsers, f \in Files : <>[]BrowserIsCurrent(b, f)

-----------------------------------------------------------------------------
(* The inductive invariant behind the properties above, for a file system  *)
(* with DistinctStamps and Shifts without a positive number.               *)

\* What a get() that answers, or is past its expiration test, says of its
\* entry.
AnswerInv ==
    /\ answer # NoAnswer => answer.file = get.file
    /\ answer # NoAnswer /\ answer.found => entry # Unused /\ answer.data = entry.data
    /\ get.step \in {"stat", "read"} \/ (answer # NoAnswer /\ answer.found) =>
         get.asked < entry.expiration_time

\* An entry with data has the modification time of a file.
StampInv(f) ==
    cache[f] # Unused /\ (cache[f].data # NULL \/ Loading(f)) => cache[f].last_modified > 0

\* The answer to the request that is served is "found", of f.
Found(f) == answer # NoAnswer /\ answer.file = f /\ answer.found

\* What holds of a version of f, if it has data, that a browser has, or will
\* have if the response under way arrives.
VersionOnDisk(f, v) ==
    /\ v.asked <= now
    /\ 0 < v.last_modified /\ v.last_modified <= disk[f].mtime
    /\ disk[f].content # Absent /\ v.last_modified = disk[f].mtime =>
         v.data = Whole(disk[f].content)
    /\ OnDiskWithin(f, v.data.of, v.asked)

\* An entry of the cache does not remember an older time than a browser; and if
\* it remembers the same, then what the browser has was on disk when the entry
\* was refreshed, even if that is not what the entry holds.
VersionInCache(f, v) ==
    cache[f] # Unused =>
        /\ cache[f].last_modified # 0 \/ Found(f) => v.last_modified <= cache[f].last_modified
        /\ cache[f].last_modified = v.last_modified
             /\ (Loading(f) \/ (cache[f].data # NULL /\ ~Refreshing(f)) \/ Found(f)) =>
               OnDiskWithin(f, v.data.of, cache[f].expiration_time - 1)

Genuine(f, v) == VersionOnDisk(f, v) /\ VersionInCache(f, v)

VersionInv(f, v) ==
    /\ StampsHaveData => v.data # NULL
    /\ v.data # NULL => Genuine(f, v)

BrowserInv(b) ==
    /\ \A f \in Files : copies[b][f] # NoCopy => VersionInv(f, copies[b][f])
    /\ wire[b] # Nothing =>
         /\ Received(b) # NoCopy => VersionInv(wire[b].file, Received(b))
         /\ StampsHaveData /\ wire[b].status = "NOTMODIFIED" =>
              copies[b][wire[b].file] # NoCopy

HandlerInv ==
    /\ HandlerTypeOK
    /\ AnswerInv
    /\ \A f \in Files : StampInv(f)
    /\ \A b \in Browsers : BrowserInv(b)
=============================================================================
