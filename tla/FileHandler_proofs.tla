------------------------- MODULE FileHandler_proofs -------------------------
(***************************************************************************)
(* Theorems about FileHandler, for any browsers and files, an unbounded    *)
(* clock and any number of restarts, with their proofs.                    *)
(*                                                                         *)
(* The file handler uses the cache as FileCache says, so the theorems on   *)
(* FileCache hold of it.  How old a thing a browser shows is bounded for   *)
(* servers at or east of Greenwich; that "not modified" is right needs a   *)
(* file system on which whatever has a stamp has data, too.  The run of    *)
(* FileHandlerZone.cfg shows what happens west of Greenwich.               *)
(***************************************************************************)
EXTENDS FileHandler, FileCache_proofs

\* Every step of the server and the browsers is one of the cache, or leaves the
\* cache alone.
LEMMA HandlerStep == [HandlerNext]_handlerVars => [Next]_vars
<1> SUFFICES ASSUME [HandlerNext]_handlerVars PROVE [Next]_vars
  OBVIOUS
<1>1. CASE RestartServer
  BY <1>1 DEF RestartServer, Next
<1>2. CASE (Tick \/ ChangeDisk \/ refresh_if_expired) /\ UNCHANGED browserVars
  BY <1>2 DEF Next
<1>3. ASSUME NEW b \in Browsers, handle_request(b) \/ Receive(b) \/ Lose(b) PROVE UNCHANGED vars
  BY <1>3 DEF handle_request, SendNotFound, SendNotModified, SendFile, send_response, Receive, Lose
<1>4. ASSUME NEW b \in Browsers, NEW f \in Files, Ask(b, f) PROVE Next
  BY <1>4 DEF Ask, Next
<1>5. ASSUME NEW b \in Browsers, NEW f \in Files, Evict(b, f) PROVE UNCHANGED vars
  BY <1>5 DEF Evict
<1>6. CASE UNCHANGED handlerVars
  BY <1>6 DEF handlerVars
<1> QED BY <1>1, <1>2, <1>3, <1>4, <1>5, <1>6 DEF HandlerNext

\* The file handler uses the cache as FileCache says.
THEOREM HandlerUsesCache == HandlerSpec => Spec
<1>1. HandlerInit => Init
  BY DEF HandlerInit
<1> QED BY <1>1, HandlerStep, PTL DEF HandlerSpec, Spec

-----------------------------------------------------------------------------
(* Types.                                                                  *)

LEMMA VersionParts ==
    ASSUME NEW v \in Version
    PROVE  v.data \in Copy \cup {NULL} /\ v.last_modified \in Nat /\ v.asked \in Nat
BY DEF Version

\* A response with the data and the time of the entry, or without any, has its
\* type.
LEMMA SendType ==
    ASSUME HandlerTypeOK, NEW b \in Browsers, NEW s \in {"OK", "NOTMODIFIED", "NOTFOUND"},
           NEW d \in Copy \cup {NULL}, NEW m \in Nat, send_response(b, s, d, m)
    PROVE  HandlerTypeOK'
<1>1. get.file \in Files /\ get.asked \in Nat
  BY DEF HandlerTypeOK, TypeOK, Get
<1>2. [data |-> d, last_modified |-> m, asked |-> get.asked] \in Version
  BY <1>1 DEF Version
<1>3. wire' \in [Browsers -> Response \cup {Nothing}]
  BY <1>1, <1>2 DEF send_response, HandlerTypeOK, Response
<1> QED BY <1>3 DEF send_response, HandlerTypeOK, vars, TypeOK

\* What was found is in the cache.
FoundInUse == answer # NoAnswer /\ answer.found => entry # Unused

LEMMA NextFoundInUse == InUse /\ FoundInUse /\ [Next]_vars => FoundInUse'
<1> SUFFICES ASSUME InUse, FoundInUse, [Next]_vars PROVE FoundInUse'
  OBVIOUS
<1>1. CASE refresh_if_expired
  <2>1. /\ get.step # "idle" /\ get \in Get /\ get.file \in Files
        /\ cache[get.file] \in Entry /\ cache[get.file] # Unused
    BY <1>1 DEF InUse, TypeOK, Get, refresh_if_expired, ServeUnexpired, BeginRefresh, StatFails,
                StatUnmodified, StatModified, OpenFails, ReadFile
  <2>2. get' \in Get /\ get'.file = get.file
    BY <1>1, <2>1, NextInUse
       DEF InUse, TypeOK, Get, refresh_if_expired, ServeUnexpired, BeginRefresh, StatFails,
           StatUnmodified, StatModified, OpenFails, ReadFile, empty_data, Return
  <2>3. CASE cache' = cache
    BY <2>1, <2>2, <2>3 DEF FoundInUse, entry
  <2>4. CASE BeginRefresh \/ StatModified
    <3>1. get'.step # "idle"
      BY <2>1, <2>4 DEF BeginRefresh, StatModified, Get
    <3> QED BY <3>1, NextInUse DEF InUse, FoundInUse, entry
  <2>5. CASE StatFails \/ OpenFails
    BY <2>1, <2>5 DEF StatFails, OpenFails, empty_data, Return, FoundInUse
  <2>6. CASE ReadFile
    <3> DEFINE c == disk[get.file].content
               copy == [of |-> c, len |-> Smaller(get.size, Size[c])]
    <3>1. copy \in Copy
      BY <2>1, <2>6, CacheAssumption DEF InUse, TypeOK, ReadFile, File, Get, Copy, Smaller
    <3>2. [cache[get.file] EXCEPT !.data = copy] \in Entry
      BY <2>1, <3>1 DEF Entry
    <3>3. cache'[get.file] = [cache[get.file] EXCEPT !.data = copy]
      BY <2>1, <2>6 DEF ReadFile, InUse, TypeOK
    <3> QED BY <2>2, <3>2, <3>3, NotValues DEF FoundInUse, entry
  <2> QED BY <1>1, <2>3, <2>4, <2>5, <2>6 DEF refresh_if_expired, ServeUnexpired, StatUnmodified
<1>2. CASE Tick \/ ChangeDisk \/ UNCHANGED vars
  <2>1. UNCHANGED <<cache, get, answer>>
    BY <1>2 DEF Tick, ChangeDisk, RemoveFile, ChangeFile, SetContent, vars
  <2> QED BY <2>1 DEF FoundInUse, entry
<1>3. CASE Restart \/ \E f \in Files : get_cached_object(f)
  BY <1>3 DEF Restart, get_cached_object, FoundInUse
<1> QED BY <1>1, <1>2, <1>3 DEF Next

LEMMA HandlerTypes == HandlerTypeOK /\ FoundInUse /\ InUse /\ [HandlerNext]_handlerVars => HandlerTypeOK'
<1> SUFFICES ASSUME HandlerTypeOK, FoundInUse, InUse, [HandlerNext]_handlerVars PROVE HandlerTypeOK'
  OBVIOUS
<1>1. TypeOK'
  <2>1. [Next]_vars
    BY HandlerStep
  <2> QED BY <2>1, NextInUse DEF InUse
<1>2. CASE UNCHANGED <<serving, copies, wire>>
  BY <1>1, <1>2 DEF HandlerTypeOK
<1>3. CASE RestartServer
  BY <1>1, <1>3 DEF RestartServer, HandlerTypeOK
<1>4. ASSUME NEW b \in Browsers, handle_request(b) PROVE HandlerTypeOK'
  <2>1. CASE SendNotFound(b)
    BY <2>1, SendType DEF SendNotFound
  <2>2. CASE SendNotModified(b) \/ SendFile(b)
    <3>1. answer # NoAnswer /\ answer.found
      BY <2>2 DEF SendNotModified, SendFile, send_response, has_loaded
    <3>2. entry \in Entry
      BY <3>1 DEF FoundInUse, HandlerTypeOK, TypeOK, entry, Get
    <3>3. entry.data \in Copy \cup {NULL} /\ entry.last_modified \in Nat
      BY <3>2 DEF Entry
    <3> QED BY <2>2, <3>3, SendType DEF SendNotModified, SendFile
  <2> QED BY <1>4, <2>1, <2>2 DEF handle_request
<1>5. ASSUME NEW b \in Browsers, Receive(b) PROVE HandlerTypeOK'
  <2> DEFINE r == wire[b]
  <2>1. r \in Response /\ r.file \in Files /\ r.version \in Version
    BY <1>5 DEF Receive, HandlerTypeOK, Response
  <2>2. Received(b) \in Version \cup {NoCopy}
    <3>1. copies[b][r.file] # NoCopy => copies[b][r.file] \in Version
      BY <2>1 DEF HandlerTypeOK
    <3>2. \A d \in Copy \cup {NULL} : [r.version EXCEPT !.data = d] \in Version
      BY <2>1 DEF Version
    <3> QED BY <2>1, <3>1, <3>2, VersionParts DEF Received
  <2>3. copies' = [copies EXCEPT ![b] = [copies[b] EXCEPT ![r.file] = Received(b)]]
    BY <1>5 DEF Receive
  <2>4. [copies[b] EXCEPT ![r.file] = Received(b)] \in [Files -> Version \cup {NoCopy}]
    BY <2>2 DEF HandlerTypeOK
  <2>5. copies' \in [Browsers -> [Files -> Version \cup {NoCopy}]]
    BY <2>3, <2>4 DEF HandlerTypeOK
  <2>6. wire' \in [Browsers -> Response \cup {Nothing}]
    BY <1>5 DEF Receive, HandlerTypeOK
  <2> QED BY <1>1, <1>5, <2>5, <2>6 DEF Receive, HandlerTypeOK
<1>6. ASSUME NEW b \in Browsers, Lose(b) PROVE HandlerTypeOK'
  BY <1>1, <1>6 DEF Lose, HandlerTypeOK
<1>7. ASSUME NEW b \in Browsers, NEW f \in Files, Ask(b, f) PROVE HandlerTypeOK'
  BY <1>1, <1>7 DEF Ask, HandlerTypeOK
<1>8. ASSUME NEW b \in Browsers, NEW f \in Files, Evict(b, f) PROVE HandlerTypeOK'
  <2>1. copies' = [copies EXCEPT ![b] = [copies[b] EXCEPT ![f] = NoCopy]]
    BY <1>8 DEF Evict
  <2>2. [copies[b] EXCEPT ![f] = NoCopy] \in [Files -> Version \cup {NoCopy}]
    BY DEF HandlerTypeOK
  <2>3. copies' \in [Browsers -> [Files -> Version \cup {NoCopy}]]
    BY <2>1, <2>2 DEF HandlerTypeOK
  <2> QED BY <1>1, <1>8, <2>3 DEF Evict, HandlerTypeOK
<1> QED BY <1>2, <1>3, <1>4, <1>5, <1>6, <1>7, <1>8 DEF HandlerNext, handlerVars, browserVars

\* Requests, responses and copies have their types, whatever the file system and
\* the time zone.
THEOREM HandlerTypeCorrect == HandlerSpec => []HandlerTypeOK
<1>1. HandlerInit => HandlerTypeOK /\ InUse /\ FoundInUse
  BY InitInUse DEF HandlerInit, HandlerTypeOK, InUse, Init, FoundInUse
<1>2. HandlerTypeOK /\ InUse /\ FoundInUse /\ [HandlerNext]_handlerVars
        => (HandlerTypeOK /\ InUse /\ FoundInUse)'
  BY HandlerStep, HandlerTypes, NextInUse, NextFoundInUse
<1> QED BY <1>1, <1>2, PTL DEF HandlerSpec

-----------------------------------------------------------------------------
(* What an answer says of its entry.                                       *)

CacheStepInv == AnswerInv /\ \A f \in Files : StampInv(f)

\* The steps of a get() keep it.
LEMMA GetStepAnswer ==
    CacheInv /\ CacheStepInv /\ refresh_if_expired => CacheStepInv'
<1> SUFFICES ASSUME CacheInv, CacheStepInv, refresh_if_expired PROVE CacheStepInv'
  OBVIOUS
<1> DEFINE g == get.file
           e == cache[g]
<1>1. TypeOK /\ g \in Files /\ get \in Get /\ get.asked \in Nat /\ now \in Nat /\ get.asked <= now
      /\ Period \in Nat \ {0} /\ disk[g] \in File
  BY CacheAssumption DEF CacheInv, GetInv, TypeOK, Get
<1>2. get.step # "idle"
  BY DEF refresh_if_expired, ServeUnexpired, BeginRefresh, StatFails,
         StatUnmodified, StatModified, OpenFails, ReadFile
<1>3. e \in Entry /\ e # Unused /\ FileInv(g) /\ answer = NoAnswer
  BY <1>1, <1>2 DEF CacheInv, GetInv, TypeOK
<1>4. SUFFICES /\ AnswerInv' /\ StampInv(g)'
               /\ get'.file = g /\ \A f \in Files \ {g} : cache'[f] = cache[f]
  <2>1. ASSUME NEW f \in Files \ {g} PROVE StampInv(f)'
    BY <1>4, <2>1 DEF CacheStepInv, StampInv, Loading
  <2> QED BY <1>4, <2>1 DEF CacheStepInv
<1>5. ASSUME NEW r \in BOOLEAN, NEW d \in Copy \cup {NULL}, Return(r, d), cache'[g] # Unused,
             r => cache'[g].data = d /\ get.asked < cache'[g].expiration_time
      PROVE  AnswerInv' /\ get'.file = g /\ get'.step = "idle"
  <2>1. get'.file = g /\ get'.asked = get.asked /\ get'.step = "idle"
        /\ answer' = [file |-> g, found |-> r, data |-> d]
    BY <1>1, <1>5 DEF Return, Get
  <2> QED BY <1>5, <2>1 DEF AnswerInv, entry
<1>6. CASE ServeUnexpired
  <2>1. Return(TRUE, e.data) /\ cache' = cache /\ now < e.expiration_time
        /\ e.data \in Copy \cup {NULL} /\ e.expiration_time \in Nat
    BY <1>3, <1>6 DEF ServeUnexpired, entry, Entry
  <2>2. AnswerInv' /\ get'.file = g /\ get'.step = "idle"
    <3>1. cache'[g] = e /\ get.asked < e.expiration_time
      BY <1>1, <2>1
    <3> QED BY <1>3, <1>5, <2>1, <3>1
  <2> QED BY <1>1, <2>1, <2>2 DEF CacheStepInv, StampInv, Loading
<1>7. CASE BeginRefresh
  <2>1. cache' = [cache EXCEPT ![g].expiration_time = now + Period] /\ answer' = answer
        /\ get' = [get EXCEPT !.step = "stat"] /\ get.step = "refresh"
    BY <1>7 DEF BeginRefresh
  <2>2. cache'[g] = [e EXCEPT !.expiration_time = now + Period]
        /\ \A f \in Files \ {g} : cache'[f] = cache[f]
    BY <1>1, <2>1 DEF TypeOK
  <2>3. get'.file = g /\ get'.asked = get.asked /\ get'.step = "stat"
    BY <1>1, <2>1 DEF Get
  <2>4. cache'[g].expiration_time = now + Period /\ cache'[g].data = e.data
        /\ cache'[g].last_modified = e.last_modified
    BY <1>3, <2>2 DEF Entry
  <2>5. AnswerInv'
    BY <1>1, <1>3, <2>1, <2>3, <2>4 DEF AnswerInv, entry
  <2>6. StampInv(g)'
    BY <1>1, <1>3, <2>3, <2>4 DEF CacheStepInv, StampInv, Loading
  <2> QED BY <2>2, <2>3, <2>5, <2>6
<1>8. CASE StatFails \/ OpenFails
  <2>1. empty_data
    BY <1>8 DEF StatFails, OpenFails
  <2>2. Return(FALSE, NULL) /\ cache' = [cache EXCEPT ![g].data = NULL]
    BY <2>1 DEF empty_data
  <2>3. cache'[g] = [e EXCEPT !.data = NULL] /\ \A f \in Files \ {g} : cache'[f] = cache[f]
    BY <1>1, <2>2 DEF TypeOK
  <2>4. cache'[g].data = NULL /\ cache'[g] \in Entry
    BY <1>3, <2>3 DEF Entry
  <2>5. AnswerInv' /\ get'.file = g /\ get'.step = "idle"
    BY <1>5, <2>2, <2>4, NotValues
  <2> QED BY <2>3, <2>4, <2>5 DEF StampInv, Loading
<1>9. CASE StatUnmodified
  <2>1. Return(TRUE, e.data) /\ cache' = cache /\ get.step = "stat"
        /\ e.data \in Copy \cup {NULL} /\ disk[g].mtime = e.last_modified
        /\ disk[g].content # Absent
    BY <1>3, <1>9 DEF StatUnmodified, entry, Entry
  <2>2. get.asked < e.expiration_time
    BY <2>1 DEF CacheStepInv, AnswerInv, entry
  <2>3. AnswerInv' /\ get'.file = g /\ get'.step = "idle"
    BY <1>3, <1>5, <2>1, <2>2
  <2>4. StampInv(g)'
    <3>1. cache'[g] = e /\ ~Loading(g) /\ ~Loading(g)'
      BY <2>1, <2>3 DEF Loading
    <3> QED BY <1>1, <2>3, <3>1 DEF CacheStepInv, StampInv
  <2> QED BY <2>1, <2>3, <2>4
<1>10. CASE StatModified
  <2>1. cache' = [cache EXCEPT ![g].last_modified = disk[g].mtime] /\ answer' = answer
        /\ get' = [get EXCEPT !.step = "read", !.size = Size[disk[g].content]]
        /\ get.step = "stat" /\ disk[g].content # Absent
    BY <1>10 DEF StatModified
  <2>2. cache'[g] = [e EXCEPT !.last_modified = disk[g].mtime]
        /\ \A f \in Files \ {g} : cache'[f] = cache[f]
    BY <1>1, <2>1 DEF TypeOK
  <2>3. get'.file = g /\ get'.asked = get.asked
    BY <1>1, <2>1 DEF Get
  <2>4. cache'[g].last_modified = disk[g].mtime /\ cache'[g].expiration_time = e.expiration_time
    BY <1>3, <2>2 DEF Entry
  <2>5. get.asked < e.expiration_time
    BY <2>1 DEF CacheStepInv, AnswerInv, entry
  <2>6. AnswerInv'
    BY <1>3, <2>1, <2>3, <2>4, <2>5 DEF AnswerInv, entry
  <2>7. StampInv(g)'
    <3>1. disk[g].mtime # e.last_modified
      BY <1>10 DEF StatModified, entry
    <3>2. e.last_modified <= disk[g].mtime /\ e.last_modified \in Nat /\ disk[g].mtime \in Nat
      BY <1>1, <1>3 DEF FileInv, EntryInv, Entry, File
    <3> QED BY <2>3, <2>4, <3>1, <3>2 DEF StampInv
  <2> QED BY <2>2, <2>3, <2>6, <2>7
<1>11. CASE ReadFile
  <2> DEFINE c == disk[g].content
             copy == [of |-> c, len |-> Smaller(get.size, Size[c])]
  <2>1. Return(TRUE, copy) /\ get.step = "read" /\ cache' = [cache EXCEPT ![g].data = copy]
        /\ c # Absent
    BY <1>11 DEF ReadFile
  <2>2. copy \in Copy
    BY <1>1, <2>1, CacheAssumption DEF File, Get, Copy, Smaller
  <2>3. cache'[g] = [e EXCEPT !.data = copy] /\ \A f \in Files \ {g} : cache'[f] = cache[f]
    BY <1>1, <2>1 DEF TypeOK
  <2>4. cache'[g].data = copy /\ cache'[g].expiration_time = e.expiration_time
        /\ cache'[g].last_modified = e.last_modified /\ cache'[g] \in Entry
    BY <1>3, <2>2, <2>3 DEF Entry
  <2>5. get.asked < e.expiration_time /\ e.last_modified > 0
    BY <1>1, <1>3, <2>1 DEF CacheStepInv, AnswerInv, StampInv, Loading, entry
  <2>6. AnswerInv' /\ get'.file = g /\ get'.step = "idle"
    BY <1>5, <2>1, <2>2, <2>4, <2>5, NotValues
  <2> QED BY <2>3, <2>4, <2>5, <2>6 DEF StampInv
<1> QED
  BY <1>6, <1>7, <1>8, <1>9, <1>10, <1>11 DEF refresh_if_expired

LEMMA NextAnswer == CacheInv /\ CacheStepInv /\ [Next]_vars => CacheStepInv'
<1> SUFFICES ASSUME CacheInv, CacheStepInv, [Next]_vars PROVE CacheStepInv'
  OBVIOUS
<1>1. TypeOK /\ get \in Get
  BY DEF CacheInv, TypeOK
<1>2. CASE UNCHANGED <<cache, get, answer>>
  BY <1>2 DEF CacheStepInv, AnswerInv, StampInv, Loading, entry
<1>3. CASE Tick \/ ChangeDisk \/ UNCHANGED vars
  <2>1. UNCHANGED <<cache, get, answer>>
    BY <1>3 DEF Tick, ChangeDisk, RemoveFile, ChangeFile, SetContent, vars
  <2> QED BY <1>2, <2>1
<1>4. CASE Restart
  BY <1>1, <1>4 DEF Restart, CacheStepInv, AnswerInv, StampInv, Get
<1>5. ASSUME NEW f \in Files, get_cached_object(f) PROVE CacheStepInv'
  <2>1. get'.step = "refresh" /\ answer' = NoAnswer /\ get.step = "idle"
        /\ cache' = [cache EXCEPT ![f] = IF @ = Unused THEN NewEntry ELSE @]
    BY <1>5 DEF get_cached_object
  <2>2. ASSUME NEW h \in Files PROVE StampInv(h)'
    <3>1. cache'[h] = cache[h] \/ cache'[h] = NewEntry
      BY <1>1, <2>1 DEF TypeOK
    <3> QED BY <2>1, <3>1 DEF CacheStepInv, StampInv, Loading, NewEntry
  <2> QED BY <2>1, <2>2 DEF CacheStepInv, AnswerInv
<1> QED BY <1>3, <1>4, <1>5, GetStepAnswer DEF Next

-----------------------------------------------------------------------------
(* What a browser has.                                                     *)

\* The steps of a get() keep what holds of a version that a browser has.
LEMMA GetStepVersion ==
    ASSUME CacheInv, CacheStepInv, refresh_if_expired,
           NEW f \in Files, NEW v \in Version, v.data # NULL, Genuine(f, v)
    PROVE  Genuine(f, v)'
<1> DEFINE g == get.file
           e == cache[g]
<1>1. TypeOK /\ g \in Files /\ get \in Get /\ now \in Nat /\ Period \in Nat \ {0}
      /\ disk[f] \in File
  BY CacheAssumption DEF CacheInv, GetInv, TypeOK, Get
<1>2. get.step # "idle" /\ UNCHANGED <<now, disk, left>>
  BY DEF refresh_if_expired, ServeUnexpired, BeginRefresh, StatFails,
         StatUnmodified, StatModified, OpenFails, ReadFile
<1>3. e \in Entry /\ e # Unused /\ FileInv(g) /\ EntryInv(g) /\ answer = NoAnswer
  BY <1>1, <1>2 DEF CacheInv, GetInv, TypeOK, FileInv
<1>4. VersionOnDisk(f, v) /\ VersionInCache(f, v)
  BY DEF Genuine
<1>5. VersionOnDisk(f, v)'
  BY <1>2, <1>4 DEF VersionOnDisk, OnDiskWithin
<1>6. get'.file = g /\ \A h \in Files \ {g} : cache'[h] = cache[h]
  <2>1. get' = [get EXCEPT !.step = "idle"] \/ get' = [get EXCEPT !.step = "stat"]
        \/ \E s : get' = [get EXCEPT !.step = "read", !.size = s]
    BY DEF refresh_if_expired, ServeUnexpired, BeginRefresh, StatFails,
           StatUnmodified, StatModified, OpenFails, ReadFile, empty_data, Return
  <2>2. cache' = cache \/ \E x : cache' = [cache EXCEPT ![g] = x]
    BY DEF refresh_if_expired, ServeUnexpired, BeginRefresh, StatFails,
           StatUnmodified, StatModified, OpenFails, ReadFile, empty_data
  <2> QED BY <1>1, <2>1, <2>2 DEF TypeOK, Get
<1>16. /\ ~Found(f)
       /\ Found(f)' => f = g /\ (ServeUnexpired \/ StatUnmodified \/ ReadFile)
  BY <1>3 DEF Found, refresh_if_expired, ServeUnexpired, BeginRefresh, StatFails,
              StatUnmodified, StatModified, OpenFails, ReadFile, empty_data, Return
<1>7. ASSUME f # g PROVE VersionInCache(f, v)'
  BY <1>2, <1>4, <1>6, <1>7, <1>16 DEF VersionInCache, OnDiskWithin, Loading, Refreshing
<1>8. ASSUME f = g, ServeUnexpired PROVE VersionInCache(f, v)'
  <2>1. /\ cache' = cache /\ get.step = "refresh" /\ get' = [get EXCEPT !.step = "idle"]
        /\ e.data # NULL
    BY <1>8 DEF ServeUnexpired, Return, data_size, entry
  <2>2. get'.step = "idle"
    BY <1>1, <2>1 DEF Get
  <2>3. e.last_modified # 0
    BY <1>1, <1>3, <2>1 DEF CacheStepInv, StampInv
  <2> QED BY <1>2, <1>4, <1>8, <2>1, <2>2, <2>3
          DEF VersionInCache, OnDiskWithin, Loading, Refreshing
<1>9. ASSUME f = g, BeginRefresh PROVE VersionInCache(f, v)'
  <2>1. cache'[g] = [e EXCEPT !.expiration_time = now + Period] /\ get'.step = "stat"
    BY <1>1, <1>9 DEF BeginRefresh, TypeOK, Get
  <2>2. cache'[g].last_modified = e.last_modified
    BY <1>3, <2>1 DEF Entry
  <2>3. ~Found(f)'
    BY <1>3, <1>9 DEF BeginRefresh, Found
  <2> QED BY <1>3, <1>2, <1>4, <1>6, <1>9, <2>1, <2>2, <2>3
          DEF VersionInCache, OnDiskWithin, Loading, Refreshing
<1>10. ASSUME f = g, StatFails \/ OpenFails PROVE VersionInCache(f, v)'
  <2>1. empty_data
    BY <1>10 DEF StatFails, OpenFails
  <2>2. cache'[g] = [e EXCEPT !.data = NULL] /\ get'.step = "idle"
    BY <1>1, <2>1 DEF empty_data, Return, TypeOK, Get
  <2>3. cache'[g].last_modified = e.last_modified /\ cache'[g].data = NULL
    BY <1>3, <2>2 DEF Entry
  <2>4. ~Found(f)'
    BY <2>1 DEF empty_data, Return, Found
  <2> QED BY <1>3, <1>2, <1>4, <1>10, <2>2, <2>3, <2>4
          DEF VersionInCache, OnDiskWithin, Loading
<1>11. ASSUME disk[f].content # Absent, v.last_modified = disk[f].mtime, NEW t
       PROVE  OnDiskWithin(f, v.data.of, t)
  BY <1>4, <1>11 DEF VersionOnDisk, Whole, OnDiskWithin
<1>12. ASSUME f = g, StatUnmodified PROVE VersionInCache(f, v)'
  <2>1. cache' = cache /\ disk[g].content # Absent /\ disk[g].mtime = e.last_modified
    BY <1>12 DEF StatUnmodified, entry
  <2>2. v.last_modified <= disk[f].mtime
    BY <1>4 DEF VersionOnDisk
  <2> QED BY <1>3, <1>2, <1>4, <1>11, <1>12, <2>1, <2>2 DEF VersionInCache, OnDiskWithin
<1>13. ASSUME f = g, StatModified PROVE VersionInCache(f, v)'
  <2>1. cache'[g] = [e EXCEPT !.last_modified = disk[g].mtime] /\ disk[g].content # Absent
    BY <1>1, <1>13 DEF StatModified, TypeOK
  <2>2. cache'[g].last_modified = disk[g].mtime
    BY <1>3, <2>1 DEF Entry
  <2>3. v.last_modified <= disk[g].mtime
    BY <1>4, <1>13 DEF VersionOnDisk
  <2>4. disk[g].mtime = v.last_modified => v.data.of = disk[g].content
    BY <1>4, <1>13, <2>1 DEF VersionOnDisk, Whole
  <2> QED BY <1>2, <1>13, <2>2, <2>3, <2>4 DEF VersionInCache, OnDiskWithin
<1>14. ASSUME f = g, ReadFile PROVE VersionInCache(f, v)'
  <2>1. get.step = "read" /\ \E copy : cache'[g] = [e EXCEPT !.data = copy]
    BY <1>1, <1>14 DEF ReadFile, TypeOK
  <2>2. cache'[g].last_modified = e.last_modified /\ cache'[g].expiration_time = e.expiration_time
    BY <1>3, <2>1 DEF Entry
  <2>3. Loading(g)
    BY <2>1 DEF Loading
  <2>4. e.last_modified # 0
    BY <1>1, <1>3, <2>3 DEF CacheStepInv, StampInv
  <2> QED BY <1>3, <1>2, <1>4, <1>14, <2>2, <2>3, <2>4 DEF VersionInCache, OnDiskWithin
<1>15. VersionInCache(f, v)'
  BY <1>7, <1>8, <1>9, <1>10, <1>12, <1>13, <1>14 DEF refresh_if_expired
<1> QED BY <1>5, <1>15 DEF Genuine

\* Changing a file keeps it: the modification time of the file only grows, and
\* what is replaced was on disk until now.
LEMMA ChangeVersion ==
    ASSUME CacheInv, NEW g \in Files, NEW c \in Contents \cup {Absent}, SetContent(g, c),
           disk'[g].content = c, disk'[g].mtime \in Nat,
           \/ c = Absent /\ disk'[g].mtime = disk[g].mtime
           \/ c = disk[g].content /\ disk'[g].mtime = disk[g].mtime
           \/ disk'[g].mtime > disk[g].mtime,
           \A h \in Files \ {g} : disk'[h] = disk[h],
           NEW f \in Files, NEW v \in Version, v.data # NULL, Genuine(f, v)
    PROVE  Genuine(f, v)'
<1>1. InUse /\ UNCHANGED <<now, cache, get, answer>>
  BY DEF CacheInv, GetInv, InUse, SetContent
<1>2. now \in Nat /\ Period \in Nat \ {0} /\ disk[f] \in File /\ disk[f].mtime \in Nat
      /\ disk[g].mtime \in Nat
  BY <1>1, CacheAssumption DEF InUse, TypeOK, File
<1>3. VersionOnDisk(f, v) /\ VersionInCache(f, v) /\ v.data.of \in Contents
      /\ v.asked \in Nat /\ v.last_modified \in Nat
  BY DEF Genuine, VersionOnDisk, Version, Copy
<1>4. ASSUME NEW t \in Int, t < now + Period, OnDiskWithin(f, v.data.of, t)
      PROVE  OnDiskWithin(f, v.data.of, t)'
  <2>1. disk'[f].content = v.data.of \/ t < left'[f][v.data.of] + Period
    BY <1>1, <1>3, <1>4, SetContentOnDisk
  <2> QED BY <2>1 DEF OnDiskWithin
<1>5. VersionOnDisk(f, v)'
  <2>1. v.asked < now + Period /\ OnDiskWithin(f, v.data.of, v.asked)
    BY <1>2, <1>3 DEF VersionOnDisk
  <2>2. OnDiskWithin(f, v.data.of, v.asked)'
    BY <1>3, <1>4, <2>1
  <2>3. disk'[f] = disk[f] \/ f = g
    OBVIOUS
  <2> QED BY <1>1, <1>2, <1>3, <2>2, <2>3 DEF VersionOnDisk
<1>6. VersionInCache(f, v)'
  <2>1. SUFFICES ASSUME cache[f] # Unused
                 PROVE  VersionInCache(f, v)'
    BY <1>1 DEF VersionInCache, Found
  <2>2. cache[f] \in Entry /\ EntryInv(f) /\ cache[f].expiration_time \in Nat
    BY <1>1, <2>1 DEF InUse, TypeOK, CacheInv, FileInv, Entry
  <2>3. cache[f].expiration_time - 1 \in Int /\ cache[f].expiration_time - 1 < now + Period
    BY <1>2, <2>2 DEF EntryInv
  <2>4. OnDiskWithin(f, v.data.of, cache[f].expiration_time - 1) =>
          OnDiskWithin(f, v.data.of, cache[f].expiration_time - 1)'
    BY <1>1, <1>4, <2>3
  <2> QED BY <1>1, <1>3, <2>1, <2>4 DEF VersionInCache, Loading, Refreshing, Found
<1> QED BY <1>5, <1>6 DEF Genuine

LEMMA NextGenuine ==
    ASSUME DistinctStamps, CacheInv, CacheStepInv, [Next]_vars,
           NEW f \in Files, NEW v \in Version, v.data # NULL, Genuine(f, v)
    PROVE  Genuine(f, v)'
<1>1. TypeOK /\ get \in Get /\ now \in Nat /\ Period \in Nat \ {0}
  BY CacheAssumption DEF CacheInv, TypeOK
<1>2. VersionOnDisk(f, v) /\ VersionInCache(f, v) /\ v.asked \in Nat
  BY DEF Genuine, Version
<1>3. CASE Tick
  <2>1. now' = now + 1 /\ UNCHANGED <<disk, cache, get, answer, left>>
    BY <1>3 DEF Tick
  <2> QED BY <1>1, <1>2, <2>1
          DEF Genuine, VersionOnDisk, VersionInCache, OnDiskWithin, Loading, Refreshing, Found
<1>4. CASE UNCHANGED vars
  BY <1>2, <1>4
     DEF vars, Genuine, VersionOnDisk, VersionInCache, OnDiskWithin, Loading, Refreshing, Found
<1>5. CASE Restart
  BY <1>2, <1>5 DEF Restart, Genuine, VersionOnDisk, VersionInCache, OnDiskWithin
<1>6. ASSUME NEW g \in Files, get_cached_object(g) PROVE Genuine(f, v)'
  <2>1. get' = [step |-> "refresh", file |-> g, asked |-> now, size |-> 0]
        /\ UNCHANGED <<now, disk, left>> /\ get.step = "idle"
        /\ cache' = [cache EXCEPT ![g] = IF @ = Unused THEN NewEntry ELSE @]
        /\ ~Found(f)'
    BY <1>6 DEF get_cached_object, Found
  <2>2. VersionOnDisk(f, v)'
    BY <1>2, <2>1 DEF VersionOnDisk, OnDiskWithin
  <2>3. CASE cache[f] # Unused
    <3>1. cache'[f] = cache[f]
      BY <1>1, <2>1, <2>3 DEF TypeOK
    <3> QED BY <1>2, <2>1, <2>2, <2>3, <3>1
            DEF Genuine, VersionInCache, OnDiskWithin, Loading, Refreshing
  <2>4. CASE cache[f] = Unused
    <3>1. cache'[f] \in {Unused, NewEntry}
      BY <1>1, <2>1, <2>4 DEF TypeOK
    <3>2. VersionInCache(f, v)'
      BY <2>1, <3>1 DEF VersionInCache, NewEntry, Loading
    <3> QED BY <2>2, <3>2 DEF Genuine
  <2> QED BY <2>3, <2>4
<1>7. ASSUME NEW g \in Files, RemoveFile(g) PROVE Genuine(f, v)'
  <2>1. disk'[g].content = Absent /\ disk'[g].mtime = disk[g].mtime /\ disk[g].mtime \in Nat
        /\ \A h \in Files \ {g} : disk'[h] = disk[h]
    BY <1>1, <1>7 DEF RemoveFile, TypeOK, File
  <2>2. SetContent(g, Absent)
    BY <1>7 DEF RemoveFile
  <2> QED BY <2>1, <2>2, ChangeVersion
<1>8. ASSUME NEW g \in Files, NEW c \in Contents, NEW m \in FirstStamp .. now, NEW r \in BOOLEAN,
             ChangeFile(g, c, m, r)
      PROVE  Genuine(f, v)'
  <2>1. disk' = [disk EXCEPT ![g] = [content |-> c, readable |-> r, mtime |-> m]]
        /\ SetContent(g, c)
    BY <1>8 DEF ChangeFile
  <2>2. disk'[g] = [content |-> c, readable |-> r, mtime |-> m]
        /\ \A h \in Files \ {g} : disk'[h] = disk[h]
    <3>1. disk \in [Files -> File]
      BY <1>1 DEF TypeOK
    <3> QED BY <2>1, <3>1, Zenon
  <2>3. disk'[g].content = c /\ disk'[g].mtime = m /\ m \in Nat /\ disk[g].mtime \in Nat
    BY <1>1, <2>2, CacheAssumption DEF TypeOK, File
  <2>4. \/ c = disk[g].content /\ m = disk[g].mtime
        \/ m = now /\ m > disk[g].mtime
    BY <1>8 DEF ChangeFile
  <2>5. \/ c = disk[g].content /\ disk'[g].mtime = disk[g].mtime
        \/ disk'[g].mtime > disk[g].mtime
    BY <2>3, <2>4
  <2> QED BY <2>1, <2>2, <2>3, <2>5, ChangeVersion
<1> QED BY <1>3, <1>4, <1>5, <1>6, <1>7, <1>8, GetStepVersion DEF Next, ChangeDisk

LEMMA NextVersion ==
    ASSUME DistinctStamps, CacheInv, CacheStepInv, [Next]_vars,
           NEW f \in Files, NEW v \in Version, VersionInv(f, v)
    PROVE  VersionInv(f, v)'
BY NextGenuine DEF VersionInv

-----------------------------------------------------------------------------
(* The invariant of the file handler and its browsers.                     *)

LEMMA InitHandlerInv == HandlerInit => CacheInv /\ HandlerInv
<1> SUFFICES ASSUME HandlerInit PROVE CacheInv /\ HandlerInv
  OBVIOUS
<1>1. CacheInv
  BY InitCacheInv DEF HandlerInit
<1>2. HandlerTypeOK
  BY <1>1 DEF HandlerInit, HandlerTypeOK, CacheInv
<1>3. AnswerInv /\ \A f \in Files : StampInv(f)
  BY DEF HandlerInit, Init, AnswerInv, StampInv
<1>4. \A b \in Browsers : BrowserInv(b)
  BY DEF HandlerInit, BrowserInv
<1> QED BY <1>1, <1>2, <1>3, <1>4 DEF HandlerInv

\* What a browser has, and will have, is a version.
LEMMA ReceivedType ==
    ASSUME HandlerTypeOK, NEW b \in Browsers
    PROVE  /\ \A f \in Files : copies[b][f] # NoCopy => copies[b][f] \in Version
           /\ wire[b] # Nothing =>
                wire[b] \in Response /\ wire[b].file \in Files /\ wire[b].version \in Version
                /\ Received(b) \in Version \cup {NoCopy}
<1> DEFINE r == wire[b]
<1>1. \A f \in Files : copies[b][f] # NoCopy => copies[b][f] \in Version
  BY DEF HandlerTypeOK
<1>2. ASSUME r # Nothing
      PROVE  /\ r \in Response /\ r.file \in Files /\ r.version \in Version
             /\ Received(b) \in Version \cup {NoCopy}
  <2>1. r \in Response /\ r.file \in Files /\ r.version \in Version
    BY <1>2 DEF HandlerTypeOK, Response
  <2>2. \A d \in Copy \cup {NULL} : [r.version EXCEPT !.data = d] \in Version
    BY <2>1 DEF Version
  <2> QED BY <1>1, <2>1, <2>2, VersionParts DEF Received
<1> QED BY <1>1, <1>2

\* A browser whose copies and response stay as they are.
LEMMA BrowserKeeps ==
    ASSUME HandlerTypeOK, DistinctStamps, CacheInv, CacheStepInv, [Next]_vars,
           NEW b \in Browsers, BrowserInv(b), copies'[b] = copies[b], wire'[b] = wire[b]
    PROVE  BrowserInv(b)'
<1>1. ASSUME NEW f \in Files, copies[b][f] # NoCopy PROVE VersionInv(f, copies[b][f])'
  <2>1. copies[b][f] \in Version
    BY <1>1, ReceivedType
  <2>2. \A v \in Version : VersionInv(f, v) => VersionInv(f, v)'
    BY NextVersion
  <2>3. \A v \in Version : VersionInv(f, v)' /\ copies'[b][f] = v => VersionInv(f, copies[b][f])'
    BY DEF VersionInv, Genuine, VersionOnDisk, VersionInCache, OnDiskWithin, Loading, Refreshing, Found
  <2> QED BY <1>1, <2>1, <2>2, <2>3 DEF BrowserInv
<1>2. ASSUME wire[b] # Nothing, Received(b) # NoCopy PROVE VersionInv(wire[b].file, Received(b))'
  <2>1. Received(b) \in Version /\ wire[b].file \in Files
    BY <1>2, ReceivedType
  <2>2. Received(b)' = Received(b)
    BY DEF Received
  <2>3. \A f \in Files, v \in Version : VersionInv(f, v) => VersionInv(f, v)'
    BY NextVersion
  <2>4. \A f \in Files, v \in Version :
          VersionInv(f, v)' /\ wire'[b].file = f /\ Received(b)' = v => VersionInv(wire[b].file, Received(b))'
    BY DEF VersionInv, Genuine, VersionOnDisk, VersionInCache, OnDiskWithin, Loading, Refreshing, Found
  <2> QED BY <1>2, <2>1, <2>2, <2>3, <2>4 DEF BrowserInv
<1>3. Received(b)' = Received(b)
  BY DEF Received
<1> QED BY <1>1, <1>2, <1>3 DEF BrowserInv

\* A response tells the browser of a version that it may have.
LEMMA ResponseInv ==
    ASSUME \A shift \in Shifts : shift <= 0,
           CacheInv, HandlerInv, NEW b \in Browsers, handle_request(b)
    PROVE  BrowserInv(b)'
<1> DEFINE f == get.file
           e == cache[f]
           copy == copies[b][f]
<1>1. answer # NoAnswer /\ UNCHANGED <<vars, copies>> /\ answer.file = f
  BY DEF handle_request, SendNotFound, SendNotModified, SendFile, send_response, HandlerInv, AnswerInv
<1>2. TypeOK /\ f \in Files /\ get.step = "idle" /\ get.asked \in Nat /\ get.asked <= now /\ now \in Nat
      /\ Period \in Nat \ {0} /\ ~Loading(f) /\ ~Refreshing(f) /\ disk[f] \in File
      /\ left[f] \in [Contents \cup {Absent} -> Int]
  BY <1>1, CacheAssumption DEF CacheInv, GetInv, TypeOK, Get, Loading, Refreshing
<1>3. \A h \in Files, v \in Version : VersionInv(h, v) => VersionInv(h, v)'
  BY <1>1 DEF vars, VersionInv, Genuine, VersionOnDisk, VersionInCache, OnDiskWithin,
              Loading, Refreshing, Found
<1>4. ASSUME NEW h \in Files, copies'[b][h] # NoCopy PROVE VersionInv(h, copies[b][h])'
  <2>1. copies[b][h] \in Version /\ VersionInv(h, copies[b][h]) /\ copies'[b][h] = copies[b][h]
    BY <1>1, <1>4, ReceivedType DEF HandlerInv, BrowserInv
  <2>2. \A v \in Version : VersionInv(h, v)' /\ copies'[b][h] = v => VersionInv(h, copies[b][h])'
    BY DEF VersionInv, Genuine, VersionOnDisk, VersionInCache, OnDiskWithin, Loading, Refreshing, Found
  <2> QED BY <1>3, <2>1, <2>2
\* A file that was found.
<1>5. ASSUME answer.found
      PROVE  /\ e \in Entry /\ e # Unused /\ EntryInv(f) /\ Found(f)
             /\ e.data \in Copy \cup {NULL} /\ get.asked < e.expiration_time
             /\ StampsHaveData => e.data # NULL /\ e.last_modified > 0
             /\ e.data # NULL =>
                  /\ e.data \in Copy /\ e.last_modified > 0
                  /\ OnDiskWithin(f, e.data.of, get.asked)
  <2>1. e # Unused /\ e.data = answer.data /\ get.asked < e.expiration_time
    BY <1>1, <1>5 DEF HandlerInv, AnswerInv, entry
  <2>2. e \in Entry /\ FileInv(f)
    BY <1>2, <2>1 DEF TypeOK, CacheInv
  <2>3. /\ StampsHaveData => e.data # NULL
        /\ e.data # NULL => OnDiskWithin(f, e.data.of, get.asked)
    BY <1>1, <1>5, <2>1 DEF CacheInv, FoundHasData, BoundedStaleness
  <2>4. e.data # NULL => e.last_modified > 0
    BY <1>2, <2>1 DEF HandlerInv, StampInv
  <2>5. Found(f)
    BY <1>1, <1>5 DEF Found
  <2> QED BY <2>1, <2>2, <2>3, <2>4, <2>5 DEF FileInv, Entry
<1>6. SUFFICES ASSUME wire'[b] # Nothing
               PROVE  /\ Received(b)' # NoCopy => VersionInv(wire[b].file, Received(b))'
                      /\ StampsHaveData /\ wire'[b].status = "NOTMODIFIED" =>
                           copies'[b][wire'[b].file] # NoCopy
  BY <1>4 DEF BrowserInv
<1>7. ASSUME NEW s \in {"OK", "NOTMODIFIED", "NOTFOUND"}, NEW d, NEW t, send_response(b, s, d, t)
      PROVE  wire'[b] = [status |-> s, file |-> f,
                         version |-> [data |-> d, last_modified |-> t, asked |-> get.asked]]
  BY <1>7 DEF send_response, HandlerInv, HandlerTypeOK
\* It suffices that what arrives is a version for which the invariant holds.
<1>8. ASSUME NEW v \in Version, wire'[b].file = f, Received(b)' = v, VersionInv(f, v)
      PROVE  VersionInv(wire[b].file, Received(b))'
  <2>1. get' = get /\ UNCHANGED vars
    BY <1>1 DEF vars
  <2> QED
    BY <1>8, <2>1 DEF vars, VersionInv, Genuine, VersionOnDisk, VersionInCache, OnDiskWithin,
                      Loading, Refreshing, Found
<1>9. CASE SendNotFound(b)
  <2>0. send_response(b, "NOTFOUND", NULL, 0)
    BY <1>9 DEF SendNotFound
  <2>1. wire'[b].status = "NOTFOUND"
    <3>1. wire'[b] = [status |-> "NOTFOUND", file |-> f,
                      version |-> [data |-> NULL, last_modified |-> 0, asked |-> get.asked]]
      BY <1>7, <2>0
    <3> QED BY <3>1
  <2>2. Received(b)' = NoCopy
    BY <2>1 DEF Received
  <2> QED BY <2>1, <2>2
<1>10. CASE SendFile(b)
  <2> DEFINE v == [data |-> e.data, last_modified |-> e.last_modified, asked |-> get.asked]
  <2>1. answer.found /\ send_response(b, "OK", e.data, e.last_modified)
    BY <1>10 DEF SendFile, has_loaded, entry
  <2>2. wire'[b] = [status |-> "OK", file |-> f, version |-> v]
    BY <1>7, <2>1
  <2>3. v \in Version /\ e.last_modified \in Nat /\ e.expiration_time \in Nat
    BY <1>2, <1>5, <2>1 DEF Version, Entry
  <2>4. Received(b)' = v
    BY <2>2 DEF Received
  <2>5. ASSUME e.data # NULL PROVE VersionOnDisk(f, v)
    BY <1>2, <1>5, <2>1, <2>3, <2>5 DEF VersionOnDisk, EntryInv
  <2>6. ASSUME e.data # NULL PROVE VersionInCache(f, v)
    BY <1>2, <1>5, <2>1, <2>3, <2>6 DEF VersionInCache, EntryInv
  <2>7. VersionInv(f, v)
    BY <1>5, <2>1, <2>5, <2>6 DEF VersionInv, Genuine
  <2>8. wire'[b].file = f /\ wire'[b].status = "OK"
    BY <2>2
  <2> QED BY <1>8, <2>3, <2>4, <2>7, <2>8
<1>11. CASE SendNotModified(b)
  <2> DEFINE v == [data |-> copy.data, last_modified |-> e.last_modified, asked |-> get.asked]
  <2>1. answer.found /\ send_response(b, "NOTMODIFIED", e.data, e.last_modified)
    BY <1>11 DEF SendNotModified, has_loaded, entry
  <2>2. PICK shift \in Shifts : if_modified_since(b, shift) >= e.last_modified
    BY <1>11 DEF SendNotModified, entry
  <2>3. shift \in Int /\ shift <= 0 /\ e.last_modified \in Nat /\ e.expiration_time \in Nat
    BY <1>5, <2>1, HandlerAssumption DEF Entry
  <2>4. StampsHaveData => copy # NoCopy
    BY <1>5, <2>1, <2>2, <2>3 DEF if_modified_since
  <2>5. wire'[b].file = f /\ wire'[b].status = "NOTMODIFIED" /\ copies'[b][f] = copy
        /\ wire'[b].version = [data |-> e.data, last_modified |-> e.last_modified, asked |-> get.asked]
    <3>1. wire'[b] = [status |-> "NOTMODIFIED", file |-> f,
                      version |-> [data |-> e.data, last_modified |-> e.last_modified,
                                   asked |-> get.asked]]
      BY <1>7, <2>1
    <3> QED BY <1>1, <3>1
  <2>6. CASE copy = NoCopy
    <3>1. Received(b)' = NoCopy
      BY <2>5, <2>6 DEF Received
    <3> QED BY <2>4, <2>5, <2>6, <3>1
  <2>7. CASE copy # NoCopy
    <3>1. copy \in Version /\ VersionInv(f, copy)
      BY <1>2, <2>7, ReceivedType DEF HandlerInv, BrowserInv
    <3>2. copy.data \in Copy \cup {NULL} /\ copy.last_modified \in Nat
          /\ copy.last_modified + shift >= e.last_modified
      BY <2>2, <2>7, <3>1, VersionParts DEF if_modified_since
    <3>3. v \in Version
      BY <1>2, <2>3, <3>2 DEF Version
    <3>4. ASSUME copy.data # NULL PROVE Genuine(f, v)
      <4>1. VersionOnDisk(f, copy) /\ VersionInCache(f, copy)
        BY <3>1, <3>4 DEF VersionInv, Genuine
      <4>2. copy.last_modified = e.last_modified
        <5>1. copy.last_modified <= e.last_modified
          BY <1>5, <2>1, <4>1 DEF VersionInCache
        <5> QED BY <2>3, <3>2, <5>1
      <4>3. OnDiskWithin(f, copy.data.of, e.expiration_time - 1)
        BY <1>5, <2>1, <4>1, <4>2 DEF VersionInCache
      <4>4. copy.data.of \in Contents \cup {Absent}
        BY <3>2, <3>4 DEF Copy
      <4>5. OnDiskWithin(f, copy.data.of, get.asked)
        BY <1>2, <1>5, <2>1, <2>3, <4>3, <4>4 DEF OnDiskWithin
      <4>6. VersionOnDisk(f, v)
        BY <1>2, <4>1, <4>2, <4>5 DEF VersionOnDisk
      <4>7. VersionInCache(f, v)
        BY <4>1, <4>2 DEF VersionInCache
      <4> QED BY <4>6, <4>7 DEF Genuine
    <3>5. VersionInv(f, v)
      BY <3>1, <3>4 DEF VersionInv
    <3>6. Received(b)' = v
      BY <2>5, <2>7 DEF Received
    <3> QED BY <1>8, <2>5, <2>7, <3>3, <3>5, <3>6
  <2> QED BY <2>6, <2>7
<1> QED BY <1>9, <1>10, <1>11 DEF handle_request

\* A browser that receives a response, loses it or makes room.
LEMMA BrowserStep ==
    ASSUME HandlerInv, NEW b \in Browsers,
           Receive(b) \/ Lose(b) \/ \E f \in Files : Evict(b, f)
    PROVE  BrowserInv(b)'
<1>1. UNCHANGED vars
  BY DEF Receive, Lose, Evict
<1>2. \A f \in Files, v \in Version : VersionInv(f, v) => VersionInv(f, v)'
  BY <1>1 DEF vars, VersionInv, Genuine, VersionOnDisk, VersionInCache, OnDiskWithin,
              Loading, Refreshing, Found
<1>3. wire'[b] = Nothing
  BY DEF Receive, Lose, Evict, HandlerInv, HandlerTypeOK
<1>4. ASSUME NEW f \in Files, copies'[b][f] # NoCopy
      PROVE  copies'[b][f] \in Version /\ VersionInv(f, copies'[b][f])
  <2>1. CASE copies'[b][f] = copies[b][f]
    BY <1>4, <2>1, ReceivedType DEF HandlerInv, BrowserInv
  <2>2. CASE copies'[b][f] # copies[b][f]
    <3>1. Receive(b) /\ wire[b] # Nothing
      BY <1>4, <2>2 DEF Receive, Lose, Evict, HandlerInv, HandlerTypeOK
    <3>2. wire[b].file \in Files /\ Received(b) \in Version \cup {NoCopy}
      BY <3>1, ReceivedType DEF HandlerInv
    <3>3. f = wire[b].file /\ copies'[b][f] = Received(b)
      BY <2>2, <3>1, <3>2 DEF Receive, HandlerInv, HandlerTypeOK
    <3> QED BY <1>4, <3>1, <3>2, <3>3 DEF HandlerInv, BrowserInv
  <2> QED BY <2>1, <2>2
<1>5. ASSUME NEW f \in Files, copies'[b][f] # NoCopy PROVE VersionInv(f, copies[b][f])'
  <2>1. copies'[b][f] \in Version /\ VersionInv(f, copies'[b][f])
    BY <1>4, <1>5
  <2> QED
    BY <1>1, <2>1
       DEF vars, VersionInv, Genuine, VersionOnDisk, VersionInCache, OnDiskWithin,
           Loading, Refreshing, Found
<1> QED BY <1>3, <1>5 DEF BrowserInv

LEMMA NextHandlerInv ==
    ASSUME DistinctStamps, \A shift \in Shifts : shift <= 0
    PROVE  CacheInv /\ HandlerInv /\ [HandlerNext]_handlerVars => (CacheInv /\ HandlerInv)'
<1> SUFFICES ASSUME CacheInv, HandlerInv, [HandlerNext]_handlerVars PROVE CacheInv' /\ HandlerInv'
  OBVIOUS
<1>1. [Next]_vars
  BY HandlerStep
<1>2. CacheInv'
  BY <1>1, NextCacheInv
<1>3. CacheStepInv /\ CacheStepInv'
  BY <1>1, NextAnswer DEF HandlerInv, CacheStepInv
<1>4. HandlerTypeOK'
  BY HandlerTypes DEF HandlerInv, CacheInv, GetInv, InUse, AnswerInv, FoundInUse
<1>5. ASSUME NEW b \in Browsers, copies'[b] = copies[b], wire'[b] = wire[b] PROVE BrowserInv(b)'
  BY <1>1, <1>3, <1>5, BrowserKeeps DEF HandlerInv
<1>6. SUFFICES \A b \in Browsers : BrowserInv(b)'
  BY <1>2, <1>3, <1>4, <1>6 DEF HandlerInv, CacheStepInv
<1>7. CASE UNCHANGED <<copies, wire>>
  BY <1>5, <1>7
<1>8. ASSUME NEW a \in Browsers,
             handle_request(a) \/ Receive(a) \/ Lose(a) \/ \E f \in Files : Evict(a, f)
      PROVE  \A b \in Browsers : BrowserInv(b)'
  <2>1. BrowserInv(a)'
    BY <1>8, ResponseInv, BrowserStep
  <2>2. ASSUME NEW b \in Browsers, b # a PROVE copies'[b] = copies[b] /\ wire'[b] = wire[b]
    BY <1>8, <2>2
       DEF handle_request, SendNotFound, SendNotModified, SendFile, send_response, Receive, Lose,
           Evict, HandlerInv, HandlerTypeOK
  <2> QED BY <1>5, <2>1, <2>2
<1>9. CASE RestartServer \/ \E b \in Browsers, f \in Files : Ask(b, f)
  BY <1>7, <1>9 DEF RestartServer, Ask
<1>10. CASE UNCHANGED browserVars
  BY <1>7, <1>10 DEF browserVars
<1>11. CASE UNCHANGED handlerVars
  BY <1>7, <1>11 DEF handlerVars, browserVars
<1> QED BY <1>8, <1>9, <1>10, <1>11 DEF HandlerNext

THEOREM HandlerInvariant ==
    ASSUME DistinctStamps, \A shift \in Shifts : shift <= 0
    PROVE  HandlerSpec => [](CacheInv /\ HandlerInv)
BY InitHandlerInv, NextHandlerInv, PTL DEF HandlerSpec

\* A browser that is told "not modified" has a version that the server may
\* have answered with (file_handler.cpp 183-192), however often the server was
\* restarted since the browser got it; provided that every file can be opened
\* and none is of the epoch.
THEOREM NotModifiedMeansRight ==
    ASSUME DistinctStamps, StampsHaveData, \A shift \in Shifts : shift <= 0
    PROVE  HandlerSpec => []NotModifiedIsRight
<1>1. CacheInv /\ HandlerInv => NotModifiedIsRight
  <2> SUFFICES ASSUME HandlerInv, NEW b \in Browsers, wire[b] # Nothing,
                      wire[b].status = "NOTMODIFIED"
               PROVE  LET f == wire[b].file
                      IN  /\ copies[b][f] # NoCopy
                          /\ copies[b][f].data # NULL
                          /\ OnDiskWithin(f, copies[b][f].data.of, wire[b].version.asked)
    BY DEF NotModifiedIsRight
  <2> DEFINE r == wire[b]
             copy == copies[b][r.file]
  <2>1. copy # NoCopy /\ r.version \in Version /\ r.file \in Files
    BY ReceivedType DEF HandlerInv, BrowserInv
  <2>2. Received(b) = [r.version EXCEPT !.data = copy.data]
    BY <2>1 DEF Received
  <2>3. Received(b).data = copy.data /\ Received(b).asked = r.version.asked
    BY <2>1, <2>2 DEF Version
  <2>4. Received(b) # NoCopy
    <3>1. copy \in Version
      BY <2>1, ReceivedType DEF HandlerInv
    <3>2. Received(b) \in Version
      BY <2>1, <2>2, <3>1 DEF Version
    <3> QED BY <3>2, NoVersion
  <2>5. copy.data # NULL /\ VersionOnDisk(r.file, Received(b))
    BY <2>3, <2>4 DEF HandlerInv, BrowserInv, VersionInv, Genuine
  <2> QED BY <2>1, <2>3, <2>5 DEF VersionOnDisk
<1> QED BY <1>1, HandlerInvariant, PTL

\* What a browser shows without asking was on disk less than two periods ago
\* (file_handler.cpp 77-82), whatever cannot be opened.
THEOREM BrowserStalenessIsBounded ==
    ASSUME DistinctStamps, \A shift \in Shifts : shift <= 0
    PROVE  HandlerSpec => []BrowserStaleness
<1>1. CacheInv /\ HandlerInv => BrowserStaleness
  <2> SUFFICES ASSUME CacheInv, HandlerInv, NEW b \in Browsers, NEW f \in Files, Fresh(b, f),
                      copies[b][f].data # NULL
               PROVE  OnDiskWithin(f, copies[b][f].data.of, now - Period)
    BY DEF BrowserStaleness
  <2> DEFINE copy == copies[b][f]
             c == copy.data.of
  <2>1. copy \in Version /\ VersionOnDisk(f, copy) /\ now < copy.asked + Period
    BY ReceivedType DEF Fresh, HandlerInv, BrowserInv, VersionInv, Genuine
  <2>2. copy.asked \in Nat /\ c \in Contents /\ OnDiskWithin(f, c, copy.asked)
    BY <2>1 DEF Version, VersionOnDisk, Copy
  <2>3. now \in Nat /\ Period \in Nat /\ left[f][c] \in Int
    BY <2>2, CacheAssumption DEF CacheInv, TypeOK
  <2> QED BY <2>1, <2>2, <2>3 DEF OnDiskWithin
<1> QED BY <1>1, HandlerInvariant, PTL
=============================================================================
