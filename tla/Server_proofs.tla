---------------------------- MODULE Server_proofs ----------------------------
(***************************************************************************)
(* Theorems about Server, for any number of processes, of events and of    *)
(* paths, with their proofs.                                               *)
(***************************************************************************)
EXTENDS Server, SequenceTheorems, TLAPS

-----------------------------------------------------------------------------
(* The memory of a process.                                                *)

\* Lists of handlers, from the first to the last.
LEMMA HandlerListsAre ==
    /\ <<>> \in HandlerLists /\ <<"resources">> \in HandlerLists
    /\ PageUris \in HandlerLists /\ <<"resources">> \o PageUris \in HandlerLists
BY DEF HandlerLists

\* A process begins and ends with an empty memory.
LEMMA EmptyMemory == Empty \in Memory
<1>1. <<>> \in HandlerLists
  BY HandlerListsAre
<1>2. <<>> \in Seq(BOOLEAN)
  BY EmptySeq
<1> QED
  BY <1>1, <1>2 DEF Empty, Memory

LEMMA NumberOfPages == Len(Pages) = 4
BY DEF Pages

-----------------------------------------------------------------------------
(* The type of the state.                                                  *)

\* What a step does to pc, when one process goes to the next step.
LEMMA GoType ==
    ASSUME pc \in [Procs -> Steps], NEW p \in Procs, NEW step \in Steps, Go(p, step)
    PROVE  /\ pc' \in [Procs -> Steps]
           /\ pc'[p] = step
           /\ \A q \in Procs : q # p => pc'[q] = pc[q]
BY DEF Go

\* What the end of a process does.
LEMMA EndType ==
    ASSUME pc \in [Procs -> Steps], mem \in [Procs -> Memory], NEW p \in Procs, End(p)
    PROVE  /\ pc' \in [Procs -> Steps] /\ mem' \in [Procs -> Memory]
           /\ pc'[p] = "ended" /\ mem'[p] = Empty
           /\ \A q \in Procs : q # p => pc'[q] = pc[q] /\ mem'[q] = mem[q]
<1>1. "ended" \in Steps
  BY DEF Steps
<1> QED
  BY <1>1, EmptyMemory DEF End, Go

-----------------------------------------------------------------------------
(* What the steps that change the memory of a process leave there.         *)

\* The memories are typed, and only that of p has changed.
OnlyMemoryOf(p) ==
    /\ mem' \in [Procs -> Memory]
    /\ \A q \in Procs : q # p => mem'[q] = mem[q]

\* Process p is where it was, and has the same path to its files.
SamePlace(p) == mem'[p].absolute = mem[p].absolute /\ mem'[p].home = mem[p].home

LEMMA RootMemory ==
    ASSUME ServerTypeOK, NEW p \in Procs, InitializeFileHandler(p)
    PROVE  /\ OnlyMemoryOf(p) /\ SamePlace(p)
           /\ mem'[p].root = Finds(p, "resources")
           /\ mem'[p].handlers = mem[p].handlers /\ mem'[p].built = mem[p].built
<1> DEFINE found == Finds(p, "resources")
<1>1. mem \in [Procs -> Memory] /\ mem' = [mem EXCEPT ![p].root = found]
  BY DEF ServerTypeOK, InitializeFileHandler
<1>2. mem[p] \in Memory
  BY <1>1
<1>3. found \in BOOLEAN
  BY <1>2 DEF Finds, Memory
<1> HIDE DEF found
<1>4. [mem[p] EXCEPT !.root = found] \in Memory
  BY <1>2, <1>3 DEF Memory
<1>5. mem'[p] = [mem[p] EXCEPT !.root = found]
  BY <1>1
<1>6. mem' \in [Procs -> Memory] /\ \A q \in Procs : q # p => mem'[q] = mem[q]
  BY <1>1, <1>4
<1>7. mem'[p].root = found /\ mem'[p].handlers = mem[p].handlers
      /\ mem'[p].built = mem[p].built /\ SamePlace(p)
  BY <1>2, <1>5 DEF Memory, SamePlace
<1> QED
  BY <1>6, <1>7 DEF OnlyMemoryOf, found

LEMMA AttachMemory ==
    ASSUME ServerTypeOK, HandlersInv, NEW p \in Procs, AttachFileHandler(p)
    PROVE  /\ OnlyMemoryOf(p) /\ SamePlace(p)
           /\ mem'[p].handlers = IF mem[p].root THEN <<"resources">> ELSE <<>>
           /\ mem'[p].root = mem[p].root /\ mem'[p].built = mem[p].built
<1> DEFINE list == IF mem[p].root THEN Append(mem[p].handlers, "resources")
                   ELSE mem[p].handlers
<1>1. mem \in [Procs -> Memory] /\ pc[p] = "attach"
  BY DEF ServerTypeOK, AttachFileHandler
<1>2. mem[p].handlers = <<>>
  BY <1>1 DEF HandlersInv
<1>3. list = IF mem[p].root THEN <<"resources">> ELSE <<>>
  BY <1>2
<1>4. mem' = [mem EXCEPT ![p].handlers = list]
  BY DEF AttachFileHandler
<1>5. list \in HandlerLists
  BY <1>3, HandlerListsAre
<1> HIDE DEF list
<1>6. mem[p] \in Memory
  BY <1>1
<1>7. [mem[p] EXCEPT !.handlers = list] \in Memory
  BY <1>6, <1>5 DEF Memory
<1>8. mem'[p] = [mem[p] EXCEPT !.handlers = list]
  BY <1>1, <1>4
<1>9. mem' \in [Procs -> Memory] /\ \A q \in Procs : q # p => mem'[q] = mem[q]
  BY <1>1, <1>4, <1>7
<1>10. mem'[p].handlers = list /\ mem'[p].root = mem[p].root
       /\ mem'[p].built = mem[p].built /\ SamePlace(p)
  BY <1>6, <1>8 DEF Memory, SamePlace
<1> QED
  BY <1>3, <1>9, <1>10 DEF OnlyMemoryOf

LEMMA WordPickerMemory ==
    ASSUME ServerTypeOK, NEW p \in Procs, InitializeWordPicker(p)
    PROVE  /\ OnlyMemoryOf(p) /\ SamePlace(p) /\ mem'[p].root = mem[p].root
           /\ mem'[p].ready = Finds(p, "dictionary")
           /\ mem'[p].handlers = mem[p].handlers /\ mem'[p].built = mem[p].built
<1> DEFINE found == Finds(p, "dictionary")
<1>1. mem \in [Procs -> Memory] /\ mem' = [mem EXCEPT ![p].ready = found]
  BY DEF ServerTypeOK, InitializeWordPicker
<1>2. mem[p] \in Memory
  BY <1>1
<1>3. found \in BOOLEAN
  BY <1>2 DEF Finds, Memory
<1> HIDE DEF found
<1>4. [mem[p] EXCEPT !.ready = found] \in Memory
  BY <1>2, <1>3 DEF Memory
<1>5. mem'[p] = [mem[p] EXCEPT !.ready = found]
  BY <1>1
<1>6. mem' \in [Procs -> Memory] /\ \A q \in Procs : q # p => mem'[q] = mem[q]
  BY <1>1, <1>4
<1>7. mem'[p].ready = found /\ mem'[p].handlers = mem[p].handlers
      /\ mem'[p].built = mem[p].built /\ SamePlace(p) /\ mem'[p].root = mem[p].root
  BY <1>2, <1>5 DEF Memory, SamePlace
<1> QED
  BY <1>6, <1>7 DEF OnlyMemoryOf, found

\* Every page that was built has a text.
Texts(list) == \A k \in DOMAIN list : list[k]

LEMMA PageMemory ==
    ASSUME ServerTypeOK, NEW p \in Procs, BuildPage(p)
    PROVE  /\ OnlyMemoryOf(p) /\ SamePlace(p) /\ mem'[p].root = mem[p].root
           /\ Texts(mem[p].built) /\ (\A f \in TemplateFiles : Finds(p, f))
                => Texts(mem'[p].built)
           /\ Len(mem'[p].built) <= Len(Pages)
           /\ mem'[p].handlers = mem[p].handlers /\ mem'[p].ready = mem[p].ready
<1> DEFINE reads == Templates[Pages[Len(mem[p].built) + 1]]
           Has(k) == reads[k] \in mem[p].cached \/ Finds(p, reads[k])
           text == \A k \in DOMAIN reads : Has(k)
           news == {reads[k] : k \in {i \in DOMAIN reads : \A j \in 1 .. i : Has(j)}}
           pages == Append(mem[p].built, text)
           kept == mem[p].cached \cup news
<1>1. mem \in [Procs -> Memory] /\ Len(mem[p].built) < Len(Pages)
  BY DEF ServerTypeOK, BuildPage
<1>2. mem[p] \in Memory
  BY <1>1
<1>3. mem[p].built \in Seq(BOOLEAN) /\ mem[p].cached \in SUBSET TemplateFiles
  BY <1>2 DEF Memory
<1>4. Len(mem[p].built) + 1 \in 1 .. 4
  <2>1. Len(mem[p].built) \in Nat
    BY <1>3, LenProperties
  <2> QED
    BY <1>1, <2>1, NumberOfPages
<1>5. \A n \in 1 .. 4 : \A k \in DOMAIN Templates[Pages[n]] :
        Templates[Pages[n]][k] \in TemplateFiles
  <2> SUFFICES ASSUME NEW n \in 1 .. 4, NEW k \in DOMAIN Templates[Pages[n]]
               PROVE  Templates[Pages[n]][k] \in TemplateFiles
    OBVIOUS
  <2>1. n = 1 \/ n = 2 \/ n = 3 \/ n = 4
    OBVIOUS
  <2>2. CASE n = 1
    BY <2>2 DEF Pages, Templates, TemplateFiles
  <2>3. CASE n = 2
    BY <2>3 DEF Pages, Templates, TemplateFiles
  <2>4. CASE n = 3
    BY <2>4 DEF Pages, Templates, TemplateFiles
  <2>5. CASE n = 4
    BY <2>5 DEF Pages, Templates, TemplateFiles
  <2> QED
    BY <2>1, <2>2, <2>3, <2>4, <2>5
<1>6. \A k \in DOMAIN reads : reads[k] \in TemplateFiles
  BY <1>4, <1>5
<1>16. news \subseteq TemplateFiles
  BY <1>6
<1>7. text \in BOOLEAN
  BY Zenon
<1>17. (\A f \in TemplateFiles : Finds(p, f)) => text
  BY <1>6, Zenon
<1>8. kept \in SUBSET TemplateFiles
  BY <1>3, <1>16
<1>9. mem' = [mem EXCEPT ![p].built = pages, ![p].cached = kept]
  BY DEF BuildPage
<1> HIDE DEF text, news, kept
<1>10. /\ pages \in Seq(BOOLEAN) /\ Len(pages) = Len(mem[p].built) + 1
       /\ \A i \in 1 .. Len(mem[p].built) : pages[i] = mem[p].built[i]
       /\ pages[Len(mem[p].built) + 1] = text
  BY <1>3, <1>7, AppendProperties
<1>18. Texts(mem[p].built) /\ text => Texts(pages)
  <2> HIDE DEF pages
  <2>1. DOMAIN pages = 1 .. Len(mem[p].built) + 1 /\ DOMAIN mem[p].built = 1 .. Len(mem[p].built)
        /\ Len(mem[p].built) \in Nat
    BY <1>3, <1>10, LenProperties
  <2>2. \A i \in DOMAIN pages : i \in DOMAIN mem[p].built \/ i = Len(mem[p].built) + 1
    BY <2>1
  <2>3. \A i \in DOMAIN mem[p].built : pages[i] = mem[p].built[i]
    BY <1>10, <2>1
  <2>4. pages[Len(mem[p].built) + 1] = text
    BY <1>10
  <2> QED
    BY <2>2, <2>3, <2>4, Zenon DEF Texts
<1> HIDE DEF pages
<1>11. [mem[p] EXCEPT !.built = pages, !.cached = kept] \in Memory
  BY <1>2, <1>8, <1>10 DEF Memory
<1>12. mem'[p] = [mem[p] EXCEPT !.built = pages, !.cached = kept]
  BY <1>1, <1>9
<1>13. mem' \in [Procs -> Memory] /\ \A q \in Procs : q # p => mem'[q] = mem[q]
  BY <1>1, <1>9, <1>11
<1>14. mem'[p].built = pages /\ mem'[p].handlers = mem[p].handlers
       /\ mem'[p].ready = mem[p].ready /\ SamePlace(p) /\ mem'[p].root = mem[p].root
  BY <1>2, <1>12 DEF Memory, SamePlace
<1>15. Len(pages) <= Len(Pages)
  <2>1. Len(mem[p].built) \in Nat
    BY <1>3, LenProperties
  <2> QED
    BY <1>1, <1>10, <2>1, NumberOfPages
<1> QED
  BY <1>13, <1>14, <1>15, <1>17, <1>18 DEF OnlyMemoryOf

LEMMA PageHandlersMemory ==
    ASSUME ServerTypeOK, HandlersInv, NEW p \in Procs, AddPageHandlers(p)
    PROVE  /\ OnlyMemoryOf(p) /\ SamePlace(p) /\ mem'[p].root = mem[p].root
           /\ mem'[p].handlers = mem[p].handlers \o PageUris
           /\ mem'[p].handlers \in {PageUris, <<"resources">> \o PageUris}
           /\ mem'[p].built = mem[p].built /\ mem'[p].ready = mem[p].ready
<1> DEFINE list == mem[p].handlers \o PageUris
<1>1. mem \in [Procs -> Memory] /\ pc[p] = "pages"
  BY DEF ServerTypeOK, AddPageHandlers
<1>2. mem[p].handlers \in {<<>>, <<"resources">>}
  BY <1>1 DEF HandlersInv
<1>3. <<>> \o PageUris = PageUris
  BY DEF PageUris
<1>4. list \in {PageUris, <<"resources">> \o PageUris}
  BY <1>2, <1>3
<1>5. mem' = [mem EXCEPT ![p].handlers = list]
  BY DEF AddPageHandlers
<1>6. list \in HandlerLists
  BY <1>4, HandlerListsAre
<1> HIDE DEF list
<1>7. mem[p] \in Memory
  BY <1>1
<1>8. [mem[p] EXCEPT !.handlers = list] \in Memory
  BY <1>7, <1>6 DEF Memory
<1>9. mem'[p] = [mem[p] EXCEPT !.handlers = list]
  BY <1>1, <1>5
<1>10. mem' \in [Procs -> Memory] /\ \A q \in Procs : q # p => mem'[q] = mem[q]
  BY <1>1, <1>5, <1>8
<1>11. mem'[p].handlers = list /\ mem'[p].built = mem[p].built
       /\ mem'[p].ready = mem[p].ready /\ SamePlace(p) /\ mem'[p].root = mem[p].root
  BY <1>7, <1>9 DEF Memory, SamePlace
<1> QED
  BY <1>4, <1>10, <1>11 DEF OnlyMemoryOf, list

\* The steps of daemonize() leave what is about handlers, words and pages.
LEMMA DaemonMemory ==
    ASSUME ServerTypeOK, NEW p \in Procs,
           \/ Detach(p)
           \/ \E step \in {"main", "set_up"}, res_root \in {"none", "absolute", "relative"},
                 may_listen \in BOOLEAN : Start(p, step, res_root, may_listen)
    PROVE  /\ OnlyMemoryOf(p)
           /\ mem'[p].handlers = mem[p].handlers /\ mem'[p].ready = mem[p].ready
           /\ mem'[p].built = mem[p].built /\ mem'[p].root = mem[p].root
<1>1. mem \in [Procs -> Memory]
  BY DEF ServerTypeOK
<1>2. mem[p] \in Memory
  BY <1>1
<1>3. CASE Detach(p)
  <2>1. mem' = [mem EXCEPT ![p].home = FALSE]
    BY <1>3 DEF Detach
  <2>2. [mem[p] EXCEPT !.home = FALSE] \in Memory
    BY <1>2 DEF Memory
  <2>3. mem'[p] = [mem[p] EXCEPT !.home = FALSE]
    BY <1>1, <2>1
  <2>4. OnlyMemoryOf(p)
    BY <1>1, <2>1, <2>2 DEF OnlyMemoryOf
  <2> QED
    BY <1>2, <2>3, <2>4 DEF Memory
<1>4. CASE \E step \in {"main", "set_up"}, res_root \in {"none", "absolute", "relative"},
              may_listen \in BOOLEAN : Start(p, step, res_root, may_listen)
  <2>1. PICK absolute \in BOOLEAN : mem' = [mem EXCEPT ![p].absolute = absolute]
    <3>1. PICK res_root \in {"none", "absolute", "relative"} :
            mem' = [mem EXCEPT ![p].absolute = is_absolute(res_root)]
      BY <1>4 DEF Start
    <3>2. is_absolute(res_root) \in BOOLEAN
      BY DEF is_absolute
    <3> QED
      BY <3>1, <3>2
  <2>2. [mem[p] EXCEPT !.absolute = absolute] \in Memory
    BY <1>2 DEF Memory
  <2>3. mem'[p] = [mem[p] EXCEPT !.absolute = absolute]
    BY <1>1, <2>1
  <2>4. OnlyMemoryOf(p)
    BY <1>1, <2>1, <2>2 DEF OnlyMemoryOf
  <2> QED
    BY <1>2, <2>3, <2>4 DEF Memory
<1> QED
  BY <1>3, <1>4

\* The child begins with the memory of its parent, and the parent keeps its own.
LEMMA ForkMemory ==
    ASSUME ServerTypeOK, NEW p \in Procs, NEW q \in Procs, Fork(p, q)
    PROVE  /\ p # q
           /\ mem' \in [Procs -> Memory] /\ mem'[q] = mem[p]
           /\ \A r \in Procs : r # q => mem'[r] = mem[r]
           /\ pc' \in [Procs -> Steps] /\ pc[p] = "main" /\ pc[q] = "unused"
           /\ pc'[p] = "parent" /\ pc'[q] = "child"
           /\ \A r \in Procs : r # p /\ r # q => pc'[r] = pc[r]
<1>1. mem \in [Procs -> Memory] /\ pc \in [Procs -> Steps]
  BY DEF ServerTypeOK
<1>2. pc[p] = "main" /\ pc[q] = "unused" /\ p # q
  BY DEF Fork, IsNext
<1>3. mem' = [mem EXCEPT ![q] = mem[p]]
      /\ pc' = [pc EXCEPT ![p] = "parent", ![q] = "child"]
  BY DEF Fork
<1>4. "parent" \in Steps /\ "child" \in Steps
  BY DEF Steps
<1> QED
  BY <1>1, <1>2, <1>3, <1>4

-----------------------------------------------------------------------------
(* What a step of the server is, for the proofs that follow: a process goes *)
(* from one place to the next, and its memory with it.                       *)

\* Process p goes from a step to the next, and what it has then.
Moves(p, from, to) ==
    /\ pc[p] = from /\ pc'[p] = to
    /\ \A q \in Procs : q # p => pc'[q] = pc[q] /\ mem'[q] = mem[q]

Keeps(p) ==
    /\ mem'[p].handlers = mem[p].handlers
    /\ mem'[p].ready = mem[p].ready
    /\ mem'[p].built = mem[p].built
    /\ mem'[p].root = mem[p].root

\* The moves of a process but for fork().
ProcessMove(p) ==
    \/ \E to \in {"main", "set_up"} :
         /\ Moves(p, "unused", to) /\ Keeps(p)
         /\ origin' = [origin EXCEPT ![p] = p] /\ UNCHANGED port
    \/ /\ pc[p] # "unused" /\ Moves(p, pc[p], "ended") /\ mem'[p] = Empty
       /\ UNCHANGED origin /\ port' \in {port, Nobody} /\ (port' # port => port = p)
    \/ /\ UNCHANGED <<origin, port>>
       /\ \/ \E from \in {"main", "child"} : Moves(p, from, "set_up") /\ Keeps(p)
          \/ Moves(p, "set_up", "attach") /\ mem'[p].handlers = mem[p].handlers
             /\ mem'[p].built = mem[p].built
          \/ Moves(p, "attach", "words") /\ mem'[p].built = mem[p].built
             /\ mem'[p].root = mem[p].root
             /\ mem'[p].handlers = IF mem[p].root THEN <<"resources">> ELSE <<>>
          \/ \E to \in {"pages", "stuck"} :
               /\ Moves(p, "words", to) /\ (to = "pages" => mem'[p].ready)
               /\ mem'[p].handlers = mem[p].handlers /\ mem'[p].built = mem[p].built
               /\ mem'[p].root = mem[p].root
          \/ Moves(p, "pages", "pages") /\ Len(mem'[p].built) <= Len(Pages)
             /\ mem'[p].handlers = mem[p].handlers /\ mem'[p].ready = mem[p].ready
             /\ mem'[p].root = mem[p].root
          \/ Moves(p, "pages", "serve") /\ mem'[p].built = mem[p].built
             /\ mem'[p].handlers = mem[p].handlers \o PageUris
             /\ mem'[p].handlers \in {PageUris, <<"resources">> \o PageUris}
             /\ mem'[p].ready = mem[p].ready /\ mem'[p].root = mem[p].root
    \/ Moves(p, "serve", "serving") /\ Keeps(p) /\ UNCHANGED origin
       /\ port = Nobody /\ port' = p

LEMMA MainMoves ==
    ASSUME ServerTypeOK, HandlersInv, NEW p \in Procs,
           \/ ParentEnds(p) \/ DaemonizeFails(p) \/ Detach(p)
           \/ InitializeFileHandler(p) \/ AttachFileHandler(p)
           \/ InitializeWordPicker(p) \/ OutOfMemory(p)
           \/ BuildPage(p) \/ AddPageHandlers(p) \/ serve(p)
    PROVE  ProcessMove(p) /\ pc' \in [Procs -> Steps] /\ mem' \in [Procs -> Memory]
<1>1. pc \in [Procs -> Steps] /\ mem \in [Procs -> Memory]
  BY DEF ServerTypeOK
<1>2. Steps = {"unused", "main", "parent", "child", "set_up", "attach", "words", "stuck",
               "pages", "serve", "serving", "ended"}
  BY DEF Steps
<1>3. CASE ParentEnds(p)
  <2>1. pc[p] = "parent" /\ End(p) /\ UNCHANGED <<origin, port>>
    BY <1>3 DEF ParentEnds
  <2> QED
    BY <1>1, <2>1, EndType DEF ProcessMove, Moves
<1>4. CASE DaemonizeFails(p)
  <2>1. pc[p] \in {"main", "child"} /\ Go(p, "set_up") /\ UNCHANGED <<origin, mem, port>>
    BY <1>4 DEF DaemonizeFails
  <2>2. Keeps(p)
    BY <2>1 DEF Keeps
  <2> QED
    BY <1>1, <1>2, <2>1, <2>2, GoType DEF ProcessMove, Moves
<1>5. CASE Detach(p)
  <2>1. pc[p] = "child" /\ Go(p, "set_up") /\ UNCHANGED <<origin, port>>
    BY <1>5 DEF Detach
  <2>2. OnlyMemoryOf(p) /\ Keeps(p)
    BY <1>5, DaemonMemory DEF Keeps
  <2> QED
    BY <1>1, <1>2, <2>1, <2>2, GoType DEF ProcessMove, Moves, OnlyMemoryOf
<1>12. CASE InitializeFileHandler(p)
  <2>1. pc[p] = "set_up" /\ Go(p, "attach") /\ UNCHANGED <<origin, port>>
    BY <1>12 DEF InitializeFileHandler
  <2>2. OnlyMemoryOf(p) /\ mem'[p].handlers = mem[p].handlers /\ mem'[p].built = mem[p].built
    BY <1>12, RootMemory
  <2>3. Moves(p, "set_up", "attach") /\ pc' \in [Procs -> Steps]
    BY <1>1, <1>2, <2>1, <2>2, GoType DEF Moves, OnlyMemoryOf
  <2> QED
    BY <2>1, <2>2, <2>3 DEF ProcessMove, OnlyMemoryOf
<1>6. CASE AttachFileHandler(p)
  <2>1. pc[p] = "attach" /\ Go(p, "words") /\ UNCHANGED <<origin, port>>
    BY <1>6 DEF AttachFileHandler
  <2>2. OnlyMemoryOf(p) /\ mem'[p].handlers = (IF mem[p].root THEN <<"resources">> ELSE <<>>)
        /\ mem'[p].built = mem[p].built /\ mem'[p].root = mem[p].root
    BY <1>6, AttachMemory
  <2>3. Moves(p, "attach", "words") /\ pc' \in [Procs -> Steps]
    BY <1>1, <1>2, <2>1, <2>2, GoType DEF Moves, OnlyMemoryOf
  <2> QED
    BY <2>1, <2>2, <2>3 DEF ProcessMove, OnlyMemoryOf
<1>7. CASE InitializeWordPicker(p)
  <2>1. PICK to \in {"pages", "stuck"} :
          /\ pc[p] = "words" /\ Go(p, to) /\ UNCHANGED <<origin, port>>
          /\ to = "pages" => Finds(p, "dictionary")
    BY <1>7 DEF InitializeWordPicker
  <2>2. OnlyMemoryOf(p) /\ mem'[p].ready = Finds(p, "dictionary")
        /\ mem'[p].handlers = mem[p].handlers /\ mem'[p].built = mem[p].built
        /\ mem'[p].root = mem[p].root
    BY <1>7, WordPickerMemory
  <2>3. to \in Steps
    BY <1>2
  <2>4. Moves(p, "words", to) /\ pc' \in [Procs -> Steps]
    BY <1>1, <2>1, <2>2, <2>3, GoType DEF Moves, OnlyMemoryOf
  <2>5. to = "pages" => mem'[p].ready
    BY <2>1, <2>2
  <2> QED
    BY <2>1, <2>2, <2>4, <2>5 DEF ProcessMove, OnlyMemoryOf
<1>8. CASE OutOfMemory(p)
  <2>1. pc[p] = "stuck" /\ End(p) /\ UNCHANGED <<origin, port>>
    BY <1>8 DEF OutOfMemory
  <2> QED
    BY <1>1, <2>1, EndType DEF ProcessMove, Moves
<1>9. CASE BuildPage(p)
  <2>1. pc[p] = "pages" /\ UNCHANGED <<pc, origin, port>>
    BY <1>9 DEF BuildPage
  <2>2. OnlyMemoryOf(p) /\ Len(mem'[p].built) <= Len(Pages)
        /\ mem'[p].handlers = mem[p].handlers /\ mem'[p].ready = mem[p].ready
        /\ mem'[p].root = mem[p].root
    BY <1>9, PageMemory
  <2>3. Moves(p, "pages", "pages") /\ pc' \in [Procs -> Steps]
    BY <1>1, <2>1, <2>2 DEF Moves, OnlyMemoryOf
  <2> QED
    BY <2>1, <2>2, <2>3 DEF ProcessMove, OnlyMemoryOf
<1>10. CASE AddPageHandlers(p)
  <2>1. pc[p] = "pages" /\ Go(p, "serve") /\ UNCHANGED <<origin, port>>
    BY <1>10 DEF AddPageHandlers
  <2>2. OnlyMemoryOf(p) /\ mem'[p].handlers \in {PageUris, <<"resources">> \o PageUris}
        /\ mem'[p].handlers = mem[p].handlers \o PageUris
        /\ mem'[p].built = mem[p].built /\ mem'[p].ready = mem[p].ready
        /\ mem'[p].root = mem[p].root
    BY <1>10, PageHandlersMemory
  <2>3. Moves(p, "pages", "serve") /\ pc' \in [Procs -> Steps]
    BY <1>1, <1>2, <2>1, <2>2, GoType DEF Moves, OnlyMemoryOf
  <2> QED
    BY <2>1, <2>2, <2>3 DEF ProcessMove, OnlyMemoryOf
<1>11. CASE serve(p)
  <2>1. CASE port = Nobody /\ port' = p /\ Go(p, "serving") /\ UNCHANGED mem
    <3>1. pc[p] = "serve" /\ UNCHANGED origin
      BY <1>11 DEF serve
    <3>2. Keeps(p)
      BY <2>1 DEF Keeps
    <3>3. Moves(p, "serve", "serving") /\ pc' \in [Procs -> Steps]
      BY <1>1, <1>2, <2>1, <3>1, GoType DEF Moves
    <3> QED
      BY <1>1, <2>1, <3>1, <3>2, <3>3 DEF ProcessMove
  <2>2. CASE End(p) /\ UNCHANGED port
    <3>1. pc[p] = "serve" /\ UNCHANGED origin
      BY <1>11 DEF serve
    <3> QED
      BY <1>1, <2>2, <3>1, EndType DEF ProcessMove, Moves
  <2> QED
    BY <1>11, <2>1, <2>2 DEF serve, binds
<1> QED
  BY <1>3, <1>4, <1>5, <1>6, <1>7, <1>8, <1>9, <1>10, <1>11, <1>12

\* Another program takes the port or leaves it, or nothing of the kind.
OthersPort == port' = port \/ (port \in {Nobody, Other} /\ port' \in {Nobody, Other})

\* A step moves one process, or forks one, or is of the files and the port only.
LEMMA StepMoves ==
    ASSUME ServerTypeOK, HandlersInv, [Next]_vars
    PROVE  \/ \E p \in Procs :
                ProcessMove(p) /\ pc' \in [Procs -> Steps] /\ mem' \in [Procs -> Memory]
           \/ \E p, q \in Procs : Fork(p, q)
           \/ UNCHANGED <<pc, origin, mem>> /\ OthersPort
<1>1. pc \in [Procs -> Steps] /\ mem \in [Procs -> Memory]
  BY DEF ServerTypeOK
<1>2. ASSUME NEW p \in Procs, main(p)
      PROVE  \/ ProcessMove(p) /\ pc' \in [Procs -> Steps] /\ mem' \in [Procs -> Memory]
             \/ \E q \in Procs : Fork(p, q)
  BY <1>2, MainMoves DEF main
<1>3. ASSUME NEW p \in Procs, Kill(p)
      PROVE  ProcessMove(p) /\ pc' \in [Procs -> Steps] /\ mem' \in [Procs -> Memory]
  <2>1. pc[p] # "unused" /\ End(p) /\ UNCHANGED origin
        /\ port' = IF port = p THEN Nobody ELSE port
    BY <1>3 DEF Kill
  <2>2. port' \in {port, Nobody} /\ (port' # port => port = p)
    BY <2>1
  <2> QED
    BY <1>1, <2>1, <2>2, EndType DEF ProcessMove, Moves
<1>4. ASSUME NEW p \in Procs, NEW step \in {"main", "set_up"},
             NEW res_root \in {"none", "absolute", "relative"}, NEW may_listen \in BOOLEAN,
             Start(p, step, res_root, may_listen)
      PROVE  ProcessMove(p) /\ pc' \in [Procs -> Steps] /\ mem' \in [Procs -> Memory]
  <2>1. pc[p] = "unused" /\ Go(p, step) /\ UNCHANGED port
        /\ origin' = [origin EXCEPT ![p] = p]
    BY <1>4 DEF Start, IsNext
  <2>2. OnlyMemoryOf(p) /\ Keeps(p)
    BY <1>4, DaemonMemory DEF Keeps
  <2>3. step \in Steps
    BY DEF Steps
  <2> QED
    BY <1>1, <2>1, <2>2, <2>3, GoType DEF ProcessMove, Moves, OnlyMemoryOf
<1>5. ASSUME NEW t, ChangeTree(t)
      PROVE  UNCHANGED <<pc, origin, mem>> /\ OthersPort
  BY <1>5 DEF ChangeTree, OthersPort
<1>6. CASE UsePort(Nobody, Other) \/ UsePort(Other, Nobody)
  BY <1>6 DEF UsePort, OthersPort
<1> QED
  BY <1>2, <1>3, <1>4, <1>5, <1>6 DEF Next, vars, OthersPort

-----------------------------------------------------------------------------
(* The invariant.                                                          *)

LEMMA InitServer == Init => ServerInv
<1> SUFFICES ASSUME Init PROVE ServerInv
  OBVIOUS
<1>1. Empty.handlers = <<>> /\ Empty.built = <<>> /\ Len(Empty.built) = 0
  BY DEF Empty
<1>2. ServerTypeOK
  <2>1. pc \in [Procs -> Steps] /\ origin \in [Procs -> Procs]
    BY DEF Init, Steps
  <2>2. mem \in [Procs -> Memory]
    BY EmptyMemory DEF Init
  <2>3. \A p \in Procs : Len(mem[p].built) <= Len(Pages)
    BY <1>1, NumberOfPages DEF Init
  <2>4. /\ port \in Procs \cup {Nobody, Other} /\ tree \in SUBSET Tree
        /\ allowed \in SUBSET Procs /\ spoiled \in SUBSET Procs /\ refused \in SUBSET Procs
    BY DEF Init
  <2>5. events \in 0 .. MaxEvents
    BY ServerAssumption DEF Init
  <2> QED
    BY <2>1, <2>2, <2>3, <2>4, <2>5 DEF ServerTypeOK
<1>3. HandlersInv
  BY <1>1 DEF Init, HandlersInv
<1>4. RootInv /\ DictionaryInv /\ DescentInv /\ PortInv
  BY <1>1 DEF Init, RootInv, DictionaryInv, DescentInv, PortInv, MayServe
<1> QED
  BY <1>2, <1>3, <1>4 DEF ServerInv

\* Where the files and the counters go.
LEMMA FilesType ==
    ASSUME ServerTypeOK, [Next]_vars
    PROVE  tree' \in SUBSET Tree /\ events' \in 0 .. MaxEvents
<1>1. tree \in SUBSET Tree /\ events \in 0 .. MaxEvents
  BY DEF ServerTypeOK
<1>2. ASSUME NEW p \in Procs, main(p)
      PROVE  UNCHANGED <<tree, events>>
  BY <1>2 DEF main, Fork, ParentEnds, DaemonizeFails, Detach, InitializeFileHandler,
      AttachFileHandler, InitializeWordPicker, OutOfMemory, BuildPage, AddPageHandlers, serve
<1>3. ASSUME NEW p \in Procs, Kill(p)
      PROVE  UNCHANGED tree /\ events' \in 0 .. MaxEvents
  BY <1>1, <1>3, ServerAssumption DEF Kill
<1>4. ASSUME NEW p \in Procs, NEW step, NEW res_root, NEW may_listen,
             Start(p, step, res_root, may_listen)
      PROVE  UNCHANGED <<tree, events>>
  BY <1>4 DEF Start
<1>5. ASSUME NEW file \in Tree, ChangeTree(tree \cup {file}) \/ ChangeTree(tree \ {file})
      PROVE  tree' \in SUBSET Tree /\ events' \in 0 .. MaxEvents
  BY <1>1, <1>5, ServerAssumption DEF ChangeTree
<1>6. ASSUME NEW from, NEW to, UsePort(from, to)
      PROVE  UNCHANGED tree /\ events' \in 0 .. MaxEvents
  BY <1>1, <1>6, ServerAssumption DEF UsePort
<1> QED
  BY <1>1, <1>2, <1>3, <1>4, <1>5, <1>6 DEF Next, vars

\* The sets of starts.
LEMMA StartsType ==
    ASSUME ServerTypeOK, [Next]_vars
    PROVE  allowed' \in SUBSET Procs /\ spoiled' \in SUBSET Procs /\ refused' \in SUBSET Procs
<1>1. /\ allowed \in SUBSET Procs /\ spoiled \in SUBSET Procs /\ refused \in SUBSET Procs
      /\ origin \in [Procs -> Procs]
  BY DEF ServerTypeOK
<1>2. ASSUME NEW p \in Procs, main(p)
      PROVE  UNCHANGED <<allowed, spoiled>> /\ refused' \in {refused, refused \cup {origin[p]}}
  BY <1>2 DEF main, Fork, ParentEnds, DaemonizeFails, Detach, InitializeFileHandler,
      AttachFileHandler, InitializeWordPicker, OutOfMemory, BuildPage, AddPageHandlers, serve
<1>3. ASSUME NEW p \in Procs, Kill(p)
      PROVE  UNCHANGED <<allowed, refused>> /\ spoiled' \in SUBSET Procs
  BY <1>1, <1>3 DEF Kill
<1>4. ASSUME NEW p \in Procs, NEW step, NEW res_root, NEW may_listen,
             Start(p, step, res_root, may_listen)
      PROVE  UNCHANGED refused /\ allowed' \in SUBSET Procs /\ spoiled' \in SUBSET Procs
  BY <1>1, <1>4 DEF Start
<1>5. ASSUME NEW t, ChangeTree(t)
      PROVE  UNCHANGED <<allowed, refused>> /\ spoiled' \in SUBSET Procs
  BY <1>1, <1>5 DEF ChangeTree, Starting
<1>6. ASSUME NEW from, NEW to, UsePort(from, to)
      PROVE  UNCHANGED <<allowed, spoiled, refused>>
  BY <1>6 DEF UsePort
<1>7. ASSUME NEW p \in Procs, main(p)
      PROVE  refused' \in SUBSET Procs
  BY <1>1, <1>2, <1>7
<1> QED
  BY <1>1, <1>2, <1>3, <1>4, <1>5, <1>6, <1>7 DEF Next, vars

LEMMA TypeStep ==
    ASSUME ServerTypeOK, HandlersInv, [Next]_vars
    PROVE  ServerTypeOK'
<1>1. origin \in [Procs -> Procs] /\ port \in Procs \cup {Nobody, Other}
      /\ pc \in [Procs -> Steps] /\ mem \in [Procs -> Memory]
      /\ \A p \in Procs : Len(mem[p].built) <= Len(Pages)
  BY DEF ServerTypeOK
<1>2. Len(Empty.built) <= Len(Pages)
  BY NumberOfPages DEF Empty
<1>3. /\ pc' \in [Procs -> Steps] /\ mem' \in [Procs -> Memory]
      /\ origin' \in [Procs -> Procs] /\ port' \in Procs \cup {Nobody, Other}
      /\ \A p \in Procs : Len(mem'[p].built) <= Len(Pages)
  <2>1. ASSUME NEW p \in Procs, ProcessMove(p)
        PROVE  /\ origin' \in [Procs -> Procs] /\ port' \in Procs \cup {Nobody, Other}
               /\ \A q \in Procs : Len(mem'[q].built) <= Len(Pages)
    <3>1. origin' \in [Procs -> Procs] /\ port' \in Procs \cup {Nobody, Other}
      <4>1. origin' = [origin EXCEPT ![p] = p] \/ UNCHANGED origin
        BY <2>1 DEF ProcessMove
      <4>2. origin' \in [Procs -> Procs]
        BY <1>1, <4>1
      <4>3. UNCHANGED port \/ port' \in {port, Nobody} \/ port' = p
        BY <2>1 DEF ProcessMove
      <4> QED
        BY <1>1, <4>2, <4>3
    <3>2. Len(mem'[p].built) <= Len(Pages)
      BY <1>1, <1>2, <2>1 DEF ProcessMove, Keeps
    <3>3. \A q \in Procs : q # p => mem'[q] = mem[q]
      BY <2>1 DEF ProcessMove, Moves
    <3> QED
      BY <1>1, <3>1, <3>2, <3>3
  <2>2. ASSUME NEW p \in Procs, NEW q \in Procs, Fork(p, q)
        PROVE  /\ pc' \in [Procs -> Steps] /\ mem' \in [Procs -> Memory]
               /\ origin' \in [Procs -> Procs] /\ port' \in Procs \cup {Nobody, Other}
               /\ \A r \in Procs : Len(mem'[r].built) <= Len(Pages)
    <3>1. origin' = [origin EXCEPT ![q] = origin[p]] /\ UNCHANGED port
      BY <2>2 DEF Fork
    <3>2. pc' \in [Procs -> Steps] /\ mem' \in [Procs -> Memory] /\ mem'[q] = mem[p]
          /\ \A r \in Procs : r # q => mem'[r] = mem[r]
      BY <2>2, ForkMemory
    <3> QED
      BY <1>1, <3>1, <3>2
  <2> QED
    BY <1>1, <2>1, <2>2, StepMoves DEF OthersPort
<1> QED
  BY <1>3, FilesType, StartsType DEF ServerTypeOK

LEMMA HandlersStep ==
    ASSUME ServerTypeOK, HandlersInv, [Next]_vars
    PROVE  HandlersInv'
<1>1. ASSUME NEW p \in Procs, ProcessMove(p)
      PROVE  HandlersInv'
  <2>1. \A q \in Procs : q # p => pc'[q] = pc[q] /\ mem'[q] = mem[q]
    BY <1>1 DEF ProcessMove, Moves
  <2>2. mem'[p].handlers \in
          CASE pc'[p] \in {"serve", "serving"}         -> {PageUris, <<"resources">> \o PageUris}
            [] pc'[p] \in {"words", "stuck", "pages"}  -> {<<>>, <<"resources">>}
            [] OTHER                                   -> {<<>>}
    <3>1. mem[p].handlers \in
            CASE pc[p] \in {"serve", "serving"}         -> {PageUris, <<"resources">> \o PageUris}
              [] pc[p] \in {"words", "stuck", "pages"}  -> {<<>>, <<"resources">>}
              [] OTHER                                  -> {<<>>}
      BY DEF HandlersInv
    <3>2. Empty.handlers = <<>>
      BY DEF Empty
    <3> HIDE DEF PageUris
    <3> QED
      BY <1>1, <3>1, <3>2 DEF ProcessMove, Moves, Keeps
  <2> QED
    BY <2>1, <2>2 DEF HandlersInv
<1>2. ASSUME NEW p \in Procs, NEW q \in Procs, Fork(p, q)
      PROVE  HandlersInv'
  <2>1. mem[p].handlers \in {<<>>}
    BY <1>2, ForkMemory DEF HandlersInv
  <2> QED
    BY <1>2, <2>1, ForkMemory DEF HandlersInv
<1> QED
  BY <1>1, <1>2, StepMoves DEF HandlersInv

\* The handler for files was added with a file root, which it keeps.
LEMMA RootStep ==
    ASSUME ServerInv, [Next]_vars
    PROVE  RootInv'
<1>1. ServerTypeOK /\ HandlersInv /\ RootInv
  BY DEF ServerInv
<1>2. ASSUME NEW p \in Procs, ProcessMove(p)
      PROVE  RootInv'
  <2>1. \A q \in Procs : q # p => mem'[q] = mem[q]
    BY <1>2 DEF ProcessMove, Moves
  <2>2. mem[p].handlers \notin {<<>>, PageUris} => mem[p].root
    BY <1>1 DEF RootInv
  <2>3. mem'[p].handlers \notin {<<>>, PageUris} => mem'[p].root
    <3>1. CASE mem'[p] = Empty
      BY <3>1 DEF Empty
    <3>2. CASE mem'[p].handlers = mem[p].handlers /\ mem'[p].root = mem[p].root
      BY <2>2, <3>2
    <3>3. CASE /\ mem'[p].root = mem[p].root
               /\ mem'[p].handlers = IF mem[p].root THEN <<"resources">> ELSE <<>>
      BY <3>3
    <3>4. CASE pc[p] = "set_up" /\ mem'[p].handlers = mem[p].handlers
      BY <1>1, <3>4 DEF HandlersInv
    <3>5. CASE /\ pc[p] = "pages" /\ mem'[p].root = mem[p].root
               /\ mem'[p].handlers = mem[p].handlers \o PageUris
      <4>1. mem[p].handlers \in {<<>>, <<"resources">>}
        BY <1>1, <3>5 DEF HandlersInv
      <4>2. <<>> \o PageUris = PageUris /\ <<"resources">> # PageUris
        BY DEF PageUris
      <4> QED
        BY <2>2, <3>5, <4>1, <4>2
    <3> HIDE DEF PageUris
    <3> QED
      BY <1>2, <3>1, <3>2, <3>3, <3>4, <3>5 DEF ProcessMove, Moves, Keeps
  <2> QED
    BY <2>1, <2>2, <2>3, <1>1 DEF RootInv
<1>3. ASSUME NEW p \in Procs, NEW q \in Procs, Fork(p, q)
      PROVE  RootInv'
  BY <1>1, <1>3, ForkMemory DEF RootInv
<1> QED
  BY <1>1, <1>2, <1>3, StepMoves DEF RootInv

LEMMA DictionaryStep ==
    ASSUME ServerInv, [Next]_vars
    PROVE  DictionaryInv'
<1> USE DEF ServerInv
<1>1. ASSUME NEW p \in Procs, ProcessMove(p)
      PROVE  DictionaryInv'
  BY <1>1 DEF ProcessMove, Moves, Keeps, DictionaryInv
<1>2. ASSUME NEW p \in Procs, NEW q \in Procs, Fork(p, q)
      PROVE  DictionaryInv'
  BY <1>2, ForkMemory DEF DictionaryInv
<1> QED
  BY <1>1, <1>2, StepMoves DEF DictionaryInv

LEMMA DescentStep ==
    ASSUME ServerInv, [Next]_vars
    PROVE  DescentInv'
<1>1. origin \in [Procs -> Procs] /\ ServerTypeOK /\ HandlersInv /\ DescentInv
  BY DEF ServerInv, ServerTypeOK
<1>2. ASSUME NEW p \in Procs, ProcessMove(p)
      PROVE  DescentInv'
  <2>1. \A q \in Procs : q # p => pc'[q] = pc[q]
    BY <1>2 DEF ProcessMove, Moves
  <2>2. CASE pc[p] = "unused" /\ pc'[p] # "unused" /\ origin' = [origin EXCEPT ![p] = p]
    BY <1>1, <2>1, <2>2 DEF DescentInv, MayServe
  <2>3. CASE pc[p] # "unused" /\ pc'[p] # "unused" /\ UNCHANGED origin
             /\ (MayServe(p)' => MayServe(p))
    BY <1>1, <2>1, <2>3 DEF DescentInv, MayServe
  <2> QED
    BY <1>2, <2>2, <2>3 DEF ProcessMove, Moves, MayServe
<1>3. ASSUME NEW p \in Procs, NEW q \in Procs, Fork(p, q)
      PROVE  DescentInv'
  <2>1. origin' = [origin EXCEPT ![q] = origin[p]]
    BY <1>3 DEF Fork
  <2> QED
    BY <1>1, <1>3, <2>1, ForkMemory DEF DescentInv, MayServe
<1>4. CASE UNCHANGED <<pc, origin, mem>>
  BY <1>1, <1>4 DEF DescentInv, MayServe
<1> QED
  BY <1>1, <1>2, <1>3, <1>4, StepMoves

LEMMA PortStep ==
    ASSUME ServerInv, [Next]_vars
    PROVE  PortInv'
<1>1. ServerTypeOK /\ HandlersInv /\ PortInv /\ Nobody \notin Procs
  BY ServerAssumption DEF ServerInv
<1>2. ASSUME NEW p \in Procs, ProcessMove(p)
      PROVE  PortInv'
  BY <1>1, <1>2 DEF ProcessMove, Moves, PortInv
<1>3. ASSUME NEW p \in Procs, NEW q \in Procs, Fork(p, q)
      PROVE  PortInv'
  <2>1. UNCHANGED port
    BY <1>3 DEF Fork
  <2> QED
    BY <1>1, <1>3, <2>1, ForkMemory DEF PortInv
<1> QED
  BY <1>1, <1>2, <1>3, StepMoves, ServerAssumption DEF PortInv, OthersPort

\* In every state of every run, what a process has done is seen from where it is.
THEOREM ServerInvariant == Spec => []ServerInv
<1>1. Init => ServerInv
  BY InitServer
<1>2. ServerInv /\ [Next]_vars => ServerInv'
  <2> SUFFICES ASSUME ServerInv, [Next]_vars PROVE ServerInv'
    OBVIOUS
  <2>1. ServerTypeOK /\ HandlersInv
    BY DEF ServerInv
  <2> QED
    BY <2>1, TypeStep, HandlersStep, RootStep, DictionaryStep, DescentStep, PortStep DEF ServerInv
<1> QED
  BY <1>1, <1>2, PTL DEF Spec

-----------------------------------------------------------------------------
(* What the invariant shows.                                               *)

\* The state has its type: no handler is added twice however the process was
\* started and whatever was missing.
THEOREM ServerTypeCorrect == Spec => []ServerTypeOK
<1>1. ServerInv => ServerTypeOK
  BY DEF ServerInv
<1> QED
  BY <1>1, ServerInvariant, PTL

\* However daemonize() ends, one process at most goes on from one start, and
\* one of all of them serves.
THEOREM OneProcessGoesOn == Spec => []OneGoesOn
<1>1. ServerInv => OneGoesOn
  BY DEF ServerInv, DescentInv, PortInv, OneGoesOn, SettingUp, MayServe
<1> QED
  BY <1>1, ServerInvariant, PTL

\* A process that serves has read its dictionary.
THEOREM ServesWithDictionary == Spec => []ReadyToServe
<1>1. ServerInv => ReadyToServe
  BY DEF ServerInv, DictionaryInv, ReadyToServe
<1> QED
  BY <1>1, ServerInvariant, PTL

\* The handler that is chosen, when every handler was added once at most.
LEMMA ChosenHandler ==
    ASSUME NEW p \in Procs, NEW uri \in Uris, NEW n \in Nat,
           DOMAIN mem[p].handlers = 1 .. n,
           \A k \in 1 .. n : mem[p].handlers[k] \in Handlers,
           \A j, k \in 1 .. n : mem[p].handlers[j] = mem[p].handlers[k] => j = k
    PROVE  /\ \A h \in Handlers : uri \in Patterns[h] =>
                \/ /\ handle_request(p, uri) = h
                   /\ \E k \in 1 .. n : mem[p].handlers[k] = h
                \/ /\ handle_request(p, uri) = "not_found"
                   /\ \A k \in 1 .. n : mem[p].handlers[k] # h
           /\ (\A h \in Handlers : uri \notin Patterns[h]) => handle_request(p, uri) = "not_found"
<1> DEFINE added == mem[p].handlers
           matching == {k \in DOMAIN added : matches(added[k], uri)}
<1>1. ASSUME NEW h \in Handlers, uri \in Patterns[h]
      PROVE  \/ handle_request(p, uri) = h /\ \E k \in 1 .. n : added[k] = h
             \/ /\ handle_request(p, uri) = "not_found"
                /\ \A k \in 1 .. n : added[k] # h
  <2>1. \A k \in matching : added[k] = h
    BY <1>1, ServerAssumption DEF matches
  <2>2. \A k \in 1 .. n : added[k] = h => k \in matching
    BY <1>1 DEF matches
  <2>3. CASE matching = {}
    BY <2>2, <2>3 DEF handle_request
  <2>4. CASE matching # {}
    <3>1. PICK k \in matching : TRUE
      BY <2>4
    <3>2. k \in 1 .. n /\ \A j \in matching : k <= j
      BY <2>1, <3>1
    <3>3. (CHOOSE i \in matching : \A j \in matching : i <= j) \in matching
      BY <3>2
    <3>4. handle_request(p, uri) = added[CHOOSE i \in matching : \A j \in matching : i <= j]
      BY <2>4 DEF handle_request
    <3> QED
      BY <2>1, <3>2, <3>3, <3>4
  <2> QED
    BY <2>3, <2>4
<1>2. (\A h \in Handlers : uri \notin Patterns[h]) => handle_request(p, uri) = "not_found"
  BY DEF handle_request, matches
<1> QED
  BY <1>1, <1>2

\* The list of all handlers, one by one.
LEMMA ListOfFive ==
    LET s == <<"resources">> \o PageUris
    IN  /\ DOMAIN s = 1 .. 5
        /\ s[1] = "resources" /\ s[2] = "main_page" /\ s[3] = "about"
        /\ s[4] = "fine_print" /\ s[5] = "words"
<1> DEFINE one == <<"resources">>
           four == <<"main_page", "about", "fine_print", "words">>
           all == one \o four
<1>1. one \in Seq(Handlers) /\ four \in Seq(Handlers) /\ Len(one) = 1 /\ Len(four) = 4
  BY DEF Handlers
<1>2. one[1] = "resources" /\ four[1] = "main_page" /\ four[2] = "about"
      /\ four[3] = "fine_print" /\ four[4] = "words"
  OBVIOUS
<1> HIDE DEF one, four
<1>3. all \in Seq(Handlers) /\ Len(all) = 5
      /\ \A i \in 1 .. 5 : all[i] = IF i <= 1 THEN one[i] ELSE four[i - 1]
  <2>1. /\ all \in Seq(Handlers) /\ Len(all) = Len(one) + Len(four)
        /\ \A i \in 1 .. Len(one) + Len(four) :
             all[i] = IF i <= Len(one) THEN one[i] ELSE four[i - Len(one)]
    BY <1>1, ConcatProperties, Zenon
  <2> QED
    BY <1>1, <2>1
<1>4. DOMAIN all = 1 .. 5
  BY <1>3, LenProperties
<1>5. all[1] = one[1] /\ all[2] = four[1] /\ all[3] = four[2]
      /\ all[4] = four[3] /\ all[5] = four[4]
  BY <1>3
<1> QED
  BY <1>2, <1>4, <1>5 DEF one, four, PageUris

\* The two lists of handlers that a process can serve with.
LEMMA ServingLists ==
    ASSUME NEW list \in {PageUris, <<"resources">> \o PageUris}
    PROVE  \E n \in {4, 5} :
             /\ DOMAIN list = 1 .. n
             /\ \A k \in 1 .. n : list[k] \in Handlers
             /\ \A j, k \in 1 .. n : list[j] = list[k] => j = k
             /\ \A h \in Handlers \ {"resources"} : \E k \in 1 .. n : list[k] = h
             /\ (\E k \in 1 .. n : list[k] = "resources") => list \notin {<<>>, PageUris}
<1>1. CASE list = <<"main_page", "about", "fine_print", "words">>
  <2>1. DOMAIN list = 1 .. 4
    BY <1>1
  <2>2. list[1] = "main_page" /\ list[2] = "about" /\ list[3] = "fine_print" /\ list[4] = "words"
    BY <1>1
  <2>3. \A k \in 1 .. 4 : k = 1 \/ k = 2 \/ k = 3 \/ k = 4
    OBVIOUS
  <2>4. \A k \in 1 .. 4 : list[k] \in Handlers
    BY <2>2, <2>3 DEF Handlers
  <2>5. \A j, k \in 1 .. 4 : list[j] = list[k] => j = k
    BY <2>2, <2>3
  <2>6. \A h \in Handlers \ {"resources"} : \E k \in 1 .. 4 : list[k] = h
    BY <2>2 DEF Handlers
  <2>7. \A k \in 1 .. 4 : list[k] # "resources"
    BY <2>2, <2>3
  <2> QED
    BY <2>1, <2>4, <2>5, <2>6, <2>7
<1>2. CASE list = <<"resources">> \o PageUris
  <2>1. DOMAIN list = 1 .. 5
    BY <1>2, ListOfFive
  <2>2. list[1] = "resources" /\ list[2] = "main_page" /\ list[3] = "about"
        /\ list[4] = "fine_print" /\ list[5] = "words"
    BY <1>2, ListOfFive
  <2>3. \A k \in 1 .. 5 : k = 1 \/ k = 2 \/ k = 3 \/ k = 4 \/ k = 5
    OBVIOUS
  <2>4. \A k \in 1 .. 5 : list[k] \in Handlers
    BY <2>2, <2>3 DEF Handlers
  <2>5. \A j, k \in 1 .. 5 : list[j] = list[k] => j = k
    BY <2>2, <2>3
  <2>6. \A h \in Handlers \ {"resources"} : \E k \in 1 .. 5 : list[k] = h
    BY <2>2 DEF Handlers
  <2>7. list \notin {<<>>, PageUris}
    BY <2>2 DEF PageUris
  <2> QED
    BY <2>1, <2>4, <2>5, <2>6, <2>7
<1> QED
  BY <1>1, <1>2 DEF PageUris

LEMMA ResourcesFirst ==
    LET s == <<"resources">> \o PageUris
    IN  1 \in DOMAIN s /\ s[1] = "resources"
BY ListOfFive

\* Whatever went wrong while it started, a process that serves answers a path
\* with the handler it belongs to, except that files may all be "not found"; and
\* a file handler that is chosen has a file root.
THEOREM RightHandlerAnswers == Spec => []RightHandler
<1>1. ASSUME ServerInv
      PROVE  RightHandler
  <2> SUFFICES ASSUME NEW p \in Procs, NEW uri \in Uris, pc[p] = "serving"
               PROVE  /\ \/ handle_request(p, uri) = Owner(uri)
                         \/ Owner(uri) = "resources" /\ handle_request(p, uri) = "not_found"
                      /\ handle_request(p, uri) = "resources" => mem[p].root
    BY DEF RightHandler
  <2>1. mem[p].handlers \in {PageUris, <<"resources">> \o PageUris}
    BY <1>1 DEF ServerInv, HandlersInv
  <2>2. PICK n \in {4, 5} :
          /\ DOMAIN mem[p].handlers = 1 .. n
          /\ \A k \in 1 .. n : mem[p].handlers[k] \in Handlers
          /\ \A j, k \in 1 .. n : mem[p].handlers[j] = mem[p].handlers[k] => j = k
          /\ \A h \in Handlers \ {"resources"} : \E k \in 1 .. n : mem[p].handlers[k] = h
          /\ (\E k \in 1 .. n : mem[p].handlers[k] = "resources")
               => mem[p].handlers \notin {<<>>, PageUris}
    BY <2>1, ServingLists
  <2>3. (\E k \in 1 .. n : mem[p].handlers[k] = "resources") => mem[p].root
    BY <1>1, <2>2 DEF ServerInv, RootInv
  <2>4. CASE \E h \in Handlers : uri \in Patterns[h]
    <3>1. Owner(uri) \in Handlers /\ uri \in Patterns[Owner(uri)]
      BY <2>4 DEF Owner
    <3>2. \/ /\ handle_request(p, uri) = Owner(uri)
             /\ \E k \in 1 .. n : mem[p].handlers[k] = Owner(uri)
          \/ /\ handle_request(p, uri) = "not_found"
             /\ \A k \in 1 .. n : mem[p].handlers[k] # Owner(uri)
      BY <2>2, <3>1, ChosenHandler
    <3> QED
      BY <2>2, <2>3, <3>1, <3>2 DEF Handlers
  <2>5. CASE \A h \in Handlers : uri \notin Patterns[h]
    <3>1. Owner(uri) = "not_found"
      BY <2>5 DEF Owner
    <3>2. handle_request(p, uri) = "not_found"
      BY <2>2, <2>5, ChosenHandler
    <3> QED
      BY <3>1, <3>2
  <2> QED
    BY <2>4, <2>5
<1> QED
  BY <1>1, ServerInvariant, PTL

-----------------------------------------------------------------------------
(* Of a start that was left in peace.                                      *)

\* A step that is not of process q.
Steady(q) ==
    /\ pc'[q] = pc[q] /\ mem'[q] = mem[q] /\ origin'[q] = origin[q]
    /\ spoiled \subseteq spoiled'
    /\ tree' = tree \/ tree' = Tree \/ (q \in Starting => origin[q] \in spoiled')

LEMMA SteadyWhole ==
    ASSUME NEW q \in Procs, Whole(q), Steady(q)
    PROVE  Whole(q)'
<1> SUFFICES ASSUME MayServe(q)', (origin[q] \notin spoiled)'
             PROVE  /\ pc[q] # "serving" => tree' = Tree
                    /\ mem[q].absolute \/ (mem[q].home /\ pc[q] \notin {"main", "child"})
                    /\ pc[q] # "stuck"
                    /\ pc[q] = "attach" => mem[q].root
                    /\ pc[q] \in {"words", "pages"} => mem[q].handlers = <<"resources">>
                    /\ pc[q] \in {"serve", "serving"} =>
                         /\ mem[q].handlers = <<"resources">> \o PageUris
                         /\ Len(mem[q].built) = Len(Pages)
                    /\ \A k \in DOMAIN mem[q].built : mem[q].built[k]
  BY DEF Whole, Steady
<1>1. MayServe(q) /\ origin[q] \notin spoiled' /\ origin[q] \notin spoiled
  BY DEF Steady, MayServe
<1>2. pc[q] # "serving" => q \in Starting
  BY <1>1 DEF MayServe, Starting
<1> QED
  BY <1>1, <1>2 DEF Whole, Steady

\* A process that goes on from a start left in peace finds all files.
LEMMA FindsAll ==
    ASSUME NEW p \in Procs, Whole(p), MayServe(p), origin[p] \notin spoiled,
           pc[p] \notin {"main", "child", "serving"}
    PROVE  \A f \in Tree : Finds(p, f)
BY DEF Whole, Finds

\* What a step of main() but fork() leaves the other processes, and the files.
LEMMA OthersSteady ==
    ASSUME ServerInv, NEW p \in Procs,
           \/ ParentEnds(p) \/ DaemonizeFails(p) \/ Detach(p)
           \/ InitializeFileHandler(p) \/ AttachFileHandler(p)
           \/ InitializeWordPicker(p) \/ OutOfMemory(p)
           \/ BuildPage(p) \/ AddPageHandlers(p) \/ serve(p)
    PROVE  /\ UNCHANGED <<origin, tree, spoiled>>
           /\ \A q \in Procs : q # p => Steady(q)
<1>1. UNCHANGED <<origin, tree, spoiled>>
  BY DEF ParentEnds, DaemonizeFails, Detach, InitializeFileHandler, AttachFileHandler,
      InitializeWordPicker, OutOfMemory, BuildPage, AddPageHandlers, serve
<1>2. ProcessMove(p)
  BY MainMoves DEF ServerInv
<1>3. \A q \in Procs : q # p => pc'[q] = pc[q] /\ mem'[q] = mem[q]
  BY <1>2 DEF ProcessMove, Moves
<1> QED
  BY <1>1, <1>3 DEF Steady

LEMMA MainWhole ==
    ASSUME ServerInv, NEW p \in Procs, Whole(p),
           \/ ParentEnds(p) \/ DaemonizeFails(p) \/ Detach(p)
           \/ InitializeFileHandler(p) \/ AttachFileHandler(p)
           \/ InitializeWordPicker(p) \/ OutOfMemory(p)
           \/ BuildPage(p) \/ AddPageHandlers(p) \/ serve(p)
    PROVE  Whole(p)' /\ pc'[p] # "unused"
<1>1. /\ pc \in [Procs -> Steps] /\ mem \in [Procs -> Memory] /\ mem[p] \in Memory
      /\ ServerTypeOK /\ HandlersInv
  BY DEF ServerInv, ServerTypeOK
<1>2. UNCHANGED <<origin, tree, spoiled>>
  BY OthersSteady
<1>3. Steps = {"unused", "main", "parent", "child", "set_up", "attach", "words", "stuck",
               "pages", "serve", "serving", "ended"}
  BY DEF Steps
<1>4. CASE ParentEnds(p) \/ OutOfMemory(p)
  <2>1. pc'[p] = "ended"
    BY <1>1, <1>4, EndType DEF ParentEnds, OutOfMemory
  <2> QED
    BY <2>1 DEF Whole, MayServe
<1>5. CASE DaemonizeFails(p)
  <2>1. pc[p] \in {"main", "child"} /\ pc'[p] = "set_up" /\ mem'[p] = mem[p]
    BY <1>1, <1>3, <1>5, GoType DEF DaemonizeFails
  <2> QED
    BY <1>2, <2>1 DEF Whole, MayServe
<1>6. CASE Detach(p)
  <2>1. pc[p] = "child" /\ pc'[p] = "set_up" /\ mem' = [mem EXCEPT ![p].home = FALSE]
    BY <1>1, <1>3, <1>6, GoType DEF Detach
  <2>2. mem'[p] = [mem[p] EXCEPT !.home = FALSE]
    BY <1>1, <2>1
  <2>3. mem'[p].absolute = mem[p].absolute /\ mem'[p].built = mem[p].built
    BY <1>1, <2>2 DEF Memory
  <2> QED
    BY <1>2, <2>1, <2>3 DEF Whole, MayServe
<1>7. CASE InitializeFileHandler(p)
  <2>1. pc[p] = "set_up" /\ pc'[p] = "attach"
    BY <1>1, <1>3, <1>7, GoType DEF InitializeFileHandler
  <2>2. SamePlace(p) /\ mem'[p].built = mem[p].built /\ mem'[p].root = Finds(p, "resources")
    BY <1>1, <1>7, RootMemory
  <2>3. ASSUME MayServe(p)', origin'[p] \notin spoiled'
        PROVE  Finds(p, "resources") /\ MayServe(p) /\ origin[p] \notin spoiled
    <3>1. MayServe(p) /\ origin[p] \notin spoiled /\ "resources" \in Tree
      BY <1>2, <2>1, <2>3 DEF MayServe, Tree
    <3> QED
      BY <2>1, <3>1, FindsAll
  <2> QED
    BY <1>2, <2>1, <2>2, <2>3 DEF Whole, SamePlace
<1>8. CASE AttachFileHandler(p)
  <2>1. pc[p] = "attach" /\ pc'[p] = "words"
    BY <1>1, <1>3, <1>8, GoType DEF AttachFileHandler
  <2>2. SamePlace(p) /\ mem'[p].built = mem[p].built
        /\ (mem[p].root => mem'[p].handlers = <<"resources">>)
    BY <1>1, <1>8, AttachMemory
  <2>3. ASSUME MayServe(p)', origin'[p] \notin spoiled'
        PROVE  mem[p].root /\ MayServe(p) /\ origin[p] \notin spoiled
    BY <1>2, <2>1, <2>3 DEF MayServe, Whole
  <2> QED
    BY <1>2, <2>1, <2>2, <2>3 DEF Whole, SamePlace
<1>9. CASE InitializeWordPicker(p)
  <2>1. pc[p] = "words" /\ pc'[p] = IF Finds(p, "dictionary") THEN "pages" ELSE "stuck"
    BY <1>1, <1>3, <1>9, GoType DEF InitializeWordPicker
  <2>2. SamePlace(p) /\ mem'[p].built = mem[p].built /\ mem'[p].handlers = mem[p].handlers
    BY <1>1, <1>9, WordPickerMemory
  <2>3. ASSUME MayServe(p)', origin'[p] \notin spoiled'
        PROVE  Finds(p, "dictionary") /\ MayServe(p) /\ origin[p] \notin spoiled
    <3>1. MayServe(p) /\ origin[p] \notin spoiled /\ "dictionary" \in Tree
      BY <1>2, <2>1, <2>3 DEF MayServe, Tree
    <3> QED
      BY <2>1, <3>1, FindsAll
  <2>4. pc'[p] # "unused"
    BY <2>1
  <2> QED
    BY <1>2, <2>1, <2>2, <2>3, <2>4 DEF Whole, SamePlace
<1>10. CASE BuildPage(p)
  <2>1. pc[p] = "pages" /\ pc'[p] = "pages"
    BY <1>10 DEF BuildPage
  <2>2. /\ SamePlace(p) /\ mem'[p].handlers = mem[p].handlers
        /\ Texts(mem[p].built) /\ (\A f \in TemplateFiles : Finds(p, f)) => Texts(mem'[p].built)
    BY <1>1, <1>10, PageMemory
  <2>3. ASSUME MayServe(p)', origin'[p] \notin spoiled'
        PROVE  Texts(mem'[p].built) /\ MayServe(p) /\ origin[p] \notin spoiled
    <3>1. MayServe(p) /\ origin[p] \notin spoiled
      BY <1>2, <2>1, <2>3 DEF MayServe
    <3>2. \A f \in TemplateFiles : Finds(p, f)
      BY <2>1, <3>1, FindsAll DEF Tree
    <3>3. Texts(mem[p].built)
      BY <3>1 DEF Whole, Texts
    <3> QED
      BY <2>2, <3>1, <3>2, <3>3
  <2> QED
    BY <1>2, <2>1, <2>2, <2>3 DEF Whole, SamePlace, Texts
<1>11. CASE AddPageHandlers(p)
  <2>1. pc[p] = "pages" /\ pc'[p] = "serve" /\ Len(mem[p].built) = Len(Pages)
    BY <1>1, <1>3, <1>11, GoType DEF AddPageHandlers
  <2>2. SamePlace(p) /\ mem'[p].handlers = mem[p].handlers \o PageUris
        /\ mem'[p].built = mem[p].built
    BY <1>1, <1>11, PageHandlersMemory
  <2>3. ASSUME MayServe(p)', origin'[p] \notin spoiled'
        PROVE  MayServe(p) /\ origin[p] \notin spoiled
    BY <1>2, <2>1, <2>3 DEF MayServe
  <2> QED
    BY <1>2, <2>1, <2>2, <2>3 DEF Whole, SamePlace
<1>12. CASE serve(p)
  <2>1. pc[p] = "serve" /\ (pc'[p] = "ended" \/ (pc'[p] = "serving" /\ mem'[p] = mem[p]))
    BY <1>1, <1>3, <1>12, GoType, EndType DEF serve
  <2>2. CASE pc'[p] = "ended"
    BY <2>2 DEF Whole, MayServe
  <2>3. CASE pc'[p] = "serving" /\ mem'[p] = mem[p]
    BY <1>2, <2>1, <2>3 DEF Whole, MayServe
  <2> QED
    BY <2>1, <2>2, <2>3
<1> QED
  BY <1>4, <1>5, <1>6, <1>7, <1>8, <1>9, <1>10, <1>11, <1>12

LEMMA WholeStep ==
    ASSUME ServerInv, WholeInv, [Next]_vars
    PROVE  WholeInv'
<1>1. /\ pc \in [Procs -> Steps] /\ mem \in [Procs -> Memory] /\ origin \in [Procs -> Procs]
      /\ ServerTypeOK /\ HandlersInv
  BY DEF ServerInv, ServerTypeOK
<1>2. ASSUME NEW p \in Procs, \A q \in Procs : q # p => Steady(q),
             Whole(p)', pc'[p] = "unused" => mem'[p] = Empty
      PROVE  WholeInv'
  <2>1. ASSUME NEW q \in Procs, q # p
        PROVE  Whole(q)' /\ (pc'[q] = "unused" => mem'[q] = Empty)
    <3>1. Steady(q) /\ Whole(q) /\ (pc[q] = "unused" => mem[q] = Empty)
      BY <1>2, <2>1 DEF WholeInv
    <3> QED
      BY <3>1, SteadyWhole DEF Steady
  <2> QED
    BY <1>2, <2>1 DEF WholeInv
<1>3. ASSUME NEW p \in Procs,
             \/ ParentEnds(p) \/ DaemonizeFails(p) \/ Detach(p)
             \/ InitializeFileHandler(p) \/ AttachFileHandler(p)
             \/ InitializeWordPicker(p) \/ OutOfMemory(p)
             \/ BuildPage(p) \/ AddPageHandlers(p) \/ serve(p)
      PROVE  WholeInv'
  <2>1. Whole(p)
    BY DEF WholeInv
  <2> QED
    BY <1>2, <1>3, <2>1, OthersSteady, MainWhole
<1>4. ASSUME NEW p \in Procs, NEW q \in Procs, Fork(p, q)
      PROVE  WholeInv'
  <2>1. UNCHANGED <<tree, spoiled>> /\ origin' = [origin EXCEPT ![q] = origin[p]]
    BY <1>4 DEF Fork
  <2>2. /\ p # q /\ mem'[q] = mem[p] /\ (\A r \in Procs : r # q => mem'[r] = mem[r])
        /\ pc[p] = "main" /\ pc'[p] = "parent" /\ pc'[q] = "child"
        /\ \A r \in Procs : r # p /\ r # q => pc'[r] = pc[r]
    BY <1>1, <1>4, ForkMemory
  <2>3. Whole(p)' /\ pc'[p] # "unused" /\ pc'[q] # "unused"
    BY <2>2 DEF Whole, MayServe
  <2>4. Whole(q)'
    <3>1. Whole(p) /\ origin'[q] = origin[p]
      BY <1>1, <2>1 DEF WholeInv
    <3> QED
      BY <2>1, <2>2, <3>1 DEF Whole, MayServe
  <2>5. ASSUME NEW r \in Procs, r # p, r # q
        PROVE  Whole(r)' /\ (pc'[r] = "unused" => mem'[r] = Empty)
    <3>1. Steady(r)
      BY <1>1, <2>1, <2>2, <2>5 DEF Steady
    <3>2. Whole(r) /\ (pc[r] = "unused" => mem[r] = Empty)
      BY DEF WholeInv
    <3> QED
      BY <3>1, <3>2, SteadyWhole DEF Steady
  <2> QED
    BY <2>3, <2>4, <2>5 DEF WholeInv
<1>5. ASSUME NEW p \in Procs, Kill(p)
      PROVE  WholeInv'
  <2>1. UNCHANGED <<origin, tree>> /\ End(p) /\ spoiled \subseteq spoiled'
    BY <1>5 DEF Kill
  <2>2. pc'[p] = "ended" /\ \A q \in Procs : q # p => pc'[q] = pc[q] /\ mem'[q] = mem[q]
    BY <1>1, <2>1, EndType
  <2>3. \A q \in Procs : q # p => Steady(q)
    BY <2>1, <2>2 DEF Steady
  <2>4. Whole(p)' /\ pc'[p] # "unused"
    BY <2>2 DEF Whole, MayServe
  <2> QED
    BY <1>2, <2>3, <2>4
<1>6. ASSUME NEW p \in Procs, NEW step \in {"main", "set_up"},
             NEW res_root \in {"none", "absolute", "relative"},
             NEW may_listen \in BOOLEAN, Start(p, step, res_root, may_listen)
      PROVE  WholeInv'
  <2>1. /\ pc[p] = "unused" /\ Go(p, step) /\ UNCHANGED tree
        /\ origin' = [origin EXCEPT ![p] = p]
        /\ mem' = [mem EXCEPT ![p].absolute = is_absolute(res_root)]
        /\ spoiled' = IF tree = Tree /\ (step = "main" => res_root # "relative")
                      THEN spoiled ELSE spoiled \cup {p}
    BY <1>6 DEF Start, IsNext
  <2>2. step \in Steps
    BY DEF Steps
  <2>3. pc'[p] = step /\ \A q \in Procs : q # p => pc'[q] = pc[q]
    BY <1>1, <2>1, <2>2, GoType
  <2>4. \A q \in Procs : q # p => Steady(q)
    <3>1. spoiled \subseteq spoiled'
      BY <2>1
    <3> QED
      BY <1>1, <2>1, <2>3, <3>1 DEF Steady
  <2>5. mem'[p] = [Empty EXCEPT !.absolute = is_absolute(res_root)]
    BY <1>1, <2>1 DEF WholeInv
  <2>6. mem'[p].home /\ mem'[p].built = <<>> /\ mem'[p].absolute = is_absolute(res_root)
    BY <2>5 DEF Empty
  <2>7. Whole(p)'
    <3> SUFFICES ASSUME origin'[p] \notin spoiled'
                 PROVE  Whole(p)'
      BY DEF Whole
    <3>1. origin'[p] = p
      BY <1>1, <2>1
    <3>2. tree' = Tree /\ (step = "main" => res_root # "relative")
      BY <2>1, <3>1
    <3>3. step = "main" => mem'[p].absolute
      BY <2>6, <3>2 DEF is_absolute
    <3> QED
      BY <2>3, <2>6, <3>2, <3>3 DEF Whole
  <2>8. pc'[p] # "unused"
    BY <2>3
  <2> QED
    BY <1>2, <2>4, <2>7, <2>8
<1>7. ASSUME NEW t, ChangeTree(t)
      PROVE  WholeInv'
  <2>1. /\ tree' = t /\ UNCHANGED <<pc, origin, mem>>
        /\ spoiled' = IF t = Tree THEN spoiled ELSE spoiled \cup {origin[q] : q \in Starting}
    BY <1>7 DEF ChangeTree
  <2>2. ASSUME NEW q \in Procs
        PROVE  Steady(q)
    <3>1. CASE t = Tree
      BY <2>1, <3>1 DEF Steady
    <3>2. CASE t # Tree
      BY <2>1, <3>2 DEF Steady
    <3> QED
      BY <3>1, <3>2
  <2> QED
    BY <2>2, SteadyWhole DEF WholeInv, Steady
<1>8. ASSUME NEW from, NEW to, UsePort(from, to)
      PROVE  WholeInv'
  <2>1. \A q \in Procs : Steady(q)
    BY <1>8 DEF UsePort, Steady
  <2> QED
    BY <2>1, SteadyWhole DEF WholeInv, Steady
<1>9. CASE UNCHANGED vars
  <2>1. \A q \in Procs : Steady(q)
    BY <1>9 DEF vars, Steady
  <2> QED
    BY <2>1, SteadyWhole DEF WholeInv, Steady
<1> QED
  BY <1>3, <1>4, <1>5, <1>6, <1>7, <1>8, <1>9 DEF Next, main

\* A process that found all its files while it started, and was not to become a
\* daemon with a relative resource directory, serves every path with a text,
\* daemon or not.
THEOREM SparedStartServesWhole == Spec => []ServesWhole
<1>1. Init => WholeInv
  BY DEF Init, WholeInv, Whole, MayServe
<1>2. ServerInv /\ WholeInv /\ [Next]_vars => WholeInv'
  BY WholeStep
<1>3. ASSUME ServerInv, WholeInv
      PROVE  ServesWhole
  <2> SUFFICES ASSUME NEW p \in Procs, NEW uri \in Uris,
                      pc[p] = "serving", origin[p] \notin spoiled
               PROVE  handle_request(p, uri) = Owner(uri) /\ HasText(p, Owner(uri))
    BY DEF ServesWhole
  <2>1. /\ mem[p].handlers = <<"resources">> \o PageUris
        /\ Len(mem[p].built) = Len(Pages)
        /\ \A k \in DOMAIN mem[p].built : mem[p].built[k]
    BY <1>3 DEF WholeInv, Whole, MayServe
  <2>2. PICK n \in {4, 5} :
          /\ DOMAIN mem[p].handlers = 1 .. n
          /\ \A k \in 1 .. n : mem[p].handlers[k] \in Handlers
          /\ \A j, k \in 1 .. n : mem[p].handlers[j] = mem[p].handlers[k] => j = k
          /\ \A h \in Handlers \ {"resources"} : \E k \in 1 .. n : mem[p].handlers[k] = h
    BY <2>1, ServingLists
  <2>3. \E k \in 1 .. n : mem[p].handlers[k] = "resources"
    BY <2>1, <2>2, ResourcesFirst
  <2>4. handle_request(p, uri) = Owner(uri)
    <3>1. CASE \E h \in Handlers : uri \in Patterns[h]
      <4>1. Owner(uri) \in Handlers /\ uri \in Patterns[Owner(uri)]
        BY <3>1 DEF Owner
      <4>2. \E k \in 1 .. n : mem[p].handlers[k] = Owner(uri)
        BY <2>2, <2>3, <4>1
      <4> QED
        BY <2>2, <4>1, <4>2, ChosenHandler
    <3>2. CASE \A h \in Handlers : uri \notin Patterns[h]
      BY <2>2, <3>2, ChosenHandler DEF Owner
    <3> QED
      BY <3>1, <3>2
  <2>5. HasText(p, Owner(uri))
    <3>1. mem[p].built \in Seq(BOOLEAN)
      BY <1>3 DEF ServerInv, ServerTypeOK, Memory
    <3>2. DOMAIN mem[p].built = 1 .. 4 /\ DOMAIN Pages = 1 .. 4
      BY <2>1, <3>1, NumberOfPages, LenProperties DEF Pages
    <3> QED
      BY <2>1, <3>2 DEF HasText
  <2> QED
    BY <2>4, <2>5
<1> QED
  BY <1>1, <1>2, <1>3, ServerInvariant, PTL DEF Spec
=============================================================================
