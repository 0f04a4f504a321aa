-------------------------------- MODULE Server --------------------------------
(***************************************************************************)
(* From the start of isawordd to the answer of a request: main()           *)
(* (isawordd.cpp), daemonize() (daemonize.cpp), what FileHandler and       *)
(* PageHandler do once when they are initialized (file_handler.cpp,        *)
(* views.cpp), HttpServer::serve() and the choice of a handler for each    *)
(* request (http_server.cpp).                                              *)
(*                                                                         *)
(* isawordd may be started several times, forks to become a daemon, may be *)
(* killed (stop_isaword), and competes with others like it and with other  *)
(* programs for the port, which it may not be allowed to take; and files   *)
(* come and go while it starts.  main() looks at no result of              *)
(* what it calls after daemonize(), so what was missing shows only in the  *)
(* answers.  All starts name the same address and port.  What the handlers *)
(* for words and files answer is the matter of PageHandler and FileHandler.*)
(***************************************************************************)
EXTENDS Integers, Sequences

CONSTANTS
    MaxProcs,       \* how many processes there can be
    Nobody,         \* nobody has the port
    Other,          \* another program has the port
    Uris,           \* the paths of the requests
    Patterns,       \* Patterns[h]: the paths that the pattern of handler h matches
    MaxEvents       \* how often processes are killed, files change, and other
                    \* programs take or leave the port

Procs == 1 .. MaxProcs

\* The handlers that PageHandler::initialize adds, in this order.
PageUris == <<"main_page", "about", "fine_print", "words">>

Handlers == {"resources", "main_page", "about", "fine_print", "words"}

\* No path matches two patterns.
ASSUME ServerAssumption ==
    /\ MaxProcs \in Nat
    /\ Nobody \notin Procs /\ Other \notin Procs /\ Nobody # Other
    /\ Patterns \in [Handlers -> SUBSET Uris]
    /\ \A g, h \in Handlers : g # h => Patterns[g] \cap Patterns[h] = {}
    /\ MaxEvents \in Nat

\* The pages that are made of templates at the start, in this order, and the
\* templates that each of them reads, in this order.
Pages == <<"main_page", "about", "fine_print", "not_found">>

Templates ==
    [main_page  |-> <<"index-description", "main", "main-layout">>,
     about      |-> <<"about", "main-layout">>,
     fine_print |-> <<"fine-print", "main-layout">>,
     not_found  |-> <<"404", "main-layout">>]

TemplateFiles == {"index-description", "main", "main-layout", "about", "fine-print", "404"}

\* Below the resource directory: the directory "resources", the dictionary
\* and the templates.
Tree == {"resources", "dictionary"} \cup TemplateFiles

Steps == {"unused", "main", "parent", "child", "set_up", "attach", "words", "stuck",
          "pages", "serve", "serving", "ended"}

VARIABLES
    pc,         \* where each process is
    origin,     \* the process that was started by hand: itself or its parent
    allowed,    \* the starts whose address exists and whose user may listen on the port
    mem,        \* the memory of each process, empty before it begins and when it ended
    port,       \* who listens on the port
    tree,       \* the files that are there
    events,     \* how many of them there were
    spoiled,    \* history: the starts that had no fair chance: a file was missing,
                \* a process of theirs was killed, or a daemon has a relative path
    refused     \* history: the starts that did not get the port though no isawordd had it

vars == <<pc, origin, allowed, mem, port, tree, events, spoiled, refused>>

\* No handler is added twice.
HandlerLists == {<<>>, <<"resources">>, PageUris, <<"resources">> \o PageUris}

Memory ==
    [absolute : BOOLEAN,                \* the resource directory is an absolute path
     home     : BOOLEAN,                \* still in the directory where it was started
     root     : BOOLEAN,                \* file_root_ of the file handler is set
     handlers : HandlerLists,           \* uri_handlers_
     ready    : BOOLEAN,                \* word_picker_->initialize() read the dictionary
     cached   : SUBSET TemplateFiles,   \* the templates in template_cache_
     built    : Seq(BOOLEAN)]           \* built[k]: the page Pages[k] has its text

Empty == [absolute |-> TRUE, home |-> TRUE, root |-> FALSE, handlers |-> <<>>,
          ready |-> FALSE, cached |-> {}, built |-> <<>>]

ServerTypeOK ==
    /\ pc \in [Procs -> Steps]
    /\ origin \in [Procs -> Procs]
    /\ allowed \in SUBSET Procs
    /\ mem \in [Procs -> Memory]
    /\ \A p \in Procs : Len(mem[p].built) <= Len(Pages)
    /\ port \in Procs \cup {Nobody, Other}
    /\ tree \in SUBSET Tree
    /\ events \in 0 .. MaxEvents
    /\ spoiled \in SUBSET Procs
    /\ refused \in SUBSET Procs

-----------------------------------------------------------------------------
(* The start.                                                              *)

Starting == {p \in Procs : pc[p] \notin {"unused", "parent", "serving", "ended"}}

\* Processes are numbered in the order in which they begin.
IsNext(p) == pc[p] = "unused" /\ \A q \in 1 .. p - 1 : pc[q] # "unused"

Go(p, step) == pc' = [pc EXCEPT ![p] = step]

End(p) == Go(p, "ended") /\ mem' = [mem EXCEPT ![p] = Empty]

\* How main() works out resource_dir from the option res_root: without one it is
\* the current directory, written out.
is_absolute(res_root) == res_root \in {"none", "absolute"}

\* Somebody starts isawordd in the directory of the files, to be a daemon
\* ("main") or with --no_daemon ("set_up"), as a user and with an address and a
\* port that let it listen, or not: the port is 80 unless another one is named.
Start(p, step, res_root, may_listen) ==
    /\ IsNext(p)
    /\ Go(p, step)
    /\ origin' = [origin EXCEPT ![p] = p]
    /\ allowed' = IF may_listen THEN allowed \cup {p} ELSE allowed
    /\ mem' = [mem EXCEPT ![p].absolute = is_absolute(res_root)]
    /\ spoiled' = IF tree = Tree /\ (step = "main" => res_root # "relative")
                  THEN spoiled ELSE spoiled \cup {p}
    /\ UNCHANGED <<port, tree, events, refused>>

\* The process finds the file of that name below its resource directory.
Finds(p, file) == file \in tree /\ (mem[p].absolute \/ mem[p].home)

\* daemonize() forks: the child has all that the parent has.
Fork(p, q) ==
    /\ pc[p] = "main"
    /\ IsNext(q)
    /\ pc' = [pc EXCEPT ![p] = "parent", ![q] = "child"]
    /\ origin' = [origin EXCEPT ![q] = origin[p]]
    /\ mem' = [mem EXCEPT ![q] = mem[p]]
    /\ UNCHANGED <<allowed, port, tree, events, spoiled, refused>>

\* Mutant: main() does not return in the parent.
MutantParentEnds(p) ==
    /\ pc[p] = "parent"
    /\ Go(p, "set_up")
    /\ UNCHANGED <<origin, allowed, mem, port, tree, events, spoiled, refused>>

\* daemonize() returned the process id of the child.
ParentEnds(p) ==
    /\ pc[p] = "parent"
    /\ End(p)
    /\ UNCHANGED <<origin, allowed, port, tree, events, spoiled, refused>>

\* Mutant: main() ends when there is no daemon.
MutantDaemonizeFails(p) ==
    /\ pc[p] \in {"main", "child"}
    /\ End(p)
    /\ UNCHANGED <<origin, allowed, port, tree, events, spoiled, refused>>

\* daemonize() returns -1: the process was a child of init already, or fork(),
\* or setsid() or chdir() in the child failed.  main() says so and goes on.
DaemonizeFails(p) ==
    /\ pc[p] \in {"main", "child"}
    /\ Go(p, "set_up")
    /\ UNCHANGED <<origin, allowed, mem, port, tree, events, spoiled, refused>>

\* The child changes its directory to "/", where a relative resource directory
\* leads nowhere.
Detach(p) ==
    /\ pc[p] = "child"
    /\ Go(p, "set_up")
    /\ mem' = [mem EXCEPT ![p].home = FALSE]
    /\ UNCHANGED <<origin, allowed, port, tree, events, spoiled, refused>>

-----------------------------------------------------------------------------
(* The handlers.                                                           *)

\* Mutant: the directory is looked for in the current directory.
MutantInitializeFileHandler(p) ==
    /\ pc[p] = "set_up"
    /\ Go(p, "attach")
    /\ mem' = [mem EXCEPT ![p].root = mem[p].home /\ "resources" \in tree]
    /\ UNCHANGED <<origin, allowed, port, tree, events, spoiled, refused>>

\* FileHandler::initialize stats the directory before it sets the file root.
InitializeFileHandler(p) ==
    /\ pc[p] = "set_up"
    /\ Go(p, "attach")
    /\ mem' = [mem EXCEPT ![p].root = Finds(p, "resources")]
    /\ UNCHANGED <<origin, allowed, port, tree, events, spoiled, refused>>

\* Mutant: the handler is added twice.
MutantAttachTwice(p) ==
    /\ pc[p] = "attach"
    /\ Go(p, "words")
    /\ mem' = [mem EXCEPT ![p].handlers =
         IF mem[p].root THEN <<"resources", "resources">> ELSE @]
    /\ UNCHANGED <<origin, allowed, port, tree, events, spoiled, refused>>

\* Mutant: the directory is looked for again, and has come in between.
MutantAttachFileHandler(p) ==
    /\ pc[p] = "attach"
    /\ Go(p, "words")
    /\ mem' = [mem EXCEPT ![p].handlers =
         IF Finds(p, "resources") THEN Append(@, "resources") ELSE @]
    /\ UNCHANGED <<origin, allowed, port, tree, events, spoiled, refused>>

\* attach_to_server is called whatever initialize returned, and adds the handler
\* if it has a file root.
AttachFileHandler(p) ==
    /\ pc[p] = "attach"
    /\ Go(p, "words")
    /\ mem' = [mem EXCEPT ![p].handlers = IF mem[p].root THEN Append(@, "resources") ELSE @]
    /\ UNCHANGED <<origin, allowed, port, tree, events, spoiled, refused>>

\* Mutant: initialize() returns false without a dictionary, and nobody looks.
MutantInitializeWordPicker(p) ==
    /\ pc[p] = "words"
    /\ Go(p, "pages")
    /\ mem' = [mem EXCEPT ![p].ready = Finds(p, "dictionary")]
    /\ UNCHANGED <<origin, allowed, port, tree, events, spoiled, refused>>

\* word_picker_->initialize() returns when it has read the dictionary; without
\* one it adds empty words (WordPicker).
InitializeWordPicker(p) ==
    /\ pc[p] = "words"
    /\ Go(p, IF Finds(p, "dictionary") THEN "pages" ELSE "stuck")
    /\ mem' = [mem EXCEPT ![p].ready = Finds(p, "dictionary")]
    /\ UNCHANGED <<origin, allowed, port, tree, events, spoiled, refused>>

\* The empty words have filled the memory.
OutOfMemory(p) ==
    /\ pc[p] = "stuck"
    /\ End(p)
    /\ UNCHANGED <<origin, allowed, port, tree, events, spoiled, refused>>

\* A page is made of its templates, read one after the other up to the first
\* that is missing; a template that was read before is in template_cache_.
BuildPage(p) ==
    LET reads == Templates[Pages[Len(mem[p].built) + 1]]
        Has(k) == reads[k] \in mem[p].cached \/ Finds(p, reads[k])
    IN  /\ pc[p] = "pages"
        /\ Len(mem[p].built) < Len(Pages)
        /\ mem' = [mem EXCEPT
             ![p].built = Append(@, \A k \in DOMAIN reads : Has(k)),
             ![p].cached =
                 @ \cup {reads[k] : k \in {i \in DOMAIN reads : \A j \in 1 .. i : Has(j)}}]
        /\ UNCHANGED <<pc, origin, allowed, port, tree, events, spoiled, refused>>

AddPageHandlers(p) ==
    /\ pc[p] = "pages"
    /\ Len(mem[p].built) = Len(Pages)
    /\ Go(p, "serve")
    /\ mem' = [mem EXCEPT ![p].handlers = @ \o PageUris]
    /\ UNCHANGED <<origin, allowed, port, tree, events, spoiled, refused>>

\* evhttp_bind_socket succeeds.
binds(p) == port = Nobody /\ origin[p] \in allowed

\* serve() binds the port and serves, or returns false and main() ends.
serve(p) ==
    /\ pc[p] = "serve"
    /\ \/ binds(p) /\ port' = p /\ Go(p, "serving") /\ UNCHANGED <<mem, refused>>
       \/ /\ ~binds(p) /\ End(p) /\ UNCHANGED port
          /\ refused' = IF port \in Procs THEN refused ELSE refused \cup {origin[p]}
    /\ UNCHANGED <<origin, allowed, tree, events, spoiled>>

main(p) ==
    \/ \E q \in Procs : Fork(p, q)
    \/ ParentEnds(p) \/ DaemonizeFails(p) \/ Detach(p)
    \/ InitializeFileHandler(p) \/ AttachFileHandler(p)
    \/ InitializeWordPicker(p) \/ OutOfMemory(p)
    \/ BuildPage(p) \/ AddPageHandlers(p) \/ serve(p)

-----------------------------------------------------------------------------
(* Requests.                                                               *)

\* Mutant: regex_search instead of regex_match; a slash is in every path.
Mutant_matches(h, uri) == uri \in Patterns[h] \/ h = "main_page"

matches(h, uri) == uri \in Patterns[h]

\* The first handler whose pattern matches the path answers, or the handler
\* for what is not found.
handle_request(p, uri) ==
    LET added == mem[p].handlers
        matching == {k \in DOMAIN added : matches(added[k], uri)}
    IN  IF matching = {} THEN "not_found"
        ELSE added[CHOOSE k \in matching : \A j \in matching : k <= j]

\* The answer has a text: the page was built when the process started.
HasText(p, h) == \A k \in DOMAIN Pages : Pages[k] = h => mem[p].built[k]

-----------------------------------------------------------------------------
(* Those who stop the server, change the files and use the port.           *)

\* stop_isaword, or the end of the machine.
Kill(p) ==
    /\ pc[p] \notin {"unused", "ended"}
    /\ events < MaxEvents
    /\ events' = events + 1
    /\ End(p)
    /\ port' = IF port = p THEN Nobody ELSE port
    /\ spoiled' = IF pc[p] = "parent" THEN spoiled ELSE spoiled \cup {origin[p]}
    /\ UNCHANGED <<origin, allowed, tree, refused>>

ChangeTree(t) ==
    /\ events < MaxEvents
    /\ events' = events + 1
    /\ t # tree
    /\ tree' = t
    /\ spoiled' = IF t = Tree THEN spoiled ELSE spoiled \cup {origin[p] : p \in Starting}
    /\ UNCHANGED <<pc, origin, allowed, mem, port, refused>>

\* Another program takes the port or leaves it.
UsePort(from, to) ==
    /\ events < MaxEvents
    /\ events' = events + 1
    /\ port = from
    /\ port' = to
    /\ UNCHANGED <<pc, origin, allowed, mem, tree, spoiled, refused>>

Init ==
    /\ pc = [p \in Procs |-> "unused"]
    /\ origin = [p \in Procs |-> p]
    /\ allowed = {}
    /\ mem = [p \in Procs |-> Empty]
    /\ port = Nobody
    /\ tree = Tree
    /\ events = 0
    /\ spoiled = {}
    /\ refused = {}

Next ==
    \/ \E p \in Procs :
         \/ main(p)
         \/ Kill(p)
         \/ \E step \in {"main", "set_up"}, res_root \in {"none", "absolute", "relative"},
               may_listen \in BOOLEAN : Start(p, step, res_root, may_listen)
    \/ \E file \in Tree : ChangeTree(tree \cup {file}) \/ ChangeTree(tree \ {file})
    \/ UsePort(Nobody, Other) \/ UsePort(Other, Nobody)

Spec == Init /\ [][Next]_vars

\* A process that is not killed goes on.
FairSpec == Spec /\ \A p \in Procs : WF_vars(main(p))

-----------------------------------------------------------------------------
(* Properties.                                                             *)

SettingUp(p) == pc[p] \in {"set_up", "attach", "words", "stuck", "pages", "serve", "serving"}

\* However daemonize() ends, in the parent or in the child, one process at most
\* goes on from one start (isawordd.cpp 130-145); and one of all of them serves.
OneGoesOn ==
    \A p, q \in Procs : p # q =>
        /\ SettingUp(p) /\ SettingUp(q) => origin[p] # origin[q]
        /\ ~(pc[p] = "serving" /\ pc[q] = "serving")

\* Requests are served with a dictionary, although main() does not look at what
\* PageHandler::initialize returns (isawordd.cpp 158).
ReadyToServe == \A p \in Procs : pc[p] = "serving" => mem[p].ready

\* Whose the path is, in whatever order the handlers were added.
Owner(uri) ==
    IF \E h \in Handlers : uri \in Patterns[h]
    THEN CHOOSE h \in Handlers : uri \in Patterns[h] ELSE "not_found"

\* Whatever went wrong while it started, a process that serves answers a path
\* with the handler it belongs to, except that files may all be "not found"
\* (http_server.cpp 107-147); and no path comes to a file handler without a file
\* root, although the directory of the files may come and go (file_handler.cpp 99).
RightHandler ==
    \A p \in Procs, uri \in Uris :
        pc[p] = "serving" =>
            /\ \/ handle_request(p, uri) = Owner(uri)
               \/ Owner(uri) = "resources" /\ handle_request(p, uri) = "not_found"
            /\ handle_request(p, uri) = "resources" => mem[p].root

\* A process that found all its files while it started, and was not to become a
\* daemon with a relative resource directory, serves every path with a text,
\* daemon or not (isawordd.cpp 74-95, 147-160).
ServesWhole ==
    \A p \in Procs, uri \in Uris :
        pc[p] = "serving" /\ origin[p] \notin spoiled =>
            /\ handle_request(p, uri) = Owner(uri)
            /\ HasText(p, Owner(uri))

Serving == \E p \in Procs : pc[p] = "serving"

\* A start that is left in peace ends with somebody serving, whether or not
\* daemonize() succeeds and however many others start at the same time, unless
\* another program has the port when it is bound, or the start is not allowed to
\* take it (isawordd.cpp 130-161, http_server.cpp 85-104).
ComesUp ==
    \A p \in Procs :
        p \in Starting ~> (Serving \/ origin[p] \in spoiled \cup refused)

-----------------------------------------------------------------------------
(* Why the safety properties hold: what a process has done is seen from where *)
(* it is.                                                                    *)

HandlersInv ==
    \A p \in Procs : mem[p].handlers \in
        CASE pc[p] \in {"serve", "serving"}         -> {PageUris, <<"resources">> \o PageUris}
          [] pc[p] \in {"words", "stuck", "pages"}  -> {<<>>, <<"resources">>}
          [] OTHER                                  -> {<<>>}

RootInv == \A p \in Procs : mem[p].handlers \notin {<<>>, PageUris} => mem[p].root

DictionaryInv == \A p \in Procs : pc[p] \in {"pages", "serve", "serving"} => mem[p].ready

\* A process that may come to serve.
MayServe(p) == pc[p] \notin {"unused", "parent", "ended"}

DescentInv ==
    /\ \A p \in Procs : pc[p] # "unused" => pc[origin[p]] # "unused"
    /\ \A p, q \in Procs : p # q /\ MayServe(p) /\ MayServe(q) => origin[p] # origin[q]

PortInv == \A p \in Procs : pc[p] = "serving" => port = p

ServerInv == ServerTypeOK /\ HandlersInv /\ RootInv /\ DictionaryInv /\ DescentInv /\ PortInv

\* Of a start that was left in peace, the process that goes on finds all files,
\* and has found all that it looked for.
Whole(p) ==
    MayServe(p) /\ origin[p] \notin spoiled =>
        /\ pc[p] # "serving" => tree = Tree
        /\ mem[p].absolute \/ (mem[p].home /\ pc[p] \notin {"main", "child"})
        /\ pc[p] # "stuck"
        /\ pc[p] = "attach" => mem[p].root
        /\ pc[p] \in {"words", "pages"} => mem[p].handlers = <<"resources">>
        /\ pc[p] \in {"serve", "serving"} =>
             /\ mem[p].handlers = <<"resources">> \o PageUris
             /\ Len(mem[p].built) = Len(Pages)
        /\ \A k \in DOMAIN mem[p].built : mem[p].built[k]

WholeInv == \A p \in Procs : Whole(p) /\ (pc[p] = "unused" => mem[p] = Empty)
=============================================================================
