# isaword: verification project

isaword is a word game on the web: the page shows a word and the player says
whether it is a real word or a made-up one. A small C++ server on libevent
serves the pages, the style sheets and JSON lists of real and made-up words; a
script in the browser runs the game. This directory holds TLA+ modules of the
parts of the program where something can go wrong that a test would hardly
reach, TLC configurations that check them on small instances, and proofs that
hold for every instance.

Contents: 1 inventory; 2 modules and how they correspond to the code; 3 runs and
bounds; 4 fairness; 5 theorems; 6 what is only model-checked; 7 deviations the
runs show; 8 what is not modelled; 9 plan.

## 1. Inventory

| component | source | state | operations | hard parts |
|---|---|---|---|---|
| File cache | `file_cache.cpp/.h` | one `CachedFile` per path: data, size, expiration time, modification time | `get`, `get_cached_object`, `refresh_if_expired`, `empty_data` | the disk changes between `stat` and read; several fields that must agree; errors half-way |
| File handler | `file_handler.cpp/.h` | the file root, its `FileCache`, the `Cache-Control` header | `initialize`, `attach_to_server`, `handle_request` | three copies of one file: disk, server, browser; a stamp that goes out and comes back; restarts and lost responses |
| HTTP server | `http_server.cpp/.h` | ordered list of URI handlers, the port | `add_url_handler`, `set_not_found_handler`, `serve`, `handle_request` | the first pattern that matches wins, in a list that depends on what was found at the start |
| HTTP utilities | `http_utils.cpp/.h` | none | paths, dates, cache headers | local time where GMT is meant |
| Word picker | `word_picker.cpp/.h` | words grouped by length, group ends, indexes, length patterns | `initialize`, `get_words_by_length`, `get_words_from_index` | stream flags while loading; offsets into vectors without a bounds check |
| Pseudoword generator | `generator/pseudoword_generator.cpp/.h` | dictionary, sampling and transition matrix, the two preceding characters | `add_dictionary_word`, `prepare_for_generation`, `make_word` | rows and columns of a flat vector; a search without a bound |
| Page handler | `views.cpp/.h` | template cache, built pages, the word picker | pages, `words`, `not_found`, `make_words_to_guess` | defaults and clamps of a request for words |
| Game client | `resources/js/isaword.js`, `templates/main.html` | the list, the index of the next word, the scores, requests on their way | `reloadWordsFromServer`, `showNextWord`, `processGuess`, form handlers | callbacks between guesses, late, lost and reordered responses |
| Startup | `isawordd.cpp`, `daemonize.cpp`, `stop_isaword` | the resource directory, the working directory | options, daemon, set-up, kill | `main()` goes on in two processes or in one; results that nobody looks at; a relative resource root after `chdir("/")`; two servers for one port |
| makewords | `generator/makewords.cpp` | none | prints made-up words | none of its own |

The server is one thread inside `event_base_dispatch`: a request is handled to
its end before the next one. Concurrency is therefore not between requests but
between the server and what is outside it: other processes that change the files
it caches (file cache, file handler), the browsers, which keep files of their own (file
handler) and whose guesses and callbacks interleave with the responses (game client),
and other processes of the same program (startup). `HttpServer::handle_request` finds the first
handler whose pattern matches and calls `FileHandler::handle_request` or a page of
`PageHandler`. `FileHandler` and `PageHandler` each own a `FileCache`;
`PageHandler` owns the `WordPicker`, which owns the `PseudowordGenerator`. The
script asks `/words/owl2/10/...` for lists.

What makes each part correct:

- **File cache**: an answer shows what was on disk at most one expiration period
  ago; if the file is found there is data; a torn or missing copy heals.
- **Word picker**: each word picked is of the length or kind that was asked for
  and is called real exactly if the dictionary has it; loading ends.
- **Pseudoword generator**: the matrix has exactly the transitions of the words;
  a walk never leaves it; what is made is new and looks like the words.
- **Game client**: a guess is scored once; a used-up list has a successor; what
  the form says is in the end what is shown.
- **File handler**: "not modified" is said only of a version that the server could have
  sent; a browser shows nothing older than two periods, and in the end the file on disk.
- **Server and startup**: one process goes on from each start and one serves; it has a
  dictionary; each path gets to its handler; if nothing was missing every page has its
  text; a start that is left in peace ends with somebody serving.
- **Page handler**: whatever the URL, the picker is asked for nothing that it cannot
  give, and the answer suits the URL.

`PROJECT.json` lists the hazards at their lines, with the properties that watch
them.

## 2. Modules and correspondence

### FileCache (with FreshStore, MCFileCache, FileCache_proofs)

`cache` is `cached_files_`; an entry is a `CachedFile` with `data`,
`expiration_time` and `last_modified` (`data_size_` is the length of the data;
`data_capacity_` decides only whether an array is reused). `get` is the local
state of the one `get()` in progress, which is a sequence of steps so that the
disk and the clock may move in between:

| action | code (`file_cache.cpp`) |
|---|---|
| `get_cached_object` | 71-84, the object is found or created |
| `ServeUnexpired` | 132-134 and 177-178, neither expired nor empty |
| `BeginRefresh` | 134-135, the new expiration time is set first |
| `StatFails` | 137-145, `stat` fails or finds a directory; `empty_data` 184-189 |
| `StatUnmodified` | 149-151, the modification time is the remembered one |
| `StatModified` | 153-154, it is remembered *before* the file is opened |
| `OpenFails` | 156-162, the stream is not `good()`; `empty_data` |
| `ReadFile` | 164-178, `readsome` into an array of the size that `stat` gave |

The environment (`Tick`, `ChangeFile`, `RemoveFile`) and the `Restart` of the server, which
empties the cache, are external. A copy is the
first `len` bytes of some contents, enough to tell a torn copy from a whole one.
Three constants say what the file system promises. `DistinctStamps`: a change of a
file gives it a new modification time, greater than its last. `SteadyPermissions`:
an existing file can be opened. `FirstStamp`: the least modification time of a file, 1
or 0, the epoch, which is also what `last_modified_` starts with. The code relies on
all three without saying so.
`readsome` is modelled as reading all that the file has: for a regular file that
was just opened `in_avail` is the size of the file with the library the
Makefile builds against.

**FreshStore** is the abstract specification: a question is answered with the
contents of the disk now, or, for contents, with something that was on disk less
than one period before the question. `KeepsPromise` says that FileCache
implements it, with the refinement mapping `content` = what is on disk,
`question` = the `get()` in progress, `answer` = what it returned. A question may be
withdrawn: the server ended before it answered.

### FileHandler (with MCFileHandler, FileHandler_proofs)

It EXTENDS FileCache. `Ask` is the arrival of a request up to the call of
`get_cached_object`; the steps of FileCache run the call; `SendNotFound`,
`SendNotModified` and `SendFile` are the three ends of `handle_request`
(`file_handler.cpp` 140, 189, 194), each with the `Last-Modified` of the cached object.
`Shifts` is what `string_to_time()` may add to a time: it reads GMT with `mktime()`, and
leaves `tm_isdst` to chance, so the set can have several numbers. A browser keeps a
`Version` (data, `Last-Modified`, the moment of its question), uses it while it is `Fresh`
(`max-age`), sends the time back with the next question, and may lose it (`Evict`) or
the response to it (`Lose`). A 304 makes a copy fresh again and gives it the new stamp, as
browsers do; that is how a torn copy could be confirmed for ever. `RestartServer` ends the
request that is served. The browsers and the network are external.

### Server (with MCServer, Server_proofs)

`pc` is where each process is in `main()`; `mem` is its memory: the resource directory and
the working directory (as far as they decide whether a file is found), `uri_handlers_`, the
dictionary, `template_cache_` and the built pages. `origin` is the process that was started
by hand. `Start` works out the resource directory (`isawordd.cpp` 74-95) and settles whether
the start is `allowed` to listen: an ordinary user is not, on port 80, which is what isawordd
takes when no port is named, and nobody is on an address that the machine does not have. `Fork`,
`ParentEnds`, `DaemonizeFails` and `Detach` are `daemonize()` with its results, of which
`main()` takes -1 for "go on". `InitializeFileHandler` is `FileHandler::initialize`, which sets
the file root if it finds the directory, and `AttachFileHandler` is `attach_to_server`, which
`main()` calls whatever came before and which adds the handler if there is a root; the directory
may come or go between the two. `InitializeWordPicker`, `BuildPage` (one per page) and
`AddPageHandlers` are `PageHandler::initialize`; `serve` binds the port, or returns false and
`main()` ends. `evhttp_bind_socket` fails when another isawordd or another program (`UsePort`)
has the port and when the start is not allowed; all starts name the same address and port.
`handle_request` picks the first handler whose pattern matches. `Kill`, `ChangeTree` and
`UsePort` may come at any point. What a missing dictionary does is taken from WordPicker: it is
read without end until `OutOfMemory`. Two history variables remember the starts that had no
chance: `spoiled`, those that were not left in peace, and `refused`, those that did not get the
port although no isawordd had it.

### WordPicker (with MCWordPicker, WordPicker_proofs)

`initialize()` is one action per iteration of its loops. `stream` is the ifstream
with its flags: a missing file sets failbit only, a line longer than the buffer
sets failbit, the last line without a newline sets eofbit, reading after a final
newline sets both. `AddWord` is the whole body of the loading loop (word, group end,
indexes). `Capacity` is how many words fit in memory; at that point the code
throws `bad_alloc` (`OutOfMemory`). The two ways of picking are
`get_words_by_length` and `get_words_from_index`, each with its early return
(`PickNoLength`, `PickNoIndex`), its loop (`PickByLength`, `PickFromIndex`) and the
read of a group end that was never recorded (`PickBeyondLongest`); `Garbage` is
what is read beyond a vector. The code flips a coin between a real
and a made-up word; the model takes either. The table of length patterns is
filled pattern by pattern and read at the triangular index of the code. A made-up
word is any word that `make_word` may return: how it is made is the generator.
`Sound` names what the code takes for granted of a dictionary.

### PageHandler

It EXTENDS WordPicker: `PageHandler::initialize` loads the picker (the actions of
`initialize`), and then `words(d)` answers a URL d, given as its parts between
slashes; the main page asks with no parts. `num_words`, `From`, `To` and `index_num`
are the local variables of `make_words_to_guess`; `Number[p]` is what `lexical_cast`
makes of a part, or `NaN`. `description` remembers the URL answered last, so that
`AnswersRequest` can compare the answer with what the URL says, not with the request
that was made of it. `ServesAsPicker` is the specification of the picker itself: the
page handler refines it with the identity. That is stronger than it looks, since the
picker's Next has only requests in range, and `num_words` up to its bound.

### WordService (with MCWordService, WordService_proofs)

It EXTENDS PageHandler with the generator that the picker owns, in one state, so that one
request is many steps. The words of a file are kept twice: every line in the list of the
picker, and what can be spelled with the letters of the generator in its `dictionary`
(`Load` is the loading loop of the picker with its call of `add_dictionary_word`, whose
result nobody looks at). `call` is `make_words_to_guess` in progress, with what it
picked so far (`BeginWords`, `PickReal`, `PickBeyond`, `ReturnWords`); `AskForFake` and
`PickFake` are the call of `make_word` and its return, for `Question(r)`: the length
pattern at the triangular index, or the pattern of an index with its greatest length. Of
the generator only the promise is here: it is `WordMaker` instantiated as `Maker`, whose
`Answer` is any word that suits and whose `AnswerTooLong` is one of a letter too many; the
picker has to cope with both. `GiveUp` is the generator outside of its matrices, after which
the model stops. `ServesAsPageHandler` says that the composition implements PageHandler with the
identity, `AsksAsAgreed` that it uses WordMaker as WordMaker asks (`SpecButMaximum`: what is
left of the specification when answers may be too long).
`MadeUpIsNew` compares the two lists: a made-up word was tested against the
dictionary of the generator, the player knows the file.

### PseudowordGenerator (with WordMaker, MCPseudowordGenerator, PseudowordGenerator_proofs)

The matrices are kept as the sets of the elements that are not 0, a row being the
two preceding characters themselves. `AddWord`, `Record` and `RecordOutside` are
`add_dictionary_word` (one iteration of its second loop per step), with
`SampleColumn` its three-way test; `prepare_for_generation` is one step. `StartWalk`,
`Draw`, `DrawZero` and `RunOff` are the inner loop of `make_word`, `Return` and
`TryAgain` its two outer loops. A draw takes a column whose share of the row is not
0. That is what the search `while (p > element)` over the cumulative row does for
0 < p < 1: the first element not smaller than p is one where the row grows. The
generator of random numbers has 32 bits, so p is at most 1 - 2^-32, far further
from 1 than the rounding of a sum of 27 doubles; p = 0 happens, takes column 0
whatever is in it, and is `DrawZero`. **WordMaker** is the abstract specification: it
learns words, is prepared, and answers each question with a word that suits it, which is
not longer than the maximum of the question (`pseudoword_generator.h` 173 and 182,
`word_picker.h` 155). The code breaks the maximum (section 7), so that
`MakesSuitableWords` says: the generator implements WordMaker but for one kind of step,
`AnswerCutWalk`, a walk that was cut and is one letter too long. The specification is not
loosened for it: an answer that is too long in any other way is refused. `MaximumKept`, the
promise as it stands, is false of the code and is checked by no run; it is the condition
under which the generator is shown to implement WordMaker without exception
(`OnlyMaximumMissing`). Row -1 (`RecordOutside`) and a row without
elements (`RunOff`) lead to reads and writes outside; the model stops there, in the
phase "undefined". `drew_zero` is a history variable: some p was 0.

### TransitionMatrix (with Transitions, MCTransitionMatrix, TransitionMatrix_proofs)

The same matrices as the code keeps them: flat vectors, addressed by `row_index_map[chars]
* num_matrix_columns_ + c`. `MapRow` is one iteration of the loop of the constructor of
`PrecedingChars`, which keeps the two letter indexes beside the number of the row;
`Count` is the increment in `add_dictionary_word`; `AddToTotal`, `ClearRow` and
`Accumulate` are the iterations of the two loops of `prepare_for_generation`;
`BeginSearch`, `Advance`, `Found` and `RunOff` are the search of `make_word`. A share
is the exact fraction `num / of` where the code has a double, and a random number is
`p / Resolution`. `sums` is a history variable, the partial sums of the row as the first
loop had them, of which the invariant speaks.

**Transitions** is the abstract specification: a set of pairs that were seen, and for
a row one of its pairs is drawn, or the first column if the number is 0. This is how
PseudowordGenerator has its matrices; `DrawsWhatWasSeen` says that the vectors
implement it.

### GameClient (with GameClient_proofs)

`words`, `nextWordIndex` and the scores are the variables of the script; `shown` is
the first div of `#words-to-guess`; `hidden` says that this div is the copy that was
never revealed because `showNextWord` threw. `requests` are the requests without a
response, with the one bit that the callback closes over (show a word at once or
not). `processGuess` and `GuessWithoutNext` are the two courses of a guess,
`ChangeType` the change handlers of the form, `Loaded` the callback of `getJSON`,
which may answer any outstanding request, and `Failed` a response that never comes or
is not JSON. Types stand for everything that the form can select. Two history
variables record that a response was lost or was overtaken; properties are stated
up to these.

## 3. Runs and bounds

| run | expects | shows |
|---|---|---|
| `file_cache_unreadable` | violation of `FoundHasData` | deviation 1 below |
| `file_handler` | pass | three copies of a file under changes, lost responses, evictions and restarts; the file cache below, step by step, and its refinement of FreshStore; convergence |
| `file_handler_zone` | violation of `NotModifiedIsRight` | deviation 2 |
| `word_picker` | pass | grouping, indexes, picks and loading over 69 dictionaries; a file that can be read never fills the memory, and each step of loading lowers the number of steps that are left |
| `word_picker_missing` | violation of `NeverAborts` | deviation 3 |
| `word_picker_newline` | violation of `PickedFitInOrder` | deviation 4 |
| `word_service` | pass | page handler, picker and generator in one state: every URL is answered as it asks, the composition implements PageHandler, and the generator is used as WordMaker asks; answers that are too long are among those it gets |
| `generator` | pass | matrices, walks and made words over all sequences of sample words, that new words need a choice, and the refinement of WordMaker but for cut walks that are one letter too long |
| `transition_matrix` | pass | the numbering of the rows, the cumulative sums and the search over flat vectors, and their refinement of Transitions |
| `game_client` | pass | streaks, lists, selection and progress under every order of events |
| `game_client_twice` | violation of `ScoredOnce` | deviation 5 |
| `server` | pass | starts, forks, kills, missing files and a port that is taken or not allowed, up to the handler that answers a path |

Bounds, and why they are enough:

- **File cache and file handler.** One run for both, since every step of the cache is one
  of the file handler's. One file: entries of different paths share nothing but the
  `get()` in progress; one browser: browsers share only the cache of the server. The proofs
  have any number of both. Contents of 0, 1 and 2 bytes: an empty copy, and a torn copy in
  either direction. `Period` 2 and `MaxTime` 6: a copy is made, expires in the server and
  in the browser, and is confirmed once more. `QuietTime` 2: the disk changes and the server is
  restarted early, so that the rest of the time is for convergence; at `MaxTime` the clock
  stands still and visitors go on. `Shifts` {0, -1} (local time at or ahead of GMT), {1} in
  `file_handler_zone`. `FirstStamp` 1; with 0 the run finds the case listed in section 7.
- **Server.** Two processes: two that are started by hand, or one and its child; a third
  adds no kind of interleaving, since a parent whose child goes on just ends, and the
  proofs have any number. `MaxEvents` 2: a file can disappear and come back, the server
  be killed while another starts, or another program take the port and leave it. Every file below the resource directory may be the one
  that is missing. Paths of all handlers and of none, two of them for a pattern that
  matches several.  All processes may have ended: `CHECK_DEADLOCK FALSE`.
- **Word picker.** Words of 2 to 4 letters, two indexes, up to two words per group,
  repetitions, empty files, files with and without final newline, unsorted, gapped,
  missing, and with an overlong line. `NumWords` 1, because each word is picked
  independently of the others; the proofs have any number. `Capacity` 8 is more than the longest file, so only endless
  loading reaches it. The process may abort or the reads may be over:
  `CHECK_DEADLOCK FALSE`.
- **Generator.** An alphabet of three letters, words of one to five letters that
  share steps, so that a walk can change from one word into another and loop.
  `MaxChars` 7 cuts walks; it is longer than any sample word with its end. A walk that is cut has no next
  step: `CHECK_DEADLOCK FALSE`. The proofs have walks of any length.
- **Word service.** Words of up to three letters over two, and two words that the generator
  cannot spell; five dictionaries (known and unknown words mixed, with and without final
  newline; all words of a length; a gap in the lengths; none); lists of one and two words,
  so that a list is picked in several steps with the generator in between. Each part of a
  URL is missing, no number, below, in and above its range, "from" above "to", both forms of
  an index and an unknown one. The process may abort, and the
  generator look for a word that does not exist: `CHECK_DEADLOCK FALSE`.
- **Transition matrix.** Two letters: nine rows of three columns, with every kind of row and
  each of the three tests at which the indexes start again. `MaxCounted` 2: the same
  element twice, two elements of a row, or two rows. `Resolution` 4: random numbers below,
  between and equal to the elements, and 0. The model stops where it reads outside:
  `CHECK_DEADLOCK FALSE`. The proofs have any alphabet, any counts and any grid.
- **Game client.** Lists of two words, two types. At most `MaxInFlight` 2 requests
  are outstanding when the form changes, plus those that the ends of lists add;
  scores are counted up to 2, which is enough for a streak that is broken. `Up`
  saturates, so that no behaviour is cut.

Every property has a mutant in `PROJECT.json`: a plausible bug in the code, written
beside the operator that it changes, for which the run finds the property violated.

## 4. Fairness

- `FileHandler!HandlerFairness`: the clock moves; the server ends what it began (weak
  fairness of `refresh_if_expired` and `handle_request`: they have no wait); a browser whose
  copy is not fresh asks again, and of the responses to it not all are lost (strong fairness of
  `Ask` and `Receive`). There is no fairness of the change of files, of restarts or of
  evictions. Used by `BrowserConverges`.
- `Server!FairSpec`: a process that is not killed goes on (weak fairness of `main(p)` for
  each), and nothing else: nobody has to start or to kill, and another program that has the port
  does not have to leave it. Used by `ComesUp`, which leaves out the starts that were `spoiled` or
  `refused`; the `serve` that refuses them is in the model, so that it has to be told apart from
  the one that fails because another isawordd serves already.
- `WordPicker` needs none: that its loading ends is stated by a measure (`InitializeGetsOn`).
- `GameClient!FairSpec`: the player goes on guessing, and the oldest request gets its
  response, be it a failure. There is no fairness of success: `GoesOnUnlessLost` and
  `SelectionShown` assume `[]~lost` instead.
- `PseudowordGenerator` has none: whether a walk ends is a matter of chance.

## 5. Theorems

All are checked by TLAPS for every value of the constants that satisfies the
`ASSUME`s of the modules. Each rests on an inductive invariant that the proofs
establish for `Init` and for each action.

**FileCache_proofs.** `CacheInv` (for `DistinctStamps`): an entry never remembers a
stamp newer than the file's; if it remembers just this stamp, it holds the whole file, or
the read under way was given the right size, or it has no data because the file could not be
opened or is of the epoch; its expiration time is at most one period ahead; and its
data was on disk within a period before the moment at which it expires. The last part is
the reason for the bound and is not inductive without the others: a copy kept because of its
stamp is fresh only if the stamp is honest. `StalenessIsBounded` follows from distinct
stamps alone. `FoundNeverNull`, `UnmodifiedMeansCurrent` and the refinement
`CacheKeepsPromise` need `StampsHaveData` besides (steady permissions and no
file of the epoch), for without it the third case is real. `TypeCorrect` needs nothing.

**FileHandler_proofs.** `HandlerUsesCache`: every step of the file handler is one of the file
cache or leaves the cache alone, so that `CacheInv` holds here too. `HandlerInv` adds,
for any number of files and browsers, of each version that a browser holds or is about to
get: if it has data, it was on disk within a period before the question, and if its stamp is
that of the file now it is the whole file (`VersionOnDisk`, `Genuine`); the server's entry
remembers no older stamp, and if it remembers the same one the version was on disk when the
entry was refreshed (`VersionInCache`). The last part speaks of the disk and not of what the
entry holds, since after a restart the two can differ. `HandlerInvariant` and
`BrowserStalenessIsBounded` need distinct stamps and no positive number in `Shifts`, whatever
cannot be opened and whatever is of the epoch; `NotModifiedMeansRight` needs `StampsHaveData`
too. `HandlerTypeCorrect` needs nothing: what was
found is in the cache (`NextFoundInUse`) with any file system.

**Server_proofs.** `MainMoves` and `StepMoves` reduce the steps of `main()` to one
formula, `ProcessMove`: a process goes from one place to the next, and what it leaves in its
memory. `ServerInv` says what a process has done by where it is: which handlers it added,
that it read its dictionary, that it has a file root if it has a handler for files
(`RootInv`), that a process which may come to serve has no living
relative that may, and that whoever serves has the port. It gives `OneProcessGoesOn`,
`ServesWithDictionary`, `ServerTypeCorrect` and, with patterns that do not overlap,
`RightHandlerAnswers`. `SparedStartServesWhole` needs `WholeInv` as well: of a start that
was left in peace the tree is complete until it serves, every file is found from where the
process is, and every handler and page so far is there. Its step is proved by splitting the
processes into the one that moves and those that are `Steady`.

**WordPicker_proofs.** `SoundInv`: for sound dictionaries the words in the list are the
lines read, the recorded ends separate the lengths and no group is empty, the longest
word so far has length `current_length`, each index lists only words that match and of
the dictionary, and the pattern table holds (f, t) at its triangular index as far as
the loops have come. `PickerInv` weakens it to the types for other dictionaries,
so that the theorems are of `Spec` itself: `PickerTypeCorrect`, `WordsAreGrouped`, `PicksFit`.
Two theorems are of every file, sound or not. `ReadyOnlyWhenRead` has the invariant
`ReadInv`: eofbit is set only after the last line, and failbit before it keeps eofbit from
ever being set. `IndexesAreComplete` is inductive as it stands: the word at position k is
listed at the place that the number of matches up to k gives, which later words do
not change. Two are of termination. `InitializeAlwaysGetsOn`: each step of `initialize()`
lowers a natural number, the lines, words, patterns and phases that are left, with the
invariant `LoopsInv` that no loop has passed its end; it holds of missing files too, which are
read until the memory is full. `ReadableNeverTakesDown`, with `ReadableInv` (failbit is not set
before eofbit): with a file that can be read and fits in memory the process does not get there.

**WordService_proofs.** It has the theorems of PageHandler as well. `RequestInRange` bounds what the picker is asked for, for any
URL and any limits in the order of `PageAssumption`. From it `PageHandlerIsPicker`: every
step of the page handler is one of the picker or a stutter, so that all theorems of
WordPicker hold here. `PageInv` says that the reply is the picker's to the request that
the last URL stands for, and has its length; with `PicksFit` and the types of replies
it gives `RequestsAnswered`. `ServiceInv` is about the request in progress: the generator
knows the listed words that it can spell, is trained if and only if loading is over, and
is asked just what the request in progress stands for; and each word picked so far could still be picked now.
The last part makes a list that is picked in many steps one step of PageHandler
(`ServiceIsPageHandler`); with `ServiceAsksAsAgreed` the composition keeps both
specifications, and `ServiceAnswersRequests` follows through the chain WordService - PageHandler -
WordPicker. `MadeUpWordsAreNew` is of every file, sound or not: `NewPicks` says that a made-up word is
none of the list, and `ReadyMeansRead` that the list has every line.

**PseudowordGenerator_proofs.** `GeneratorInv` spells words out with the special
characters: while a word is added its first `i` steps are recorded and the preceding
characters are those of its spelling; of other words all steps are recorded, and
nothing else; each step of a walk was drawn from the matrix and the next starts where
it ended. The key to `WalksStayInside` is that a row reached by a step of a word is
the row of that word's next step, and that only a last letter follows `End`
(`LetterAfterEnd`, `NextStep`). From it also `GeneratorTypeCorrect`, `MatrixSampled` and
`MadeWordsAlwaysFit`. `GeneratorKeepsPromise` is the refinement of
WordMaker with the strict maximum but for `AnswerCutWalk`, and `OnlyMaximumMissing` says that
nothing else is missing: a behaviour in which `MaximumKept` always holds is one of
WordMaker. The refinement rests on `LimitInv` (while a walk goes on it has drawn
no more characters than the limit, so that at its end it has drawn one more at most; and if the
last one was End, no more letters than the limit), and on `LetterInv`: no row is that of Start
and End, so that a walk which has drawn End before any letter cannot draw it again, and a word
that is tested has a letter.
`OverrunIsOne` rests on `LimitInv` too. `NewWordsNeedChoice` (for questions without a greatest
length) rests on `FollowsInv`: if no row of the matrix has two columns and no random number is
0, each walk spells the beginning of every word of the dictionary (so that there is one word at
most), and is that word when it ends.

**TransitionMatrix_proofs.** `MatrixInv` has a part for each loop. `MapInv` and `IndexInv`:
the two letter indexes are where a closed formula for the number of the row (`RowNumber`)
says, and the rows so far are those with smaller numbers; `RowNumber` is shown to be a
bijection. `SumInv`: the second loop over a row stores the partial sums of the first, and the
rows before are done. `SearchInv`: the search has passed an element smaller than the number. The
arithmetic of offsets is in two lemmas (`OneOffset`: an offset belongs to one row and column only;
`OffsetModulo`). They give `MatrixTypeCorrect` (no offset leaves its vector), `RowsAlwaysNumbered`,
`RowsAlwaysCumulative` and the refinement `MatrixDrawsWhatWasSeen`, whose heart is that the column
at which the search stops has an element greater than the one before it, hence a count. That
the last element of a row is the sum of its counts would be an induction over the alphabet; the
history variable `sums` carries it from one iteration to the next instead.

**GameClient_proofs.** `ClientTypeCorrect`, `StreaksAlwaysAgree`, `WordsNeverRunOut` and
`ListFollowsSelection`, the last with the strengthening that the *last* request is for
the selected type unless a response was lost or overtaken.

Assumptions of the proofs that are not of the code: `DistinctStamps` and, for four
theorems, `StampsHaveData` (the file system), the sign of `Shifts` (the time zone), `Sound`
dictionaries for the picks, sums of shares that are exact, a `NoWord` that is no word,
patterns without a common path (those of the code have none; which
characters they match is not modelled).

## 6. Only model-checked

- Liveness: `BrowserConverges`, `ComesUp`, `SelectionShown`, `GoesOnUnlessLost`. Reasoning about
  fairness (`ENABLED`) is beyond the prover. The end of loading is not among them: it is stated
  as a number that each step lowers, which is an action property and is proved.
- The properties of the five runs that expect a violation are refuted on one instance each, which
  is all that a counterexample needs.

All safety properties of the passing runs are proved, and some that no run lists, since
others imply them there: the types of FileCache, WordPicker and the generator, `OverrunByOne`
(`AnswerCutWalk` has the same bound) and `ServesAsPicker` (PageHandler implements
WordPicker, and WordService PageHandler).

## 7. Deviations that the runs show

1. *File cache, null data* (`file_cache_unreadable`). `last_modified_` is set before the
   file is opened. If the open fails, the next refresh finds nothing modified and returns
   true with a null pointer. The same happens to a file that disappears and returns with
   its old time.
2. *File handler, time zone* (`file_handler_zone`). `string_to_time()` (`http_utils.cpp` 32)
   reads a GMT date with `mktime()`. Where local time is behind GMT the date becomes later
   than the one that was sent, and a file that changed within these hours is "not modified".
   The 304 carries the new stamp, so that the browser keeps the old text under the new date,
   for good.
3. *Word picker, missing dictionary* (`word_picker_missing`). `bad()` is not set by a failed
   open; the loading loop never ends. A line longer than the buffer does the same.
4. *Word picker, final newline* (`word_picker_newline`). It adds an empty word. Also, a
   dictionary in order but without words of some length gets wrong ends, as
   `current_length` moves by one.
5. *Game client, guess too early* (`game_client_twice`). A guess between the last word and
   the next list is scored although `showNextWord` throws; the same word is scored again.

Seen while modelling, without a run of their own:

- A second write of a file in the second of its first read has the same modification time and
  is not noticed (the reason for `DistinctStamps`). After a restart a 304 can confirm a copy that
  was torn when it was read, which is why `NotModifiedIsRight` speaks of versions that were on
  disk and not of what the server holds.
- Generator, maximum length: `continue` in a do-while loop (`pseudoword_generator.cpp` 208)
  goes to the test at its end, so the word that is too long may be returned, against
  `pseudoword_generator.h` 173 and 182 and `word_picker.h` 155. WordMaker keeps the strict maximum;
  the step against it is named `AnswerCutWalk`. TLC refutes `MaximumKept` with a dictionary of
  one word of five letters and a question for at most three, which is answered with four. `OverrunByOne` bounds the
  damage: one letter.
- Startup, bind failure: `main()` does not look at what `serve()` returns (`isawordd.cpp` 160) and
  ends with status 0, so that whoever started it is not told. It shows in the model as a start in
  `refused`.
- Game client, lost reload: the reload at the end of a list is never retried, and the
  game is stuck until the form is changed. A cause at home: three definitions of `owl2.txt`
  (BOO, THOU, HOWDY) have quotes, which `make_words_to_guess` does not escape; a list with
  one of them is not JSON and its callback is never called. Lists for a type
  selected earlier can replace later ones until the next reload (`overtaken`).
- A daemon with a relative `res_root` never serves: after `chdir("/")` it does not find its
  dictionary and is stuck reading (deviation 3). `ServesWhole` and `ComesUp` leave such a start
  out. What the calls at `isawordd.cpp` 153-160 return is not looked at.
- The not-found page has status 200, against the comment at `http_server.cpp` 120 ("return
  404"), and may be cached for an hour.
- The modification time 0 stands for "never read" in the cache (`last_modified_` starts with it)
  and for "no copy" in a request (`string_to_time(NULL)` is 0). A file of that time, as some
  archives set it, is never read, and a browser that never had it is told "not
  modified": with `FirstStamp` 0 TLC refutes `NotModifiedIsRight` in four steps, and the theorems that
  need `StampsHaveData` are those that fail.
- A dictionary that leaves no choice (one word, say) keeps `make_word` busy for ever: each walk
  repeats a word that it may not return. `NewNeedsChoice` is the positive form.
- `prepare_for_generation` returns true without words, against its comment.

## 8. Not modelled

- HTTP utilities as conversions of strings (the path of a URI, the format of dates).
- Regular expressions over characters (permitted paths, URI patterns, criteria): the
  models take the set of what they match.
- Probabilities: which word is picked how often. The values of the transition matrix are
  fractions; the rounding of doubles is not modelled.
- Memory (`shared_array` hands one array to several owners; there is one thread), page
  buffers, the markup. Of a template the model keeps whether it was found.
- The log file and the help text of isawordd; a signal is the end of the process.
- `removeOldGuesses` and the anchors in the script, which nothing else reads.
- makewords, a loop around the generator; `set_sampling_matrix`, which only the tests call.

## 9. Plan

Done: FileCache and FreshStore with restarts; FileHandler over FileCache; Server; WordPicker;
PageHandler over WordPicker; WordService, which puts the generator's promise in its place;
PseudowordGenerator and WordMaker; TransitionMatrix and Transitions; GameClient; their
invariants and proofs.

Next, in this order:

1. `ListService`, an abstract specification of what the client is promised (a list of
   the type it asked for, or nothing), implemented by PageHandler and used by
   GameClient in place of its arbitrary lists.
2. The history of guesses in the script: fading and removal, and a history size that changes
   while guesses fade.
3. Proofs of 1 and 2.
4. PseudowordGenerator over Transitions in one state, as WordService is over WordMaker.
