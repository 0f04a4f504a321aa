-------------------------- MODULE WordService_proofs --------------------------
(***************************************************************************)
(* Theorems about PageHandler, for every set of URLs, every dictionary and *)
(* all limits that satisfy PageAssumption, and about WordService, for      *)
(* every alphabet as well, with their proofs.                              *)
(***************************************************************************)
EXTENDS WordService, WordPicker_proofs

-----------------------------------------------------------------------------
(* Requests.                                                               *)

LEMMA Limits ==
    /\ MinWordLength \in Nat /\ MaxWordLength \in Nat /\ MinWordLength <= MaxWordLength
    /\ DefaultMinWordLength \in MinWordLength .. MaxWordLength
    /\ DefaultMaxWordLength \in MinWordLength .. MaxWordLength
    /\ MaxNumWords \in Nat /\ MaxNumWords <= NumWords /\ NumWords \in Nat
    /\ DefaultNumWords \in 1 .. MaxNumWords
BY PickerAssumption, PageAssumption

LEMMA NumberType ==
    ASSUME NEW d \in Descriptions, NEW k \in Nat \ {0}, IsNumber(d, k)
    PROVE  Number[d[k]] \in Nat
<1>1. d \in Seq(Parts) /\ k <= Len(d) /\ Number[d[k]] # NaN
  BY PageAssumption DEF IsNumber
<1>2. d[k] \in Parts
  BY <1>1
<1> QED BY <1>1, <1>2, PageAssumption

LEMMA Clamp ==
    ASSUME NEW m \in Nat, NEW low \in Nat, NEW high \in Nat, low <= high
    PROVE  /\ Greatest(Least(m, high), low) \in low .. high
           /\ m \in low .. high => Greatest(Least(m, high), low) = m
BY DEF Greatest, Least

\* What the picker is asked for is in range whatever the URL.
LEMMA RequestInRange ==
    ASSUME NEW d \in Descriptions
    PROVE  /\ num_words(d) \in 1 .. MaxNumWords
           /\ From(d) \in MinWordLength .. MaxWordLength
           /\ To(d) \in From(d) .. MaxWordLength
           /\ index_num(d) \in Indexes
<1>1. num_words(d) \in 1 .. MaxNumWords
  <2>1. CASE IsNumber(d, 2)
    <3>1. Number[d[2]] \in Nat /\ 1 <= MaxNumWords
      BY <2>1, NumberType, Limits
    <3> QED BY <2>1, <3>1, Clamp, Limits DEF num_words
  <2>2. CASE ~IsNumber(d, 2)
    BY <2>2, Limits DEF num_words
  <2> QED BY <2>1, <2>2
<1>2. From(d) \in MinWordLength .. MaxWordLength
  <2>1. CASE IsNumber(d, 4)
    <3>1. Number[d[4]] \in Nat
      BY <2>1, NumberType
    <3> QED BY <2>1, <3>1, Clamp, Limits DEF From
  <2>2. CASE ~IsNumber(d, 4)
    BY <2>2, Limits DEF From
  <2> QED BY <2>1, <2>2
<1>3. To(d) \in From(d) .. MaxWordLength
  <2>0. From(d) \in Nat /\ From(d) <= MaxWordLength
    BY <1>2, Limits
  <2>1. CASE IsNumber(d, 5)
    <3>1. Number[d[5]] \in Nat
      BY <2>1, NumberType
    <3> QED BY <2>0, <2>1, <3>1, Clamp, Limits DEF To
  <2>2. CASE ~IsNumber(d, 5)
    BY <2>0, <2>2, Limits DEF To, Greatest
  <2> QED BY <2>1, <2>2
<1>4. index_num(d) \in Indexes
  BY PageAssumption DEF index_num
<1> QED BY <1>1, <1>2, <1>3, <1>4

-----------------------------------------------------------------------------
(* The page handler implements the picker.                                 *)

LEMMA PageStep == [PageNext]_pageVars => [Next]_vars
<1> SUFFICES ASSUME [PageNext]_pageVars PROVE [Next]_vars
  OBVIOUS
<1>1. ASSUME NEW d \in Descriptions, words(d) PROVE Next
  <2>1. /\ num_words(d) \in 0 .. NumWords
        /\ From(d) \in MinWordLength .. MaxWordLength
        /\ To(d) \in MinWordLength .. MaxWordLength
        /\ index_num(d) \in Indexes \cup {NoIndex}
    BY RequestInRange, Limits
  <2>2. CASE IsForIndex(d)
    <3>1. get_words_from_index(index_num(d), num_words(d))
      BY <1>1, <2>2 DEF words
    <3> QED BY <2>1, <3>1 DEF Next
  <2>3. CASE ~IsForIndex(d)
    <3>1. get_words_by_length(From(d), To(d), num_words(d))
      BY <1>1, <2>3 DEF words
    <3> QED BY <2>1, <3>1 DEF Next
  <2> QED BY <2>2, <2>3
<1>2. ASSUME initialize PROVE Next
  BY <1>2 DEF Next
<1>3. CASE UNCHANGED pageVars
  BY <1>3 DEF pageVars
<1> QED BY <1>1, <1>2, <1>3 DEF PageNext

\* Every behaviour of the page handler is one of the word picker: the picker
\* is only asked for what its specification allows, whatever the URL
\* (views.cpp 246-323).
THEOREM PageHandlerIsPicker == PageSpec => ServesAsPicker
<1>1. PageInit => Init
  BY DEF PageInit
<1> QED BY <1>1, PageStep, PTL DEF PageSpec, ServesAsPicker, Spec

-----------------------------------------------------------------------------
(* Answers.                                                                *)

LEMMA PickLength ==
    ASSUME NEW r, NEW n \in Nat, NEW S, Pick(r, n, S)
    PROVE  reply'.request = r /\ Len(reply'.picked) = n
<1>1. PICK p \in [1 .. n -> S] : Reply(r, p)
  BY DEF Pick
<1>2. Len(p) = n
  OBVIOUS
<1> QED BY <1>1, <1>2 DEF Reply

LEMMA SameAnswer == initialize => reply' = reply
BY DEF initialize, Open, ReadLine, ReadNothing, ReadFails, AddWord, OutOfMemory,
       EndOfDictionary, AddPattern, Initialized

\* A request in range is never answered with the empty list of PickNoLength
\* and PickNoIndex.
LEMMA WordsAnswer ==
    ASSUME NEW d \in Descriptions, words(d)
    PROVE  PageInv'
<1> DEFINE n == num_words(d)
<1>1. n \in Nat /\ n > 0 /\ index_num(d) \in Indexes
  BY RequestInRange, Limits
<1>2. From(d) <= To(d)
  BY RequestInRange, Limits
<1>3. description' = d
  BY DEF words
<1>4. CASE IsForIndex(d)
  <2>1. get_words_from_index(index_num(d), n)
    BY <1>4 DEF words
  <2>2. PickFromIndex(index_num(d), n)
    BY <1>1, <2>1 DEF get_words_from_index, PickNoIndex
  <2>3. PICK S : Pick(FromIndex(index_num(d)), n, S)
    BY <2>2 DEF PickFromIndex
  <2>4. reply'.request = FromIndex(index_num(d)) /\ Len(reply'.picked) = n
    BY <1>1, <2>3, PickLength
  <2> QED BY <1>3, <1>4, <2>4 DEF PageInv
<1>5. CASE ~IsForIndex(d)
  <2>1. get_words_by_length(From(d), To(d), n)
    BY <1>5 DEF words
  <2>2. ~PickNoLength(From(d), To(d), n)
    <3>1. ~(From(d) > To(d)) /\ n # 0
      BY <1>1, <1>2, RequestInRange, Limits
    <3> QED BY <3>1 DEF PickNoLength
  <2>3. PICK S : Pick(ByLength(From(d), To(d)), n, S)
    BY <2>1, <2>2 DEF get_words_by_length, PickByLength, PickBeyondLongest
  <2>4. reply'.request = ByLength(From(d), To(d)) /\ Len(reply'.picked) = n
    BY <1>1, <2>3, PickLength
  <2> QED BY <1>3, <1>5, <2>4 DEF PageInv
<1> QED BY <1>4, <1>5

LEMMA PageInvariant == PageSpec => []PageInv
<1>1. PageInit => PageInv
  BY DEF PageInit, Init, PageInv
<1>2. PageInv /\ [PageNext]_pageVars => PageInv'
  <2>1. ASSUME PageInv, UNCHANGED <<reply, description>> PROVE PageInv'
    BY <2>1 DEF PageInv
  <2>2. CASE UNCHANGED pageVars
    BY <2>1, <2>2 DEF pageVars, vars
  <2>3. CASE initialize /\ UNCHANGED description
    BY <2>1, <2>3, SameAnswer
  <2> QED BY <2>2, <2>3, WordsAnswer DEF PageNext
<1> QED BY <1>1, <1>2, PTL DEF PageSpec

\* A word that fits the request made for a URL suits the URL.
LEMMA FitSuits ==
    ASSUME NEW d \in Descriptions, NEW w \in Words,
           Fits(w, IF IsForIndex(d) THEN FromIndex(index_num(d)) ELSE ByLength(From(d), To(d)))
    PROVE  Suits(w, d)
<1>1. CASE IsForIndex(d)
  <2>1. index_num(d) \in Matches[w]
    BY <1>1 DEF Fits, FromIndex
  <2> QED BY <1>1, <2>1 DEF Suits, index_num
<1>2. CASE ~IsForIndex(d)
  <2>1. Length[w] \in Nat
    BY PickerAssumption
  <2>2. From(d) <= Length[w] /\ Length[w] <= To(d)
    BY <1>2 DEF Fits, ByLength
  <2>3. From(d) \in MinWordLength .. MaxWordLength /\ To(d) \in From(d) .. MaxWordLength
    BY RequestInRange
  <2>4. Length[w] \in MinWordLength .. MaxWordLength
    BY <2>1, <2>2, <2>3, Limits
  <2>5. ASSUME IsNumber(d, 4), IsNumber(d, 5),
               MinWordLength <= Number[d[4]], Number[d[4]] <= Number[d[5]],
               Number[d[5]] <= MaxWordLength
        PROVE  Length[w] \in Number[d[4]] .. Number[d[5]]
    <3>1. Number[d[4]] \in Nat /\ Number[d[5]] \in Nat
      BY <2>5, NumberType
    <3>2. From(d) = Number[d[4]]
      <4>1. Number[d[4]] \in MinWordLength .. MaxWordLength
        BY <2>5, <3>1, Limits
      <4>2. Greatest(Least(Number[d[4]], MaxWordLength), MinWordLength) = Number[d[4]]
        BY <3>1, <4>1, Clamp, Limits
      <4> QED BY <2>5, <4>2 DEF From
    <3>3. To(d) = Number[d[5]]
      <4>1. From(d) \in Nat /\ Number[d[5]] \in From(d) .. MaxWordLength /\ From(d) <= MaxWordLength
            /\ MaxWordLength \in Nat
        BY <2>3, <2>5, <3>1, <3>2, Limits
      <4>2. Greatest(Least(Number[d[5]], MaxWordLength), From(d)) = Number[d[5]]
        BY <3>1, <4>1, Clamp
      <4> QED BY <2>5, <4>2 DEF To
    <3> QED BY <2>1, <2>2, <3>1, <3>2, <3>3
  <2> QED BY <1>2, <2>4, <2>5 DEF Suits
<1> QED BY <1>1, <1>2

\* Whatever the URL, a server with a sound dictionary of any size answers with
\* as many words as asked for, at least one and at most MaxNumWords, each
\* suiting the URL and none from outside the vectors (views.cpp 199-209).
THEOREM RequestsAnswered == PageSpec => []AnswersRequest
<1>1. ASSUME TypeOK, PickedFit, PageInv PROVE AnswersRequest
  <2> SUFFICES ASSUME Sound(file), reply # NoReply
               PROVE  LET n == Len(reply.picked) IN
                      /\ n \in 1 .. MaxNumWords
                      /\ IsNumber(description, 2) /\ Number[description[2]] \in 1 .. MaxNumWords
                           => n = Number[description[2]]
                      /\ \A k \in 1 .. n :
                           /\ reply.picked[k] # Garbage
                           /\ Suits(reply.picked[k].word, description)
    BY DEF AnswersRequest
  <2> DEFINE d == description
             n == Len(reply.picked)
  <2>1. d \in Descriptions /\ n = num_words(d)
        /\ reply.request = IF IsForIndex(d) THEN FromIndex(index_num(d))
                                            ELSE ByLength(From(d), To(d))
    BY <1>1 DEF PageInv
  <2>2. n \in 1 .. MaxNumWords
    BY <2>1, RequestInRange
  <2>3. ASSUME IsNumber(d, 2), Number[d[2]] \in 1 .. MaxNumWords PROVE n = Number[d[2]]
    <3>1. Number[d[2]] \in Nat /\ 1 <= MaxNumWords
      BY <2>1, <2>3, NumberType, Limits
    <3>2. Greatest(Least(Number[d[2]], MaxNumWords), 1) = Number[d[2]]
      BY <2>3, <3>1, Limits DEF Greatest, Least
    <3> QED BY <2>1, <2>3, <3>2 DEF num_words
  <2>4. ASSUME NEW k \in 1 .. n
        PROVE  reply.picked[k] # Garbage /\ Suits(reply.picked[k].word, d)
    <3>1. reply.picked[k] # Garbage /\ Fits(reply.picked[k].word, reply.request)
      BY <1>1 DEF PickedFit, AllFit
    <3>2. reply.picked \in Seq(Entry \cup {Garbage})
      BY <1>1 DEF TypeOK, ReplyType
    <3>3. reply.picked[k] \in Entry \cup {Garbage}
      BY <3>2
    <3>4. reply.picked[k].word \in Words
      BY <3>1, <3>3 DEF Entry
    <3> QED BY <2>1, <3>1, <3>4, FitSuits
  <2> QED BY <2>2, <2>3, <2>4
<1>2. PageSpec => []TypeOK /\ []PickedFit
  BY PageHandlerIsPicker, PickerTypeCorrect, PicksFit, PTL DEF ServesAsPicker
<1> QED BY <1>1, <1>2, PageInvariant, PTL

-----------------------------------------------------------------------------
(* The service implements the page handler.                                *)

\* The steps of the picker change its pattern table only at the end of it.
LEMMA PatternNext == TypeOK /\ PatternInv /\ [Next]_vars => PatternInv'
<1> SUFFICES ASSUME TypeOK, PatternInv, [Next]_vars PROVE PatternInv'
  OBVIOUS
<1> DEFINE same == UNCHANGED <<word_length_patterns, from, to>>
<1>1. CASE AddPattern
  BY <1>1, PatternsGrow
<1>2. CASE Initialized
  <2>1. same /\ to = MaxWordLength + 1
    BY <1>2, PickerAssumption DEF Initialized, PatternInv, TypeOK
  <2> QED BY <2>1, SamePatterns
<1>3. CASE Open \/ ReadLine \/ ReadNothing \/ ReadFails \/ OutOfMemory \/ EndOfDictionary
  <2>1. same /\ phase' # "ready"
    BY <1>3 DEF Open, ReadLine, ReadNothing, ReadFails, AddWord, OutOfMemory, EndOfDictionary, Loading
  <2> QED BY <2>1, SamePatterns
<1>4. ASSUME NEW r, NEW p, Reply(r, p) PROVE PatternInv'
  <2>1. same /\ phase' = phase
    BY <1>4 DEF Reply
  <2> QED BY <2>1, SamePatterns DEF PatternInv
<1>5. ASSUME NEW r, NEW n, NEW S, Pick(r, n, S) PROVE PatternInv'
  BY <1>4, <1>5 DEF Pick
<1>6. ASSUME NEW f, NEW t, NEW n, get_words_by_length(f, t, n) PROVE PatternInv'
  BY <1>4, <1>5, <1>6 DEF get_words_by_length, PickByLength, PickNoLength, PickBeyondLongest
<1>7. ASSUME NEW i, NEW n, get_words_from_index(i, n) PROVE PatternInv'
  BY <1>4, <1>5, <1>7 DEF get_words_from_index, PickFromIndex, PickNoIndex
<1>8. CASE UNCHANGED vars
  <2>1. same /\ phase' = phase
    BY <1>8 DEF vars
  <2> QED BY <2>1, SamePatterns DEF PatternInv
<1> QED BY <1>1, <1>2, <1>3, <1>6, <1>7, <1>8 DEF Next, initialize

\* The list that is returned is one that the picker may return at once.
LEMMA ReturnIsWords ==
    ASSUME TypeOK, CallInv, ReturnWords
    PROVE  \E d \in Descriptions : words(d)
<1> DEFINE r == call.request
           p == call.picked
<1>1. PICK d \in Descriptions : /\ call.description = d /\ r = Request(d)
                                /\ call.count = num_words(d)
  BY DEF CallInv, ReturnWords
<1> DEFINE n == num_words(d)
<1>2. phase = "ready" /\ p \in Seq(Candidates(r)) /\ Len(p) = n /\ Reply(r, p) /\ description' = d
  BY <1>1 DEF CallInv, ReturnWords
<1>3. n \in Nat /\ n > 0 /\ From(d) <= To(d) /\ index_num(d) \in Indexes
  BY RequestInRange, Limits
<1>4. p \in [1 .. n -> Candidates(r)]
  BY <1>2
<1>5. Pick(r, n, Candidates(r))
  BY <1>2, <1>4 DEF Pick
<1>6. CASE IsForIndex(d)
  <2>1. r = FromIndex(index_num(d))
    BY <1>1, <1>6 DEF Request
  <2>2. r.by = "index" /\ r.index = index_num(d)
    BY <2>1 DEF FromIndex
  <2>3. Candidates(r) = RealFromIndex(index_num(d)) \cup FakeFromIndex(index_num(d))
    BY <2>2 DEF Candidates, Beyond, Real, Fake
  <2>4. PickFromIndex(index_num(d), n)
    BY <1>2, <1>3, <1>5, <2>1, <2>3 DEF PickFromIndex
  <2> QED BY <1>2, <1>6, <2>4 DEF words, get_words_from_index
<1>7. CASE ~IsForIndex(d)
  <2>1. r = ByLength(From(d), To(d))
    BY <1>1, <1>7 DEF Request
  <2>2. r.by = "length" /\ r.from = From(d) /\ r.to = To(d)
    BY <2>1 DEF ByLength
  <2>3. CASE Beyond(r)
    <3>1. Candidates(r) = {Garbage} /\ To(d) >= Len(word_length_ends)
      BY <2>2, <2>3 DEF Candidates, Beyond
    <3>2. PickBeyondLongest(From(d), To(d), n)
      BY <1>3, <1>5, <2>1, <3>1 DEF PickBeyondLongest
    <3> QED BY <1>2, <1>7, <3>2 DEF words, get_words_by_length
  <2>4. CASE ~Beyond(r)
    <3>1. Candidates(r) = RealByLength(From(d), To(d)) \cup FakeByLength(From(d), To(d))
      BY <2>2, <2>4 DEF Candidates, Real, Fake
    <3>2. ~(To(d) >= Len(word_length_ends))
      BY <2>2, <2>4 DEF Beyond
    <3>3. PickByLength(From(d), To(d), n)
      <4>1. To(d) < Len(word_length_ends) \/ To(d) >= Len(word_length_ends)
        <5>1. Len(word_length_ends) \in Nat /\ To(d) \in Nat
          BY RequestInRange, Limits DEF TypeOK
        <5> QED BY <5>1
      <4> QED BY <1>2, <1>3, <1>5, <2>1, <3>1, <3>2, <4>1 DEF PickByLength
    <3> QED BY <1>2, <1>7, <3>3 DEF words, get_words_by_length
  <2> QED BY <2>3, <2>4
<1> QED BY <1>6, <1>7

LEMMA ServicePageStep ==
    ASSUME TypeOK, CallInv, [ServiceNext]_serviceVars
    PROVE  [PageNext]_pageVars
<1>1. CASE Load \/ FinishLoading \/ LoadAlone
  BY <1>1 DEF Load, FinishLoading, LoadAlone, PageNext, initialize
<1>2. CASE ReturnWords
  BY <1>2, ReturnIsWords DEF PageNext
<1>3. ASSUME NEW d \in Descriptions, BeginWords(d) PROVE UNCHANGED pageVars
  BY <1>3 DEF BeginWords
<1>4. CASE PickReal \/ PickBeyond \/ AskForFake \/ PickFake \/ GiveUp
  BY <1>4 DEF PickReal, PickBeyond, AskForFake, PickFake, GiveUp
<1>5. CASE UNCHANGED serviceVars
  BY <1>5 DEF serviceVars
<1> QED BY <1>1, <1>2, <1>3, <1>4, <1>5 DEF ServiceNext

-----------------------------------------------------------------------------
(* The picker uses the generator as agreed.                                *)

\* A line that is loaded goes to the generator too.
LEMMA LoadedWord ==
    ASSUME TypeOK, Load
    PROVE  /\ phase = "loading" /\ phase' = phase
           /\ \E w \in Words : AddWord(w) /\ add_dictionary_word(w)
<1>1. PICK w \in Words : AddWord(w)
  <2>1. CASE ReadLine
    <3>1. stream.read + 1 \in 1 .. Len(file.lines)
      BY <2>1, PickerAssumption DEF ReadLine, TypeOK
    <3> QED BY <2>1, <3>1, LineType DEF ReadLine
  <2>2. CASE ReadNothing \/ ReadFails
    BY <2>2, PickerAssumption DEF ReadNothing, ReadFails
  <2> QED BY <2>1, <2>2 DEF Load
<1>2. words_by_length'[Len(words_by_length')] = w /\ phase' = phase
  BY <1>1, AddWordLast
<1>3. phase = "loading"
  BY DEF Load, ReadLine, ReadNothing, ReadFails, Loading
<1> QED BY <1>1, <1>2, <1>3 DEF Load

\* For each URL the generator is asked a question that it is made for, which is
\* about the lengths or the index of the request.
LEMMA QuestionAsked ==
    ASSUME TypeOK, PatternInv, phase = "ready", NEW d \in Descriptions
    PROVE  /\ Question(Request(d)) \in Questions
           /\ \A w : Fits(w, Question(Request(d)).criteria) <=> Fits(w, Request(d))
<1> DEFINE r == Request(d)
           q == Question(r)
<1>1. CASE IsForIndex(d)
  <2>1. r = FromIndex(index_num(d)) /\ index_num(d) \in Indexes
    BY <1>1, RequestInRange DEF Request
  <2>2. q = [criteria |-> r, max_length |-> MaxIndexLength]
    BY <2>1 DEF Question, FromIndex
  <2>3. r \in Criteria
    BY <2>1 DEF Criteria
  <2> QED BY <2>2, <2>3 DEF Questions
<1>2. CASE ~IsForIndex(d)
  <2> DEFINE f == From(d)
             t == To(d)
  <2>1. r = ByLength(f, t) /\ f \in MinWordLength .. MaxWordLength /\ t \in f .. MaxWordLength
    BY <1>2, RequestInRange DEF Request
  <2>2. f \in MinWordLength .. t /\ t \in MinWordLength .. MaxWordLength /\ t < to
    <3>1. to = MaxWordLength + 1
      BY DEF PatternInv
    <3> QED BY <2>1, <3>1, Limits
  <2>3. length_pattern(f, t) = <<f, t>>
    BY <2>2 DEF PatternInv, length_pattern
  <2>4. q = [criteria |-> ByLength(f, t), max_length |-> 0]
    BY <2>1, <2>3 DEF Question, ByLength
  <2>5. ByLength(f, t) \in Criteria
    <3>1. f \in MinWordLength .. MaxWordLength
      BY <2>1
    <3> QED BY <2>2, <3>1 DEF Criteria
  <2> QED BY <2>1, <2>4, <2>5 DEF Questions
<1> QED BY <1>1, <1>2

\* make_word() is called with what the picker may ask for.
LEMMA AskedType ==
    ASSUME ServiceInv, ~stopped, Picking
    PROVE  Question(call.request) \in Questions /\ prepared
<1>1. PICK d \in Descriptions : call.request = Request(d)
  BY DEF ServiceInv, CallInv, Picking
<1>2. phase = "ready"
  BY DEF ServiceInv, CallInv, Picking
<1> QED BY <1>1, <1>2, QuestionAsked DEF ServiceInv, ServiceTypeOK, DictionaryInv

LEMMA ServiceMakerStep ==
    ASSUME ServiceInv, [ServiceNext]_serviceVars
    PROVE  [Maker!Next \/ Maker!AnswerTooLong]_(Maker!vars)
<1> USE DEF Maker!vars, maker
<1>1. CASE Load /\ ~stopped
  <2>1. PICK w \in Words : add_dictionary_word(w)
    BY <1>1, LoadedWord DEF ServiceInv, ServiceTypeOK
  <2>2. ~prepared /\ UNCHANGED <<prepared, asked, made>>
    BY <1>1, LoadedWord DEF Load, ServiceInv, DictionaryInv, ServiceTypeOK
  <2>3. CASE w \in Spellable
    BY <2>1, <2>2, <2>3 DEF add_dictionary_word, Maker!Next, Maker!Learn
  <2>4. CASE w \notin Spellable
    BY <2>1, <2>2, <2>4 DEF add_dictionary_word
  <2> QED BY <2>3, <2>4
<1>2. CASE FinishLoading /\ ~stopped
  <2>1. ~prepared
    BY <1>2 DEF FinishLoading, EndOfDictionary, ServiceInv, DictionaryInv
  <2> QED BY <1>2, <2>1 DEF FinishLoading, Maker!Next, Maker!Prepare
<1>3. CASE AskForFake /\ ~stopped
  <2>1. Question(call.request) \in Questions /\ prepared
    BY <1>3, AskedType DEF AskForFake
  <2>2. Maker!Ask(Question(call.request))
    BY <1>3, <2>1 DEF AskForFake, Picking, Maker!Ask
  <2> QED BY <2>1, <2>2 DEF Maker!Next
<1>4. CASE PickFake
  <2>1. asked \in Questions
    BY <1>4 DEF PickFake, ServiceInv, ServiceTypeOK
  <2>2. PICK w \in Words : /\ Maker!Suits(w, asked) \/ Maker!TooLong(w, asked)
                          /\ made' = [word |-> w, request |-> asked]
    BY <1>4 DEF PickFake
  <2>3. made' # NoWord /\ made'.word = w
    BY <2>1, <2>2, ServiceAssumption
  <2>4. Maker!Respond
    BY <1>4, <2>2, <2>3 DEF PickFake, Maker!Respond
  <2>5. Maker!Answer \/ Maker!AnswerTooLong
    BY <2>2, <2>3, <2>4 DEF Maker!Answer, Maker!AnswerTooLong
  <2> QED BY <2>5 DEF Maker!Next
<1>5. CASE GiveUp
  BY <1>5 DEF GiveUp, Maker!Next, Maker!GiveUp
<1>6. ASSUME NEW d \in Descriptions, BeginWords(d) PROVE UNCHANGED maker
  BY <1>6 DEF BeginWords
<1>7. CASE LoadAlone \/ PickReal \/ PickBeyond \/ ReturnWords
  BY <1>7 DEF LoadAlone, PickReal, PickBeyond, ReturnWords
<1>8. CASE UNCHANGED serviceVars
  BY <1>8 DEF serviceVars
<1> QED BY <1>1, <1>2, <1>3, <1>4, <1>5, <1>6, <1>7, <1>8 DEF ServiceNext

-----------------------------------------------------------------------------
(* The invariant of the service.                                           *)

LEMMA ServiceInit_Inv == ServiceInit => ServiceInv
<1> SUFFICES ASSUME ServiceInit PROVE ServiceInv
  OBVIOUS
<1>1. TypeOK /\ PatternInv
  BY TypeInit, PatternsStart DEF ServiceInit, PageInit
<1>2. dictionary = {} /\ prepared = FALSE /\ asked = NoWord /\ made = NoWord /\ call = NoCall /\ stopped = FALSE
      /\ phase = "closed" /\ words_by_length = <<>>
  BY DEF ServiceInit, PageInit, Init, Maker!Init
<1>3. ServiceTypeOK
  BY <1>1, <1>2 DEF ServiceTypeOK
<1>4. DictionaryInv
  BY <1>2 DEF DictionaryInv
<1>5. CallInv /\ AskedInv
  BY <1>2 DEF CallInv, AskedInv
<1> QED BY <1>1, <1>3, <1>4, <1>5 DEF ServiceInv

LEMMA ServiceTypes ==
    ASSUME ServiceInv, [ServiceNext]_serviceVars
    PROVE  ServiceTypeOK' /\ PatternInv'
<1>1. [Next]_vars
  BY ServicePageStep, PageStep DEF ServiceInv, ServiceTypeOK
<1>2. TypeOK' /\ PatternInv'
  BY <1>1, TypeNext, PatternNext DEF ServiceInv, ServiceTypeOK
<1>3. dictionary' \subseteq Spellable
  <2>1. CASE Load
    BY <2>1 DEF Load, add_dictionary_word, ServiceInv, ServiceTypeOK
  <2>2. CASE dictionary' = dictionary
    BY <2>2 DEF ServiceInv, ServiceTypeOK
  <2> QED BY <2>1, <2>2 DEF ServiceNext, FinishLoading, LoadAlone, BeginWords, PickReal, PickBeyond, AskForFake,
             PickFake, GiveUp, ReturnWords, serviceVars, maker
<1>4. asked' \in Questions \cup {NoWord}
  <2>1. CASE AskForFake /\ ~stopped
    BY <2>1, AskedType DEF AskForFake
  <2>2. CASE asked' \in {asked, NoWord}
    BY <2>2 DEF ServiceInv, ServiceTypeOK
  <2> QED BY <2>1, <2>2 DEF ServiceNext, Load, FinishLoading, LoadAlone, BeginWords, PickReal, PickBeyond,
             PickFake, GiveUp, ReturnWords, serviceVars, maker
<1>5. prepared' \in BOOLEAN /\ stopped' \in BOOLEAN
  BY DEF ServiceInv, ServiceTypeOK, ServiceNext, Load, FinishLoading, LoadAlone, BeginWords, PickReal, PickBeyond,
         AskForFake, PickFake, GiveUp, ReturnWords, serviceVars, maker
<1> QED BY <1>2, <1>3, <1>4, <1>5 DEF ServiceTypeOK

\* What can be picked depends on the tables of the picker alone.
LEMMA SameChoices ==
    ASSUME UNCHANGED <<tables, word_length_patterns>>, NEW r
    PROVE  Candidates(r)' = Candidates(r) /\ Beyond(r)' = Beyond(r) /\ Question(r)' = Question(r)
<1>1. /\ words_by_length' = words_by_length /\ word_length_ends' = word_length_ends
      /\ indexes' = indexes /\ word_length_patterns' = word_length_patterns
  BY DEF tables
<1>2. Real(r)' = Real(r)
  BY <1>1 DEF Real, RealByLength, RealFromIndex, At
<1>3. \A M : MadeUp(M)' = MadeUp(M)
  BY <1>1 DEF MadeUp
<1>4. \A f, t : length_pattern(f, t)' = length_pattern(f, t)
  BY <1>1 DEF length_pattern, PatternIndex
<1>5. Fake(r)' = Fake(r)
  BY <1>1, <1>4 DEF Fake, FakeByLength, FakeFromIndex, MadeUp
<1>6. Beyond(r)' = Beyond(r)
  BY <1>1 DEF Beyond
<1>7. Question(r)' = Question(r)
  BY <1>4 DEF Question
<1> QED BY <1>2, <1>5, <1>6, <1>7 DEF Candidates

\* The steps that leave the call, and what can be picked for it, alone.
LEMMA CallWaits ==
    ASSUME ServiceInv, UNCHANGED <<phase, tables, word_length_patterns, call>>
    PROVE  CallInv' /\ (asked' = asked \/ asked' = NoWord => AskedInv')
<1> USE DEF ServiceInv
<1>1. /\ Candidates(call.request)' = Candidates(call.request)
      /\ Beyond(call.request)' = Beyond(call.request)
      /\ Question(call.request)' = Question(call.request)
  <2>1. PICK r : r = call.request
    OBVIOUS
  <2>2. Candidates(r)' = Candidates(r) /\ Beyond(r)' = Beyond(r) /\ Question(r)' = Question(r)
    BY SameChoices
  <2>3. r = call'.request
    BY <2>1
  <2> QED BY <2>1, <2>2, <2>3
<1>2. CallInv'
  BY <1>1 DEF CallInv
<1>3. ASSUME asked' = asked \/ asked' = NoWord PROVE AskedInv'
  BY <1>1, <1>3 DEF AskedInv
<1> QED BY <1>2, <1>3

\* While the dictionary is loaded no call is in progress.
LEMMA NoCallBefore ==
    ASSUME ServiceInv, phase # "ready", call' = call, asked' = asked
    PROVE  CallInv' /\ AskedInv'
BY DEF ServiceInv, CallInv, AskedInv

\* One more word is picked.
LEMMA PushedOne ==
    ASSUME ServiceInv, call # NoCall, Len(call.picked) < call.count,
           NEW p \in Candidates(call.request), Push(p), asked' = NoWord,
           UNCHANGED <<phase, tables, word_length_patterns>>
    PROVE  CallInv' /\ AskedInv'
<1>1. PICK r, q : r = call.request /\ q = call.picked
  OBVIOUS
<1>2. PICK d \in Descriptions :
        call = [kind |-> "words", description |-> d, request |-> Request(d),
                count |-> num_words(d), picked |-> call.picked]
  BY DEF ServiceInv, CallInv
<1>3. phase = "ready" /\ q \in Seq(Candidates(r)) /\ p \in Candidates(r) /\ r = Request(d)
      /\ Len(q) < num_words(d)
  BY <1>1, <1>2 DEF ServiceInv, CallInv
<1>4. call' = [kind |-> "words", description |-> d, request |-> Request(d),
               count |-> num_words(d), picked |-> Append(q, p)]
  <2>1. call = [kind |-> "words", description |-> d, request |-> Request(d),
                count |-> num_words(d), picked |-> q]
    BY <1>1, <1>2
  <2>2. call' = [call EXCEPT !.picked = Append(q, p)]
    BY <1>1 DEF Push
  <2> QED BY <2>1, <2>2
<1>5. Append(q, p) \in Seq(Candidates(r)) /\ Len(Append(q, p)) <= num_words(d)
  <2>1. num_words(d) \in Nat
    BY RequestInRange, Limits
  <2> QED BY <1>3, <2>1
<1>6. Candidates(r)' = Candidates(r)
  BY SameChoices
<1>7. call'.request = r /\ call'.picked = Append(q, p) /\ call'.count = num_words(d)
      /\ call' = [kind |-> "words", description |-> d, request |-> Request(d),
                  count |-> num_words(d), picked |-> call'.picked]
  BY <1>3, <1>4
<1>8. call'.picked \in Seq(Candidates(call.request)')
  <2>1. r = call'.request
    BY <1>7
  <2> QED BY <1>5, <1>6, <1>7, <2>1
<1>9. phase' = "ready"
  BY <1>3
<1> QED BY <1>5, <1>7, <1>8, <1>9 DEF CallInv, AskedInv

\* What the generator answers is a word that the picker would call made-up.
LEMMA AnswerIsFake ==
    ASSUME ServiceInv, asked # NoWord, NEW w \in Words, Maker!Suits(w, asked) \/ Maker!TooLong(w, asked)
    PROVE  [word |-> w, is_real |-> FALSE] \in Candidates(call.request)
<1> DEFINE r == call.request
<1>1. call # NoCall /\ ~Beyond(r) /\ asked = Question(r) /\ phase = "ready"
  BY DEF ServiceInv, AskedInv, CallInv
<1>2. PICK d \in Descriptions : r = Request(d)
  BY <1>1 DEF ServiceInv, CallInv
<1>3. asked \in Questions /\ \A v : Fits(v, asked.criteria) <=> Fits(v, r)
  BY <1>1, <1>2, QuestionAsked DEF ServiceInv, ServiceTypeOK
<1>4. w \in Spellable /\ w \notin dictionary /\ w # EmptyWord
  BY ServiceAssumption DEF Maker!Suits, Maker!TooLong, Maker!Fits, Spellable
<1>5. \A k \in 1 .. Len(words_by_length) : w # words_by_length[k]
  BY <1>4 DEF ServiceInv, DictionaryInv
<1>6. Fits(w, r)
  <2>1. asked.criteria \in Criteria
    BY <1>3 DEF Questions
  <2>2. w \in Language[asked.criteria]
    BY DEF Maker!Suits, Maker!TooLong, Maker!Fits
  <2> QED BY <1>3, <2>1, <2>2 DEF Language
<1>7. CASE IsForIndex(d)
  <2>1. r = FromIndex(index_num(d))
    BY <1>2, <1>7 DEF Request
  <2>2. Fake(r) = FakeFromIndex(index_num(d)) /\ index_num(d) \in Matches[w]
    BY <1>6, <2>1 DEF Fake, Fits, FromIndex
  <2>3. [word |-> w, is_real |-> FALSE] \in FakeFromIndex(index_num(d))
    BY <1>4, <1>5, <2>2 DEF FakeFromIndex, MadeUp
  <2> QED BY <1>1, <2>2, <2>3 DEF Candidates
<1>8. CASE ~IsForIndex(d)
  <2> DEFINE p == length_pattern(From(d), To(d))
  <2>1. r = ByLength(From(d), To(d))
    BY <1>2, <1>8 DEF Request
  <2>2. r.by = "length" /\ r.from = From(d) /\ r.to = To(d)
    BY <2>1 DEF ByLength
  <2>3. asked.criteria = ByLength(p[1], p[2])
    BY <1>1, <2>2 DEF Question
  <2>4. p[1] <= Length[w] /\ Length[w] <= p[2]
    BY <1>3, <1>6, <2>3 DEF Fits, ByLength
  <2>5. [word |-> w, is_real |-> FALSE] \in FakeByLength(From(d), To(d))
    BY <1>4, <1>5, <2>4 DEF FakeByLength, MadeUp
  <2> QED BY <1>1, <2>2, <2>5 DEF Candidates, Fake
<1> QED BY <1>7, <1>8

\* The generator knows the lines that it can spell, and is trained when the
\* last of them was read.
LEMMA DictionaryStep ==
    ASSUME ServiceInv, [ServiceNext]_serviceVars
    PROVE  DictionaryInv'
<1> USE DEF ServiceInv, ServiceTypeOK
<1>1. ASSUME words_by_length' = words_by_length, dictionary' = dictionary,
             stopped' \/ (stopped' = stopped /\ (prepared' <=> phase' \in {"patterns", "ready"}))
      PROVE  DictionaryInv'
  BY <1>1 DEF DictionaryInv
<1>2. CASE Load /\ ~stopped
  <2>1. PICK w \in Words : AddWord(w) /\ add_dictionary_word(w)
    BY <1>2, LoadedWord
  <2>2. prepared' = prepared /\ phase' = phase /\ ~prepared /\ phase = "loading" /\ stopped' = stopped
    BY <1>2, LoadedWord DEF Load, DictionaryInv
  <2>3. ASSUME NEW k \in 1 .. Len(words_by_length'), words_by_length'[k] \in Spellable
        PROVE  words_by_length'[k] \in dictionary'
    <3>1. /\ Len(words_by_length) \in Nat
          /\ Len(words_by_length') = Len(words_by_length) + 1
          /\ words_by_length'[Len(words_by_length) + 1] = w
          /\ \A j \in 1 .. Len(words_by_length) : words_by_length'[j] = words_by_length[j]
      BY <2>1, AddWordLast
    <3>2. CASE k = Len(words_by_length) + 1
      BY <2>1, <2>3, <3>1, <3>2 DEF add_dictionary_word
    <3>3. CASE k \in 1 .. Len(words_by_length)
      <4>1. words_by_length[k] \in dictionary
        BY <2>3, <3>1, <3>3 DEF DictionaryInv
      <4> QED BY <2>1, <3>1, <3>3, <4>1 DEF add_dictionary_word
    <3> QED BY <3>1, <3>2, <3>3
  <2> QED BY <2>2, <2>3 DEF DictionaryInv
<1>3. CASE FinishLoading /\ ~stopped
  BY <1>1, <1>3 DEF FinishLoading, EndOfDictionary
<1>4. CASE LoadAlone /\ ~stopped
  BY <1>1, <1>4 DEF LoadAlone, maker, Open, OutOfMemory, AddPattern, Initialized, Loading, tables, DictionaryInv
<1>5. CASE GiveUp
  BY <1>1, <1>5 DEF GiveUp, pageVars, vars
<1>6. CASE ReturnWords
  BY <1>1, <1>6 DEF ReturnWords, Reply, maker, tables, DictionaryInv
<1>7. ASSUME UNCHANGED <<pageVars, dictionary, prepared, stopped>> PROVE DictionaryInv'
  BY <1>1, <1>7 DEF pageVars, vars, DictionaryInv
<1>8. ASSUME NEW d \in Descriptions, BeginWords(d) PROVE DictionaryInv'
  BY <1>7, <1>8 DEF BeginWords, maker
<1>9. CASE PickReal \/ PickBeyond \/ AskForFake \/ PickFake \/ UNCHANGED serviceVars
  BY <1>7, <1>9 DEF PickReal, PickBeyond, AskForFake, PickFake, serviceVars, maker
<1> QED BY <1>2, <1>3, <1>4, <1>5, <1>6, <1>8, <1>9 DEF ServiceNext

LEMMA CallStep ==
    ASSUME ServiceInv, [ServiceNext]_serviceVars
    PROVE  CallInv' /\ AskedInv'
<1> DEFINE still == UNCHANGED <<phase, tables, word_length_patterns>>
<1>1. UNCHANGED pageVars => still
  BY DEF pageVars, vars, tables
<1>2. CASE Load \/ FinishLoading \/ LoadAlone
  <2>1. phase # "ready" /\ call' = call /\ asked' = asked
    BY <1>2 DEF Load, FinishLoading, LoadAlone, maker, ReadLine, ReadNothing, ReadFails, Loading, Open, OutOfMemory,
               EndOfDictionary, AddPattern, Initialized
  <2> QED BY <2>1, NoCallBefore
<1>3. ASSUME NEW d \in Descriptions, BeginWords(d) PROVE CallInv' /\ AskedInv'
  <2> DEFINE c == [kind |-> "words", description |-> d, request |-> Request(d),
                   count |-> num_words(d), picked |-> <<>>]
  <2>1. call' = c /\ phase' = "ready" /\ asked' = NoWord
    BY <1>3 DEF BeginWords, pageVars, vars, maker, ServiceInv, AskedInv
  <2>2. call'.picked = <<>> /\ call'.count = num_words(d) /\ Len(<<>>) = 0
    BY <2>1
  <2>3. num_words(d) \in Nat
    BY RequestInRange, Limits
  <2>4. \A S : <<>> \in Seq(S)
    OBVIOUS
  <2>5. call' = [kind |-> "words", description |-> d, request |-> Request(d),
                 count |-> num_words(d), picked |-> call'.picked]
    BY <2>1, <2>2
  <2>6. Len(call'.picked) <= call'.count
    BY <2>2, <2>3
  <2> QED BY <2>1, <2>2, <2>4, <2>5, <2>6 DEF CallInv, AskedInv
<1>4. CASE PickReal
  <2>1. PICK p \in Real(call.request) : Push(p)
    BY <1>4 DEF PickReal
  <2>2. p \in Candidates(call.request) /\ still /\ asked' = NoWord
    BY <1>1, <1>4 DEF PickReal, Picking, maker, Candidates
  <2> QED BY <1>4, <2>1, <2>2, PushedOne DEF PickReal, Picking
<1>5. CASE PickBeyond
  <2>1. Garbage \in Candidates(call.request) /\ still /\ asked' = NoWord
    BY <1>1, <1>5 DEF PickBeyond, Picking, maker, Candidates
  <2> QED BY <1>5, <2>1, PushedOne DEF PickBeyond, Picking
<1>6. CASE AskForFake
  <2>1. still /\ call' = call
    BY <1>1, <1>6 DEF AskForFake
  <2>2. CallInv'
    BY <2>1, CallWaits
  <2>3. PICK r : r = call.request
    OBVIOUS
  <2>4. Question(r)' = Question(r) /\ Beyond(r)' = Beyond(r) /\ r = call'.request
    BY <2>1, <2>3, SameChoices
  <2>5. AskedInv'
    BY <1>6, <2>1, <2>3, <2>4 DEF AskForFake, Picking, AskedInv
  <2> QED BY <2>2, <2>5
<1>7. CASE PickFake
  <2>1. PICK w \in Words : /\ Maker!Suits(w, asked) \/ Maker!TooLong(w, asked)
                          /\ Push([word |-> w, is_real |-> FALSE])
    BY <1>7 DEF PickFake
  <2>2. [word |-> w, is_real |-> FALSE] \in Candidates(call.request)
    BY <1>7, <2>1, AnswerIsFake DEF PickFake
  <2>3. call # NoCall /\ Len(call.picked) < call.count /\ still /\ asked' = NoWord
    BY <1>1, <1>7 DEF PickFake, ServiceInv, AskedInv
  <2> QED BY <2>1, <2>2, <2>3, PushedOne
<1>8. CASE GiveUp \/ UNCHANGED serviceVars
  <2>1. still /\ call' = call /\ (asked' = asked \/ asked' = NoWord)
    BY <1>1, <1>8 DEF GiveUp, serviceVars, maker
  <2> QED BY <2>1, CallWaits
<1>9. CASE ReturnWords
  BY <1>9 DEF ReturnWords, maker, CallInv, AskedInv
<1> QED BY <1>2, <1>3, <1>4, <1>5, <1>6, <1>7, <1>8, <1>9 DEF ServiceNext

LEMMA ServiceInvariant == ServiceSpec => []ServiceInv
<1>1. ServiceInv /\ [ServiceNext]_serviceVars => ServiceInv'
  BY ServiceTypes, DictionaryStep, CallStep DEF ServiceInv
<1> QED BY <1>1, ServiceInit_Inv, PTL DEF ServiceSpec

-----------------------------------------------------------------------------
(* Theorems about the service.                                             *)

\* Whatever is in the dictionary, what the generator holds and is asked has its
\* type (word_picker.cpp 84-138, 147-219).
THEOREM ServiceTypeCorrect == ServiceSpec => []ServiceTypeOK
<1>1. ServiceInv => ServiceTypeOK
  BY DEF ServiceInv
<1> QED BY <1>1, ServiceInvariant, PTL

\* The page handler with the generator in its place implements the page handler
\* for which any word that is not listed may come as a made-up one, whatever
\* the dictionary, the alphabet and the URLs.
THEOREM ServiceIsPageHandler == ServiceSpec => ServesAsPageHandler
<1>1. ServiceInit => PageInit
  BY DEF ServiceInit
<1>2. ServiceInv /\ [ServiceNext]_serviceVars => [PageNext]_pageVars
  BY ServicePageStep DEF ServiceInv, ServiceTypeOK
<1> QED BY <1>1, <1>2, ServiceInvariant, PTL DEF ServiceSpec, ServesAsPageHandler, PageSpec

\* The picker keeps the order of calls that the generator is written for
\* (pseudoword_generator.h 147-184), and asks for no other pattern than those it
\* has made; that an answer is too long is no step of the picker.
THEOREM ServiceAsksAsAgreed == ServiceSpec => AsksAsAgreed
<1>1. ServiceInit => Maker!Init
  BY DEF ServiceInit
<1>2. ServiceInv /\ [ServiceNext]_serviceVars
        => [Maker!Next \/ Maker!AnswerTooLong]_(Maker!vars)
  BY ServiceMakerStep
<1> QED BY <1>1, <1>2, ServiceInvariant, PTL DEF ServiceSpec, AsksAsAgreed, Maker!SpecButMaximum

\* Every URL is answered as it should be also with the generator in its place:
\* what is proved of the page handler holds of the service.
THEOREM ServiceAnswersRequests == ServiceSpec => []AnswersRequest
BY ServiceIsPageHandler, RequestsAnswered, PTL DEF ServesAsPageHandler

-----------------------------------------------------------------------------
(* Made-up words.                                                          *)

\* A word that is called made-up is not in the list.
NewPick(p) == p # Garbage /\ ~p.is_real => \A j \in 1 .. Len(words_by_length) : words_by_length[j] # p.word

NewPicks == reply # NoReply => phase = "ready" /\ \A k \in 1 .. Len(reply.picked) : NewPick(reply.picked[k])

LEMMA CandidatesNew ==
    /\ \A w : NewPick(Listed(w))
    /\ \A M : \A p \in MadeUp(M) : NewPick(p)
    /\ NewPick(Garbage)
<1>1. ASSUME NEW w PROVE NewPick(Listed(w))
  BY DEF NewPick, Listed
<1>2. ASSUME NEW M, NEW p \in MadeUp(M) PROVE NewPick(p)
  <2>1. PICK w \in M \ {EmptyWord} :
          p = [word |-> w, is_real |-> FALSE] /\ \A k \in 1 .. Len(words_by_length) : w # words_by_length[k]
    BY <1>2 DEF MadeUp
  <2> QED BY <2>1 DEF NewPick
<1> QED BY <1>1, <1>2 DEF NewPick

LEMMA NewPicksNext ==
    ASSUME NewPicks, [Next]_vars
    PROVE  NewPicks'
<1>1. ASSUME NEW r, NEW p, Reply(r, p), \A k \in 1 .. Len(p) : NewPick(p[k]) PROVE NewPicks'
  BY <1>1 DEF Reply, NewPicks, NewPick, tables
<1>2. ASSUME NEW r, NEW n \in Nat, NEW S, \A p \in S : NewPick(p), Pick(r, n, S) PROVE NewPicks'
  <2>1. PICK p \in [1 .. n -> S] : Reply(r, p)
    BY <1>2 DEF Pick
  <2>2. \A k \in 1 .. Len(p) : p[k] \in S
    OBVIOUS
  <2> QED BY <1>1, <1>2, <2>1, <2>2
<1>3. ASSUME NEW r, Reply(r, <<>>) PROVE NewPicks'
  BY <1>1, <1>3
<1>4. ASSUME NEW f, NEW t, NEW n \in Nat, get_words_by_length(f, t, n) PROVE NewPicks'
  <2>1. \A p \in RealByLength(f, t) \cup FakeByLength(f, t) : NewPick(p)
    BY CandidatesNew DEF RealByLength, FakeByLength
  <2> QED BY <1>2, <1>3, <1>4, <2>1, CandidatesNew
         DEF get_words_by_length, PickByLength, PickNoLength, PickBeyondLongest
<1>5. ASSUME NEW i, NEW n \in Nat, get_words_from_index(i, n) PROVE NewPicks'
  <2>1. \A p \in RealFromIndex(i) \cup FakeFromIndex(i) : NewPick(p)
    BY CandidatesNew DEF RealFromIndex, FakeFromIndex
  <2> QED BY <1>2, <1>3, <1>5, <2>1 DEF get_words_from_index, PickFromIndex, PickNoIndex
<1>6. CASE initialize
  <2>1. phase # "ready" /\ reply' = reply
    BY <1>6, SameAnswer DEF initialize, Open, ReadLine, ReadNothing, ReadFails, Loading, OutOfMemory,
       EndOfDictionary, AddPattern, Initialized
  <2> QED BY <2>1 DEF NewPicks
<1>7. CASE UNCHANGED vars
  BY <1>7 DEF vars, NewPicks, NewPick
<1>8. 0 .. NumWords \subseteq Nat
  BY PickerAssumption
<1> QED BY <1>4, <1>5, <1>6, <1>7, <1>8 DEF Next

\* Whatever the file, sound or not, and with the generator in its place: a word
\* that is called made-up is none of the lines of the file (word_picker.cpp
\* 171-178, 208-216).  The whole file was read before a word is picked.
THEOREM MadeUpWordsAreNew == ServiceSpec => []MadeUpIsNew
<1>1. Init => NewPicks
  BY DEF Init, NewPicks
<1>2. NewPicks /\ ReadyMeansRead /\ TypeOK => MadeUpIsNew
  <2> SUFFICES ASSUME NewPicks, ReadyMeansRead, TypeOK, reply # NoReply,
                      NEW k \in 1 .. Len(reply.picked),
                      reply.picked[k] # Garbage, ~reply.picked[k].is_real,
                      NEW j \in 1 .. Len(file.lines), file.lines[j].word = reply.picked[k].word
               PROVE  FALSE
    BY DEF MadeUpIsNew, InDictionary
  <2>1. phase = "ready" /\ NewPick(reply.picked[k])
    BY DEF NewPicks
  <2>2. words_by_length[j] = file.lines[j].word
    BY <2>1 DEF ReadyMeansRead
  <2>3. j \in 1 .. Len(words_by_length)
    <3>1. Len(file.lines) \in Nat
      BY PickerAssumption DEF TypeOK
    <3> QED BY <2>1, <3>1 DEF ReadyMeansRead
  <2> QED BY <2>1, <2>2, <2>3 DEF NewPick
<1>3. Spec => []NewPicks
  BY <1>1, NewPicksNext, PTL DEF Spec
<1>4. ServiceSpec => Spec
  BY ServiceIsPageHandler, PageHandlerIsPicker DEF ServesAsPageHandler, ServesAsPicker
<1> QED BY <1>2, <1>3, <1>4, ReadyOnlyWhenRead, PickerTypeCorrect, PTL
=============================================================================
