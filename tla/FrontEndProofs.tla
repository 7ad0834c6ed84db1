--------------------------- MODULE FrontEndProofs ---------------------------
(***************************************************************************)
(* Proofs about Listings and FrontEnd: what a LIST proves, sees and misses *)
(* while objects change, for any number of backends, keys and writes, and  *)
(* that a punctual client is served, whatever its query and the clocks.    *)
(***************************************************************************)
EXTENDS FrontEnd, SequenceTheorems, Ranks

USE BackendsAssumption, ListingsAssumption

(* The cut of a listing.                                                   *)

\* The first n of a set are some of them, at most n, all there are if they are
\* less than n, and none before one of them is missing.
LEMMA FirstIsPrefix ==
  ASSUME NEW S \in SUBSET Int, IsFiniteSet(S), NEW n \in Nat
  PROVE  /\ First(S, n) \subseteq S
         /\ Cardinality(First(S, n)) <= n
         /\ Cardinality(First(S, n)) < n => First(S, n) = S
         /\ \A k \in S, l \in First(S, n) : k <= l => k \in First(S, n)
<1> DEFINE R == Less(S)
           B(k) == {j \in S : j < k}
<1>1. Orders(R, S)
  BY LessOrders
<1>2. ASSUME NEW k \in S
      PROVE  /\ IsFiniteSet(B(k)) /\ Cardinality(B(k)) \in Nat
             /\ Rank(k, S, R) = Cardinality(B(k)) + 1
  <2>1. IsFiniteSet(B(k)) /\ Cardinality(B(k)) \in Nat
    <3>1. B(k) \in SUBSET S
      OBVIOUS
    <3> QED
      BY <3>1, FS_Subset, FS_CardinalityType
  <2>2. UpTo(k, S, R) = B(k) \cup {k}
    BY DEF UpTo, Less
  <2>3. k \notin B(k)
    OBVIOUS
  <2> HIDE DEF B
  <2>4. Cardinality(B(k) \cup {k}) = Cardinality(B(k)) + 1
    BY <2>1, <2>3, FS_AddElement
  <2> QED
    BY <2>1, <2>2, <2>4 DEF Rank
<1>3. First(S, n) = {k \in S : Rank(k, S, R) <= n}
  <2>1. ASSUME NEW k \in S
        PROVE  Cardinality(B(k)) < n <=> Rank(k, S, R) <= n
    <3> HIDE DEF B
    <3> QED
      BY <1>2
  <2> QED
    BY <2>1 DEF First
<1>4. /\ Cardinality(First(S, n)) <= n
      /\ Cardinality(First(S, n)) < n => First(S, n) = S
  BY <1>1, <1>3, PrefixSize
<1>5. ASSUME NEW k \in S, NEW l \in First(S, n), k <= l
      PROVE  k \in First(S, n)
  <2>1. B(k) \in SUBSET B(l) /\ l \in S
    <3>1. l \in S
      BY DEF First
    <3>2. k \in Int /\ l \in Int /\ \A j \in S : j \in Int
      BY <3>1
    <3>3. ASSUME NEW j \in S, j < k
          PROVE  j < l
      BY <1>5, <3>2, <3>3
    <3> QED
      BY <3>1, <3>3
  <2>2. Cardinality(B(k)) <= Cardinality(B(l))
    <3> HIDE DEF B
    <3> QED
      BY <1>2, <2>1, FS_Subset
  <2> QED
    BY <1>2, <2>1, <2>2 DEF First
<1> QED
  BY <1>4, <1>5 DEF First

\* So a cut has all the keys that it tells of, and no more than its limit.
LEMMA CutTells ==
  ASSUME NEW S \in SUBSET Keys, NEW n \in Int, NEW cut \in Cut(S, n)
  PROVE  /\ cut \in SUBSET S
         /\ n >= 0 => Cardinality(cut) <= n
         /\ \A k \in S :
               (\/ n < 0
                \/ Cardinality(cut) < n
                \/ \E l \in cut : k <= l) => k \in cut
<1>1. IsFiniteSet(S) /\ S \in SUBSET Int
  BY FS_Subset
<1>2. CASE n < 0
  BY <1>2 DEF Cut
<1>3. CASE n >= 0
  <2>1. n \in Nat /\ cut = First(S, n)
    BY <1>3 DEF Cut
  <2> QED
    BY <1>1, <1>3, <2>1, FirstIsPrefix
<1> QED
  BY <1>2, <1>3

-----------------------------------------------------------------------------
(* Pages.                                                                  *)

USE DEF ListTypeOK, Backends

\* What a backend answers if it works: an error of a service that refuses a
\* negative number, or the cut of its matching keys with their ETags.
LEMMA PageIsCut ==
  ASSUME ListTypeOK, ListShape, NEW b \in Backends, NEW a \in Pages(b)
  PROVE  \/ a = Error /\ IsRemote(b)
         \/ /\ IsRemote(b) => list.max >= 0
            /\ \E cut \in Cut(Held(b) \cap list.matching, list.max) :
                  a = Ok([k \in cut |-> ETag(b, objects[b][k])])
<1>1. list.max \in Int
  BY DEF ListShape
<1>2. CASE IsRemote(b) /\ list.max < 0
  BY <1>2 DEF Pages
<1>3. CASE ~ (IsRemote(b) /\ list.max < 0)
  <2>1. a \in {Ok([k \in cut |-> ETag(b, objects[b][k])]) :
                  cut \in Cut(Held(b) \cap list.matching, list.max)}
    BY <1>3, Zenon DEF Pages
  <2>2. IsRemote(b) => list.max >= 0
    BY <1>1, <1>3
  <2> QED
    BY <2>1, <2>2, Zenon
<1> QED
  BY <1>2, <1>3

\* A page that a backend would answer now tells the truth about the keys it
\* covers, and fits what is known of pages.
LEMMA PageIsTrue ==
  ASSUME ListTypeOK, ListShape, SteadyIsHeld,
         NEW b \in members, NEW a \in Pages(b), a.kind = "ok"
  PROVE  /\ a \in Answers
         /\ PageFits(b, a.page)
         /\ \A k \in DOMAIN a.page : a.page[k] = ETag(b, objects[b][k])
         /\ \A k \in DOMAIN a.page : k \in Held(b)
         /\ \A k \in CoveredBy(a.page) : k \in Held(b) => k \in DOMAIN a.page
<1> DEFINE S == Held(b) \cap list.matching
           n == list.max
<1>1. /\ b \in Backends /\ n \in Int /\ S \in SUBSET Keys
      /\ list.matching \in SUBSET Keys
  BY DEF ListShape, Held
<1>2. a # Error
  BY DEF Error
<1>3. PICK cut \in Cut(S, n) : a = Ok([k \in cut |-> ETag(b, objects[b][k])])
  BY <1>1, <1>2, PageIsCut
<1>4. /\ a.page = [k \in cut |-> ETag(b, objects[b][k])]
      /\ DOMAIN a.page = cut
  BY <1>3 DEF Ok
<1>5. /\ cut \in SUBSET S
      /\ n >= 0 => Cardinality(cut) <= n
      /\ \A k \in S : (\/ n < 0
                       \/ Cardinality(cut) < n
                       \/ \E l \in cut : k <= l) => k \in cut
  <2> HIDE DEF S, n
  <2> QED
    BY <1>1, <1>3, CutTells
<1>6. IsRemote(b) => n >= 0
  BY <1>1, <1>2, PageIsCut
<1>7. ASSUME NEW k \in cut
      PROVE  objects[b][k] \in Values
  <2>1. k \in Keys /\ objects[b][k] # Nil
    BY <1>5 DEF Held
  <2>2. objects[b] \in [Keys -> Values \cup {Nil}]
    BY <1>1
  <2> QED
    BY <2>1, <2>2
<1>8. a \in Answers
  <2>1. a.page \in [cut -> {ETag(c, v) : c \in Backends, v \in Values}]
    BY <1>1, <1>4, <1>7
  <2>2. a.page \in AllPages
    BY <1>1, <1>5, <2>1 DEF AllPages
  <2> QED
    BY <1>3, <1>4, <2>2 DEF Answers, Ok
<1>9. \A k \in CoveredBy(a.page) : k \in Held(b) => k \in DOMAIN a.page
  BY <1>1, <1>4, <1>5 DEF CoveredBy
<1>10. steady \cap CoveredBy(a.page) \subseteq DOMAIN a.page
  BY <1>9 DEF SteadyIsHeld, HeldByAll, CoveredBy
<1>11. PageFits(b, a.page)
  BY <1>4, <1>5, <1>6, <1>7, <1>10 DEF PageFits
<1> QED
  BY <1>4, <1>5, <1>8, <1>9, <1>11

-----------------------------------------------------------------------------
(* The steps of Listings.                                                  *)

\* The answers that carry no page.
LEMMA PlainAnswers ==
  /\ NoAnswer \in Answers /\ Error \in Answers
  /\ NoAnswer # Error
  /\ NoAnswer.kind = "none" /\ Error.kind = "error"
<1> DEFINE T == {ETag(b, v) : b \in Backends, v \in Values}
<1>1. NoPage \in [{} -> T]
  BY DEF NoPage
<1>2. NoPage \in AllPages
  <2>1. AllPages = UNION {[D -> T] : D \in SUBSET Keys}
    BY DEF AllPages
  <2> HIDE DEF T
  <2>2. {} \in SUBSET Keys
    OBVIOUS
  <2> QED
    BY <1>1, <2>1, <2>2
<1> QED
  BY <1>2 DEF NoAnswer, Error, Answers

LEMMA BackendsOfList ==
  ASSUME ListTypeOK
  PROVE  members \subseteq Backends /\ members # {}
OBVIOUS

\* Nothing that is known of the answers depends on who is still awaited.
LEMMA AnswersKept ==
  ASSUME ListInductive,
         UNCHANGED <<configVars, objects, still, steady>>,
         list'.answers = list.answers, list'.matching = list.matching,
         list'.max = list.max, list.tried \subseteq list'.tried
  PROVE  AnswersFit' /\ SteadyIsHeld' /\ Compared' = Compared
<1> USE DEF configVars
<1>1. SteadyIsHeld'
  BY DEF ListInductive, SteadyIsHeld, HeldByAll, Held
<1>2. Compared' = Compared
  BY DEF Compared, Failed
<1>3. ASSUME NEW b \in Backends
      PROVE  Pages(b)' = Pages(b)
  BY DEF Pages, Held
<1>4. ASSUME NEW b, NEW page
      PROVE  PageFits(b, page) => PageFits(b, page)'
  BY DEF PageFits, CoveredBy
<1>5. AnswersFit'
  <2> SUFFICES ASSUME NEW b \in Backends
      PROVE  LET a == list.answers[b]
             IN  /\ a # NoAnswer => b \in list'.tried
                 /\ \/ a = NoAnswer
                    \/ a = Error /\ IsRemote(b)
                    \/ /\ a.kind = "ok"
                       /\ PageFits(b, a.page)'
                       /\ still => a \in Pages(b)'
    BY DEF AnswersFit
  <2>1. LET a == list.answers[b]
        IN  /\ a # NoAnswer => b \in list.tried
            /\ \/ a = NoAnswer
               \/ a = Error /\ IsRemote(b)
               \/ /\ a.kind = "ok"
                  /\ PageFits(b, a.page)
                  /\ still => a \in Pages(b)
    BY DEF ListInductive, AnswersFit
  <2> QED
    BY <1>3, <1>4, <2>1
<1> QED
  BY <1>1, <1>2, <1>5

\* At the start everybody holds the same, and nobody is listing.
LEMMA ListInitInductive == ASSUME ListInit PROVE ListInductive
<1>1. /\ list = NoList
      /\ list.phase = "idle" /\ list.waiting = {} /\ list.tried = {}
      /\ \A b \in Backends : list.answers[b] = NoAnswer
  BY DEF ListInit, NoList
<1>2. ListTypeOK
  BY <1>1 DEF ListInit
<1>3. ListShape
  BY <1>1, PlainAnswers DEF ListShape, NoList
<1>4. SteadyIsHeld /\ AnswersFit /\ ResultFits
  BY <1>1 DEF ListInit, SteadyIsHeld, AnswersFit, ResultFits
<1> QED
  BY <1>2, <1>3, <1>4 DEF ListInductive

\* A write may make what is listed old, and takes a key that it deletes from
\* the steady ones.
LEMMA WriteKeeps ==
  ASSUME ListInductive,
         NEW b \in members, NEW k \in Keys, NEW v \in Values \cup {Nil},
         Write(b, k, v)
  PROVE  ListInductive'
<1> USE DEF configVars
<1>1. b \in Backends /\ ListTypeOK
  BY BackendsOfList DEF ListInductive
<1>2. /\ objects' = [objects EXCEPT ![b][k] = v]
      /\ writes' = writes + 1 /\ writes < MaxWrites
      /\ still' = FALSE
      /\ steady' = IF v = Nil THEN steady \ {k} ELSE steady
      /\ UNCHANGED <<members, primary, readMode, list>>
  BY DEF Write
<1>3. ListTypeOK'
  <2>1. objects' \in [Backends -> [Keys -> Values \cup {Nil}]]
    BY <1>1, <1>2
  <2>2. writes' \in 0 .. MaxWrites /\ steady' \subseteq steady
    BY <1>1, <1>2
  <2> QED
    BY <1>1, <1>2, <2>1, <2>2
<1>4. ListShape'
  BY <1>2 DEF ListInductive, ListShape
<1>5. SteadyIsHeld'
  <2>1. ASSUME NEW j \in steady', NEW c \in members
        PROVE  j \in Keys /\ objects'[c][j] # Nil
    <3>1. c \in Backends /\ j \in Keys /\ objects[c][j] # Nil
      BY <1>1, <1>2, BackendsOfList
         DEF ListInductive, SteadyIsHeld, HeldByAll, Held
    <3>2. CASE c = b /\ j = k
      BY <1>1, <1>2, <3>1, <3>2
    <3>3. CASE ~ (c = b /\ j = k)
      BY <1>1, <1>2, <3>1, <3>3
    <3> QED
      BY <3>2, <3>3
  <2> QED
    BY <1>2, <2>1 DEF SteadyIsHeld, HeldByAll, Held
<1>6. AnswersFit'
  <2>1. ASSUME NEW c, NEW page
        PROVE  PageFits(c, page) => PageFits(c, page)'
    BY <1>2 DEF PageFits, CoveredBy
  <2> QED
    BY <1>2, <2>1 DEF ListInductive, AnswersFit
<1>7. ResultFits'
  BY <1>2 DEF ListInductive, ResultFits, Compared, Failed
<1> QED
  BY <1>3, <1>4, <1>5, <1>6, <1>7 DEF ListInductive

\* A LIST begins without answers.
LEMMA AskKeeps ==
  ASSUME ListInductive, NEW matching \in SUBSET Keys, NEW max \in Int,
         AskList(matching, max)
  PROVE  ListInductive' /\ list'.phase = "asking" /\ list'.max = max
<1> USE DEF configVars
<1>1. /\ list = NoList /\ ListTypeOK
      /\ \A b \in Backends : list.answers[b] = NoAnswer
  BY DEF ListInductive, ListShape, AskList, NoList
<1>2. /\ list' = [NoList EXCEPT !.phase = "asking", !.matching = matching,
                               !.max = max, !.waiting = FirstAsked,
                               !.tried = FirstAsked]
      /\ steady' = HeldByAll
      /\ UNCHANGED <<members, primary, readMode, objects, writes>>
  BY <1>1 DEF AskList
<1>3. FirstAsked \subseteq members
  BY <1>1 DEF FirstAsked
<1>4. /\ list'.phase = "asking" /\ list'.max = max
      /\ list'.waiting = FirstAsked /\ list'.tried = FirstAsked
      /\ list'.answers = [b \in Backends |-> NoAnswer]
  BY <1>2 DEF NoList
<1>5. ListTypeOK'
  BY <1>1, <1>2, <1>3, <1>4 DEF HeldByAll
<1>6. ListShape'
  <2>1. list' \in [phase : {"idle", "asking", "done"},
                   matching : SUBSET Keys, max : Int,
                   waiting : SUBSET members, tried : SUBSET members,
                   answers : [Backends -> Answers], result : Answers]
    BY <1>2, <1>3, PlainAnswers DEF NoList
  <2> QED
    BY <1>2, <1>4, <2>1 DEF ListShape
<1>7. SteadyIsHeld'
  BY <1>2 DEF SteadyIsHeld, HeldByAll, Held
<1>8. AnswersFit' /\ ResultFits'
  BY <1>4 DEF AnswersFit, ResultFits
<1> QED
  BY <1>4, <1>5, <1>6, <1>7, <1>8 DEF ListInductive

\* A backend answers with a page that is true now, or fails if it is remote.
LEMMA AnswerKeeps ==
  ASSUME ListInductive, NEW b \in members, AnswerList(b)
  PROVE  /\ ListInductive' /\ list.phase = "asking"
         /\ list'.phase = "asking" /\ list'.max = list.max
<1> USE DEF configVars
<1>1. b \in Backends /\ ListTypeOK /\ ListShape /\ SteadyIsHeld
  BY BackendsOfList DEF ListInductive
<1>2. PICK a \in Pages(b) \cup (IF IsRemote(b) THEN {Error} ELSE {}) :
          list' = [list EXCEPT !.answers[b] = a]
  BY DEF AnswerList
<1>3. /\ b \in list.waiting
      /\ UNCHANGED <<members, primary, readMode, objects, writes, still,
                     steady>>
  BY DEF AnswerList
<1>4. list.phase = "asking" /\ b \in list.tried
  BY <1>1, <1>3 DEF ListShape, NoList
<1>5. \/ a = Error /\ IsRemote(b)
      \/ /\ a.kind = "ok" /\ a \in Answers /\ PageFits(b, a.page)
         /\ a \in Pages(b)
  <2>1. CASE a \in Pages(b)
    <3>1. \/ a = Error /\ IsRemote(b)
          \/ \E cut \in Cut(Held(b) \cap list.matching, list.max) :
                a = Ok([k \in cut |-> ETag(b, objects[b][k])])
      BY <1>1, <2>1, PageIsCut
    <3>2. (a = Error /\ IsRemote(b)) \/ a.kind = "ok"
      BY <3>1 DEF Ok
    <3> QED
      BY <1>1, <2>1, <3>2, PageIsTrue
  <2>2. CASE IsRemote(b) /\ a = Error
    BY <2>2
  <2> QED
    BY <1>2, <2>1, <2>2
<1>6. /\ list'.phase = "asking" /\ list'.matching = list.matching
      /\ list'.max = list.max /\ list'.waiting = list.waiting
      /\ list'.tried = list.tried
      /\ list'.answers = [list.answers EXCEPT ![b] = a]
  BY <1>1, <1>2, <1>4 DEF ListShape
<1>7. ListTypeOK'
  BY <1>1, <1>3, <1>6
<1>8. ListShape'
  <2>1. a \in Answers
    BY <1>5, PlainAnswers
  <2>2. list' \in [phase : {"idle", "asking", "done"},
                   matching : SUBSET Keys, max : Int,
                   waiting : SUBSET members, tried : SUBSET members,
                   answers : [Backends -> Answers], result : Answers]
    BY <1>1, <1>2, <2>1 DEF ListShape
  <2> QED
    BY <1>3, <1>6, <2>2 DEF ListShape
<1>9. SteadyIsHeld'
  BY <1>1, <1>3 DEF SteadyIsHeld, HeldByAll, Held
<1>10. AnswersFit'
  <2>1. ASSUME NEW c \in Backends
        PROVE  LET x == list'.answers[c]
               IN  /\ x # NoAnswer => c \in list.tried
                   /\ \/ x = NoAnswer
                      \/ x = Error /\ IsRemote(c)
                      \/ /\ x.kind = "ok"
                         /\ PageFits(c, x.page)
                         /\ still => x \in Pages(c)
    <3>1. CASE c = b
      <4>1. list'.answers[c] = a
        BY <1>1, <1>6, <3>1 DEF ListShape
      <4> QED
        BY <1>4, <1>5, <3>1, <4>1
    <3>2. CASE c # b
      <4>1. list'.answers[c] = list.answers[c]
        BY <1>1, <1>6, <3>2 DEF ListShape
      <4> QED
        BY <4>1 DEF ListInductive, AnswersFit
    <3> QED
      BY <3>1, <3>2
  <2>2. ASSUME NEW c \in Backends, PageFits(c, list'.answers[c].page)
        PROVE  PageFits(c, list.answers[c].page)'
    BY <1>3, <1>6, <2>2 DEF PageFits, CoveredBy
  <2>3. ASSUME NEW c \in Backends, list'.answers[c] \in Pages(c)
        PROVE  (list.answers[c] \in Pages(c))'
    BY <1>3, <1>6, <2>3 DEF Pages, Held
  <2> QED
    BY <1>3, <1>6, <2>1, <2>2, <2>3 DEF AnswersFit
<1>11. ResultFits'
  BY <1>6 DEF ResultFits
<1> QED
  BY <1>4, <1>6, <1>7, <1>8, <1>9, <1>10, <1>11 DEF ListInductive

\* The LIST goes on with fewer to wait for, or with another backend.
LEMMA GoesOn ==
  ASSUME ListInductive, list.phase = "asking",
         NEW w \in SUBSET members, NEW t \in SUBSET members,
         list.tried \subseteq t, w \subseteq t,
         list' = [list EXCEPT !.waiting = w, !.tried = t],
         UNCHANGED <<configVars, objects, writes, still, steady>>
  PROVE  /\ ListInductive' /\ list'.phase = "asking"
         /\ list'.max = list.max
<1> USE DEF configVars
<1>1. /\ list'.phase = "asking" /\ list'.answers = list.answers
      /\ list'.matching = list.matching /\ list'.max = list.max
      /\ list'.waiting = w /\ list'.tried = t
  BY DEF ListInductive, ListShape
<1>2. ListTypeOK'
  BY <1>1 DEF ListInductive
<1>3. list' \in [phase : {"idle", "asking", "done"},
                 matching : SUBSET Keys, max : Int,
                 waiting : SUBSET members, tried : SUBSET members,
                 answers : [Backends -> Answers], result : Answers]
  BY DEF ListInductive, ListShape
<1>4. ListShape'
  BY <1>1, <1>3 DEF ListShape
<1>5. AnswersFit' /\ SteadyIsHeld'
  BY <1>1, AnswersKept
<1> QED
  BY <1>1, <1>2, <1>4, <1>5 DEF ListInductive, ResultFits

\* The LIST ends with a result that fits the answers.
LEMMA Ends ==
  ASSUME ListInductive, NEW r \in Answers, Return(r),
         IF readMode = "ALL_CONSISTENT"
         THEN /\ \A b \in members : list.answers[b] # NoAnswer
              /\ r = Compared
         ELSE \/ r = Error
              \/ \E b \in list.tried :
                    list.answers[b] # NoAnswer /\ r = list.answers[b],
         UNCHANGED <<configVars, objects, writes, still, steady>>
  PROVE  ListInductive' /\ list'.phase = "done" /\ list'.max = list.max
<1> USE DEF configVars
<1>1. /\ list'.phase = "done" /\ list'.answers = list.answers
      /\ list'.matching = list.matching /\ list'.max = list.max
      /\ list'.waiting = {} /\ list'.tried = list.tried
      /\ list'.result = r
  BY DEF ListInductive, ListShape, Return
<1>2. ListTypeOK'
  BY <1>1 DEF ListInductive
<1>3. list' \in [phase : {"idle", "asking", "done"},
                 matching : SUBSET Keys, max : Int,
                 waiting : SUBSET members, tried : SUBSET members,
                 answers : [Backends -> Answers], result : Answers]
  BY DEF ListInductive, ListShape, Return
<1>4. ListShape'
  BY <1>1, <1>3 DEF ListShape
<1>5. AnswersFit' /\ SteadyIsHeld' /\ Compared' = Compared
  BY <1>1, AnswersKept
<1>6. ResultFits'
  BY <1>1, <1>5 DEF ResultFits
<1> QED
  BY <1>1, <1>2, <1>4, <1>5, <1>6 DEF ListInductive

\* Somebody who is awaited has been tried, and the LIST is not over.
LEMMA AwaitedIsTried ==
  ASSUME ListInductive, NEW b \in list.waiting
  PROVE  /\ b \in list.tried /\ b \in members /\ list.phase = "asking"
         /\ list.answers[b] \in Answers
<1>1. ListTypeOK /\ ListShape
  BY DEF ListInductive
<1> QED
  BY <1>1, BackendsOfList DEF ListShape, NoList

\* What a comparison returns is a page or an error.
LEMMA ComparedType == ASSUME ListInductive PROVE Compared \in Answers
<1>1. list.answers[primary] \in Answers
  BY BackendsOfList DEF ListInductive, ListShape
<1>2. Ok(list.answers[primary].page) \in Answers
  BY <1>1 DEF Ok, Answers
<1> QED
  BY <1>2, PlainAnswers DEF Compared

\* Every step of a LIST: asking one after the other, the race, and the
\* comparison of all answers.
LEMMA ListStepKeeps ==
  ASSUME ListInductive, ListStep
  PROVE  /\ ListInductive' /\ list.phase = "asking"
         /\ list'.phase \in {"asking", "done"} /\ list'.max = list.max
<1>1. CASE \E b \in members : AnswerList(b)
  BY <1>1, AnswerKeeps
<1>2. CASE ListOneByOne
  <2>1. PICK b \in list.waiting :
           /\ Delivered(b)
           /\ IF ~ Failed(b) \/ readMode = "PRIMARY_ONLY"
              THEN Return(list.answers[b])
              ELSE IF Untried = {} THEN Return(Error)
              ELSE \E c \in Untried :
                      /\ \A d \in Untried : c <= d
                      /\ list' = [list EXCEPT !.waiting = {c},
                                              !.tried = @ \cup {c}]
    BY <1>2 DEF ListOneByOne
  <2>2. /\ readMode # "ALL_CONSISTENT" /\ list.answers[b] # NoAnswer
        /\ UNCHANGED <<configVars, objects, writes, still, steady>>
    BY <1>2, <2>1 DEF ListOneByOne, Delivered
  <2>3. CASE Return(list.answers[b])
    BY <2>2, <2>3, AwaitedIsTried, Ends
  <2>4. CASE Return(Error)
    BY <2>2, <2>4, AwaitedIsTried, PlainAnswers, Ends
  <2>5. ASSUME NEW c \in Untried,
               list' = [list EXCEPT !.waiting = {c}, !.tried = @ \cup {c}]
        PROVE  /\ ListInductive' /\ list'.phase = "asking"
         /\ list'.max = list.max
    <3>1. c \in members /\ list.tried \subseteq members
      BY DEF Untried, ListInductive
    <3>2. list' = [list EXCEPT !.waiting = {c}, !.tried = list.tried \cup {c}]
      BY <2>5
    <3> DEFINE w == {c}
               t == list.tried \cup {c}
    <3>3. /\ w \in SUBSET members /\ t \in SUBSET members
          /\ list.tried \subseteq t /\ w \subseteq t
          /\ list' = [list EXCEPT !.waiting = w, !.tried = t]
          /\ list.phase = "asking"
      BY <3>1, <3>2, AwaitedIsTried
    <3> HIDE DEF w, t
    <3> QED
      BY <2>2, <3>3, GoesOn
  <2> QED
    BY <2>1, <2>3, <2>4, <2>5, AwaitedIsTried
<1>3. CASE ListRace
  <2>1. PICK b \in list.waiting :
           /\ Delivered(b)
           /\ IF Failed(b) /\ list.waiting # {b}
              THEN list' = [list EXCEPT !.waiting = @ \ {b}]
              ELSE Return(list.answers[b])
    BY <1>3 DEF ListRace
  <2>2. /\ readMode # "ALL_CONSISTENT" /\ list.answers[b] # NoAnswer
        /\ UNCHANGED <<configVars, objects, writes, still, steady>>
    BY <1>3, <2>1 DEF ListRace, Delivered
  <2>3. CASE Return(list.answers[b])
    BY <2>2, <2>3, AwaitedIsTried, Ends
  <2>4. CASE list' = [list EXCEPT !.waiting = @ \ {b}]
    <3>1. /\ list.waiting \subseteq list.tried /\ list.tried \subseteq members
      BY DEF ListInductive
    <3>2. list' = [list EXCEPT !.waiting = list.waiting \ {b},
                               !.tried = list.tried]
      BY <2>4 DEF ListInductive, ListShape
    <3> DEFINE w == list.waiting \ {b}
               t == list.tried
    <3>3. /\ w \in SUBSET members /\ t \in SUBSET members
          /\ list.tried \subseteq t /\ w \subseteq t
          /\ list' = [list EXCEPT !.waiting = w, !.tried = t]
          /\ list.phase = "asking"
      BY <3>1, <3>2, AwaitedIsTried
    <3> HIDE DEF w, t
    <3> QED
      BY <2>2, <3>3, GoesOn
  <2> QED
    BY <2>1, <2>3, <2>4, AwaitedIsTried
<1>4. CASE ListAllConsistent
  <2>1. /\ list.phase = "asking" /\ readMode = "ALL_CONSISTENT"
        /\ Return(Compared)
        /\ \A b \in members : list.answers[b] # NoAnswer
        /\ UNCHANGED <<configVars, objects, writes, still, steady>>
    BY <1>4 DEF ListAllConsistent, Delivered
  <2> QED
    BY <2>1, ComparedType, Ends
<1> QED
  BY <1>1, <1>2, <1>3, <1>4 DEF ListStep

\* A step that is not a LIST's.
LEMMA ListStutters ==
  ASSUME ListInductive, UNCHANGED listVars
  PROVE  ListInductive'
<1> USE DEF listVars, configVars
<1>1. ListTypeOK' /\ ListShape'
  BY DEF ListInductive, ListShape
<1>2. AnswersFit' /\ SteadyIsHeld' /\ Compared' = Compared
  BY AnswersKept
<1>3. ResultFits'
  BY <1>2 DEF ListInductive, ResultFits
<1> QED
  BY <1>1, <1>2, <1>3 DEF ListInductive

-----------------------------------------------------------------------------
(* What the invariant means for LIST.                                      *)

\* A page that is returned is somebody's answer, or with ALL_CONSISTENT the
\* primary's and the same as everybody's.
LEMMA PageIsAnAnswer ==
  ASSUME ListInductive, Listed
  PROVE  \E b \in list.tried :
            /\ list.answers[b].kind = "ok" /\ list.answers[b].page = Page
            /\ PageFits(b, Page)
            /\ readMode = "ALL_CONSISTENT" =>
                  /\ b = primary
                  /\ \A c \in members :
                        /\ list.answers[c].kind = "ok"
                        /\ PageFits(c, list.answers[c].page)
                        /\ SamePages(list.answers[c].page, Page)
<1>1. list.phase = "done" /\ list.result.kind = "ok"
  BY DEF Listed
<1>2. ASSUME NEW b \in Backends,
             list.answers[b] # NoAnswer, list.answers[b] # Error
      PROVE  /\ list.answers[b].kind = "ok" /\ b \in list.tried
             /\ PageFits(b, list.answers[b].page)
  BY <1>2 DEF ListInductive, AnswersFit
<1>3. members \subseteq Backends /\ list.tried \subseteq members
  BY BackendsOfList DEF ListInductive
<1>4. CASE readMode = "ALL_CONSISTENT"
  <2>1. /\ \A b \in members : list.answers[b] # NoAnswer
        /\ list.result = Compared
    BY <1>1, <1>4 DEF ListInductive, ResultFits
  <2>2. Compared # Error
    BY <1>1, <2>1, PlainAnswers
  <2>3. /\ \A b \in members :
              /\ ~ Failed(b)
              /\ SamePages(list.answers[b].page, list.answers[primary].page)
        /\ Compared = Ok(list.answers[primary].page)
    BY <2>2 DEF Compared
  <2>4. Page = list.answers[primary].page
    BY <2>1, <2>3 DEF Page, Ok
  <2>5. primary \in members
    BY DEF ListInductive
  <2>6. \A b \in members : list.answers[b] # Error
    BY <2>3, PlainAnswers DEF Failed
  <2> QED
    BY <1>2, <1>3, <2>1, <2>3, <2>4, <2>5, <2>6
<1>5. CASE readMode # "ALL_CONSISTENT"
  <2>1. PICK b \in list.tried :
           list.answers[b] # NoAnswer /\ list.result = list.answers[b]
    BY <1>1, <1>5, PlainAnswers DEF ListInductive, ResultFits
  <2>2. list.answers[b] # Error /\ Page = list.answers[b].page
    BY <1>1, <2>1, PlainAnswers DEF Page
  <2> QED
    BY <1>2, <1>3, <1>5, <2>1, <2>2
<1> QED
  BY <1>4, <1>5

\* A steady key is in every page that tells of it.
LEMMA SteadyKeysListed == ASSUME ListInductive PROVE SteadyKeysAreListed
BY PageIsAnAnswer DEF SteadyKeysAreListed, Covered, PageFits

\* The keys of a page are finitely many, so two pages of the same size of
\* which one has the keys of the other have the same keys.
LEMMA SamePagesAgree ==
  ASSUME ListInductive, NEW b \in Backends, NEW c \in Backends, NEW p, NEW q,
         PageFits(b, p), PageFits(c, q), SamePages(p, q)
  PROVE  DOMAIN p = DOMAIN q /\ \A k \in DOMAIN q : p[k] = q[k]
<1>1. list.matching \in SUBSET Keys
  BY DEF ListInductive, ListShape
<1>2. DOMAIN q \in SUBSET Keys /\ DOMAIN p \in SUBSET DOMAIN q
  BY <1>1 DEF PageFits, SamePages
<1>3. Cardinality(DOMAIN p) = Cardinality(DOMAIN q)
  BY DEF SamePages
<1>4. DOMAIN p = DOMAIN q
  <2> DEFINE P == DOMAIN p
             Q == DOMAIN q
  <2>1. P \in SUBSET Q /\ Q \in SUBSET Keys
    BY <1>2
  <2>2. Cardinality(P) = Cardinality(Q)
    BY <1>3
  <2> HIDE DEF P, Q
  <2>3. P = Q
    BY <2>1, <2>2, FS_Subset
  <2> QED
    BY <2>3 DEF P, Q
<1> QED
  BY <1>4 DEF SamePages

\* While nothing is written, an answer that is a page is one that the backend
\* would give now.
LEMMA AnswerIsCurrent ==
  ASSUME ListInductive, still, NEW b \in members,
         list.answers[b].kind = "ok"
  PROVE  list.answers[b] \in Pages(b) /\ b \in Backends
<1>1. b \in Backends
  BY BackendsOfList DEF ListInductive
<1>2. list.answers[b] # NoAnswer /\ list.answers[b] # Error
  BY PlainAnswers
<1> QED
  BY <1>1, <1>2 DEF ListInductive, AnswersFit

\* What all the pages agree on, the backends agree on.
LEMMA AgreementProved == ASSUME ListInductive PROVE PagesProveAgreement
<1> SUFFICES ASSUME Listed, readMode = "ALL_CONSISTENT", still,
                    NEW k \in Covered, NEW b \in members
    PROVE  objects[b][k] = objects[primary][k]
  <2>1. primary \in members
    BY DEF ListInductive
  <2> QED
    BY <2>1 DEF PagesProveAgreement
<1> DEFINE page(c) == list.answers[c].page
<1>1. /\ primary \in members /\ Page = page(primary)
      /\ PageFits(primary, Page)
      /\ \A c \in members : /\ list.answers[c].kind = "ok"
                            /\ PageFits(c, page(c))
                            /\ SamePages(page(c), Page)
  BY PageIsAnAnswer DEF ListInductive
<1>2. b \in Backends /\ primary \in Backends /\ k \in Keys
  BY <1>1, BackendsOfList DEF Covered, CoveredBy, ListInductive, ListShape
<1>3. /\ DOMAIN page(b) = DOMAIN Page
      /\ \A j \in DOMAIN Page : page(b)[j] = Page[j]
  BY <1>1, <1>2, SamePagesAgree
<1>4. k \in CoveredBy(page(b))
  BY <1>3 DEF Covered, CoveredBy
<1>5. ASSUME NEW c \in members, k \in CoveredBy(page(c))
      PROVE  /\ k \in DOMAIN page(c) <=> k \in Held(c)
             /\ k \in DOMAIN page(c) => page(c)[k] = ETag(c, objects[c][k])
  <2>1. list.answers[c] \in Pages(c) /\ list.answers[c].kind = "ok"
    BY <1>1, AnswerIsCurrent
  <2>2. /\ \A j \in DOMAIN page(c) : page(c)[j] = ETag(c, objects[c][j])
        /\ \A j \in DOMAIN page(c) : j \in Held(c)
        /\ \A j \in CoveredBy(page(c)) :
              j \in Held(c) => j \in DOMAIN page(c)
    BY <2>1, PageIsTrue DEF ListInductive
  <2> QED
    BY <1>5, <2>2
<1>6. k \in CoveredBy(page(primary))
  BY <1>1 DEF Covered
<1>7. CASE k \in DOMAIN Page
  <2>1. ETag(b, objects[b][k]) = ETag(primary, objects[primary][k])
    BY <1>1, <1>3, <1>4, <1>5, <1>6, <1>7
  <2> QED
    BY <2>1 DEF ETag
<1>8. CASE k \notin DOMAIN Page
  <2>1. k \notin Held(b) /\ k \notin Held(primary)
    BY <1>1, <1>3, <1>4, <1>5, <1>6, <1>8
  <2> QED
    BY <1>2, <2>1 DEF Held
<1> QED
  BY <1>7, <1>8

\* Backends of one kind that hold the same make the same pages.
LEMMA SameHeldSamePage ==
  ASSUME ListInductive, NEW b \in Backends, NEW c \in Backends,
         IsRemote(b) <=> IsRemote(c),
         \A k \in list.matching : objects[b][k] = objects[c][k],
         NEW x \in Pages(b), NEW y \in Pages(c), x.kind = "ok", y.kind = "ok"
  PROVE  SamePages(x.page, y.page)
<1> DEFINE S == Held(b) \cap list.matching
           T == Held(c) \cap list.matching
           n == list.max
<1>1. x # Error /\ y # Error
  BY PlainAnswers
<1>2. PICK cut \in Cut(S, n) : x = Ok([k \in cut |-> ETag(b, objects[b][k])])
  BY <1>1, PageIsCut DEF ListInductive
<1>3. PICK dut \in Cut(T, n) : y = Ok([k \in dut |-> ETag(c, objects[c][k])])
  BY <1>1, PageIsCut DEF ListInductive
<1>4. S = T /\ S \in SUBSET Keys /\ n \in Int
  BY DEF Held, ListInductive, ListShape
<1>5. cut = dut /\ cut \in SUBSET list.matching
  <2>1. cut = dut
    <3> HIDE DEF S, T, n
    <3> QED
      BY <1>2, <1>3, <1>4 DEF Cut
  <2>2. cut \in SUBSET S
    <3> HIDE DEF S, T, n
    <3> QED
      BY <1>2, <1>4, CutTells
  <2> QED
    BY <2>1, <2>2
<1>6. /\ x.page = [k \in cut |-> ETag(b, objects[b][k])]
      /\ y.page = [k \in cut |-> ETag(c, objects[c][k])]
  BY <1>2, <1>3, <1>5 DEF Ok
<1>7. \A k \in cut : ETag(b, objects[b][k]) = ETag(c, objects[c][k])
  BY <1>5 DEF ETag, IsRemote
<1> QED
  BY <1>6, <1>7 DEF SamePages

\* Agreement is seen between backends of one kind, and only empty pages pass
\* between kinds.
LEMMA AgreementSeen == ASSUME ListInductive PROVE AgreementIsSeen
<1> SUFFICES ASSUME list.phase = "done", readMode = "ALL_CONSISTENT"
    PROVE  IF \A b, c \in members : IsRemote(b) <=> IsRemote(c)
           THEN /\ still
                /\ \A b \in members : list.answers[b].kind = "ok"
                /\ \A k \in list.matching, b, c \in members :
                      objects[b][k] = objects[c][k]
                => Listed
           ELSE Listed => DOMAIN Page = {}
  BY DEF AgreementIsSeen
<1>1. primary \in members /\ members \subseteq Backends
  BY BackendsOfList DEF ListInductive
<1>2. ASSUME \A b, c \in members : IsRemote(b) <=> IsRemote(c), still,
             \A b \in members : list.answers[b].kind = "ok",
             \A k \in list.matching, b, c \in members :
                 objects[b][k] = objects[c][k]
      PROVE  Listed
  <2>1. ASSUME NEW b \in members
        PROVE  SamePages(list.answers[b].page, list.answers[primary].page)
    <3>1. /\ list.answers[b] \in Pages(b)
          /\ list.answers[primary] \in Pages(primary)
      BY <1>1, <1>2, AnswerIsCurrent
    <3>2. /\ IsRemote(b) <=> IsRemote(primary)
          /\ \A k \in list.matching : objects[b][k] = objects[primary][k]
          /\ b \in Backends /\ primary \in Backends
          /\ list.answers[b].kind = "ok" /\ list.answers[primary].kind = "ok"
      BY <1>1, <1>2
    <3> QED
      BY <3>1, <3>2, SameHeldSamePage
  <2>2. \A b \in members : ~ Failed(b)
    BY <1>2 DEF Failed
  <2>3. Compared = Ok(list.answers[primary].page)
    BY <2>1, <2>2 DEF Compared
  <2>4. list.result = Compared
    BY DEF ListInductive, ResultFits
  <2> QED
    BY <2>3, <2>4 DEF Listed, Ok
<1>3. ASSUME NEW b \in members, NEW c \in members,
             ~ (IsRemote(b) <=> IsRemote(c)), Listed, NEW k \in DOMAIN Page
      PROVE  FALSE
  <2>1. PICK d \in members : ~ (IsRemote(d) <=> IsRemote(primary))
    BY <1>3
  <2>2. /\ PageFits(primary, Page) /\ PageFits(d, list.answers[d].page)
        /\ SamePages(list.answers[d].page, Page)
    BY <1>3, PageIsAnAnswer
  <2>3. /\ k \in DOMAIN list.answers[d].page
        /\ list.answers[d].page[k] = Page[k]
    BY <1>1, <2>2, SamePagesAgree
  <2>4. PICK v \in Values : Page[k] = ETag(primary, v)
    BY <2>2 DEF PageFits
  <2>5. PICK w \in Values : list.answers[d].page[k] = ETag(d, w)
    BY <2>2, <2>3 DEF PageFits
  <2>6. ETag(primary, v) = ETag(d, w)
    BY <2>3, <2>4, <2>5
  <2>7. IsRemote(primary) = IsRemote(d)
    BY <2>6 DEF ETag
  <2> QED
    BY <2>1, <2>7
<1> QED
  BY <1>2, <1>3

-----------------------------------------------------------------------------
(* The order of the query.                                                 *)

\* The order in which a stable sort puts the positions of a query.
QueryOrder(query) ==
    {p \in Nat \X Nat :
        \/ Precedes(query[p[1]], query[p[2]])
        \/ /\ ~ Precedes(query[p[2]], query[p[1]])
           /\ p[1] < p[2]}

\* The pairs before p and those not behind it.
Below(query, p) == {i \in DOMAIN query : Precedes(query[i], p)}
UpToPair(query, p) == {i \in DOMAIN query : ~ Precedes(p, query[i])}

LEMMA QueryTypes ==
  ASSUME NEW query \in Seq(Int \X Int)
  PROVE  /\ Len(query) \in Nat /\ DOMAIN query = 1 .. Len(query)
         /\ \A i \in DOMAIN query :
               /\ query[i] \in Int \X Int
               /\ query[i][1] \in Int /\ query[i][2] \in Int
<1>1. Len(query) \in Nat /\ DOMAIN query = 1 .. Len(query)
  BY LenProperties
<1>2. \A i \in DOMAIN query : query[i] \in Int \X Int
  BY <1>1, ElementOfSeq
<1> QED
  BY <1>1, <1>2

\* Precedes is a total order of pairs.
LEMMA PrecedesOrders ==
  ASSUME NEW p \in Int \X Int, NEW q \in Int \X Int, NEW r \in Int \X Int
  PROVE  /\ ~ Precedes(p, p)
         /\ Precedes(p, q) => ~ Precedes(q, p)
         /\ Precedes(p, q) /\ Precedes(q, r) => Precedes(p, r)
         /\ ~ Precedes(q, p) /\ Precedes(q, r) => Precedes(p, r)
         /\ Precedes(p, q) /\ ~ Precedes(r, q) => Precedes(p, r)
         /\ ~ Precedes(p, q) /\ ~ Precedes(q, p) => p = q
<1>1. /\ p[1] \in Int /\ p[2] \in Int /\ q[1] \in Int /\ q[2] \in Int
      /\ r[1] \in Int /\ r[2] \in Int
  OBVIOUS
<1>2. p[1] = q[1] /\ p[2] = q[2] => p = q
  OBVIOUS
<1> QED
  BY <1>1, <1>2 DEF Precedes

LEMMA QueryOrderOrders ==
  ASSUME NEW query \in Seq(Int \X Int)
  PROVE  /\ Orders(QueryOrder(query), DOMAIN query)
         /\ \A i, j \in DOMAIN query :
               <<i, j>> \in QueryOrder(query) <=>
                   \/ Precedes(query[i], query[j])
                   \/ ~ Precedes(query[j], query[i]) /\ i < j
<1> DEFINE D == DOMAIN query
           R == QueryOrder(query)
<1>1. /\ D = 1 .. Len(query) /\ Len(query) \in Nat
      /\ \A i \in D : query[i] \in Int \X Int
  BY QueryTypes
<1>2. ASSUME NEW i \in D, NEW j \in D
      PROVE  <<i, j>> \in R <=>
                 \/ Precedes(query[i], query[j])
                 \/ ~ Precedes(query[j], query[i]) /\ i < j
  <2>1. i \in Nat /\ j \in Nat
    BY <1>1
  <2> QED
    BY <2>1 DEF QueryOrder
<1> HIDE DEF R
<1>3. \A x \in D : <<x, x>> \notin R
  BY <1>1, <1>2, PrecedesOrders
<1>4. ASSUME NEW x \in D, NEW y \in D, NEW z \in D,
             <<x, y>> \in R, <<y, z>> \in R
      PROVE  <<x, z>> \in R
  <2> DEFINE p == query[x]
             q == query[y]
             r == query[z]
  <2>1. /\ p \in Int \X Int /\ q \in Int \X Int /\ r \in Int \X Int
        /\ x \in Int /\ y \in Int /\ z \in Int
    BY <1>1
  <2>2. /\ Precedes(p, q) \/ (~ Precedes(q, p) /\ x < y)
        /\ Precedes(q, r) \/ (~ Precedes(r, q) /\ y < z)
    BY <1>2, <1>4
  <2>3. Precedes(p, r) \/ (~ Precedes(r, p) /\ x < z) => <<x, z>> \in R
    BY <1>2
  <2> HIDE DEF p, q, r
  <2>4. Precedes(p, r) \/ (~ Precedes(r, p) /\ x < z)
    <3>1. CASE Precedes(p, q)
      BY <2>1, <2>2, <3>1, PrecedesOrders
    <3>2. CASE Precedes(q, r)
      BY <2>1, <2>2, <3>2, PrecedesOrders
    <3>3. CASE ~ Precedes(q, p) /\ x < y /\ ~ Precedes(r, q) /\ y < z
      <4>1. ~ Precedes(r, p)
        BY <2>1, <3>3, PrecedesOrders
      <4> QED
        BY <2>1, <3>3, <4>1
    <3> QED
      BY <2>2, <3>1, <3>2, <3>3
  <2> QED
    BY <2>3, <2>4
<1>5. ASSUME NEW x \in D, NEW y \in D, x # y
      PROVE  <<x, y>> \in R \/ <<y, x>> \in R
  <2>1. x \in Int /\ y \in Int
    BY <1>1
  <2>2. CASE x < y
    BY <1>2, <2>2
  <2>3. CASE y < x
    BY <1>2, <2>3
  <2> QED
    BY <1>5, <2>1, <2>2, <2>3
<1>6. Orders(R, D)
  BY <1>3, <1>4, <1>5 DEF Orders
<1> QED
  BY <1>2, <1>6 DEF R

\* The pair at position k of the sorted query is the one with fewer than k
\* pairs before it and at least k that are not behind it.
LEMMA CanonicalAt ==
  ASSUME NEW query \in Seq(Int \X Int), NEW k \in 1 .. Len(query)
  PROVE  LET p == Canonical(query)[k]
         IN  /\ p \in Int \X Int
             /\ Cardinality(Below(query, p)) < k
             /\ k <= Cardinality(UpToPair(query, p))
<1> DEFINE n == Len(query)
           D == 1 .. n
           R == QueryOrder(query)
           rank(i) == Cardinality(
                         {j \in D : \/ Precedes(query[j], query[i])
                                    \/ /\ ~ Precedes(query[i], query[j])
                                       /\ j <= i})
<1>1. /\ n \in Nat /\ DOMAIN query = D
      /\ \A i \in D : query[i] \in Int \X Int
  BY QueryTypes
<1>2. IsFiniteSet(D) /\ Cardinality(D) = n
  BY <1>1, PositionsFinite
<1>3. /\ Orders(R, D)
      /\ \A i, j \in D :
            <<i, j>> \in R <=>
                \/ Precedes(query[i], query[j])
                \/ ~ Precedes(query[j], query[i]) /\ i < j
  BY <1>1, QueryOrderOrders
<1> HIDE DEF R
<1>4. ASSUME NEW i \in D
      PROVE  UpTo(i, D, R) = {j \in D : \/ Precedes(query[j], query[i])
                                        \/ /\ ~ Precedes(query[i], query[j])
                                           /\ j <= i}
  <2>1. ~ Precedes(query[i], query[i])
    BY <1>1, PrecedesOrders
  <2> QED
    BY <1>1, <1>3, <2>1 DEF UpTo
<1>5. \A i \in D : rank(i) = Rank(i, D, R)
  BY <1>4 DEF Rank
<1>6. \E i \in D : rank(i) = k
  <2>1. \E i \in D : Rank(i, D, R) = k
    <3> HIDE DEF D
    <3> QED
      BY <1>2, <1>3, RankExists
  <2> QED
    BY <1>5, <2>1
<1>7. Canonical(query)[k] = query[CHOOSE i \in D : rank(i) = k]
  BY DEF Canonical
<1>8. PICK i \in D : rank(i) = k /\ Canonical(query)[k] = query[i]
  BY <1>6, <1>7
<1> DEFINE p == query[i]
           U == UpTo(i, D, R)
<1>9. /\ Below(query, p) \in SUBSET U /\ i \in U /\ i \notin Below(query, p)
      /\ U \in SUBSET UpToPair(query, p)
      /\ UpToPair(query, p) \in SUBSET D
  <2>1. ~ Precedes(p, p)
    BY <1>1, PrecedesOrders
  <2>2. \A j \in D : Precedes(query[j], p) => ~ Precedes(p, query[j])
    BY <1>1, PrecedesOrders
  <2>3. U = {j \in D : \/ Precedes(query[j], p)
                       \/ ~ Precedes(p, query[j]) /\ j <= i}
    BY <1>4
  <2>4. /\ Below(query, p) = {j \in D : Precedes(query[j], p)}
        /\ UpToPair(query, p) = {j \in D : ~ Precedes(p, query[j])}
    BY <1>1, Zenon DEF Below, UpToPair
  <2>5. i \in D /\ i <= i
    BY <1>1
  <2> HIDE DEF D, U
  <2>6. Below(query, p) \in SUBSET U /\ i \in U
    BY <2>1, <2>3, <2>4, <2>5
  <2>7. U \in SUBSET UpToPair(query, p)
    BY <2>2, <2>3, <2>4
  <2> QED
    BY <2>1, <2>4, <2>6, <2>7
<1>10. Cardinality(U) = k
  BY <1>5, <1>8 DEF Rank
<1>11. p \in Int \X Int
  BY <1>1
<1> HIDE DEF D, U, p, rank
<1>12. IsFiniteSet(UpToPair(query, p)) /\ IsFiniteSet(U)
  BY <1>2, <1>9, FS_Subset
<1>13. IsFiniteSet(Below(query, p))
  BY <1>9, <1>12, FS_Subset
<1>14. /\ Cardinality(Below(query, p)) <= Cardinality(U)
       /\ Cardinality(Below(query, p)) # Cardinality(U)
       /\ Cardinality(U) <= Cardinality(UpToPair(query, p))
  BY <1>9, <1>12, FS_Subset
<1>15. /\ Cardinality(Below(query, p)) \in Nat /\ Cardinality(U) \in Nat
       /\ Cardinality(UpToPair(query, p)) \in Nat
  BY <1>12, <1>13, FS_CardinalityType
<1>16. Canonical(query)[k] = p
  BY <1>8 DEF p
<1> QED
  BY <1>10, <1>11, <1>14, <1>15, <1>16

\* Only one pair is there, so queries with the same pairs as often are the same
\* once they are sorted.
LEMMA CanonicalByCounts ==
  ASSUME NEW q \in Seq(Int \X Int), NEW r \in Seq(Int \X Int),
         Len(q) = Len(r),
         \A p \in Int \X Int :
             /\ Cardinality(Below(q, p)) = Cardinality(Below(r, p))
             /\ Cardinality(UpToPair(q, p)) = Cardinality(UpToPair(r, p))
  PROVE  Canonical(q) = Canonical(r)
<1> DEFINE D == 1 .. Len(q)
<1>1. /\ Len(q) \in Nat /\ DOMAIN q = D /\ DOMAIN r = D
      /\ \A i \in D : q[i] \in Int \X Int /\ r[i] \in Int \X Int
  BY QueryTypes
<1>2. IsFiniteSet(D)
  BY <1>1, PositionsFinite
<1>3. ASSUME NEW p \in Int \X Int
      PROVE  /\ Cardinality(Below(q, p)) \in Nat
             /\ Cardinality(UpToPair(q, p)) \in Nat
             /\ IsFiniteSet(UpToPair(q, p)) /\ IsFiniteSet(Below(q, p))
  <2>1. Below(q, p) \in SUBSET D /\ UpToPair(q, p) \in SUBSET D
    BY <1>1 DEF Below, UpToPair
  <2> HIDE DEF D
  <2> QED
    BY <1>2, <2>1, FS_Subset, FS_CardinalityType
<1>4. ASSUME NEW p \in Int \X Int, NEW s \in Int \X Int, Precedes(p, s)
      PROVE  Cardinality(UpToPair(q, p)) <= Cardinality(Below(q, s))
  <2>1. ASSUME NEW i \in D, ~ Precedes(p, q[i])
        PROVE  Precedes(q[i], s)
    BY <1>1, <1>4, <2>1, PrecedesOrders
  <2>2. UpToPair(q, p) \in SUBSET Below(q, s)
    BY <1>1, <2>1 DEF UpToPair, Below
  <2> QED
    BY <1>3, <2>2, FS_Subset
<1>5. ASSUME NEW k \in D
      PROVE  Canonical(q)[k] = Canonical(r)[k]
  <2> DEFINE p == Canonical(q)[k]
             s == Canonical(r)[k]
  <2>1. /\ p \in Int \X Int /\ s \in Int \X Int /\ k \in Int
        /\ Cardinality(Below(q, p)) < k /\ k <= Cardinality(UpToPair(q, p))
        /\ Cardinality(Below(r, s)) < k /\ k <= Cardinality(UpToPair(r, s))
    BY CanonicalAt
  <2> HIDE DEF p, s
  <2>2. /\ Cardinality(Below(q, s)) < k /\ k <= Cardinality(UpToPair(q, s))
    BY <2>1
  <2>3. ~ Precedes(p, s)
    BY <1>3, <1>4, <2>1, <2>2
  <2>4. ~ Precedes(s, p)
    BY <1>3, <1>4, <2>1, <2>2
  <2>5. p = s
    BY <2>1, <2>3, <2>4, PrecedesOrders
  <2> QED
    BY <2>5 DEF p, s
<1>6. ASSUME NEW x
      PROVE  Canonical(x) = [k \in 1 .. Len(x) |-> Canonical(x)[k]]
  BY DEF Canonical
<1> QED
  BY <1>5, <1>6

\* A permutation maps as many positions into a set as there are in it.
LEMMA PermutedCount ==
  ASSUME NEW D, IsFiniteSet(D), NEW f \in Injection(D, D), NEW B \in SUBSET D
  PROVE  Cardinality({i \in D : f[i] \in B}) = Cardinality(B)
<1> DEFINE A == {i \in D : f[i] \in B}
           g == [i \in A |-> f[i]]
<1>1. f \in Surjection(D, D)
  BY FS_Injection
<1>2. g \in Injection(A, B)
  BY DEF Injection, IsInjective
<1>3. g \in Surjection(A, B)
  BY <1>1 DEF Surjection
<1>4. IsFiniteSet(B) /\ A \in SUBSET D
  BY FS_Subset
<1> HIDE DEF A, g
<1>5. ExistsBijection(A, B) /\ IsFiniteSet(A)
  BY <1>2, <1>3, <1>4, FS_Subset DEF ExistsBijection, Bijection
<1>6. Cardinality(B) = Cardinality(A)
  BY <1>5, FS_Bijection
<1> QED
  BY <1>6 DEF A

\* A reordered query is a query.
LEMMA ReorderingType ==
  ASSUME NEW q \in Seq(Int \X Int), NEW r \in Reorderings(q)
  PROVE  r \in Seq(Int \X Int) /\ Len(r) = Len(q)
<1>1. /\ Len(q) \in Nat /\ DOMAIN q = 1 .. Len(q)
      /\ \A i \in 1 .. Len(q) : q[i] \in Int \X Int
  BY QueryTypes
<1>2. r \in [1 .. Len(q) -> Int \X Int]
  <2>1. \E f \in {g \in [DOMAIN q -> DOMAIN q] :
                    \A i, j \in DOMAIN q : g[i] = g[j] => i = j} :
            r = [i \in DOMAIN q |-> q[f[i]]]
    BY Zenon DEF Reorderings
  <2>2. PICK f \in [DOMAIN q -> DOMAIN q] : r = [i \in DOMAIN q |-> q[f[i]]]
    BY <2>1
  <2> QED
    BY <1>1, <2>2
<1>3. r \in Seq(Int \X Int)
  <2>1. Seq(Int \X Int) = UNION {[1 .. n -> Int \X Int] : n \in Nat}
    BY SeqDef
  <2> QED
    BY <1>1, <1>2, <2>1
<1>4. 1 .. Len(r) = 1 .. Len(q) /\ Len(r) \in Nat
  BY <1>2, <1>3, LenProperties
<1> QED
  BY <1>1, <1>3, <1>4

\* In whatever order the parameters arrive, sorting them gives the same.
LEMMA CanonicalOfReordering ==
  ASSUME NEW q \in Seq(Int \X Int), NEW r \in Reorderings(q)
  PROVE  Canonical(r) = Canonical(q)
<1> DEFINE D == 1 .. Len(q)
<1>1. /\ Len(q) \in Nat /\ DOMAIN q = D
      /\ \A i \in D : q[i] \in Int \X Int
  BY QueryTypes
<1>2. IsFiniteSet(D)
  BY <1>1, PositionsFinite
<1>3. PICK f \in [D -> D] : /\ \A i, j \in D : f[i] = f[j] => i = j
                           /\ r = [i \in D |-> q[f[i]]]
  <2>1. \E f \in {g \in [DOMAIN q -> DOMAIN q] :
                    \A i, j \in DOMAIN q : g[i] = g[j] => i = j} :
            r = [i \in DOMAIN q |-> q[f[i]]]
    BY Zenon DEF Reorderings
  <2> HIDE DEF D
  <2> QED
    BY <1>1, <2>1
<1>4. f \in Injection(D, D)
  BY <1>3 DEF Injection, IsInjective
<1>5. r \in Seq(Int \X Int) /\ Len(r) = Len(q) /\ DOMAIN r = D
  BY <1>3, ReorderingType
<1>6. ASSUME NEW p \in Int \X Int
      PROVE  /\ Cardinality(Below(r, p)) = Cardinality(Below(q, p))
             /\ Cardinality(UpToPair(r, p)) = Cardinality(UpToPair(q, p))
  <2>1. /\ Below(r, p) = {i \in D : f[i] \in Below(q, p)}
        /\ Below(q, p) \in SUBSET D
    BY <1>1, <1>3, <1>5 DEF Below
  <2>2. /\ UpToPair(r, p) = {i \in D : f[i] \in UpToPair(q, p)}
        /\ UpToPair(q, p) \in SUBSET D
    BY <1>1, <1>3, <1>5 DEF UpToPair
  <2> HIDE DEF D
  <2>3. ASSUME NEW B \in SUBSET D
        PROVE  Cardinality({i \in D : f[i] \in B}) = Cardinality(B)
    BY <1>2, <1>4, PermutedCount
  <2> QED
    BY <2>1, <2>2, <2>3
<1> QED
  BY <1>5, <1>6, CanonicalByCounts

-----------------------------------------------------------------------------
(* The steps of FrontEnd.                                                  *)

\* The smaller one of what the client asks for, if it does, and the limit.
LEMMA LimitType ==
  ASSUME NEW query \in Seq(Int \X Int), Readable(query)
  PROVE  Limit(query) \in - MaxI32 - 1 .. PageLimit
<1> DEFINE N == Named(query, MaxKeys)
           asked == {query[i][2] : i \in N} \cup {PageLimit}
<1>1. /\ N \in SUBSET (1 .. Len(query)) /\ Len(query) \in Nat
      /\ \A i \in N : query[i][2] \in - MaxI32 - 1 .. MaxI32
      /\ Cardinality(N) <= 1
  BY QueryTypes DEF Named, Readable
<1>2. IsFiniteSet(N) /\ Cardinality(N) \in Nat
  <2> HIDE DEF N
  <2> QED
    BY <1>1, PositionsFinite, FS_Subset, FS_CardinalityType
<1>3. N = {} \/ \E i : N = {i}
  <2> HIDE DEF N
  <2>1. Cardinality(N) = 0 \/ Cardinality(N) = 1
    BY <1>1, <1>2
  <2> QED
    BY <1>2, <2>1, FS_EmptySet, FS_Singleton
<1>4. Limit(query) = CHOOSE n \in asked : \A m \in asked : n <= m
  BY DEF Limit
<1>5. /\ PageLimit \in Nat /\ MaxI32 \in Nat /\ PageLimit <= MaxI32
  BY FrontEndAssumption
<1> HIDE DEF N
<1>6. \E n \in asked : /\ \A m \in asked : n <= m
                      /\ n \in - MaxI32 - 1 .. PageLimit
  <2>1. CASE N = {}
    BY <1>5, <2>1
  <2>2. ASSUME NEW i, N = {i}
        PROVE  \E n \in asked : /\ \A m \in asked : n <= m
                               /\ n \in - MaxI32 - 1 .. PageLimit
    <3>1. asked = {query[i][2], PageLimit}
      BY <2>2
    <3>2. query[i][2] \in - MaxI32 - 1 .. MaxI32
      BY <1>1, <2>2
    <3> HIDE DEF asked
    <3> QED
      BY <1>5, <3>1, <3>2
  <2> QED
    BY <1>3, <2>1, <2>2
<1>7. \A n \in asked : n \in Int
  BY <1>1, <1>5
<1> HIDE DEF asked
<1>8. \A n, m \in asked :
          (\A x \in asked : n <= x) /\ (\A x \in asked : m <= x) => n = m
  BY <1>7
<1> QED
  BY <1>4, <1>6, <1>8

\* Every outcome has its status.
LEMMA StatusType ==
  ASSUME NEW op,
         NEW code \in {"Ok", "NoSuchKey", "NoSuchBucket", "InternalError"}
                         \cup Refusals
  PROVE  Status(op, code) \in {200, 204, 400, 403, 404, 500}
BY DEF Status, Refusals

LEMMA VerdictType ==
  ASSUME NEW r, NEW query
  PROVE  Verdict(r, query) \in Refusals \cup {"Accepted"}
BY DEF Verdict, Refusals

\* The storage's outcomes are no refusals.
LEMMA OutcomesType ==
  ASSUME NEW op \in {"read", "put", "delete", "bucket"},
         NEW code \in Outcomes(op)
  PROVE  code \in {"Ok", "NoSuchKey", "NoSuchBucket", "InternalError"}
BY DEF Outcomes

\* A client that signs as the server does is accepted if it is punctual: both
\* sides know the secret, the day is that of the header on both, and sorting
\* undoes any reordering of the parameters.
LEMMA PunctualIsAccepted ==
  ASSUME request \in Requests, Honest(request), stamp \in Int, now \in Int,
         now - stamp \in - Skew .. Skew,
         NEW query \in Reorderings(request.query)
  PROVE  Verdict(request, query) = "Accepted"
<1>1. request.query \in Seq(Int \X Int) /\ request.secret # Nobody
  BY FrontEndAssumption
<1>2. Canonical(query) = Canonical(request.query)
  BY <1>1, CanonicalOfReordering
<1>3. Expected(request, query) = Given(request)
  BY <1>2 DEF Expected, Given, DateKey, Honest
<1>4. Fresh(stamp)
  BY DEF Fresh, Skew
<1> QED
  BY <1>1, <1>3, <1>4 DEF Verdict, Honest

LEMMA FrontInitInductive == FrontInit => FrontInductive
<1> SUFFICES ASSUME FrontInit PROVE FrontInductive
  OBVIOUS
<1>1. ListInductive /\ list = NoList
  BY ListInitInductive DEF FrontInit, ListInit
<1>2. list.phase = "idle" /\ list.max = 0
  BY <1>1 DEF NoList
<1>3. FrontTypeOK
  BY <1>1, <1>2, FrontEndAssumption
     DEF FrontInit, FrontTypeOK, FrontPhases, ListInductive
<1>4. ListFitsRequest /\ AnswerFitsRequest /\ PunctualIsServed
  BY <1>2 DEF FrontInit, ListFitsRequest, AnswerFitsRequest, PunctualIsServed
<1> QED
  BY <1>1, <1>3, <1>4 DEF FrontInductive, FrontInit

\* A step that leaves the LIST alone, and neither answers nor is after the
\* answer.
LEMMA FrontKeeps ==
  ASSUME FrontInductive, UNCHANGED <<listVars, answer, counts>>,
         phase' \in {"sent", "storage"}, phase # "answered",
         now' \in 0 .. Horizon, stamp' \in Int, request' \in Requests,
         ListFitsRequest'
  PROVE  FrontInductive'
<1>1. ListInductive'
  BY ListStutters DEF FrontInductive
<1>2. FrontTypeOK'
  BY <1>1 DEF FrontInductive, FrontTypeOK, FrontPhases, ListInductive, listVars
<1>3. AnswerFitsRequest' /\ PunctualIsServed'
  BY DEF FrontInductive, AnswerFitsRequest, PunctualIsServed
<1> QED
  BY <1>1, <1>2, <1>3 DEF FrontInductive

\* A request that no LIST belongs to is answered.
LEMMA AnswersPlainly ==
  ASSUME FrontInductive, UNCHANGED <<listVars, now, request, stamp, counts>>,
         phase \in {"sent", "storage"}, list.phase = "idle",
         NEW status \in {200, 204, 400, 403, 404, 405, 500}, NEW code,
         Answered(status, code), PunctualIsServed'
  PROVE  FrontInductive'
<1>1. ListInductive' /\ list' = list
  BY ListStutters DEF FrontInductive, listVars
<1>2. phase' = "answered" /\ answer' = [status |-> status, code |-> code]
  BY DEF Answered
<1>3. FrontTypeOK'
  BY <1>1, <1>2 DEF FrontInductive, FrontTypeOK, FrontPhases, ListInductive
<1>4. ListFitsRequest'
  BY <1>1, <1>2 DEF FrontInductive, ListFitsRequest
<1>5. AnswerFitsRequest'
  BY <1>1, <1>2 DEF FrontInductive, AnswerFitsRequest, Listed
<1> QED
  BY <1>1, <1>3, <1>4, <1>5 DEF FrontInductive

\* The arrival of a request: a refusal only if its client broke a rule or took
\* too long, an answer without the storage, or the storage's turn.
LEMMA ArriveKeeps ==
  ASSUME FrontInductive, Arrive
  PROVE  FrontInductive'
<1> DEFINE op == Operation(request)
<1>1. PICK query \in Reorderings(request.query) :
        IF Verdict(request, query) # "Accepted"
        THEN /\ Answered(Status(op, Verdict(request, query)),
                         Verdict(request, query))
             /\ UNCHANGED listVars
        ELSE \/ /\ op = "notFound"
                /\ Answered(404, "NoSuchBucket")
                /\ UNCHANGED listVars
             \/ /\ op = "notAllowed"
                /\ Answered(405, "none")
                /\ UNCHANGED listVars
             \/ /\ op = "list"
                /\ ~ Readable(query)
                /\ Answered(400, "none")
                /\ UNCHANGED listVars
             \/ /\ op = "list"
                /\ Readable(query)
                /\ AskList(Matching(query), Limit(query))
                /\ phase' = "storage"
                /\ UNCHANGED answer
             \/ /\ op \in {"read", "put", "delete", "bucket"}
                /\ phase' = "storage"
                /\ UNCHANGED <<listVars, answer>>
  BY DEF Arrive
<1> HIDE DEF op
<1>2. /\ phase = "sent" /\ request \in Requests /\ list.phase = "idle"
      /\ UNCHANGED <<now, request, stamp, counts>>
      /\ now \in 0 .. Horizon /\ now \in Int /\ stamp \in Int
  BY DEF Arrive, FrontInductive, FrontTypeOK, ListFitsRequest
<1>3. CASE Verdict(request, query) # "Accepted"
  <2> DEFINE v == Verdict(request, query)
  <2>1. /\ Answered(Status(op, v), v) /\ UNCHANGED listVars
        /\ v \in Refusals
    BY <1>1, <1>3, VerdictType
  <2>3. PunctualIsServed'
    BY <1>2, <1>3, PunctualIsAccepted DEF PunctualIsServed, Honest
  <2> HIDE DEF v
  <2>2. Status(op, v) \in {200, 204, 400, 403, 404, 405, 500}
    BY <2>1, StatusType
  <2> QED
    BY <1>2, <2>1, <2>2, <2>3, AnswersPlainly
<1>4. ASSUME NEW status \in {404, 405, 400},
             NEW code \in {"NoSuchBucket", "none"},
             Answered(status, code), UNCHANGED listVars
      PROVE  FrontInductive'
  <2>1. PunctualIsServed'
    BY <1>4 DEF PunctualIsServed, Answered, Refusals
  <2> QED
    BY <1>2, <1>4, <2>1, AnswersPlainly
<1>5. CASE /\ op = "list" /\ Readable(query)
           /\ AskList(Matching(query), Limit(query))
           /\ phase' = "storage" /\ UNCHANGED answer
  <2>1. /\ Matching(query) \in SUBSET Keys
        /\ Limit(query) \in - MaxI32 - 1 .. PageLimit
        /\ Limit(query) \in Int
    <3>1. query \in Seq(Int \X Int)
      BY <1>2, FrontEndAssumption, ReorderingType
    <3>2. Limit(query) \in - MaxI32 - 1 .. PageLimit
      BY <1>5, <3>1, LimitType
    <3> QED
      BY <3>2, FrontEndAssumption DEF Matching
  <2>2. /\ ListInductive' /\ list'.phase = "asking"
        /\ list'.max = Limit(query)
    BY <1>5, <2>1, AskKeeps DEF FrontInductive
  <2>3. FrontTypeOK'
    BY <1>2, <1>5, <2>1, <2>2
       DEF FrontInductive, FrontTypeOK, FrontPhases, ListInductive
  <2>4. ListFitsRequest'
    BY <1>2, <1>5, <2>2 DEF ListFitsRequest, op
  <2>5. AnswerFitsRequest' /\ PunctualIsServed'
    BY <1>2, <1>5, <2>2
       DEF FrontInductive, AnswerFitsRequest, PunctualIsServed
  <2> QED
    BY <1>2, <2>2, <2>3, <2>4, <2>5 DEF FrontInductive
<1>6. CASE /\ op \in {"read", "put", "delete", "bucket"}
           /\ phase' = "storage"
           /\ UNCHANGED <<listVars, answer>>
  <2>1. ListFitsRequest'
    BY <1>2, <1>6 DEF ListFitsRequest, listVars, op
  <2> QED
    BY <1>2, <1>6, <2>1, FrontKeeps
<1> QED
  BY <1>1, <1>3, <1>4, <1>5, <1>6

\* The page is rendered, or the error is.
LEMMA ListAnsweredKeeps ==
  ASSUME FrontInductive, ListAnswered
  PROVE  FrontInductive'
<1>1. /\ phase = "storage" /\ list.phase = "done" /\ phase' = "answered"
      /\ UNCHANGED <<listVars, now, request, stamp>>
      /\ answer'.status \in {200, 500} /\ answer'.code \notin Refusals
      /\ counts' = IF list.result.kind = "ok"
                   THEN [keys |-> Cardinality(DOMAIN Page), max |-> list.max]
                   ELSE counts
  BY DEF ListAnswered, Answered, Refusals
<1>2. ListInductive' /\ list' = list
  BY <1>1, ListStutters DEF FrontInductive, listVars
<1>3. FrontTypeOK'
  BY <1>1, <1>2 DEF FrontInductive, FrontTypeOK, FrontPhases, ListInductive
<1>4. ListFitsRequest' /\ PunctualIsServed'
  BY <1>1, <1>2 DEF FrontInductive, ListFitsRequest, PunctualIsServed
<1>5. AnswerFitsRequest'
  <2>1. counts = NoCounts
    BY <1>1 DEF FrontInductive, AnswerFitsRequest
  <2>2. Page' = Page /\ (Listed' <=> list.result.kind = "ok")
    BY <1>1, <1>2 DEF Page, Listed
  <2> QED
    BY <1>1, <1>2, <2>1, <2>2 DEF AnswerFitsRequest
<1> QED
  BY <1>1, <1>2, <1>3, <1>4, <1>5 DEF FrontInductive

\* What happens in the storage is no step of the request.
LEMMA StorageKeeps ==
  ASSUME FrontInductive, ListInductive', UNCHANGED frontVars,
         list'.max = list.max,
         \/ list' = list
         \/ list.phase = "asking" /\ list'.phase \in {"asking", "done"}
  PROVE  FrontInductive'
<1> USE DEF frontVars
<1>1. FrontTypeOK'
  BY DEF FrontInductive, FrontTypeOK, ListInductive
<1>2. ListFitsRequest'
  BY DEF FrontInductive, ListFitsRequest
<1>3. AnswerFitsRequest'
  <2>1. CASE list' = list
    BY <2>1 DEF FrontInductive, AnswerFitsRequest, Listed, Page
  <2>2. CASE list.phase = "asking"
    <3>1. phase # "answered"
      BY <2>2 DEF FrontInductive, ListFitsRequest
    <3> QED
      BY <3>1 DEF FrontInductive, AnswerFitsRequest
  <2> QED
    BY <2>1, <2>2
<1>4. PunctualIsServed'
  BY DEF FrontInductive, PunctualIsServed
<1> QED
  BY <1>1, <1>2, <1>3, <1>4 DEF FrontInductive

LEMMA FrontStepInductive ==
  FrontInductive /\ [FrontNext]_allVars => FrontInductive'
<1> SUFFICES ASSUME FrontInductive, [FrontNext]_allVars PROVE FrontInductive'
  OBVIOUS
<1>1. /\ now \in 0 .. Horizon /\ stamp \in Int /\ Horizon \in Nat
      /\ ListInductive /\ list.max \in - MaxI32 - 1 .. PageLimit
  BY FrontEndAssumption DEF FrontInductive, FrontTypeOK
<1>2. ASSUME NEW r \in Requests, Send(r)
      PROVE  FrontInductive'
  <2>1. /\ phase = "client" /\ request' = r /\ stamp' = now + r.skew
        /\ phase' = "sent" /\ UNCHANGED <<listVars, now, answer, counts>>
    BY <1>2 DEF Send
  <2>2. stamp' \in Int
    BY <1>1, <2>1, FrontEndAssumption
  <2>3. ListFitsRequest'
    BY <2>1 DEF FrontInductive, ListFitsRequest, listVars
  <2> QED
    BY <1>1, <2>1, <2>2, <2>3, FrontKeeps
<1>3. CASE Tick
  <2>1. /\ phase = "sent" /\ now' \in 0 .. Horizon
        /\ UNCHANGED <<listVars, request, stamp, phase, answer, counts>>
    BY <1>1, <1>3 DEF Tick
  <2>2. ListFitsRequest' /\ request \in Requests
    BY <2>1 DEF FrontInductive, ListFitsRequest, listVars
  <2> QED
    BY <1>1, <2>1, <2>2, FrontKeeps
<1>4. CASE Arrive
  BY <1>4, ArriveKeeps
<1>5. CASE StorageAnswers
  <2> DEFINE op == Operation(request)
  <2>1. PICK code \in Outcomes(op) : Answered(Status(op, code), code)
    BY <1>5 DEF StorageAnswers
  <2>2. /\ phase = "storage" /\ op # "list"
        /\ UNCHANGED <<listVars, now, request, stamp, counts>>
    BY <1>5 DEF StorageAnswers
  <2>3. op \in {"read", "put", "delete", "bucket"} /\ list.phase = "idle"
    BY <2>2 DEF FrontInductive, ListFitsRequest
  <2> HIDE DEF op
  <2>4. /\ code \in {"Ok", "NoSuchKey", "NoSuchBucket", "InternalError"}
        /\ Status(op, code) \in {200, 204, 400, 403, 404, 405, 500}
    BY <2>1, <2>3, OutcomesType, StatusType
  <2>5. PunctualIsServed'
    BY <2>1, <2>4 DEF PunctualIsServed, Answered, Refusals
  <2> QED
    BY <2>1, <2>2, <2>3, <2>4, <2>5, AnswersPlainly
<1>6. CASE ListAnswered
  BY <1>6, ListAnsweredKeeps
<1>7. CASE WriteBeside
  <2>1. PICK b \in members, k \in Keys, v \in Values \cup {Nil} :
           Write(b, k, v)
    BY <1>7 DEF WriteBeside, WriteSome
  <2>2. ListInductive' /\ list' = list
    BY <1>1, <2>1, WriteKeeps DEF Write
  <2> QED
    BY <1>7, <2>2, StorageKeeps DEF WriteBeside
<1>8. CASE ListStep /\ UNCHANGED frontVars
  BY <1>1, <1>8, ListStepKeeps, StorageKeeps
<1>9. CASE UNCHANGED allVars
  <2>1. UNCHANGED listVars /\ UNCHANGED frontVars /\ list' = list
    BY <1>9 DEF allVars, listVars
  <2> QED
    BY <1>1, <2>1, ListStutters, StorageKeeps
<1> QED
  BY <1>2, <1>3, <1>4, <1>5, <1>6, <1>7, <1>8, <1>9 DEF FrontNext

-----------------------------------------------------------------------------
(* The theorems.                                                           *)

\* The inductive invariant of a request and the LIST it may become holds for
\* any backends, keys, requests and clocks (list_objects.rs, signature.rs).
THEOREM FrontInductiveInvariant == FrontSpec => []FrontInductive
BY FrontInitInductive, FrontStepInductive, PTL DEF FrontSpec

\* Types, the range of max_keys, and a status that the code knows.
THEOREM FrontTypeCorrect == FrontSpec => []FrontTypeOK
<1>1. FrontInductive => FrontTypeOK
  BY DEF FrontInductive
<1> QED
  BY <1>1, FrontInductiveInvariant, PTL

\* An ALL_CONSISTENT page proves that all backends hold the same up to its end
\* if nothing is written meanwhile (list_objects.rs:142-186).
THEOREM PagesAreProofs == FrontSpec => []PagesProveAgreement
<1>1. FrontInductive => PagesProveAgreement
  BY AgreementProved DEF FrontInductive
<1> QED
  BY <1>1, FrontInductiveInvariant, PTL

\* Backends of one kind that agree make a page; between kinds only an empty one
\* passes (list_objects.rs:142-186, in_memory.rs:34-38, s3.rs:202-212).
THEOREM AgreementIsNotMissed == FrontSpec => []AgreementIsSeen
<1>1. FrontInductive => AgreementIsSeen
  BY AgreementSeen DEF FrontInductive
<1> QED
  BY <1>1, FrontInductiveInvariant, PTL

\* A key that every backend holds throughout is in every page that tells of it,
\* in every mode (list_objects.rs:15-186, in_memory.rs:50-74, s3.rs:188-238).
THEOREM SteadyKeysStay == FrontSpec => []SteadyKeysAreListed
<1>1. FrontInductive => SteadyKeysAreListed
  BY SteadyKeysListed DEF FrontInductive
<1> QED
  BY <1>1, FrontInductiveInvariant, PTL

\* A client that signs as the server does and is punctual is not refused
\* (signature.rs:144-188, 224-256, 310).
THEOREM PunctualAreServed == FrontSpec => []PunctualIsServed
<1>1. FrontInductive => PunctualIsServed
  BY DEF FrontInductive
<1> QED
  BY <1>1, FrontInductiveInvariant, PTL

\* A KeyCount below MaxKeys tells that no steady key is missing
\* (handlers/list_objects.rs:38-60).
THEOREM ShortListingsAreWhole == FrontSpec => []ShortListingIsWhole
<1>1. ASSUME FrontInductive, phase = "answered", counts.keys < counts.max
      PROVE  steady \cap list.matching \subseteq DOMAIN Page
  <2>1. CASE Listed
    <3>1. counts = [keys |-> Cardinality(DOMAIN Page), max |-> list.max]
      BY <1>1, <2>1 DEF FrontInductive, AnswerFitsRequest
    <3>2. Cardinality(DOMAIN Page) < list.max
      BY <1>1, <3>1
    <3>3. SteadyKeysAreListed
      BY <1>1, SteadyKeysListed DEF FrontInductive
    <3> QED
      BY <2>1, <3>2, <3>3 DEF SteadyKeysAreListed, Covered, CoveredBy
  <2>2. CASE ~ Listed
    <3>1. counts = NoCounts
      BY <1>1, <2>2 DEF FrontInductive, AnswerFitsRequest
    <3> QED
      BY <1>1, <3>1 DEF NoCounts
  <2> QED
    BY <2>1, <2>2
<1>2. FrontInductive => ShortListingIsWhole
  BY <1>1 DEF ShortListingIsWhole
<1> QED
  BY <1>2, FrontInductiveInvariant, PTL

\* A listing has at most a thousand keys and as many as were asked for, unless
\* a negative number reached an in-memory backend
\* (handlers/list_objects.rs:38, in_memory.rs:71).
THEOREM ListingsAreBounded == FrontSpec => []ListingIsBounded
<1>1. ASSUME FrontInductive, phase = "answered", Listed
      PROVE  \/ 0 <= counts.max /\ counts.max <= PageLimit
                   /\ counts.keys <= counts.max
             \/ /\ counts.max < 0
                /\ \E b \in list.tried :
                      /\ ~ IsRemote(b)
                      /\ Page = list.answers[b].page
  <2>1. counts = [keys |-> Cardinality(DOMAIN Page), max |-> list.max]
    BY <1>1 DEF FrontInductive, AnswerFitsRequest
  <2>2. /\ list.max \in - MaxI32 - 1 .. PageLimit
        /\ PageLimit \in Nat /\ MaxI32 \in Nat
    BY <1>1, FrontEndAssumption DEF FrontInductive, FrontTypeOK
  <2>3. PICK b \in list.tried :
           PageFits(b, Page) /\ Page = list.answers[b].page
    BY <1>1, PageIsAnAnswer DEF FrontInductive
  <2>4. CASE list.max >= 0
    BY <2>1, <2>2, <2>3, <2>4 DEF PageFits
  <2>5. CASE list.max < 0
    BY <2>1, <2>2, <2>3, <2>5 DEF PageFits
  <2> QED
    BY <2>2, <2>4, <2>5
<1>2. FrontInductive => ListingIsBounded
  BY <1>1 DEF ListingIsBounded
<1> QED
  BY <1>2, FrontInductiveInvariant, PTL

=============================================================================
