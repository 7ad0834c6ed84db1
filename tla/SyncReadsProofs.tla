-------------------------- MODULE SyncReadsProofs --------------------------
(***************************************************************************)
(* Proofs about SyncReads: in every read mode and beside any number of     *)
(* MULTI_SYNC writes and reads, what a read returns fits what the writes   *)
(* have left.                                                              *)
(*                                                                         *)
(* The writes do not see the reads, so the invariant of MultiSync holds    *)
(* with them.  A step of a read is one of four: it arrives (Asks), a       *)
(* backend answers it (Hears), its handler returns (Ends) or calls on      *)
(* (Continues).  ReadStepKinds says what each may do in the read modes;    *)
(* then one lemma per conjunct of the invariant, with one step per kind.   *)
(***************************************************************************)
EXTENDS SyncReads, MultiSyncProofs

\* A step of the composition is one of MultiSync or changes nothing there.
LEMMA StepIsMultiSync == [SyncNext]_allVars => [Next]_vars
BY DEF SyncNext, Write, WriteStep, Read, ReadStep, Next, Handler, allVars,
       vars

-----------------------------------------------------------------------------
(* The steps of a read.                                                    *)

\* Only read q has changed.
Alone(q) ==
    /\ read' \in [Reads -> ReadStates]
    /\ \A p \in Reads \ {q} : read'[p] = read[p]
    /\ UNCHANGED <<readMode, store>>

\* q arrives as op, and its handler calls those it calls first.
Asks(q, op) ==
    /\ Alone(q)
    /\ read[q] = R!Idle
    /\ read'[q].phase = "asking"
    /\ read'[q].op = op
    /\ read'[q].waiting = read'[q].tried
    /\ read'[q].waiting =
           IF readMode \in {"PRIMARY_ONLY", "PRIMARY_FALLBACK"}
           THEN {PrimaryIndex} ELSE Backends
    /\ \A b \in Backends : read'[q].answers[b] = R!NoAnswer
    /\ read'[q].result = R!NoAnswer

\* Backend b answers q.
Hears(q, b) ==
    /\ Alone(q)
    /\ read[q].phase = "asking"
    /\ read'[q].phase = "asking"
    /\ b \in read[q].waiting
    /\ read[q].answers[b] = R!NoAnswer
    /\ read'[q].answers[b] \in
          {R!Truth(read[q].op, b), R!FailureSeen(read[q].op)}
    /\ \A c \in Backends \ {b} : read'[q].answers[c] = read[q].answers[c]
    /\ read'[q].op = read[q].op
    /\ read'[q].waiting = read[q].waiting
    /\ read'[q].tried = read[q].tried
    /\ read'[q].result = read[q].result

\* The handler of q returns.
Ends(q) ==
    /\ Alone(q)
    /\ read[q].phase = "asking"
    /\ read'[q].phase = "done"
    /\ read'[q].op = read[q].op
    /\ read'[q].answers = read[q].answers
    /\ read'[q].tried = read[q].tried
    /\ read'[q].waiting = {}

\* What the handler of q may return: an answer, or that there is none; the
\* primary's success when all agree with it in ALL_CONSISTENT; an error, with
\* the fallback and in the race, when there is nothing else.
Deserved(q, a) ==
    /\ \/ a.kind # "ok" /\ a.object = Nil
       \/ \E b \in Backends : a = read[q].answers[b]
    /\ Compares /\ a.kind = "ok" =>
          R!Consistent(q) /\ a = read[q].answers[PrimaryIndex]
    /\ readMode \in {"PRIMARY_FALLBACK", "BEST_EFFORT"} /\ a.kind = "error"
       => \A b \in Backends : read[q].answers[b].kind = "error"

\* The handler of q is done with b, and awaits another backend.
Continues(q, b) ==
    /\ Alone(q)
    /\ b \in read[q].waiting
    /\ read[q].phase = "asking"
    /\ read'[q].phase = "asking"
    /\ read'[q].op = read[q].op
    /\ read'[q].answers = read[q].answers
    /\ read'[q].result = read[q].result
    /\ read[q].op = "list" => read[q].answers[b].kind = "error"
    /\ \/ /\ readMode = "PRIMARY_FALLBACK"
          /\ \E c \in Backends \ read[q].tried :
                /\ read'[q].waiting = {c}
                /\ read'[q].tried = read[q].tried \cup {c}
       \/ /\ readMode = "BEST_EFFORT"
          /\ read'[q].waiting = read[q].waiting \ {b}
          /\ read'[q].tried = read[q].tried

\* What backends answer are answers.
LEMMA AnswersTyped ==
  ASSUME TypeOK, NEW op \in R!Operations, NEW b \in Backends
  PROVE  /\ R!Truth(op, b) \in Answers
         /\ R!FailureSeen(op) \in Answers
         /\ R!AllFailed(op) \in Answers
BY DEF TypeOK, R!Operations, R!Truth, R!FailureSeen, R!AllFailed, Answers

\* The arrival of a read.
LEMMA AskIsAsks ==
  ASSUME ReadTypeOK, CallsFitPhase, NEW q \in Reads,
         NEW op \in R!Operations, R!Ask(q, op)
  PROVE  Asks(q, op)
<1> DEFINE new == [read[q] EXCEPT !.phase = "asking", !.op = op,
                                  !.waiting = R!FirstAsked,
                                  !.tried = R!FirstAsked]
<1>1. /\ R!FirstAsked \subseteq Backends
      /\ R!FirstAsked =
            IF readMode \in {"PRIMARY_ONLY", "PRIMARY_FALLBACK"}
            THEN {PrimaryIndex} ELSE Backends
      /\ PrimaryIndex \in Backends
  BY SyncReadsAssumption DEF R!FirstAsked, R!Backends, Backends
<1>2. read[q] = R!Idle /\ read[q] \in ReadStates
  BY DEF ReadTypeOK, CallsFitPhase, R!Ask
<1>3. read' = [read EXCEPT ![q] = new]
  BY DEF R!Ask, ReadTypeOK
<1>4. new \in ReadStates
  BY <1>1, <1>2 DEF ReadStates
<1>5. read' \in [Reads -> ReadStates] /\ read'[q] = new
      /\ \A p \in Reads \ {q} : read'[p] = read[p]
  BY <1>3, <1>4 DEF ReadTypeOK
<1>6. /\ new.phase = "asking"
      /\ new.op = op
      /\ new.waiting = R!FirstAsked
      /\ new.tried = R!FirstAsked
      /\ new.answers = read[q].answers
      /\ new.result = read[q].result
  BY <1>2 DEF ReadStates
<1>7. /\ \A b \in Backends : read[q].answers[b] = R!NoAnswer
      /\ read[q].result = R!NoAnswer
  BY <1>2 DEF R!Idle, R!Backends, Backends
<1> QED
  BY <1>1, <1>2, <1>5, <1>6, <1>7 DEF Asks, Alone, R!Ask

\* An answer to a read.
LEMMA AnswerIsHears ==
  ASSUME TypeOK, ReadTypeOK, CallsFitPhase, NEW q \in Reads,
         NEW b \in Backends, R!Answer(q, b)
  PROVE  Hears(q, b)
<1>1. read[q] \in ReadStates /\ read[q].op \in R!Operations
      /\ read[q].answers \in [Backends -> Answers]
  BY DEF ReadTypeOK, ReadStates
<1>2. PICK a \in {R!Truth(read[q].op, b), R!FailureSeen(read[q].op)} :
         read' = [read EXCEPT ![q].answers[b] = a]
  BY DEF R!Answer
<1>3. a \in Answers
  BY <1>1, <1>2, AnswersTyped
<1> DEFINE new == [read[q] EXCEPT !.answers = [@ EXCEPT ![b] = a]]
<1>4. read' = [read EXCEPT ![q] = new]
  BY <1>2
<1>5. new \in ReadStates
  BY <1>1, <1>3 DEF ReadStates
<1>6. read' \in [Reads -> ReadStates] /\ read'[q] = new
      /\ \A p \in Reads \ {q} : read'[p] = read[p]
  BY <1>4, <1>5 DEF ReadTypeOK
<1>7. /\ new.phase = read[q].phase
      /\ new.op = read[q].op
      /\ new.waiting = read[q].waiting
      /\ new.tried = read[q].tried
      /\ new.result = read[q].result
      /\ new.answers[b] = a
      /\ \A c \in Backends \ {b} : new.answers[c] = read[q].answers[c]
  BY <1>1 DEF ReadStates
<1>8. read[q].phase = "asking"
  BY DEF CallsFitPhase, R!Answer
<1> QED
  BY <1>2, <1>6, <1>7, <1>8 DEF Hears, Alone, R!Answer

\* The return of a handler.
LEMMA ReturnIsEnds ==
  ASSUME ReadTypeOK, NEW q \in Reads, NEW a \in Answers,
         read[q].phase = "asking", R!Return(q, a),
         UNCHANGED <<store, readMode>>
  PROVE  Ends(q) /\ read'[q].result = a
<1> DEFINE new == [read[q] EXCEPT !.phase = "done", !.result = a,
                                  !.waiting = {}]
<1>1. read[q] \in ReadStates
  BY DEF ReadTypeOK
<1>2. read' = [read EXCEPT ![q] = new]
  BY DEF R!Return, ReadTypeOK
<1>3. new \in ReadStates
  BY <1>1 DEF ReadStates
<1>4. read' \in [Reads -> ReadStates] /\ read'[q] = new
      /\ \A p \in Reads \ {q} : read'[p] = read[p]
  BY <1>2, <1>3 DEF ReadTypeOK
<1>5. /\ new.phase = "done"
      /\ new.op = read[q].op
      /\ new.waiting = {}
      /\ new.tried = read[q].tried
      /\ new.result = a
      /\ new.answers = read[q].answers
  BY <1>1 DEF ReadStates
<1> QED
  BY <1>4, <1>5 DEF Ends, Alone

\* PRIMARY_ONLY.
LEMMA PrimaryOnlyKind ==
  ASSUME ReadInductive, NEW q \in Reads, R!PrimaryOnly(q)
  PROVE  Ends(q) /\ Deserved(q, read'[q].result)
<1>1. read[q].phase = "asking"
  BY DEF ReadInductive, CallsFitPhase, R!PrimaryOnly, R!Delivered
<1>2. read[q].answers[PrimaryIndex] \in Answers
  BY SyncReadsAssumption DEF ReadInductive, ReadTypeOK, ReadStates
<1>3. Ends(q) /\ read'[q].result = read[q].answers[PrimaryIndex]
  BY <1>1, <1>2, ReturnIsEnds DEF ReadInductive, R!PrimaryOnly
<1> QED
  BY <1>3, SyncReadsAssumption DEF Deserved, R!PrimaryOnly, Compares

\* PRIMARY_FALLBACK.
LEMMA FallbackKind ==
  ASSUME ReadInductive, NEW q \in Reads, R!Fallback(q)
  PROVE  \/ Ends(q) /\ Deserved(q, read'[q].result)
         \/ \E b \in Backends : Continues(q, b)
<1>1. PICK b \in read[q].waiting :
         /\ R!Delivered(q, b)
         /\ IF R!EndsFallback(q, b) THEN R!Return(q, read[q].answers[b])
            ELSE IF R!Untried(q) = {}
                 THEN R!Return(q, R!AllFailed(read[q].op))
            ELSE \E c \in R!Untried(q) :
                    /\ \A d \in R!Untried(q) : c <= d
                    /\ read' = [read EXCEPT ![q].waiting = {c},
                                            ![q].tried = @ \cup {c}]
  BY DEF R!Fallback
<1>2. readMode = "PRIMARY_FALLBACK" /\ UNCHANGED <<store, readMode>>
  BY DEF R!Fallback
<1>3. /\ read[q] \in ReadStates
      /\ read[q].op \in R!Operations
      /\ read[q].waiting \subseteq Backends
      /\ read[q].answers \in [Backends -> Answers]
      /\ ReadTypeOK
  BY DEF ReadInductive, ReadTypeOK, ReadStates
<1>4. read[q].phase = "asking" /\ b \in Backends
      /\ read[q].waiting = {b}
  BY <1>1, <1>2, <1>3 DEF ReadInductive, CallsFitPhase
<1>5. CASE R!EndsFallback(q, b)
  <2>1. Ends(q) /\ read'[q].result = read[q].answers[b]
    BY <1>1, <1>2, <1>3, <1>4, <1>5, ReturnIsEnds
  <2>2. read[q].answers[b].kind \in {"ok", "notFound"}
    BY <1>5 DEF R!EndsFallback
  <2> QED
    BY <1>2, <1>4, <2>1, <2>2 DEF Deserved, Compares
<1>6. CASE ~ R!EndsFallback(q, b)
  <2>1. read[q].op = "list" => read[q].answers[b].kind = "error"
    BY <1>1, <1>3, <1>4, <1>6
       DEF R!EndsFallback, R!Delivered, ReadInductive, KindsFitOperation,
           Answers, R!NoAnswer, R!NotFound, R!Error, R!Ok
  <2>2. CASE R!Untried(q) = {}
    <3>1. R!AllFailed(read[q].op) \in Answers
      BY <1>3, AnswersTyped, <1>4 DEF ReadInductive, Inductive
    <3>2. Ends(q) /\ read'[q].result = R!AllFailed(read[q].op)
      BY <1>1, <1>2, <1>3, <1>4, <1>6, <2>2, <3>1, ReturnIsEnds
    <3>3. /\ R!AllFailed(read[q].op).object = Nil
          /\ R!AllFailed(read[q].op).kind # "ok"
          /\ R!AllFailed(read[q].op).kind = "error" =>
                read[q].op = "list"
      BY DEF R!AllFailed, R!Error, R!NotFound
    <3>4. Backends \subseteq read[q].tried
      BY <2>2 DEF R!Untried, R!Backends, Backends
    <3>5. read[q].op = "list" =>
             \A c \in Backends : read[q].answers[c].kind = "error"
      BY <1>2, <1>4, <2>1, <3>4 DEF ReadInductive, LosersFailed
    <3> QED
      BY <1>2, <3>2, <3>3, <3>5 DEF Deserved, Compares
  <2>3. CASE R!Untried(q) # {}
    <3>1. PICK c \in R!Untried(q) :
             read' = [read EXCEPT ![q].waiting = {c},
                                  ![q].tried = @ \cup {c}]
      BY <1>1, <1>6, <2>3
    <3>2. c \in Backends \ read[q].tried
      BY DEF R!Untried, R!Backends, Backends
    <3> DEFINE new == [read[q] EXCEPT !.waiting = {c},
                                      !.tried = @ \cup {c}]
    <3>3. read' = [read EXCEPT ![q] = new]
      BY <3>1, <1>3 DEF ReadTypeOK
    <3>4. new \in ReadStates
      BY <1>3, <3>2 DEF ReadStates
    <3>5. read' \in [Reads -> ReadStates] /\ read'[q] = new
          /\ \A p \in Reads \ {q} : read'[p] = read[p]
      BY <1>3, <3>3, <3>4 DEF ReadTypeOK
    <3>6. /\ new.phase = read[q].phase
          /\ new.op = read[q].op
          /\ new.waiting = {c}
          /\ new.tried = read[q].tried \cup {c}
          /\ new.result = read[q].result
          /\ new.answers = read[q].answers
      BY <1>3 DEF ReadStates
    <3> QED
      BY <1>2, <1>4, <2>1, <3>2, <3>5, <3>6 DEF Continues, Alone
  <2> QED
    BY <2>2, <2>3
<1> QED
  BY <1>5, <1>6

\* BEST_EFFORT.
LEMMA RaceKind ==
  ASSUME ReadInductive, NEW q \in Reads, R!Race(q)
  PROVE  \/ Ends(q) /\ Deserved(q, read'[q].result)
         \/ \E b \in Backends : Continues(q, b)
<1>1. PICK b \in read[q].waiting :
         /\ R!Delivered(q, b)
         /\ IF R!LosesRace(q, b) /\ read[q].waiting # {b}
            THEN read' = [read EXCEPT ![q].waiting = @ \ {b}]
            ELSE R!Return(q, read[q].answers[b])
  BY DEF R!Race
<1>2. readMode = "BEST_EFFORT" /\ UNCHANGED <<store, readMode>>
  BY DEF R!Race
<1>3. /\ read[q] \in ReadStates
      /\ read[q].waiting \subseteq Backends
      /\ read[q].answers \in [Backends -> Answers]
      /\ ReadTypeOK
  BY DEF ReadInductive, ReadTypeOK, ReadStates
<1>4. /\ read[q].phase = "asking"
      /\ b \in Backends
      /\ read[q].tried = Backends
  BY <1>1, <1>2, <1>3 DEF ReadInductive, CallsFitPhase
<1>5. CASE R!LosesRace(q, b) /\ read[q].waiting # {b}
  <2> DEFINE new == [read[q] EXCEPT !.waiting = @ \ {b}]
  <2>1. read' = [read EXCEPT ![q] = new]
    BY <1>1, <1>3, <1>5 DEF ReadTypeOK
  <2>2. new \in ReadStates
    BY <1>3 DEF ReadStates
  <2>3. read' \in [Reads -> ReadStates] /\ read'[q] = new
        /\ \A p \in Reads \ {q} : read'[p] = read[p]
    BY <1>3, <2>1, <2>2 DEF ReadTypeOK
  <2>4. /\ new.phase = read[q].phase
        /\ new.op = read[q].op
        /\ new.waiting = read[q].waiting \ {b}
        /\ new.tried = read[q].tried
        /\ new.result = read[q].result
        /\ new.answers = read[q].answers
    BY <1>3 DEF ReadStates
  <2> QED
    BY <1>2, <1>4, <1>5, <2>3, <2>4 DEF Continues, Alone, R!LosesRace
<1>6. CASE ~ (R!LosesRace(q, b) /\ read[q].waiting # {b})
  <2>1. Ends(q) /\ read'[q].result = read[q].answers[b]
    BY <1>1, <1>2, <1>3, <1>4, <1>6, ReturnIsEnds
  <2>2. ASSUME read[q].answers[b].kind = "error"
        PROVE  \A c \in Backends : read[q].answers[c].kind = "error"
    <3>1. read[q].waiting = {b} /\ read[q].op = "list"
      BY <1>4, <1>6, <2>2
         DEF R!LosesRace, ReadInductive, KindsFitOperation
    <3> QED
      BY <1>2, <1>4, <2>2, <3>1 DEF ReadInductive, LosersFailed
  <2> QED
    BY <1>2, <1>4, <2>1, <2>2 DEF Deserved, Compares
<1> QED
  BY <1>5, <1>6

\* ALL_CONSISTENT.
LEMMA VerifyKind ==
  ASSUME ReadInductive, NEW q \in Reads, R!Verify(q)
  PROVE  Ends(q) /\ Deserved(q, read'[q].result)
<1> DEFINE a == IF R!Consistent(q)
                THEN read[q].answers[PrimaryIndex] ELSE R!Error
<1>1. /\ readMode = "ALL_CONSISTENT"
      /\ read[q].phase = "asking"
      /\ R!Return(q, a)
      /\ UNCHANGED <<store, readMode>>
  BY DEF R!Verify
<1>2. ReadTypeOK /\ read[q].answers \in [Backends -> Answers]
  BY DEF ReadInductive, ReadTypeOK, ReadStates
<1>3. a \in Answers
  BY <1>2, SyncReadsAssumption DEF Answers
<1>4. Ends(q) /\ read'[q].result = a
  BY <1>1, <1>2, <1>3, ReturnIsEnds
<1>5. /\ \/ a.kind # "ok" /\ a.object = Nil
         \/ \E b \in Backends : a = read[q].answers[b]
      /\ a.kind = "ok" =>
            R!Consistent(q) /\ a = read[q].answers[PrimaryIndex]
  BY SyncReadsAssumption DEF R!Error
<1> QED
  BY <1>1, <1>4, <1>5 DEF Deserved

\* Every step of the handler of a read or of a call it has made.
LEMMA ReadStepKinds ==
  ASSUME ReadInductive, NEW q \in Reads, R!ReadStep(q)
  PROVE  \/ \E b \in Backends : Hears(q, b) \/ Continues(q, b)
         \/ Ends(q) /\ Deserved(q, read'[q].result)
<1>1. CASE \E b \in R!Backends : R!Answer(q, b)
  BY <1>1, AnswerIsHears
     DEF ReadInductive, Inductive, R!Backends, Backends
<1> QED
  BY <1>1, PrimaryOnlyKind, FallbackKind, RaceKind, VerifyKind
     DEF R!ReadStep

-----------------------------------------------------------------------------
(* The steps of the writes, as the reads see them.                         *)

\* Later steps of writes neither take back an acknowledgement nor concern the
\* arrival of writes.  What they leave on the backends is shown to the reads.
LEMMA WriteStepKeeps ==
  ASSUME Inductive, NEW r \in Requests, WriteStep(r)
  PROVE  /\ UNCHANGED <<last, contested, readMode, read, basis>>
         /\ NoteStore
         /\ \A p \in Requests : phase[p] = "acked" => phase'[p] = "acked"
BY DEF WriteStep, BodyEnds, BodyFails, Join, ClientGone, Part, PartApplies,
       PartSucceeds, PartFails, LateExecution, Execute, ghostVars, InHandler,
       Inductive, TypeOK

\* A PUT that a read has to reflect is on every backend that the read may ask.
LEMMA BasisStored ==
  ASSUME Inductive, BasisInForce, NEW q \in Reads, basis[q] \in Puts
  PROVE  \A b \in MayAsk : store[b] = basis[q]
<1>1. /\ basis[q] \in Requests
      /\ last = basis[q]
      /\ MayAsk \cap contested = {}
      /\ phase[basis[q]] = "acked"
  BY MultiSyncAssumption DEF BasisInForce, Requests
<1>2. MayAsk \subseteq reached[basis[q]]
  BY <1>1, InductiveHolds, SyncReadsAssumption DEF AckedWriteHolds, MayAsk
<1> QED
  BY <1>1, <1>2, InductiveHolds DEF AckedWriteHolds

-----------------------------------------------------------------------------
(* The invariant, one lemma per conjunct.                                  *)

\* A step of the composition, by kind.
LEMMA StepKinds ==
  ASSUME ReadInductive, [SyncNext]_allVars
  PROVE  \/ \E r \in Requests : Write(r) \/ WriteStep(r)
         \/ \E q \in Reads, op \in R!Operations :
               Asks(q, op) /\ Read(q, op)
         \/ \E q \in Reads, b \in Backends :
               (Hears(q, b) \/ Continues(q, b)) /\ ReadStep(q)
         \/ \E q \in Reads :
               Ends(q) /\ Deserved(q, read'[q].result) /\ ReadStep(q)
         \/ UNCHANGED allVars
<1>1. ASSUME NEW q \in Reads, NEW op \in R!Operations, Read(q, op)
      PROVE  Asks(q, op)
  BY <1>1, AskIsAsks DEF Read, ReadInductive
<1>2. ASSUME NEW q \in Reads, ReadStep(q)
      PROVE  \/ \E b \in Backends : Hears(q, b) \/ Continues(q, b)
             \/ Ends(q) /\ Deserved(q, read'[q].result)
  BY <1>2, ReadStepKinds DEF ReadStep
<1> QED
  BY <1>1, <1>2 DEF SyncNext

\* Types; a read has to reflect a request, or none.
LEMMA ReadTypeStep ==
  ASSUME ReadInductive, [SyncNext]_allVars
  PROVE  ReadTypeOK'
<1> USE DEF ReadInductive, ReadTypeOK
<1>1. CASE \E r \in Requests : Write(r)
  BY <1>1 DEF Write
<1>2. CASE \E r \in Requests : WriteStep(r)
  <2>1. TypeOK'
    BY TypeStep, StepIsMultiSync
  <2> QED
    BY <1>2, <2>1, WriteStepKeeps DEF NoteStore, TypeOK
<1>3. CASE \E q \in Reads, op \in R!Operations : Asks(q, op) /\ Read(q, op)
  <2>1. PICK q \in Reads, op \in R!Operations : Asks(q, op) /\ Read(q, op)
    BY <1>3
  <2>2. shown' \in [Reads -> [Backends -> SUBSET Objects]]
    BY <2>1 DEF Read, Inductive, TypeOK
  <2> QED
    BY <2>1, <2>2 DEF Asks, Read, Alone, Inductive, TypeOK
<1>4. CASE \E q \in Reads, b \in Backends : Hears(q, b) /\ ReadStep(q)
  BY <1>4 DEF Hears, ReadStep, Alone
<1>5. CASE \E q \in Reads, b \in Backends : Continues(q, b) /\ ReadStep(q)
  BY <1>5 DEF Continues, ReadStep, Alone
<1>6. CASE \E q \in Reads :
              Ends(q) /\ Deserved(q, read'[q].result) /\ ReadStep(q)
  BY <1>6 DEF Ends, Deserved, ReadStep, Alone
<1>7. CASE UNCHANGED allVars
  BY <1>7 DEF allVars
<1> QED
  BY <1>1, <1>2, <1>3, <1>4, <1>5, <1>6, <1>7, StepKinds

\* Calls start with the read, and end with it.
LEMMA CallsStep ==
  ASSUME ReadInductive, [SyncNext]_allVars
  PROVE  CallsFitPhase'
<1> USE DEF ReadInductive, CallsFitPhase
<1>1. CASE \E r \in Requests : Write(r)
  BY <1>1 DEF Write
<1>2. CASE \E r \in Requests : WriteStep(r)
  BY <1>2, WriteStepKeeps
<1>3. CASE \E q \in Reads, op \in R!Operations : Asks(q, op) /\ Read(q, op)
  <2>1. PICK q \in Reads, op \in R!Operations : Asks(q, op)
    BY <1>3
  <2>2. /\ read'[q].phase = "asking"
        /\ read'[q].waiting = read'[q].tried
        /\ readMode = "PRIMARY_FALLBACK" =>
              \A b, c \in read'[q].waiting : b = c
        /\ readMode = "BEST_EFFORT" => read'[q].tried = Backends
        /\ readMode = "PRIMARY_ONLY" => read'[q].tried = {PrimaryIndex}
    BY <2>1 DEF Asks
  <2>3. readMode' = readMode /\ \A p \in Reads \ {q} : read'[p] = read[p]
    BY <2>1 DEF Asks, Alone
  <2> QED
    BY <2>2, <2>3
<1>4. CASE \E q \in Reads, b \in Backends : Hears(q, b) /\ ReadStep(q)
  BY <1>4 DEF Hears, ReadStep, Alone
<1>5. CASE \E q \in Reads, b \in Backends : Continues(q, b) /\ ReadStep(q)
  BY <1>5 DEF Continues, ReadStep, Alone
<1>6. CASE \E q \in Reads :
              Ends(q) /\ Deserved(q, read'[q].result) /\ ReadStep(q)
  BY <1>6 DEF Ends, Deserved, ReadStep, Alone
<1>7. CASE UNCHANGED allVars
  BY <1>7 DEF allVars
<1> QED
  BY <1>1, <1>2, <1>3, <1>4, <1>5, <1>6, <1>7, StepKinds

\* What fails, and what finds nothing, fits the operation.
LEMMA KindsStep ==
  ASSUME ReadInductive, [SyncNext]_allVars
  PROVE  KindsFitOperation'
<1> USE DEF ReadInductive, KindsFitOperation, ReadTypeOK
<1>1. CASE \E r \in Requests : Write(r)
  BY <1>1 DEF Write
<1>2. CASE \E r \in Requests : WriteStep(r)
  BY <1>2, WriteStepKeeps
<1>3. CASE \E q \in Reads, op \in R!Operations : Asks(q, op) /\ Read(q, op)
  BY <1>3 DEF Asks, Read, Alone, R!NoAnswer
<1>4. CASE \E q \in Reads, b \in Backends : Hears(q, b) /\ ReadStep(q)
  <2>1. PICK q \in Reads, b \in Backends : Hears(q, b)
    BY <1>4
  <2>2. read[q].op \in R!Operations
    BY <2>1 DEF ReadStates
  <2>3. /\ read'[q].answers[b].kind = "error" => read[q].op = "list"
        /\ read'[q].answers[b].kind = "notFound" => read[q].op # "list"
    BY <2>1, <2>2
       DEF Hears, R!Operations, R!Truth, R!FailureSeen, R!NotFound, R!Error,
           R!Ok
  <2> QED
    BY <2>1, <2>3 DEF Hears, Alone
<1>5. CASE \E q \in Reads, b \in Backends : Continues(q, b) /\ ReadStep(q)
  BY <1>5 DEF Continues, ReadStep, Alone
<1>6. CASE \E q \in Reads :
              Ends(q) /\ Deserved(q, read'[q].result) /\ ReadStep(q)
  BY <1>6 DEF Ends, Deserved, ReadStep, Alone
<1>7. CASE UNCHANGED allVars
  BY <1>7 DEF allVars
<1> QED
  BY <1>1, <1>2, <1>3, <1>4, <1>5, <1>6, <1>7, StepKinds

\* No step takes back an acknowledgement, and only an arrival ends that a
\* write is the last one.
LEMMA BasisStep ==
  ASSUME ReadInductive, [SyncNext]_allVars
  PROVE  BasisInForce'
<1> USE DEF ReadInductive, BasisInForce, ReadTypeOK, MayAsk
<1>1. CASE \E r \in Requests : Write(r)
  BY <1>1 DEF Write
<1>2. CASE \E r \in Requests : WriteStep(r)
  BY <1>2, WriteStepKeeps
<1>3. CASE \E q \in Reads, op \in R!Operations : Asks(q, op) /\ Read(q, op)
  BY <1>3 DEF Asks, Read, Alone, Inductive, TypeOK, vars, procVars, ghostVars
<1>4. CASE \E q \in Reads, b \in Backends : Hears(q, b) /\ ReadStep(q)
  BY <1>4 DEF Hears, ReadStep, Alone, vars, procVars, ghostVars
<1>5. CASE \E q \in Reads, b \in Backends : Continues(q, b) /\ ReadStep(q)
  BY <1>5 DEF Continues, ReadStep, Alone, vars, procVars, ghostVars
<1>6. CASE \E q \in Reads :
              Ends(q) /\ Deserved(q, read'[q].result) /\ ReadStep(q)
  BY <1>6 DEF Ends, Deserved, ReadStep, Alone, vars, procVars, ghostVars
<1>7. CASE UNCHANGED allVars
  BY <1>7 DEF allVars, vars, procVars, ghostVars
<1> QED
  BY <1>1, <1>2, <1>3, <1>4, <1>5, <1>6, <1>7, StepKinds

\* Every backend has the PUT to reflect, and the failures have no object.
LEMMA ReflectStep ==
  ASSUME ReadInductive, [SyncNext]_allVars
  PROVE  AnswersReflectBasis'
<1> USE DEF ReadInductive, AnswersReflectBasis, Reflects, Returned
<1>1. CASE \E r \in Requests : Write(r)
  BY <1>1, MultiSyncAssumption DEF Write, Requests
<1>2. CASE \E r \in Requests : WriteStep(r)
  BY <1>2, WriteStepKeeps
<1>3. CASE \E q \in Reads, op \in R!Operations : Asks(q, op) /\ Read(q, op)
  BY <1>3 DEF Asks, Read, Alone, R!NoAnswer
<1>4. CASE \E q \in Reads, b \in Backends : Hears(q, b) /\ ReadStep(q)
  <2>1. PICK q \in Reads, b \in Backends : Hears(q, b) /\ ReadStep(q)
    BY <1>4
  <2>2. b \in MayAsk
    BY <2>1 DEF Hears, CallsFitPhase, MayAsk
  <2>3. ASSUME basis[q] \in Puts, read[q].op # "bucket"
        PROVE  Reflects(q, read'[q].answers[b])
    <3>1. store[b] = basis[q] /\ basis[q] # Nil
      BY <2>2, <2>3, BasisStored, MultiSyncAssumption DEF Requests
    <3> QED
      BY <2>1, <2>3, <3>1
         DEF Hears, R!Truth, R!FailureSeen, R!NotFound, R!Error, R!Ok
  <2> QED
    BY <2>1, <2>3 DEF Hears, ReadStep, Alone
<1>5. CASE \E q \in Reads, b \in Backends : Continues(q, b) /\ ReadStep(q)
  BY <1>5 DEF Continues, ReadStep, Alone
<1>6. CASE \E q \in Reads :
              Ends(q) /\ Deserved(q, read'[q].result) /\ ReadStep(q)
  BY <1>6 DEF Ends, Deserved, ReadStep, Alone
<1>7. CASE UNCHANGED allVars
  BY <1>7 DEF allVars
<1> QED
  BY <1>1, <1>2, <1>3, <1>4, <1>5, <1>6, <1>7, StepKinds

\* A step that leaves the answers of reads under way alone, and notes what the
\* backends hold.
LEMMA ShownNoted ==
  ASSUME ReadInductive, UNCHANGED <<readMode, read>>, NoteStore
  PROVE  AnswersWereShown'
<1> SUFFICES ASSUME Compares, NEW q \in Reads, NEW b \in Backends
             PROVE  /\ read[q].phase = "asking" => store'[b] \in shown'[q][b]
                    /\ shown[q][b] \subseteq shown'[q][b]
  BY DEF ReadInductive, AnswersWereShown, Compares, R!ETag, R!IsRemote
<1>1. CASE read[q].phase = "asking"
  BY <1>1 DEF NoteStore
<1>2. CASE read[q].phase # "asking"
  BY <1>2 DEF NoteStore
<1> QED
  BY <1>1, <1>2

\* A backend answers what it holds, and that has been noted.
LEMMA ShownStep ==
  ASSUME ReadInductive, [SyncNext]_allVars
  PROVE  AnswersWereShown'
<1> USE DEF ReadInductive, AnswersWereShown, Compares, R!ETag, R!IsRemote
<1>1. CASE \E r \in Requests : Write(r)
  BY <1>1 DEF Write, Receive
<1>2. CASE \E r \in Requests : WriteStep(r)
  BY <1>2, WriteStepKeeps, ShownNoted
<1>3. CASE \E q \in Reads, op \in R!Operations : Asks(q, op) /\ Read(q, op)
  <2>1. PICK q \in Reads, op \in R!Operations : Asks(q, op) /\ Read(q, op)
    BY <1>3
  <2>2. /\ UNCHANGED <<store, readMode>>
        /\ \A b \in Backends : read'[q].answers[b].kind # "ok"
        /\ Compares => \A b \in Backends : shown'[q][b] = {store[b]}
        /\ \A p \in Reads \ {q} :
              read'[p] = read[p] /\ shown'[p] = shown[p]
    BY <2>1 DEF Asks, Read, Alone, R!NoAnswer, ReadTypeOK
  <2> QED
    BY <2>2
<1>4. CASE \E q \in Reads, b \in Backends : Hears(q, b) /\ ReadStep(q)
  <2>1. PICK q \in Reads, b \in Backends : Hears(q, b) /\ ReadStep(q)
    BY <1>4
  <2>2. UNCHANGED <<store, readMode, shown>>
    BY <2>1 DEF Hears, Alone, ReadStep
  <2>3. ASSUME Compares, read'[q].answers[b].kind = "ok",
               read[q].op # "bucket"
        PROVE  /\ read'[q].answers[b].object = store[b]
               /\ read'[q].answers[b].etag =
                     IF store[b] = Nil THEN R!NoTag ELSE R!ETag(b, store[b])
    <3>1. read[q].op \in {"object", "list"}
      BY <2>3 DEF ReadTypeOK, ReadStates, R!Operations
    <3> QED
      BY <2>1, <2>3, <3>1
         DEF Hears, R!Truth, R!FailureSeen, R!NotFound, R!Error, R!Ok
  <2>4. /\ read'[q].op = read[q].op /\ read[q].phase = "asking"
        /\ \A c \in Backends \ {b} : read'[q].answers[c] = read[q].answers[c]
        /\ \A p \in Reads \ {q} : read'[p] = read[p]
    BY <2>1 DEF Hears, Alone
  <2>5. Compares => store[b] \in shown[q][b]
    BY <2>4
  <2> QED
    BY <2>2, <2>3, <2>4, <2>5
<1>5. CASE \E q \in Reads, b \in Backends : Continues(q, b) /\ ReadStep(q)
  BY <1>5 DEF Continues, ReadStep, Alone
<1>6. CASE \E q \in Reads :
              Ends(q) /\ Deserved(q, read'[q].result) /\ ReadStep(q)
  BY <1>6 DEF Ends, ReadStep, Alone
<1>7. CASE UNCHANGED allVars
  BY <1>7 DEF allVars, vars
<1> QED
  BY <1>1, <1>2, <1>3, <1>4, <1>5, <1>6, <1>7, StepKinds

\* A read that has ended keeps the answers it was based on.
LEMMA ConsistentStep ==
  ASSUME ReadInductive, [SyncNext]_allVars
  PROVE  SuccessIsConsistent'
<1> USE DEF ReadInductive, SuccessIsConsistent, Done, Returned,
            Compares, R!Consistent, R!Backends, Backends
<1>1. CASE \E r \in Requests : Write(r)
  BY <1>1 DEF Write
<1>2. CASE \E r \in Requests : WriteStep(r)
  BY <1>2, WriteStepKeeps
<1>3. CASE \E q \in Reads, op \in R!Operations : Asks(q, op) /\ Read(q, op)
  BY <1>3 DEF Asks, Read, Alone
<1>4. CASE \E q \in Reads, b \in Backends : Hears(q, b) /\ ReadStep(q)
  BY <1>4 DEF Hears, ReadStep, Alone
<1>5. CASE \E q \in Reads, b \in Backends : Continues(q, b) /\ ReadStep(q)
  BY <1>5 DEF Continues, ReadStep, Alone
<1>6. CASE \E q \in Reads :
              Ends(q) /\ Deserved(q, read'[q].result) /\ ReadStep(q)
  BY <1>6 DEF Ends, Deserved, ReadStep, Alone
<1>7. CASE UNCHANGED allVars
  BY <1>7 DEF allVars
<1> QED
  BY <1>1, <1>2, <1>3, <1>4, <1>5, <1>6, <1>7, StepKinds

\* A backend is given up only after it has failed.
LEMMA LosersStep ==
  ASSUME ReadInductive, [SyncNext]_allVars
  PROVE  LosersFailed'
<1> USE DEF ReadInductive, LosersFailed, CallsFitPhase
<1>1. CASE \E r \in Requests : Write(r)
  BY <1>1 DEF Write
<1>2. CASE \E r \in Requests : WriteStep(r)
  BY <1>2, WriteStepKeeps
<1>3. CASE \E q \in Reads, op \in R!Operations : Asks(q, op) /\ Read(q, op)
  <2>1. PICK q \in Reads, op \in R!Operations : Asks(q, op)
    BY <1>3
  <2>2. read'[q].tried \ read'[q].waiting = {}
    BY <2>1 DEF Asks
  <2>3. readMode' = readMode /\ \A p \in Reads \ {q} : read'[p] = read[p]
    BY <2>1 DEF Asks, Alone
  <2> QED
    BY <2>2, <2>3
<1>4. CASE \E q \in Reads, b \in Backends : Hears(q, b) /\ ReadStep(q)
  <2>1. PICK q \in Reads, b \in Backends : Hears(q, b)
    BY <1>4
  <2>2. read[q].tried \subseteq Backends /\ b \in read[q].waiting
    BY <2>1 DEF Hears, ReadTypeOK, ReadStates
  <2>3. \A c \in read'[q].tried \ read'[q].waiting :
           read'[q].answers[c] = read[q].answers[c]
    BY <2>1, <2>2 DEF Hears
  <2> QED
    BY <2>1, <2>3 DEF Hears, Alone
<1>5. CASE \E q \in Reads, b \in Backends : Continues(q, b) /\ ReadStep(q)
  BY <1>5 DEF Continues, ReadStep, Alone
<1>6. CASE \E q \in Reads :
              Ends(q) /\ Deserved(q, read'[q].result) /\ ReadStep(q)
  BY <1>6 DEF Ends, Deserved, ReadStep, Alone
<1>7. CASE UNCHANGED allVars
  BY <1>7 DEF allVars
<1> QED
  BY <1>1, <1>2, <1>3, <1>4, <1>5, <1>6, <1>7, StepKinds

\* A LIST that fails deserves to, and hears nothing afterwards.
LEMMA ListStep ==
  ASSUME ReadInductive, [SyncNext]_allVars
  PROVE  ListFailsLast'
<1> USE DEF ReadInductive, ListFailsLast, Done, Returned
<1>1. CASE \E r \in Requests : Write(r)
  BY <1>1 DEF Write
<1>2. CASE \E r \in Requests : WriteStep(r)
  BY <1>2, WriteStepKeeps
<1>3. CASE \E q \in Reads, op \in R!Operations : Asks(q, op) /\ Read(q, op)
  BY <1>3 DEF Asks, Read, Alone
<1>4. CASE \E q \in Reads, b \in Backends : Hears(q, b) /\ ReadStep(q)
  BY <1>4 DEF Hears, ReadStep, Alone
<1>5. CASE \E q \in Reads, b \in Backends : Continues(q, b) /\ ReadStep(q)
  BY <1>5 DEF Continues, ReadStep, Alone
<1>6. CASE \E q \in Reads :
              Ends(q) /\ Deserved(q, read'[q].result) /\ ReadStep(q)
  BY <1>6 DEF Ends, Deserved, ReadStep, Alone
<1>7. CASE UNCHANGED allVars
  BY <1>7 DEF allVars
<1> QED
  BY <1>1, <1>2, <1>3, <1>4, <1>5, <1>6, <1>7, StepKinds

-----------------------------------------------------------------------------
\* The initial state satisfies the invariant.
LEMMA ReadInitInductive == SyncInit => ReadInductive
<1> SUFFICES ASSUME SyncInit PROVE ReadInductive
  OBVIOUS
<1>1. Inductive
  BY InitInductive DEF SyncInit
<1>2. R!Idle \in ReadStates
  BY DEF R!Idle, R!Backends, Backends, ReadStates, R!Operations, Answers
<1>3. /\ readMode \in R!ReadModes
      /\ read = [q \in Reads |-> R!Idle]
      /\ basis = [q \in Reads |-> NoRequest]
      /\ shown = [q \in Reads |-> [b \in Backends |-> {}]]
  BY DEF SyncInit, R!ReadInit
<1>4. ReadTypeOK
  BY <1>2, <1>3 DEF ReadTypeOK
<1>5. CallsFitPhase /\ KindsFitOperation
  BY <1>3 DEF CallsFitPhase, KindsFitOperation, R!Idle, R!NoAnswer,
              R!Backends, Backends
<1>6. BasisInForce /\ AnswersReflectBasis /\ AnswersWereShown
  BY <1>3, MultiSyncAssumption
     DEF BasisInForce, AnswersReflectBasis, AnswersWereShown, Requests,
         R!Idle, R!NoAnswer, R!Backends, Backends
<1>7. SuccessIsConsistent /\ LosersFailed /\ ListFailsLast
  BY <1>3 DEF SuccessIsConsistent, LosersFailed, ListFailsLast, Done, R!Idle
<1> QED
  BY <1>1, <1>4, <1>5, <1>6, <1>7 DEF ReadInductive

\* Every step preserves the invariant.
LEMMA ReadInductiveStep ==
  ReadInductive /\ [SyncNext]_allVars => ReadInductive'
BY StepIsMultiSync, InductiveStep, ReadTypeStep, CallsStep, KindsStep,
   BasisStep, ReflectStep, ShownStep, ConsistentStep, LosersStep, ListStep
   DEF ReadInductive

\* ReadInductive is an invariant of the writes and reads together.
THEOREM ReadInductiveInvariant == SyncSpec => []ReadInductive
BY ReadInitInductive, ReadInductiveStep, PTL DEF SyncSpec

\* Whatever the read mode, a read that starts after a PUT was acknowledged
\* (put_object.rs:73-97) returns that PUT or fails (utils.rs, get_object.rs,
\* list_objects.rs), until the next write arrives and where no older one had a
\* write to come.
THEOREM ReadsSeeAckedPuts == SyncSpec => []ReadsSeeAckedPut
<1>1. ReadInductive => ReadsSeeAckedPut
  BY DEF ReadInductive, AnswersReflectBasis, Reflects, ReadsSeeAckedPut
<1> QED
  BY <1>1, ReadInductiveInvariant, PTL

\* Every backend has held, since the read began, the object that a success of
\* ALL_CONSISTENT returns: equal ETags (utils.rs:115-195) are those of equal
\* objects.
THEOREM ConsistentReadsAgree == SyncSpec => []ConsistentReadsProveAgreement
<1>1. ReadInductive => ConsistentReadsProveAgreement
  <2> SUFFICES ASSUME ReadInductive, NEW q \in Reads,
                      Done(q), Compares,
                      read[q].op # "bucket", Returned(q).kind = "ok",
                      NEW b \in Backends
               PROVE  Returned(q).object \in shown[q][b]
    BY DEF ConsistentReadsProveAgreement
  <2> DEFINE v == read[q].answers[b].object
             w == read[q].answers[PrimaryIndex].object
  <2>1. /\ read[q].answers[b].kind = "ok"
        /\ read[q].answers[PrimaryIndex].kind = "ok"
        /\ read[q].answers[b].etag = read[q].answers[PrimaryIndex].etag
        /\ Returned(q).object = w
    BY SyncReadsAssumption
       DEF ReadInductive, SuccessIsConsistent, R!Consistent, R!Backends,
           Backends
  <2>2. /\ v \in shown[q][b]
        /\ read[q].answers[b].etag =
              IF v = Nil THEN <<>> ELSE <<IsRemote(b), v>>
        /\ read[q].answers[PrimaryIndex].etag =
              IF w = Nil THEN <<>> ELSE <<IsRemote(PrimaryIndex), w>>
    BY <2>1, SyncReadsAssumption
       DEF ReadInductive, AnswersWereShown, R!NoTag, R!ETag, R!IsRemote,
           IsRemote
  <2> HIDE DEF v, w
  <2>3. \A x, y : <<>> # <<x, y>>
    OBVIOUS
  <2>4. CASE v = Nil \/ w = Nil
    BY <2>1, <2>2, <2>3, <2>4
  <2>5. CASE v # Nil /\ w # Nil
    <3>1. <<IsRemote(b), v>> = <<IsRemote(PrimaryIndex), w>>
      BY <2>1, <2>2, <2>5
    <3> QED
      BY <2>1, <2>2, <3>1
  <2> QED
    BY <2>4, <2>5
<1> QED
  BY <1>1, ReadInductiveInvariant, PTL

\* With the fallback and in the race, a LIST that fails has failed on every
\* backend (list_objects.rs:31-76).
THEOREM ListsFailLast == SyncSpec => []ListFailsLast
<1>1. ReadInductive => ListFailsLast
  BY DEF ReadInductive
<1> QED
  BY <1>1, ReadInductiveInvariant, PTL

=============================================================================
