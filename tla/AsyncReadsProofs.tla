-------------------------- MODULE AsyncReadsProofs --------------------------
(***************************************************************************)
(* Proofs about AsyncReads, for any number of backends, writes and reads.  *)
(*                                                                         *)
(* With its primary in memory, an ASYNC_REPLICATION MultiBackend that is   *)
(* read in the modes that believe the primary implements Register: the     *)
(* background tasks, however late and out of order, cannot be seen.        *)
(* Wherever the primary is and whichever the mode, a read sees the write   *)
(* that was settled for it when it arrived.                                *)
(*                                                                         *)
(* The writes do not see the reads, so the invariant of AsyncReplication   *)
(* holds with them.  ReadStepKinds reduces the handlers of all modes to an *)
(* answer, a return or a move to other backends.                           *)
(***************************************************************************)
EXTENDS AsyncReads, AsyncReplicationProofs

USE BackendsAssumption, AsyncAssumption, AsyncReadsAssumption

\* A step of the composition is one of AsyncReplication or changes nothing
\* there.
LEMMA StepIsAsync == [AsyncReadsNext]_allVars => [Next]_vars
BY DEF AsyncReadsNext, Write, WriteStep, Read, ReadStep, Next, allVars, vars

\* The lists of backends are the same.
LEMMA SameList == R!Backends = Backends /\ \A b : R!IsRemote(b) = IsRemote(b)
BY DEF R!Backends, Backends, R!IsRemote, IsRemote

-----------------------------------------------------------------------------
(* The steps of a read.                                                    *)

\* Only read q has changed, and not what it asks for.
Only(q) ==
    /\ read' \in [Reads -> ReadStates]
    /\ \A p \in Reads \ {q} : read'[p] = read[p]
    /\ UNCHANGED <<readMode, store, primary>>

\* The arrival of a read.
LEMMA AskEffect ==
  ASSUME ReadTypeOK, primary \in Backends, NEW q \in Reads,
         NEW op \in R!Operations, R!Ask(q, op), UNCHANGED primary
  PROVE  /\ Only(q)
         /\ read[q].phase = "idle"
         /\ read'[q].phase = "asking"
         /\ read'[q].op = op
         /\ read'[q].waiting = R!FirstAsked
         /\ read'[q].tried = R!FirstAsked
         /\ read'[q].answers = read[q].answers
<1> DEFINE new == [read[q] EXCEPT !.phase = "asking", !.op = op,
                                  !.waiting = R!FirstAsked,
                                  !.tried = R!FirstAsked]
<1>1. R!FirstAsked \subseteq Backends
  BY SameList DEF R!FirstAsked
<1>2. read[q] \in ReadStates
  BY DEF ReadTypeOK
<1>3. read' = [read EXCEPT ![q] = new]
  BY DEF R!Ask, ReadTypeOK
<1>4. new \in ReadStates
  BY <1>1, <1>2 DEF ReadStates
<1>5. read' \in [Reads -> ReadStates] /\ read'[q] = new
      /\ \A p \in Reads \ {q} : read'[p] = read[p]
  BY <1>3, <1>4 DEF ReadTypeOK
<1>6. /\ new.phase = "asking"
      /\ new.op = op
      /\ new.waiting = R!FirstAsked
      /\ new.tried = R!FirstAsked
      /\ new.answers = read[q].answers
  BY <1>2 DEF ReadStates
<1> QED
  BY <1>5, <1>6 DEF Only, R!Ask

\* An answer to a read: one that tells, when the backend is in memory.
LEMMA AnswerEffect ==
  ASSUME TypeOK, ReadTypeOK, NEW q \in Reads, NEW b \in Backends,
         R!Answer(q, b), UNCHANGED primary
  PROVE  /\ Only(q)
         /\ b \in read[q].waiting
         /\ read[q].answers[b] = R!NoAnswer
         /\ read'[q].phase = read[q].phase
         /\ read'[q].op = read[q].op
         /\ read'[q].waiting = read[q].waiting
         /\ read'[q].tried = read[q].tried
         /\ read'[q].result = read[q].result
         /\ \A c \in Backends \ {b} : read'[q].answers[c] = read[q].answers[c]
         /\ \/ read'[q].answers[b] = R!Truth(read[q].op, b)
            \/ /\ IsRemote(b)
               /\ read'[q].answers[b] = R!FailureSeen(read[q].op)
<1>1. read[q] \in ReadStates /\ read[q].op \in R!Operations
      /\ read[q].answers \in [Backends -> Answers]
  BY DEF ReadTypeOK, ReadStates
<1>2. PICK a \in {R!Truth(read[q].op, b), R!FailureSeen(read[q].op)} :
         /\ read' = [read EXCEPT ![q].answers[b] = a]
         /\ a # R!Truth(read[q].op, b) => IsRemote(b)
  BY SameList DEF R!Answer
<1>3. a \in Answers
  BY <1>1, <1>2
     DEF TypeOK, R!Operations, R!Truth, R!FailureSeen, Answers
<1> DEFINE new == [read[q] EXCEPT !.answers = [@ EXCEPT ![b] = a]]
<1>4. read' = [read EXCEPT ![q] = new]
  BY <1>2
<1>5. new \in ReadStates
  BY <1>1, <1>3 DEF ReadStates
<1>6. read' \in [Reads -> ReadStates] /\ read'[q] = new
      /\ \A p \in Reads \ {q} : read'[p] = read[p]
  BY <1>4, <1>5 DEF ReadTypeOK
<1>7. /\ new.phase = read[q].phase
      /\ new.op = read[q].op
      /\ new.waiting = read[q].waiting
      /\ new.tried = read[q].tried
      /\ new.result = read[q].result
      /\ new.answers[b] = a
      /\ \A c \in Backends \ {b} : new.answers[c] = read[q].answers[c]
  BY <1>1 DEF ReadStates
<1> QED
  BY <1>2, <1>6, <1>7 DEF Only, R!Answer

\* The return of a handler.
LEMMA ReturnEffect ==
  ASSUME ReadTypeOK, NEW q \in Reads, NEW a \in Answers, R!Return(q, a),
         UNCHANGED <<store, readMode, primary>>
  PROVE  /\ Only(q)
         /\ read'[q].phase = "done"
         /\ read'[q].result = a
         /\ read'[q].waiting = {}
         /\ read'[q].tried = read[q].tried
         /\ read'[q].op = read[q].op
         /\ read'[q].answers = read[q].answers
<1> DEFINE new == [read[q] EXCEPT !.phase = "done", !.result = a,
                                  !.waiting = {}]
<1>1. read[q] \in ReadStates
  BY DEF ReadTypeOK
<1>2. read' = [read EXCEPT ![q] = new]
  BY DEF R!Return, ReadTypeOK
<1>3. new \in ReadStates
  BY <1>1 DEF ReadStates
<1>4. read' \in [Reads -> ReadStates] /\ read'[q] = new
      /\ \A p \in Reads \ {q} : read'[p] = read[p]
  BY <1>2, <1>3 DEF ReadTypeOK
<1>5. /\ new.phase = "done"
      /\ new.waiting = {}
      /\ new.tried = read[q].tried
      /\ new.op = read[q].op
      /\ new.result = a
      /\ new.answers = read[q].answers
  BY <1>1 DEF ReadStates
<1> QED
  BY <1>4, <1>5 DEF Only

\* A handler that goes on to wait for others.
LEMMA MoveEffect ==
  ASSUME ReadTypeOK, NEW q \in Reads,
         NEW W \in SUBSET Backends, NEW T \in SUBSET Backends,
         read' = [read EXCEPT ![q].waiting = W, ![q].tried = T],
         UNCHANGED <<store, readMode, primary>>
  PROVE  /\ Only(q)
         /\ read'[q].phase = read[q].phase
         /\ read'[q].waiting = W
         /\ read'[q].tried = T
         /\ read'[q].op = read[q].op
         /\ read'[q].answers = read[q].answers
         /\ read'[q].result = read[q].result
<1> DEFINE new == [read[q] EXCEPT !.waiting = W, !.tried = T]
<1>1. read[q] \in ReadStates
  BY DEF ReadTypeOK
<1>2. read' = [read EXCEPT ![q] = new] /\ new \in ReadStates
  BY <1>1 DEF ReadTypeOK, ReadStates
<1>3. read' \in [Reads -> ReadStates] /\ read'[q] = new
      /\ \A p \in Reads \ {q} : read'[p] = read[p]
  BY <1>2 DEF ReadTypeOK
<1>4. /\ new.phase = read[q].phase
      /\ new.waiting = W
      /\ new.tried = T
      /\ new.op = read[q].op
      /\ new.answers = read[q].answers
      /\ new.result = read[q].result
  BY <1>1 DEF ReadStates
<1> QED
  BY <1>3, <1>4 DEF Only

\* The handler of q returns.
Ends(q) ==
    /\ Only(q)
    /\ read'[q].phase = "done"
    /\ read'[q].waiting = {}
    /\ read'[q].tried = read[q].tried
    /\ read'[q].op = read[q].op
    /\ read'[q].answers = read[q].answers

\* It goes on to wait for others.
Moves(q) ==
    /\ Only(q)
    /\ read'[q].phase = read[q].phase
    /\ read'[q].op = read[q].op
    /\ read'[q].answers = read[q].answers
    /\ read'[q].result = read[q].result

\* The handler has the answer of b.
Has(q, b) == b \in read[q].waiting /\ R!Delivered(q, b)

\* What a read does in its mode: it returns an answer, or that there is none,
\* or compares all answers; or it goes on.
LEMMA ReadStepKinds ==
  ASSUME TypeOK, ReadTypeOK, NEW q \in Reads, R!ReadStep(q),
         UNCHANGED <<store, primary>>
  PROVE  \/ \E b \in Backends : R!Answer(q, b)
         \/ /\ Ends(q)
            /\ \E b \in Backends :
                  Has(q, b) /\ read'[q].result = read[q].answers[b]
         \/ /\ Ends(q)
            /\ readMode = "PRIMARY_FALLBACK"
            /\ \E b \in Backends : Has(q, b) /\ ~ R!EndsFallback(q, b)
            /\ read'[q].result = R!AllFailed(read[q].op)
         \/ /\ Ends(q)
            /\ read[q].phase = "asking"
            /\ readMode = "ALL_CONSISTENT"
            /\ \A b \in Backends : Has(q, b)
            /\ read'[q].result = IF R!Consistent(q)
                                 THEN read[q].answers[primary] ELSE R!Error
         \/ /\ Moves(q)
            /\ readMode = "PRIMARY_FALLBACK"
            /\ \E b \in Backends : Has(q, b) /\ ~ R!EndsFallback(q, b)
            /\ \E c \in Backends :
                  /\ read'[q].waiting = {c}
                  /\ read'[q].tried = read[q].tried \cup {c}
         \/ /\ Moves(q)
            /\ readMode = "BEST_EFFORT"
            /\ \E b \in Backends :
                  Has(q, b) /\ read'[q].waiting = read[q].waiting \ {b}
            /\ read'[q].tried = read[q].tried
<1>1. /\ primary \in Backends
      /\ read[q].op \in R!Operations
      /\ read[q].waiting \subseteq Backends
      /\ read[q].tried \subseteq Backends
      /\ read[q].answers \in [Backends -> Answers]
  BY DEF TypeOK, ReadTypeOK, ReadStates
<1>2. ASSUME NEW a \in Answers, R!Return(q, a), UNCHANGED readMode
      PROVE  Ends(q) /\ read'[q].result = a
  BY <1>2, ReturnEffect DEF Ends
<1>3. ASSUME NEW W \in SUBSET Backends, NEW T \in SUBSET Backends,
             read' = [read EXCEPT ![q].waiting = W, ![q].tried = T],
             UNCHANGED readMode
      PROVE  Moves(q) /\ read'[q].waiting = W /\ read'[q].tried = T
  <2>1. UNCHANGED <<store, readMode, primary>>
    BY <1>3
  <2>2. /\ Only(q)
        /\ read'[q].phase = read[q].phase
        /\ read'[q].waiting = W
        /\ read'[q].tried = T
        /\ read'[q].op = read[q].op
        /\ read'[q].answers = read[q].answers
        /\ read'[q].result = read[q].result
    BY <1>3, <2>1, MoveEffect, Zenon
  <2> QED
    BY <2>2 DEF Moves
<1>4. CASE R!PrimaryOnly(q)
  BY <1>1, <1>2, <1>4 DEF R!PrimaryOnly, R!Delivered, Has
<1>5. CASE R!Fallback(q)
  <2>1. PICK b \in read[q].waiting :
           /\ R!Delivered(q, b)
           /\ IF R!EndsFallback(q, b) THEN R!Return(q, read[q].answers[b])
              ELSE IF R!Untried(q) = {}
                   THEN R!Return(q, R!AllFailed(read[q].op))
              ELSE \E c \in R!Untried(q) :
                     /\ \A d \in R!Untried(q) : c <= d
                     /\ read' = [read EXCEPT ![q].waiting = {c},
                                             ![q].tried = @ \cup {c}]
    BY <1>5 DEF R!Fallback
  <2>2. Has(q, b) /\ readMode = "PRIMARY_FALLBACK" /\ UNCHANGED readMode
    BY <1>5, <2>1 DEF R!Fallback, Has
  <2>3. CASE R!EndsFallback(q, b)
    BY <1>1, <1>2, <2>1, <2>2, <2>3
  <2>4. CASE ~ R!EndsFallback(q, b) /\ R!Untried(q) = {}
    <3>1. R!AllFailed(read[q].op) \in Answers
      BY DEF R!AllFailed, Answers
    <3> QED
      BY <1>1, <1>2, <2>1, <2>2, <2>4, <3>1
  <2>5. CASE ~ R!EndsFallback(q, b) /\ R!Untried(q) # {}
    <3>1. PICK c \in R!Untried(q) :
             read' = [read EXCEPT ![q].waiting = {c},
                                  ![q].tried = @ \cup {c}]
      BY <2>1, <2>5
    <3>2. c \in Backends /\ read[q].tried \cup {c} \in SUBSET Backends
      BY <1>1, <3>1, SameList DEF R!Untried
    <3>3. read' = [read EXCEPT ![q].waiting = {c},
                               ![q].tried = read[q].tried \cup {c}]
      BY <3>1 DEF ReadTypeOK, ReadStates
    <3>4. {c} \in SUBSET Backends
      BY <3>2
    <3>5. /\ Moves(q) /\ read'[q].waiting = {c}
          /\ read'[q].tried = read[q].tried \cup {c}
      BY <1>3, <2>2, <3>2, <3>3, <3>4
    <3> QED
      BY <1>1, <2>1, <2>2, <2>5, <3>2, <3>5
  <2> QED
    BY <2>3, <2>4, <2>5
<1>6. CASE R!Race(q)
  <2>1. PICK b \in read[q].waiting :
           /\ R!Delivered(q, b)
           /\ \/ read' = [read EXCEPT ![q].waiting = @ \ {b}]
              \/ R!Return(q, read[q].answers[b])
    BY <1>6 DEF R!Race
  <2>2. Has(q, b) /\ readMode = "BEST_EFFORT" /\ UNCHANGED readMode
    BY <1>6, <2>1 DEF R!Race, Has
  <2>3. CASE read' = [read EXCEPT ![q].waiting = @ \ {b}]
    <3>1. read' = [read EXCEPT ![q].waiting = read[q].waiting \ {b},
                               ![q].tried = read[q].tried]
      BY <1>1, <2>3 DEF ReadTypeOK, ReadStates
    <3>2. read[q].waiting \ {b} \in SUBSET Backends
          /\ read[q].tried \in SUBSET Backends
      BY <1>1
    <3> QED
      BY <1>1, <1>3, <2>1, <2>2, <3>1, <3>2
  <2>4. CASE R!Return(q, read[q].answers[b])
    BY <1>1, <1>2, <2>2, <2>4
  <2> QED
    BY <2>1, <2>3, <2>4
<1>7. CASE R!Verify(q)
  <2>1. /\ readMode = "ALL_CONSISTENT" /\ UNCHANGED readMode
        /\ read[q].phase = "asking"
        /\ \A b \in Backends : Has(q, b)
    BY <1>7, SameList DEF R!Verify, R!Delivered, Has
  <2>2. R!Error \in Answers
    BY DEF Answers
  <2> QED
    BY <1>1, <1>2, <1>7, <2>1, <2>2 DEF R!Verify
<1> QED
  BY <1>4, <1>5, <1>6, <1>7, SameList DEF R!ReadStep

\* What a primary in memory has answered ends a read that believes it.
LEMMA PrimaryEndsRead ==
  ASSUME RegisterInductive, readMode \in PrimaryModes, NEW q \in Reads,
         NEW b \in read[q].waiting, R!Delivered(q, b)
  PROVE  /\ b = primary
         /\ read[q].phase = "asking"
         /\ R!EndsFallback(q, b)
<1>1. b = primary /\ read[q].phase = "asking"
  BY DEF RegisterInductive, PrimaryTells
<1>2. read[q].answers[b] \in Answers \ {R!NoAnswer}
  BY <1>1 DEF RegisterInductive, ReadTypeOK, ReadStates, Inductive, TypeOK,
              R!Delivered
<1>3. read[q].answers[b].kind \in {"ok", "notFound", "error"}
  BY <1>2 DEF Answers, R!NotFound, R!Error, R!Ok
<1> QED
  BY <1>1, <1>3 DEF RegisterInductive, PrimaryTells, R!EndsFallback

\* The steps of a read once it has arrived: an answer, the end or, in the
\* modes that ask others, another call.
LEMMA ReadStepEffect ==
  ASSUME RegisterInductive, NEW q \in Reads, R!ReadStep(q), UNCHANGED vars
  PROVE  /\ Only(q)
         /\ \/ \E b \in Backends : R!Answer(q, b)
            \/ readMode \notin PrimaryModes
            \/ /\ Ends(q)
               /\ read[q].phase = "asking"
               /\ read[q].answers[primary] # R!NoAnswer
               /\ read'[q].result = read[q].answers[primary]
<1>1. /\ ReadTypeOK /\ TypeOK
      /\ UNCHANGED <<store, primary>>
  BY DEF RegisterInductive, Inductive, vars, procVars
<1>2. ASSUME NEW b \in Backends, Has(q, b), readMode \in PrimaryModes
      PROVE  /\ read[q].phase = "asking"
             /\ b = primary
             /\ read[q].answers[primary] # R!NoAnswer
             /\ R!EndsFallback(q, b)
  BY <1>2, PrimaryEndsRead DEF Has, R!Delivered
<1>3. CASE \E b \in Backends : R!Answer(q, b)
  BY <1>1, <1>3, AnswerEffect
<1>4. CASE /\ Ends(q)
           /\ \E b \in Backends :
                 Has(q, b) /\ read'[q].result = read[q].answers[b]
  BY <1>2, <1>4 DEF Ends
<1>5. CASE /\ Ends(q) \/ Moves(q)
           /\ readMode = "PRIMARY_FALLBACK"
           /\ \E b \in Backends : Has(q, b) /\ ~ R!EndsFallback(q, b)
  BY <1>2, <1>5 DEF PrimaryModes
<1>6. CASE /\ Ends(q) \/ Moves(q)
           /\ readMode \in {"ALL_CONSISTENT", "BEST_EFFORT"}
  BY <1>6 DEF PrimaryModes, Ends, Moves
<1> QED
  BY <1>1, <1>3, <1>4, <1>5, <1>6, ReadStepKinds

-----------------------------------------------------------------------------
(* The invariant.                                                          *)

\* With a primary in memory the primary stays and nothing is in doubt.
LEMMA PrimaryStep ==
  ASSUME RegisterInductive, ~ IsRemote(PrimaryIndex), [Next]_vars
  PROVE  PrimaryStays'
<1> USE DEF RegisterInductive, Inductive, TypeOK, PrimaryStays, ghostVars
<1>1. CASE \E r \in Requests : Receive(r)
  BY <1>1 DEF Receive
<1>2. CASE \E r \in Requests : Handler(r)
  BY <1>2 DEF Handler, PrimaryExecutes, Acknowledge, MaskDeleteError,
              PrimaryFails, Abandon
<1>3. CASE \E r \in Requests : BodyFails(r) \/ ClientGone(r)
  BY <1>3 DEF BodyFails, ClientGone, Abandon
<1>4. CASE \E r \in Requests : LateExecution(r)
  BY <1>4 DEF LateExecution
<1>5. CASE \E r \in Requests : Background(r)
  BY <1>5 DEF Background, Fetch, FetchFails, CopyApplies, CopyFails
<1>6. CASE UNCHANGED vars
  BY <1>6 DEF vars, procVars
<1> QED
  BY <1>1, <1>2, <1>3, <1>4, <1>5, <1>6 DEF Next, Restart

\* Types of the reads, and what the primary tells.
LEMMA ReadsStep ==
  ASSUME RegisterInductive, ~ IsRemote(PrimaryIndex),
         [AsyncReadsNext]_allVars, PrimaryStays'
  PROVE  ReadTypeOK' /\ PrimaryTells'
<1>1. /\ primary = PrimaryIndex /\ primary' = primary
      /\ primary \in Backends
      /\ TypeOK /\ ReadTypeOK
      /\ PrimaryTells
  BY DEF RegisterInductive, Inductive, TypeOK, PrimaryStays
<1>2. CASE UNCHANGED <<readMode, read>>
  BY <1>1, <1>2 DEF ReadTypeOK, PrimaryTells
<1>3. CASE \E q \in Reads, op \in R!Operations : Read(q, op)
  <2>1. PICK q \in Reads, op \in R!Operations : R!Ask(q, op)
    BY <1>3 DEF Read
  <2>2. /\ Only(q)
        /\ read[q].phase = "idle"
        /\ read'[q].phase = "asking"
        /\ read'[q].waiting = R!FirstAsked
        /\ read'[q].answers = read[q].answers
    BY <1>1, <2>1, AskEffect
  <2>3. readMode \in PrimaryModes =>
           /\ read'[q].waiting = {primary}
           /\ read'[q].answers[primary] = R!NoAnswer
    BY <1>1, <2>2 DEF PrimaryTells, R!FirstAsked, PrimaryModes
  <2>4. R!NoAnswer.kind = "none"
    BY DEF R!NoAnswer
  <2> QED
    BY <1>1, <2>2, <2>3, <2>4 DEF Only, ReadTypeOK, PrimaryTells
<1>4. CASE \E q \in Reads : ReadStep(q)
  <2>1. PICK q \in Reads : R!ReadStep(q) /\ UNCHANGED vars
    BY <1>4 DEF ReadStep
  <2>2. Only(q)
    BY <2>1, ReadStepEffect
  <2>3. ReadTypeOK'
    BY <1>1, <2>2 DEF Only, ReadTypeOK
  <2>4. CASE \E b \in Backends : R!Answer(q, b)
    <3>1. PICK b \in Backends : R!Answer(q, b)
      BY <2>4
    <3>2. /\ b \in read[q].waiting
          /\ read[q].answers[b] = R!NoAnswer
          /\ read'[q].phase = read[q].phase
          /\ read'[q].op = read[q].op
          /\ read'[q].waiting = read[q].waiting
          /\ ~ IsRemote(b) =>
                read'[q].answers[b] = R!Truth(read[q].op, b)
      BY <1>1, <3>1, AnswerEffect
    <3>3. ASSUME readMode \in PrimaryModes
          PROVE  /\ read[q].phase = "asking"
                 /\ b = primary
                 /\ read'[q].answers[primary].kind # "error"
                 /\ read'[q].answers[primary].kind = "notFound" =>
                       read[q].op # "list"
      <4>1. b = primary /\ read[q].phase = "asking"
        BY <1>1, <3>2, <3>3 DEF PrimaryTells
      <4>2. read'[q].answers[primary] = R!Truth(read[q].op, primary)
        BY <1>1, <3>2, <4>1
      <4>3. read[q].op \in R!Operations
        BY <1>1 DEF ReadTypeOK, ReadStates
      <4> QED
        BY <4>1, <4>2, <4>3
           DEF R!Truth, R!Operations, R!Ok, R!NotFound
    <3> QED
      BY <1>1, <2>2, <2>3, <3>2, <3>3 DEF Only, PrimaryTells
  <2>5. CASE readMode \notin PrimaryModes
    BY <2>2, <2>3, <2>5 DEF Only, PrimaryTells
  <2>6. CASE /\ read[q].phase = "asking"
             /\ read'[q].phase = "done"
             /\ read'[q].waiting = {}
             /\ read'[q].op = read[q].op
             /\ read'[q].answers = read[q].answers
    BY <1>1, <2>2, <2>3, <2>6 DEF Only, PrimaryTells
  <2> QED
    BY <2>1, <2>4, <2>5, <2>6, ReadStepEffect DEF Ends
<1> QED
  BY <1>2, <1>3, <1>4
     DEF AsyncReadsNext, Write, WriteStep, allVars

\* The invariant holds at first and is preserved.
LEMMA RegisterInitInductive == AsyncReadsInit => RegisterInductive
<1> SUFFICES ASSUME AsyncReadsInit PROVE RegisterInductive
  OBVIOUS
<1>1. Inductive /\ PrimaryStays
  BY InitInductive DEF AsyncReadsInit, Init, PrimaryStays
<1>2. R!Idle \in ReadStates
  BY SameList DEF R!Idle, ReadStates, R!Operations, Answers
<1>3. readMode \in R!ReadModes /\ read = [q \in Reads |-> R!Idle]
  BY DEF AsyncReadsInit, R!ReadInit
<1>4. ReadTypeOK
  BY <1>2, <1>3 DEF ReadTypeOK
<1>5. /\ R!Idle.phase = "idle" /\ R!Idle.waiting = {}
      /\ \A b \in Backends : R!Idle.answers[b] = R!NoAnswer
      /\ R!NoAnswer.kind = "none"
  BY SameList DEF R!Idle, R!NoAnswer
<1>6. PrimaryTells
  BY <1>1, <1>3, <1>5 DEF PrimaryTells, PrimaryStays
<1> QED
  BY <1>1, <1>4, <1>6 DEF RegisterInductive

\* Every step preserves it.
LEMMA RegisterInductiveStep ==
  ASSUME ~ IsRemote(PrimaryIndex)
  PROVE  RegisterInductive /\ [AsyncReadsNext]_allVars => RegisterInductive'
BY StepIsAsync, InductiveStep, PrimaryStep, ReadsStep DEF RegisterInductive

-----------------------------------------------------------------------------
(* The refinement.                                                         *)

\* A step that leaves the handlers and the primary's object alone.
LEMMA WritesUnseen ==
  ASSUME UNCHANGED <<phase, doubt, store[primary]>>
  PROVE  UNCHANGED <<absValue, absWrite, absTodo>>
<1>1. \A r \in Requests : WriteOf(r)' = WriteOf(r)
  BY DEF WriteOf
<1>2. absWrite' = absWrite
  BY <1>1 DEF absWrite
<1> QED
  BY <1>2 DEF absValue, absTodo

\* The handler of r moves on.
LEMMA WriteMoves ==
  ASSUME TypeOK, NEW r \in Requests, NEW p,
         phase' = [phase EXCEPT ![r] = p]
  PROVE  absWrite' = [absWrite EXCEPT ![r] = WriteOf(r)']
<1>1. phase'[r] = p /\ \A c \in Requests \ {r} : phase'[c] = phase[c]
  BY DEF TypeOK
<1>2. \A c \in Requests \ {r} : WriteOf(c)' = WriteOf(c)
  BY <1>1 DEF WriteOf
<1> QED
  BY <1>2 DEF absWrite

\* Reads that do not move, and a primary that stays.
LEMMA ReadsUnseen ==
  ASSUME UNCHANGED <<readMode, read, primary>>
  PROVE  UNCHANGED absReader
<1>1. \A q \in Reads : ReaderOf(q)' = ReaderOf(q)
  BY DEF ReaderOf, Returned
<1> QED
  BY <1>1 DEF absReader

\* A read moves alone.
LEMMA ReadMoves ==
  ASSUME NEW q \in Reads, Only(q)
  PROVE  absReader' = [absReader EXCEPT ![q] = ReaderOf(q)']
<1>1. \A c \in Reads \ {q} : ReaderOf(c)' = ReaderOf(c)
  BY DEF Only, ReaderOf, Returned
<1> QED
  BY <1>1 DEF absReader

\* Beside a write step no read moves.
LEMMA WritesMap ==
  ASSUME RegisterInductive, PrimaryStays', ~ IsRemote(PrimaryIndex),
         NEW r \in Requests, Receive(r) \/ WriteStep(r),
         UNCHANGED <<readMode, read>>
  PROVE  [Reg!RegNext]_(Reg!regVars)
<1>1. /\ TypeOK /\ doubt = {} /\ doubt' = {}
      /\ home[r] = primary /\ primary' = primary /\ primary \in Backends
      /\ ~ IsRemote(primary) /\ ~ IsRemote(home[r])
      /\ primary \notin pending[r]
  BY DEF RegisterInductive, PrimaryStays, Inductive, TypeOK
<1>2. UNCHANGED absReader
  BY <1>1, ReadsUnseen
<1>3. CASE Receive(r)
  <2>1. /\ phase[r] = "idle"
        /\ phase' = [phase EXCEPT ![r] = "primary"]
        /\ UNCHANGED store
    BY <1>3 DEF Receive
  <2>2. phase'[r] = "primary"
        /\ \A c \in Requests \ {r} : phase'[c] = phase[c]
    BY <1>1, <2>1 DEF TypeOK
  <2>3. WriteOf(r) = "idle" /\ WriteOf(r)' = "called"
    BY <2>1, <2>2 DEF WriteOf
  <2>4. absWrite[r] = "idle"
        /\ absWrite' = [absWrite EXCEPT ![r] = "called"]
    BY <1>1, <2>1, <2>3, WriteMoves DEF absWrite
  <2>5. absTodo' = absTodo \cup {r}
    BY <1>1, <2>2 DEF absTodo
  <2>6. UNCHANGED absValue
    BY <1>1, <2>1 DEF absValue
  <2>7. Reg!Call(r)
    BY <1>2, <2>4, <2>5, <2>6 DEF Reg!Call
  <2> QED
    BY <2>7 DEF Reg!RegNext
<1>4. CASE PrimaryExecutes(r)
  <2>1. /\ phase[r] = "primary"
        /\ phase' = [phase EXCEPT ![r] = "applied"]
        /\ store' = [store EXCEPT ![primary] = Effect(r)]
    BY <1>1, <1>4 DEF PrimaryExecutes, ExecuteAtHome, Execute
  <2>2. phase'[r] = "applied"
        /\ \A c \in Requests \ {r} : phase'[c] = phase[c]
    BY <1>1, <2>1 DEF TypeOK
  <2>3. \A c \in Requests : WriteOf(c)' = WriteOf(c)
    BY <2>1, <2>2 DEF WriteOf
  <2>4. UNCHANGED absWrite
    BY <2>3 DEF absWrite
  <2>5. r \in absTodo /\ absTodo' = absTodo \ {r}
    BY <1>1, <2>1, <2>2 DEF absTodo
  <2>6. absValue' = Effect(r)
    BY <1>1, <2>1 DEF absValue, TypeOK
  <2>7. Reg!TakeEffect(r)
    BY <1>2, <2>4, <2>5, <2>6 DEF Reg!TakeEffect
  <2> QED
    BY <2>7 DEF Reg!RegNext
<1>5. CASE Acknowledge(r)
  <2>1. /\ phase[r] = "applied"
        /\ phase' = [phase EXCEPT ![r] = "acked"]
        /\ UNCHANGED store
    BY <1>5 DEF Acknowledge
  <2>2. phase'[r] = "acked"
        /\ \A c \in Requests \ {r} : phase'[c] = phase[c]
    BY <1>1, <2>1 DEF TypeOK
  <2>3. WriteOf(r) = "called" /\ WriteOf(r)' = "succeeded"
    BY <2>1, <2>2 DEF WriteOf
  <2>4. absWrite[r] = "called"
        /\ absWrite' = [absWrite EXCEPT ![r] = "succeeded"]
    BY <1>1, <2>1, <2>3, WriteMoves DEF absWrite
  <2>5. r \notin absTodo /\ absTodo' = absTodo
    BY <1>1, <2>1, <2>2 DEF absTodo
  <2>6. UNCHANGED absValue
    BY <1>1, <2>1 DEF absValue
  <2>7. Reg!Succeed(r)
    BY <1>2, <2>4, <2>5, <2>6 DEF Reg!Succeed
  <2> QED
    BY <2>7 DEF Reg!RegNext
<1>6. CASE BodyFails(r) \/ ClientGone(r)
  <2>1. /\ phase[r] = "primary"
        /\ phase' = [phase EXCEPT ![r] = "ended"]
        /\ UNCHANGED store
    BY <1>1, <1>6 DEF BodyFails, ClientGone, InHandler, Abandon
  <2>2. phase'[r] = "ended"
        /\ \A c \in Requests \ {r} : phase'[c] = phase[c]
    BY <1>1, <2>1 DEF TypeOK
  <2>3. WriteOf(r) = "called" /\ WriteOf(r)' = "failed"
    BY <2>1, <2>2 DEF WriteOf
  <2>4. absWrite[r] = "called"
        /\ absWrite' = [absWrite EXCEPT ![r] = "failed"]
    BY <1>1, <2>1, <2>3, WriteMoves DEF absWrite
  <2>5. absTodo' = absTodo \ {r}
    BY <1>1, <2>2 DEF absTodo
  <2>6. UNCHANGED absValue
    BY <1>1, <2>1 DEF absValue
  <2>7. Reg!Fail(r)
    BY <1>2, <2>4, <2>5, <2>6 DEF Reg!Fail
  <2> QED
    BY <2>7 DEF Reg!RegNext
<1>7. CASE Background(r)
  <2>1. UNCHANGED <<phase, store[primary]>>
    <3>1. CASE Fetch(r) \/ FetchFails(r)
      BY <1>1, <3>1 DEF Fetch, FetchFails
    <3>2. CASE \E b \in Backends : CopyApplies(r, b)
      BY <1>1, <3>2 DEF CopyApplies, Execute, TypeOK
    <3>3. CASE \E b \in Backends : CopyFails(r, b)
      BY <1>1, <3>3 DEF CopyFails
    <3> QED
      BY <1>7, <3>1, <3>2, <3>3 DEF Background
  <2> QED
    BY <1>1, <1>2, <2>1, WritesUnseen DEF Reg!regVars
\* With a primary in memory there is nothing to mask, to fail or to doubt.
<1>8. ~ MaskDeleteError(r) /\ ~ PrimaryFails(r) /\ ~ LateExecution(r)
  BY <1>1 DEF MaskDeleteError, PrimaryFails, LateExecution
<1> QED
  BY <1>3, <1>4, <1>5, <1>6, <1>7, <1>8 DEF WriteStep, Handler

\* Beside a step of a read no write moves.
LEMMA ReadsMap ==
  ASSUME RegisterInductive, NEW q \in Reads, UNCHANGED vars,
         R!ReadStep(q) \/ \E op \in R!Operations : R!Ask(q, op),
         ~ IsRemote(PrimaryIndex)
  PROVE  [Reg!RegNext]_(Reg!regVars)
<1>1. /\ TypeOK /\ ReadTypeOK /\ PrimaryTells /\ primary \in Backends
      /\ ~ IsRemote(primary)
      /\ UNCHANGED <<primary, store, phase, doubt>>
  BY DEF RegisterInductive, PrimaryStays, Inductive, TypeOK, vars, procVars
<1>2. UNCHANGED <<absValue, absWrite, absTodo>>
  BY <1>1, WritesUnseen
<1>3. Only(q)
  BY <1>1, AskEffect, ReadStepEffect
<1>4. /\ absReader' = [absReader EXCEPT ![q] = ReaderOf(q)']
      /\ absReader[q] = ReaderOf(q)
  BY <1>3, ReadMoves DEF absReader
<1>5. ASSUME UNCHANGED ReaderOf(q)
      PROVE  UNCHANGED Reg!regVars
  BY <1>2, <1>4, <1>5 DEF absReader, Reg!regVars
<1>6. CASE readMode \notin PrimaryModes
  BY <1>3, <1>5, <1>6 DEF Only, ReaderOf, Reg!regVars
<1>7. CASE readMode \in PrimaryModes /\ \E op \in R!Operations : R!Ask(q, op)
  <2>1. PICK op \in R!Operations : R!Ask(q, op)
    BY <1>7
  <2>2. /\ read[q].phase = "idle"
        /\ read'[q].phase = "asking"
        /\ read'[q].op = op
        /\ read'[q].answers = read[q].answers
        /\ UNCHANGED readMode
    BY <1>1, <2>1, AskEffect DEF Only
  <2>3. ReaderOf(q) = Reg!Unasked
    BY <2>2 DEF ReaderOf, Reg!Unasked
  <2>4. read'[q].answers[primary] = R!NoAnswer
    BY <1>1, <1>7, <2>2 DEF PrimaryTells
  <2>5. ReaderOf(q)' \in {Reg!Unasked, Reg!Asked}
    BY <1>1, <2>2, <2>4 DEF ReaderOf, Reg!Unasked, Reg!Asked
  <2>6. CASE ReaderOf(q)' = Reg!Unasked
    BY <1>5, <2>3, <2>6 DEF Reg!regVars
  <2>7. CASE ReaderOf(q)' = Reg!Asked
    <3>1. Reg!Inquire(q)
      BY <1>2, <1>4, <2>3, <2>7 DEF Reg!Inquire
    <3> QED
      BY <3>1 DEF Reg!RegNext
  <2> QED
    BY <2>5, <2>6, <2>7
<1>8. CASE readMode \in PrimaryModes /\ \E b \in Backends : R!Answer(q, b)
  <2>1. PICK b \in Backends : R!Answer(q, b)
    BY <1>8
  <2>2. /\ b = primary
        /\ read[q].phase = "asking"
        /\ read[q].answers[primary] = R!NoAnswer
        /\ read'[q].phase = "asking"
        /\ read'[q].op = read[q].op
        /\ read'[q].answers[primary] = R!Truth(read[q].op, primary)
        /\ UNCHANGED readMode
    BY <1>1, <1>8, <2>1, AnswerEffect DEF PrimaryTells, Only
  <2>3. CASE read[q].op = "bucket"
    BY <1>1, <1>5, <2>2, <2>3 DEF ReaderOf, Reg!regVars
  <2>4. CASE read[q].op # "bucket"
    <3>1. read[q].op \in {"object", "list"}
      BY <1>1, <2>4 DEF ReadTypeOK, ReadStates, R!Operations
    <3>2. /\ read'[q].answers[primary].object = store[primary]
          /\ read'[q].answers[primary] # R!NoAnswer
      BY <2>2, <3>1 DEF R!Truth, R!Ok, R!NotFound, R!NoAnswer
    <3>3. ReaderOf(q) = Reg!Asked /\ ReaderOf(q)' = Reg!Taken(absValue)
      BY <1>1, <1>8, <2>2, <2>4, <3>2
         DEF ReaderOf, Reg!Asked, Reg!Taken, absValue
    <3>4. Reg!Take(q)
      BY <1>2, <1>4, <3>3 DEF Reg!Take
    <3> QED
      BY <3>4 DEF Reg!RegNext
  <2> QED
    BY <2>3, <2>4
<1>9. CASE /\ readMode \in PrimaryModes
           /\ read[q].phase = "asking"
           /\ read[q].answers[primary] # R!NoAnswer
           /\ read'[q].phase = "done"
           /\ read'[q].op = read[q].op
           /\ read'[q].result = read[q].answers[primary]
  <2>1. UNCHANGED readMode
    BY <1>3 DEF Only
  <2>2. CASE read[q].op = "bucket"
    BY <1>5, <1>9, <2>1, <2>2 DEF ReaderOf, Reg!regVars
  <2>3. CASE read[q].op # "bucket"
    <3>1. ReaderOf(q) = Reg!Taken(read[q].answers[primary].object)
      BY <1>9, <2>3 DEF ReaderOf, Reg!Taken
    <3>2. ReaderOf(q)' = Reg!Told(read[q].answers[primary].object)
      BY <1>9, <2>1, <2>3 DEF ReaderOf, Returned, Reg!Told
    <3>3. Reg!Tell(q)
      BY <1>2, <1>4, <3>1, <3>2 DEF Reg!Tell, Reg!Taken, Reg!Told
    <3> QED
      BY <3>3 DEF Reg!RegNext
  <2> QED
    BY <2>2, <2>3
<1> QED
  BY <1>1, <1>6, <1>7, <1>8, <1>9, ReadStepEffect DEF Ends

\* The initial states are the register's.
LEMMA RegisterInit == AsyncReadsInit => Reg!RegInit
<1> SUFFICES ASSUME AsyncReadsInit PROVE Reg!RegInit
  OBVIOUS
<1>1. \A q \in Reads : read[q].phase = "idle"
  BY DEF AsyncReadsInit, R!ReadInit, R!Idle
<1>2. absReader = [q \in Reads |-> Reg!Unasked]
  BY <1>1 DEF absReader, ReaderOf, Reg!Unasked
<1>3. absWrite = [r \in Requests |-> "idle"]
  BY DEF AsyncReadsInit, Init, absWrite, WriteOf
<1>4. absValue = Nil /\ absTodo = {}
  BY DEF AsyncReadsInit, Init, absValue, absTodo
<1> QED
  BY <1>2, <1>3, <1>4 DEF Reg!RegInit

\* Every step is one of the register or is not seen by it.
LEMMA RegisterStep ==
  ASSUME ~ IsRemote(PrimaryIndex)
  PROVE  RegisterInductive /\ RegisterInductive' /\ [AsyncReadsNext]_allVars
            => [Reg!RegNext]_(Reg!regVars)
<1> SUFFICES ASSUME RegisterInductive, RegisterInductive',
                    [AsyncReadsNext]_allVars
             PROVE  [Reg!RegNext]_(Reg!regVars)
  OBVIOUS
<1>1. CASE \E r \in Requests : Write(r) \/ WriteStep(r)
  BY <1>1, WritesMap DEF Write, WriteStep, RegisterInductive
<1>2. CASE \E q \in Reads :
              ReadStep(q) \/ \E op \in R!Operations : Read(q, op)
  BY <1>2, ReadsMap DEF ReadStep, Read
<1>3. CASE UNCHANGED allVars
  <2>1. UNCHANGED <<absValue, absWrite, absTodo, absReader>>
    BY <1>3, WritesUnseen, ReadsUnseen DEF allVars, vars, procVars
  <2> QED
    BY <2>1 DEF Reg!regVars
<1> QED
  BY <1>1, <1>2, <1>3 DEF AsyncReadsNext

\* The key is an atomic register beside failures of the replicas, broken
\* bodies and disconnections (put_object.rs:43-51, delete_object.rs:18-27,
\* get_object.rs:19-26): a write takes effect when the primary executes it,
\* and a read that believes the primary sees it at one instant.
THEOREM AsyncReadsRefineRegister ==
  ASSUME ~ IsRemote(PrimaryIndex)
  PROVE  AsyncReadsSpec => Reg!RegInit /\ [][Reg!RegNext]_(Reg!regVars)
<1>1. RegisterInductive /\ [AsyncReadsNext]_allVars => RegisterInductive'
  BY RegisterInductiveStep
<1>2. RegisterInductive /\ RegisterInductive' /\ [AsyncReadsNext]_allVars
         => [Reg!RegNext]_(Reg!regVars)
  BY RegisterStep
<1> QED
  BY RegisterInit, RegisterInitInductive, <1>1, <1>2, PTL DEF AsyncReadsSpec

-----------------------------------------------------------------------------
(* Settled writes are seen, wherever the primary is.                       *)

\* Nothing replaces the primary, and it keeps what it acknowledged.
LEMMA HomeStaysStep ==
  ASSUME Inductive, HomeStays, [Next]_vars
  PROVE  HomeStays'
<1> USE DEF Inductive, TypeOK, HomeStays, HomeReached, ghostVars
<1>1. CASE \E r \in Requests : Receive(r)
  BY <1>1 DEF Receive
<1>2. CASE \E r \in Requests : PrimaryExecutes(r)
  BY <1>2 DEF PrimaryExecutes, ExecuteAtHome, Execute
<1>3. CASE \E r \in Requests : Acknowledge(r) \/ MaskDeleteError(r)
  BY <1>3 DEF Acknowledge, MaskDeleteError
<1>4. CASE \E r \in Requests :
              PrimaryFails(r) \/ BodyFails(r) \/ ClientGone(r)
  BY <1>4 DEF PrimaryFails, BodyFails, ClientGone, Abandon
<1>5. CASE \E r \in Requests : LateExecution(r)
  BY <1>5 DEF LateExecution, ExecuteAtHome, Execute
<1>6. CASE \E r \in Requests : Fetch(r) \/ FetchFails(r)
  BY <1>6 DEF Fetch, FetchFails
<1>7. CASE \E r \in Requests, b \in Backends :
              CopyApplies(r, b) \/ CopyFails(r, b)
  BY <1>7 DEF CopyApplies, CopyFails, Execute
<1>8. CASE UNCHANGED vars
  BY <1>8 DEF vars, procVars
<1> QED
  BY <1>1, <1>2, <1>3, <1>4, <1>5, <1>6, <1>7, <1>8
     DEF Next, Handler, Background, Restart

\* Until another request arrives an acknowledged one stays acknowledged and
\* in force where it is, unless older ones have writes to come there.
LEMMA LastStays ==
  ASSUME Inductive, Inductive', NEW r \in Requests, WriteStep(r),
         last \in Requests, phase[last] = "acked",
         home[last] \notin contested
  PROVE  /\ UNCHANGED <<last, contested>>
         /\ phase'[last] = "acked"
         /\ reached[last] \subseteq reached'[last]
         /\ reached'[last] \subseteq Backends
         /\ \A b \in reached[last] \ contested : store'[b] = store[b]
<1> USE DEF Inductive, TypeOK, ghostVars
<1>1. /\ UNCHANGED <<last, contested, home>>
      /\ phase'[last] = "acked"
      /\ reached[last] \subseteq reached'[last]
  <2>1. CASE Handler(r)
    BY <2>1 DEF Handler, PrimaryExecutes, ExecuteAtHome, Execute,
                Acknowledge, MaskDeleteError, PrimaryFails, Abandon,
                InHandler
  <2>2. CASE BodyFails(r) \/ ClientGone(r)
    BY <2>2 DEF BodyFails, ClientGone, Abandon, InHandler
  <2>3. CASE LateExecution(r)
    BY <2>3 DEF LateExecution, ExecuteAtHome, Execute
  <2>4. CASE Background(r)
    BY <2>4 DEF Background, Fetch, FetchFails, CopyApplies, CopyFails,
                Execute
  <2> QED
    BY <2>1, <2>2, <2>3, <2>4 DEF WriteStep
<1>2. last # NoRequest /\ reached'[last] \subseteq Backends
  BY <1>1
<1>3. \A b \in reached[last] \ contested : store[b] = Effect(last)
  BY <1>2 DEF UncontestedWriteHolds
<1>4. \A b \in reached'[last] \ contested : store'[b] = Effect(last)
  BY <1>1, <1>2 DEF UncontestedWriteHolds, Effect
<1> QED
  BY <1>1, <1>2, <1>3, <1>4

\* A read that asks the primary alone never needs another backend.
LEMMA FallbackStops ==
  ASSUME ReadTypeOK, NEW q \in Reads, Reflects(q),
         readMode = "PRIMARY_FALLBACK", AsksPrimaryOnly(read[q].op),
         NEW b \in Backends, Has(q, b)
  PROVE  R!EndsFallback(q, b)
<1>1. /\ b = primary
      /\ read[q].op # "list" \/ ~ IsRemote(b)
      /\ read[q].op \in R!Operations
  BY DEF Reflects, AsksPrimaryOnly, Has, ReadTypeOK, ReadStates
<1>2. \/ read[q].answers[b] = R!Truth(read[q].op, b)
      \/ IsRemote(b) /\ read[q].answers[b] = R!FailureSeen(read[q].op)
  BY DEF Reflects, Has, R!Delivered
<1> QED
  BY <1>1, <1>2
     DEF R!EndsFallback, R!Truth, R!FailureSeen, R!Operations, R!Ok,
         R!NotFound

\* Every backend that such a read asks holds its basis.
LEMMA AskedHoldBasis ==
  ASSUME Inductive, HomeStays, last \in Requests, NEW q \in Reads,
         Reflects(q)
  PROVE  /\ home[last] \notin contested
         /\ \A b \in read[q].tried :
               b \in reached[last] \ contested /\ store[b] = Effect(last)
<1>1. /\ home[last] = primary
      /\ primary \notin contested
      /\ \A b \in read[q].tried : b \in reached[last] \ contested
  BY DEF Reflects, HomeStays
<1>2. last # NoRequest
  BY AsyncAssumption
<1> QED
  BY <1>1, <1>2 DEF Inductive, UncontestedWriteHolds

\* What a read of a key is told shows its basis or nothing, and its basis if
\* it is a success or nothing fails.
LEMMA ToldShowsBasis ==
  ASSUME Inductive, HomeStays, ReadTypeOK, last \in Requests,
         NEW q \in Reads, Reflects(q), read[q].op # "bucket",
         NEW b \in Backends, read[q].answers[b] # R!NoAnswer
  PROVE  /\ read[q].answers[b].object \in {Effect(last), Nil}
         /\ read[q].answers[b].kind = "ok" =>
               read[q].answers[b].object = Effect(last)
         /\ ~ IsRemote(b) =>
               /\ read[q].answers[b].object = Effect(last)
               /\ read[q].answers[b] = R!Truth(read[q].op, b)
<1>1. store[b] = Effect(last)
  BY AskedHoldBasis DEF Reflects
<1>2. read[q].op \in {"object", "list"}
  BY DEF ReadTypeOK, ReadStates, R!Operations
<1>3. R!Truth(read[q].op, b).object = Effect(last)
  BY <1>1, <1>2 DEF R!Truth, R!Ok, R!NotFound
<1>4. /\ R!FailureSeen(read[q].op).object = Nil
      /\ R!FailureSeen(read[q].op).kind # "ok"
  BY DEF R!FailureSeen, R!Error, R!NotFound
<1> QED
  BY <1>3, <1>4 DEF Reflects

\* ALL_CONSISTENT over backends in memory only: the answers agree.
LEMMA MemoryAgrees ==
  ASSUME Inductive, HomeStays, ReadTypeOK, last \in Requests, NEW q \in Reads,
         Reflects(q), read[q].op # "bucket", S3Backends = {},
         Effect(last) # Nil, \A b \in Backends : Has(q, b)
  PROVE  R!Consistent(q)
<1>1. /\ primary \in Backends
      /\ read[q].op \in {"object", "list"}
      /\ \A b \in Backends : ~ IsRemote(b)
  BY DEF Inductive, TypeOK, ReadTypeOK, ReadStates, R!Operations, IsRemote
<1>2. \A b \in Backends : read[q].answers[b] = R!Truth(read[q].op, b)
  BY <1>1, ToldShowsBasis DEF Has, R!Delivered
<1>3. \A b \in Backends : store[b] = Effect(last)
  <2>1. \A b \in Backends : b \in read[q].tried
    BY DEF Reflects, Has
  <2> QED
    BY <2>1, AskedHoldBasis
<1> DEFINE tag == R!ETag(primary, Effect(last))
<1>4. \A b \in Backends : R!ETag(b, Effect(last)) = tag
  <2>1. ASSUME NEW b \in Backends
        PROVE  R!IsRemote(b) <=> R!IsRemote(primary)
    BY <1>1, SameList
  <2>2. ASSUME NEW b \in Backends
        PROVE  R!IsRemote(b) = R!IsRemote(primary)
    BY <2>1 DEF R!IsRemote
  <2> QED
    BY <2>2 DEF R!ETag
<1>5. \A b \in Backends :
         /\ read[q].answers[b].kind = "ok"
         /\ read[q].answers[b].etag = tag
  <2> HIDE DEF tag
  <2>1. \A b \in Backends : read[q].answers[b] = R!Ok(Effect(last), tag)
    BY <1>1, <1>2, <1>3, <1>4 DEF R!Truth
  <2> QED
    BY <2>1 DEF R!Ok
<1> QED
  BY <1>1, <1>5, SameList DEF R!Consistent

\* What may be returned to q.
Fits(q, a) ==
    /\ a.object \in {Effect(last), Nil}
    /\ a.kind = "ok" \/ Dependable(q) => a.object = Effect(last)

\* What a read of a key returns fits its basis, however it ends.
LEMMA EndFits ==
  ASSUME Inductive, HomeStays, ReadTypeOK, last \in Requests, NEW q \in Reads,
         Reflects(q), read[q].op # "bucket", read[q].phase = "asking",
         R!ReadStep(q), Ends(q), UNCHANGED <<store, primary>>
  PROVE  Fits(q, read'[q].result)
<1>1. TypeOK /\ primary \in Backends
  BY DEF Inductive, TypeOK
<1>2. ASSUME NEW b \in Backends, Has(q, b),
             read'[q].result = read[q].answers[b]
      PROVE  Fits(q, read'[q].result)
  <2>1. read[q].answers[b] # R!NoAnswer /\ b \in read[q].tried
    BY <1>2 DEF Has, R!Delivered, Reflects
  <2>2. Dependable(q) => ~ IsRemote(b)
    BY <2>1
       DEF Dependable, Reflects, AsksPrimaryOnly, PrimaryModes, IsRemote
  <2> QED
    BY <1>2, <2>1, <2>2, ToldShowsBasis DEF Fits
<1>3. CASE \E b \in Backends :
              Has(q, b) /\ read'[q].result = read[q].answers[b]
  BY <1>2, <1>3
<1>4. CASE /\ readMode = "PRIMARY_FALLBACK"
           /\ \E b \in Backends : Has(q, b) /\ ~ R!EndsFallback(q, b)
           /\ read'[q].result = R!AllFailed(read[q].op)
  <2>1. ~ AsksPrimaryOnly(read[q].op)
    BY <1>4, FallbackStops
  <2>2. IsRemote(primary)
    BY <1>4, <2>1 DEF AsksPrimaryOnly
  <2>3. ~ Dependable(q)
    BY <2>2 DEF Dependable, IsRemote
  <2>4. read'[q].result.object = Nil /\ read'[q].result.kind # "ok"
    BY <1>4 DEF R!AllFailed, R!Error, R!NotFound
  <2> QED
    BY <2>3, <2>4 DEF Fits
<1>5. CASE /\ readMode = "ALL_CONSISTENT"
           /\ \A b \in Backends : Has(q, b)
           /\ read'[q].result = IF R!Consistent(q)
                                THEN read[q].answers[primary] ELSE R!Error
  <2>1. CASE R!Consistent(q)
    BY <1>1, <1>2, <1>5, <2>1
  <2>2. CASE ~ R!Consistent(q)
    <3>1. read'[q].result.object = Nil /\ read'[q].result.kind # "ok"
      BY <1>5, <2>2 DEF R!Error
    <3>2. Dependable(q) => Effect(last) = Nil
      BY <1>5, <2>2, MemoryAgrees DEF Dependable, PrimaryModes
    <3> QED
      BY <3>1, <3>2 DEF Fits
  <2> QED
    BY <2>1, <2>2
<1>6. /\ ~ \E b \in Backends : R!Answer(q, b)
      /\ ~ Moves(q)
  BY <1>1, AnswerEffect DEF Ends, Moves
<1> QED
  BY <1>1, <1>3, <1>4, <1>5, <1>6, ReadStepKinds

\* A read that does not move reflects its basis as before.
LEMMA ReflectsStays ==
  ASSUME NEW q \in Reads, Reflects(q),
         read'[q] = read[q], basis'[q] = basis[q],
         UNCHANGED <<readMode, primary, last, contested>>,
         phase'[last] = "acked",
         reached[last] \subseteq reached'[last],
         reached'[last] \subseteq Backends,
         \A b \in reached[last] \ contested : store'[b] = store[b]
  PROVE  Reflects(q)'
<1>1. \A b \in read[q].tried :
         R!Truth(read[q].op, b)' = R!Truth(read[q].op, b)
  BY DEF Reflects, R!Truth, R!ETag
<1>2. AsksPrimaryOnly(read[q].op)' <=> AsksPrimaryOnly(read[q].op)
  BY DEF AsksPrimaryOnly
<1>3. \A b \in Backends :
         R!FailureSeen(read[q].op)' = R!FailureSeen(read[q].op)
  BY DEF R!FailureSeen
<1>4. \A b \in Backends :
         \/ read'[q].answers[b] = R!NoAnswer
         \/ /\ b \in read'[q].tried
            /\ \/ read'[q].answers[b] = R!Truth(read[q].op, b)'
               \/ /\ IsRemote(b)
                  /\ read'[q].answers[b] = R!FailureSeen(read[q].op)'
  BY <1>1, <1>3 DEF Reflects
<1>5. Done(q)' /\ read'[q].op # "bucket" =>
         /\ Returned(q)'.object \in {Effect(last), Nil}
         /\ Returned(q)'.kind = "ok" \/ Dependable(q)' =>
               Returned(q)'.object = Effect(last)
  BY DEF Reflects, Done, Returned, Dependable
<1>6. IF AsksPrimaryOnly(read[q].op)'
      THEN read'[q].tried = {primary} /\ primary \notin contested
      ELSE reached'[last] = Backends /\ contested = {}
  <2>1. CASE AsksPrimaryOnly(read[q].op)
    BY <1>2, <2>1 DEF Reflects
  <2>2. CASE ~ AsksPrimaryOnly(read[q].op)
    <3>1. reached[last] = Backends /\ contested = {}
      BY <2>2 DEF Reflects
    <3>2. reached'[last] = Backends
      BY <3>1
    <3> QED
      BY <1>2, <2>2, <3>1, <3>2
  <2> QED
    BY <2>1, <2>2
<1> QED
  BY <1>4, <1>5, <1>6 DEF Reflects

\* A read that arrives reflects what is settled for it.
LEMMA AskReflects ==
  ASSUME SettledInductive, NEW q \in Reads, NEW op \in R!Operations,
         Read(q, op), basis'[q] # NoRequest
  PROVE  Reflects(q)'
<1>1. /\ ReadTypeOK /\ TypeOK /\ primary \in Backends
      /\ UNCHANGED <<primary, store, last, contested, phase, reached>>
  BY DEF SettledInductive, Inductive, TypeOK, Read, vars, procVars,
         ghostVars
<1>2. /\ Only(q)
      /\ read[q].phase = "idle"
      /\ read'[q].phase = "asking"
      /\ read'[q].op = op
      /\ read'[q].waiting = R!FirstAsked
      /\ read'[q].tried = R!FirstAsked
      /\ read'[q].answers = read[q].answers
  BY <1>1, AskEffect DEF Read
<1>3. Settled(op) /\ basis'[q] = last
  BY DEF SettledInductive, Read
<1>4. /\ last \in Requests /\ phase[last] = "acked"
      /\ home[last] = primary
      /\ reached[last] \subseteq Backends
  BY <1>1, <1>3 DEF Settled, TypeOK, SettledInductive, HomeStays
<1>5. CASE AsksPrimaryOnly(op)
  <2>1. primary \in reached[last] /\ primary \notin contested
    BY <1>3, <1>4, <1>5
       DEF Settled, SettledInductive, Inductive, HomeStays, HomeReached
  <2>2. R!FirstAsked = {primary}
    BY <1>5 DEF AsksPrimaryOnly, R!FirstAsked
  <2> QED
    BY <1>1, <1>2, <1>3, <1>4, <1>5, <2>1, <2>2
       DEF Reflects, AsksPrimaryOnly, Only, SettledInductive,
           OnlyAskingWaits, Done
<1>6. CASE ~ AsksPrimaryOnly(op)
  <2>1. reached[last] = Backends /\ contested = {}
    BY <1>3, <1>6 DEF Settled
  <2>2. R!FirstAsked \subseteq Backends
    BY <1>1, SameList DEF R!FirstAsked
  <2> QED
    BY <1>1, <1>2, <1>3, <1>4, <1>6, <2>1, <2>2
       DEF Reflects, AsksPrimaryOnly, Only, SettledInductive,
           OnlyAskingWaits, Done
<1> QED
  BY <1>5, <1>6

\* Answers are true, and handlers go on only if another backend can help.
LEMMA ReadStepReflects ==
  ASSUME SettledInductive, NEW q \in Reads, ReadStep(q),
         basis[q] # NoRequest
  PROVE  Reflects(q)'
<1>1. /\ ReadTypeOK /\ TypeOK /\ Inductive /\ HomeStays /\ Reflects(q)
      /\ primary \in Backends
      /\ last \in Requests /\ last # NoRequest
      /\ reached[last] \subseteq Backends
      /\ R!ReadStep(q)
      /\ UNCHANGED <<primary, store, last, contested, phase, reached,
                     basis>>
  BY DEF SettledInductive, Inductive, TypeOK, ReadStep, vars, procVars,
         ghostVars, Reflects
<1>2. ASSUME Only(q), read'[q].op = read[q].op,
             read'[q].phase \in {"asking", "done"},
             read'[q].waiting \subseteq read'[q].tried,
             read'[q].tried \subseteq reached[last],
             AsksPrimaryOnly(read[q].op) => read'[q].tried = {primary},
             \A b \in Backends :
                \/ read'[q].answers[b] = R!NoAnswer
                \/ /\ b \in read'[q].tried
                   /\ \/ read'[q].answers[b] = R!Truth(read[q].op, b)
                      \/ /\ IsRemote(b)
                         /\ read'[q].answers[b] = R!FailureSeen(read[q].op),
             Done(q)' /\ read[q].op # "bucket" => Fits(q, read'[q].result)
      PROVE  Reflects(q)'
  <2>1. \A b \in Backends :
           R!Truth(read[q].op, b)' = R!Truth(read[q].op, b)
    BY <1>1, <1>2 DEF R!Truth, R!ETag
  <2>2. R!FailureSeen(read[q].op)' = R!FailureSeen(read[q].op)
    BY <1>2 DEF R!FailureSeen
  <2>3. IF AsksPrimaryOnly(read[q].op)'
        THEN read'[q].tried = {primary} /\ primary \notin contested
        ELSE reached[last] = Backends /\ contested = {}
    BY <1>1, <1>2 DEF AsksPrimaryOnly, Reflects, Only
  <2>4. Dependable(q)' <=> Dependable(q)
    BY <1>1, <1>2 DEF Dependable, Only
  <2>5. Done(q)' /\ read'[q].op # "bucket" =>
           /\ Returned(q)'.object \in {Effect(last), Nil}
           /\ Returned(q)'.kind = "ok" \/ Dependable(q)' =>
                 Returned(q)'.object = Effect(last)
    BY <1>2, <2>4 DEF Fits, Returned
  <2> QED
    BY <1>1, <1>2, <2>1, <2>2, <2>3, <2>5 DEF Reflects
<1>3. CASE \E b \in Backends : R!Answer(q, b)
  <2>1. PICK b \in Backends : R!Answer(q, b)
    BY <1>3
  <2>2. /\ Only(q)
        /\ b \in read[q].waiting
        /\ read'[q].phase = read[q].phase
        /\ read'[q].op = read[q].op
        /\ read'[q].waiting = read[q].waiting
        /\ read'[q].tried = read[q].tried
        /\ \A c \in Backends \ {b} : read'[q].answers[c] = read[q].answers[c]
        /\ \/ read'[q].answers[b] = R!Truth(read[q].op, b)
           \/ /\ IsRemote(b)
              /\ read'[q].answers[b] = R!FailureSeen(read[q].op)
    BY <1>1, <2>1, AnswerEffect
  <2>3. read[q].phase = "asking" /\ ~ Done(q)'
    BY <1>1, <2>2
       DEF SettledInductive, OnlyAskingWaits, ReadTypeOK, ReadStates, Done
  <2> QED
    BY <1>1, <1>2, <2>2, <2>3 DEF Reflects
<1>4. ASSUME NEW b \in Backends, Has(q, b)
      PROVE  read[q].phase = "asking"
  BY <1>4 DEF Has, SettledInductive, OnlyAskingWaits
<1>5. CASE Ends(q) /\ read[q].phase = "asking"
  <2>1. read[q].op # "bucket" => Fits(q, read'[q].result)
    BY <1>1, <1>5, EndFits
  <2> QED
    BY <1>1, <1>2, <1>5, <2>1 DEF Ends, Reflects
<1>6. CASE /\ Moves(q) /\ read[q].phase = "asking"
           /\ read'[q].waiting \subseteq read'[q].tried
           /\ read'[q].tried \subseteq reached[last]
           /\ read[q].tried \subseteq read'[q].tried
           /\ AsksPrimaryOnly(read[q].op) => read'[q].tried = {primary}
  <2>1. ~ Done(q)'
    BY <1>6 DEF Moves, Done
  <2> QED
    BY <1>1, <1>2, <1>6, <2>1 DEF Moves, Reflects
<1>7. CASE /\ Moves(q)
           /\ readMode = "PRIMARY_FALLBACK"
           /\ \E b \in Backends : Has(q, b) /\ ~ R!EndsFallback(q, b)
           /\ \E c \in Backends :
                 /\ read'[q].waiting = {c}
                 /\ read'[q].tried = read[q].tried \cup {c}
  <2>1. ~ AsksPrimaryOnly(read[q].op)
    BY <1>1, <1>7, FallbackStops
  <2>2. reached[last] = Backends
    BY <1>1, <2>1 DEF Reflects
  <2> QED
    BY <1>1, <1>4, <1>6, <1>7, <2>1, <2>2 DEF Reflects
<1>8. CASE /\ Moves(q)
           /\ readMode = "BEST_EFFORT"
           /\ \E b \in Backends :
                 Has(q, b) /\ read'[q].waiting = read[q].waiting \ {b}
           /\ read'[q].tried = read[q].tried
  BY <1>1, <1>4, <1>6, <1>8 DEF Reflects
<1> QED
  BY <1>1, <1>3, <1>4, <1>5, <1>7, <1>8, ReadStepKinds

\* The invariant holds at first.
LEMMA SettledInit == AsyncReadsInit => SettledInductive
<1> SUFFICES ASSUME AsyncReadsInit PROVE SettledInductive
  OBVIOUS
<1>1. RegisterInductive
  BY RegisterInitInductive
<1>2. HomeStays
  BY DEF AsyncReadsInit, Init, HomeStays
<1>3. /\ \A q \in Reads : read[q] = R!Idle
      /\ R!Idle.waiting = {}
      /\ \A b \in Backends : R!Idle.answers[b] = R!NoAnswer
  BY SameList DEF AsyncReadsInit, R!ReadInit, R!Idle
<1>4. OnlyAskingWaits
  BY <1>3 DEF OnlyAskingWaits
<1>5. basis = [q \in Reads |-> NoRequest]
  BY DEF AsyncReadsInit
<1> QED
  BY <1>1, <1>2, <1>4, <1>5 DEF SettledInductive, RegisterInductive

\* What only the steps of reads can break.
LEMMA WaitsStep ==
  ASSUME SettledInductive, [AsyncReadsNext]_allVars
  PROVE  ReadTypeOK' /\ OnlyAskingWaits'
<1>1. ReadTypeOK /\ TypeOK /\ primary \in Backends /\ OnlyAskingWaits
  BY DEF SettledInductive, Inductive, TypeOK
<1>2. CASE UNCHANGED <<readMode, read>>
  BY <1>1, <1>2 DEF ReadTypeOK, OnlyAskingWaits
<1>3. ASSUME NEW q \in Reads, Only(q),
             read'[q].phase # "asking" => read'[q].waiting = {},
             read'[q].phase # "idle"
      PROVE  ReadTypeOK' /\ OnlyAskingWaits'
  BY <1>1, <1>3 DEF Only, ReadTypeOK, OnlyAskingWaits
<1>4. CASE \E q \in Reads, op \in R!Operations : Read(q, op)
  <2>1. PICK q \in Reads, op \in R!Operations :
           R!Ask(q, op) /\ UNCHANGED primary
    BY <1>4 DEF Read, vars, procVars
  <2>2. Only(q) /\ read'[q].phase = "asking"
    BY <1>1, <2>1, AskEffect
  <2> QED
    BY <1>3, <2>2
<1>5. CASE \E q \in Reads : ReadStep(q)
  <2>1. PICK q \in Reads : R!ReadStep(q) /\ UNCHANGED <<store, primary>>
    BY <1>5 DEF ReadStep, vars, procVars
  <2>2. CASE \E b \in Backends : R!Answer(q, b)
    <3>1. PICK b \in Backends :
             /\ Only(q)
             /\ b \in read[q].waiting
             /\ read'[q].phase = read[q].phase
             /\ read'[q].waiting = read[q].waiting
      BY <1>1, <2>1, <2>2, AnswerEffect
    <3>2. read'[q].phase = "asking"
      BY <1>1, <3>1 DEF OnlyAskingWaits
    <3> QED
      BY <1>3, <3>1, <3>2
  <2>3. CASE Ends(q)
    BY <1>3, <2>3 DEF Ends
  <2>4. CASE Moves(q) /\ \E b \in Backends : Has(q, b)
    <3>1. read'[q].phase = "asking"
      BY <1>1, <2>4 DEF Moves, Has, OnlyAskingWaits
    <3> QED
      BY <1>3, <2>4, <3>1 DEF Moves
  <2> QED
    BY <1>1, <2>1, <2>2, <2>3, <2>4, ReadStepKinds
<1> QED
  BY <1>2, <1>4, <1>5 DEF AsyncReadsNext, Write, WriteStep, allVars

\* Every step preserves it.
LEMMA SettledStep ==
  SettledInductive /\ [AsyncReadsNext]_allVars => SettledInductive'
<1> SUFFICES ASSUME SettledInductive, [AsyncReadsNext]_allVars
             PROVE  SettledInductive'
  OBVIOUS
<1>1. Inductive /\ Inductive' /\ HomeStays'
  BY StepIsAsync, InductiveStep, HomeStaysStep DEF SettledInductive
<1>2. ReadTypeOK' /\ OnlyAskingWaits'
  BY WaitsStep
<1>3. /\ primary' = primary
      /\ last \in Requests \cup {NoRequest}
      /\ \A q \in Reads : basis[q] # NoRequest =>
            /\ Reflects(q)
            /\ basis[q] = last /\ last \in Requests
            /\ home[last] \notin contested /\ phase[last] = "acked"
            /\ reached[last] \subseteq Backends
  BY <1>1
     DEF SettledInductive, Inductive, TypeOK, HomeStays, Reflects
<1>4. SUFFICES /\ basis' \in [Reads -> Requests \cup {NoRequest}]
               /\ \A q \in Reads : basis'[q] # NoRequest => Reflects(q)'
  BY <1>1, <1>2 DEF SettledInductive
<1>5. CASE \E r \in Requests : Write(r)
  BY <1>5 DEF Write
<1>6. CASE \E r \in Requests : WriteStep(r)
  <2>1. PICK r \in Requests : WriteStep(r)
    BY <1>6
  <2>2. UNCHANGED <<readMode, read, basis>>
    BY <2>1 DEF WriteStep
  <2>3. ASSUME NEW q \in Reads, basis'[q] # NoRequest
        PROVE  Reflects(q)'
    <3>1. /\ Reflects(q)
          /\ last \in Requests /\ phase[last] = "acked"
          /\ home[last] \notin contested
      BY <1>3, <2>2, <2>3
    <3>2. /\ UNCHANGED <<last, contested>>
          /\ phase'[last] = "acked"
          /\ reached[last] \subseteq reached'[last]
          /\ reached'[last] \subseteq Backends
          /\ \A b \in reached[last] \ contested : store'[b] = store[b]
      BY <1>1, <2>1, <3>1, LastStays
    <3> QED
      BY <1>3, <2>2, <3>1, <3>2, ReflectsStays
  <2> QED
    BY <2>2, <2>3 DEF SettledInductive
<1>7. ASSUME NEW q \in Reads, Only(q), UNCHANGED vars,
             \A p \in Reads \ {q} : basis'[p] = basis[p],
             basis' \in [Reads -> Requests \cup {NoRequest}],
             basis'[q] # NoRequest => Reflects(q)'
      PROVE  /\ basis' \in [Reads -> Requests \cup {NoRequest}]
             /\ \A p \in Reads : basis'[p] # NoRequest => Reflects(p)'
  <2>1. ASSUME NEW p \in Reads \ {q}, basis'[p] # NoRequest
        PROVE  Reflects(p)'
    <3>1. /\ Reflects(p) /\ read'[p] = read[p] /\ basis'[p] = basis[p]
          /\ phase[last] = "acked" /\ reached[last] \subseteq Backends
          /\ UNCHANGED <<readMode, primary, last, contested, phase, reached,
                         store>>
      BY <1>3, <1>7, <2>1 DEF Only, vars, procVars, ghostVars
    <3> QED
      BY <3>1, ReflectsStays
  <2> QED
    BY <1>7, <2>1
<1>8. CASE \E q \in Reads, op \in R!Operations : Read(q, op)
  <2>1. PICK q \in Reads, op \in R!Operations : Read(q, op)
    BY <1>8
  <2>2. Only(q)
    BY <1>1, <1>3, <2>1, AskEffect DEF Read, SettledInductive, Inductive,
                                       TypeOK
  <2>3. basis'[q] # NoRequest => Reflects(q)'
    BY <2>1, AskReflects
  <2>4. /\ basis' \in [Reads -> Requests \cup {NoRequest}]
        /\ \A p \in Reads \ {q} : basis'[p] = basis[p]
    BY <1>3, <2>1 DEF Read, SettledInductive
  <2> QED
    BY <1>7, <2>1, <2>2, <2>3, <2>4 DEF Read
<1>9. CASE \E q \in Reads : ReadStep(q)
  <2>1. PICK q \in Reads : ReadStep(q)
    BY <1>9
  <2>2. TypeOK /\ ReadTypeOK /\ UNCHANGED <<store, primary, basis>>
    BY <2>1 DEF SettledInductive, Inductive, ReadStep, vars, procVars
  <2>3. Only(q)
    BY <2>1, <2>2, ReadStepKinds, AnswerEffect DEF ReadStep, Ends, Moves
  <2>4. basis'[q] # NoRequest => Reflects(q)'
    BY <2>1, <2>2, ReadStepReflects
  <2> QED
    BY <1>7, <2>1, <2>2, <2>3, <2>4 DEF ReadStep, SettledInductive
<1>10. CASE UNCHANGED allVars
  <2>1. ASSUME NEW q \in Reads, basis'[q] # NoRequest
        PROVE  Reflects(q)'
    <3>1. /\ Reflects(q) /\ read'[q] = read[q] /\ basis'[q] = basis[q]
          /\ phase[last] = "acked" /\ reached[last] \subseteq Backends
          /\ UNCHANGED <<readMode, primary, last, contested, phase, reached,
                         store>>
      BY <1>3, <1>10, <2>1 DEF allVars, vars, procVars, ghostVars
    <3> QED
      BY <3>1, ReflectsStays
  <2> QED
    BY <1>10, <2>1 DEF allVars, SettledInductive
<1> QED
  BY <1>5, <1>6, <1>8, <1>9, <1>10 DEF AsyncReadsNext

\* In every state the reads reflect what was settled when they arrived.
THEOREM SettledInvariant == AsyncReadsSpec => []SettledInductive
BY SettledInit, SettledStep, PTL DEF AsyncReadsSpec

\* A read that starts once the last write is settled for its mode, whichever
\* mode and whatever kind of primary, returns that write, or fails if a backend
\* does (put_object.rs:43-51, delete_object.rs:18-27,
\* get_object.rs:19-48, list_objects.rs:21-140).
THEOREM ReadsSeeSettledWrites == AsyncReadsSpec => []ReadsSeeSettledWrite
<1>1. SettledInductive => ReadsSeeSettledWrite
  <2> SUFFICES ASSUME SettledInductive, NEW q \in Reads, Done(q),
                      basis[q] # NoRequest, read[q].op # "bucket"
               PROVE  /\ Returned(q).object \in {Effect(basis[q]), Nil}
                      /\ Returned(q).kind = "ok" \/ Dependable(q) =>
                            Returned(q).object = Effect(basis[q])
    BY DEF ReadsSeeSettledWrite
  <2> QED
    BY DEF SettledInductive, Reflects
<1> QED
  BY SettledInvariant, <1>1, PTL

=============================================================================
