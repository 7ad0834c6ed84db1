----------------------- MODULE AsyncReplicationProofs -----------------------
(***************************************************************************)
(* Proofs about AsyncReplication: its type invariant and its safety        *)
(* properties, for any number of backends of either kind, any sets of      *)
(* requests, with and without restarts and latency-based primaries.        *)
(*                                                                         *)
(* Inductive is the invariant; one lemma per conjunct, in its order, and   *)
(* in each lemma one step per action that can disturb the conjunct.        *)
(***************************************************************************)
EXTENDS AsyncReplication, TLAPS

USE BackendsAssumption, AsyncAssumption

\* The initial state satisfies the invariant.
LEMMA InitInductive == Init => Inductive
<1> SUFFICES ASSUME Init PROVE Inductive
  OBVIOUS
<1>1. TypeOK
  BY DEF Init, TypeOK, Objects, Phases, Requests, Backends
<1>2. ReplicasHoldOnlyPrimaryValues /\ UncontestedWriteHolds
  BY DEF Init, ReplicasHoldOnlyPrimaryValues, UncontestedWriteHolds
<1>3. IdleIsUntouched /\ HomeReached
  BY DEF Init, IdleIsUntouched, HomeReached, Active, InHandler
<1>4. RivalsAreConfined /\ OwnCopies
  BY DEF Init, RivalsAreConfined, OwnCopies, Requests
<1> QED
  BY <1>1, <1>2, <1>3, <1>4 DEF Inductive

\* Types; the step of interest is Receive, which moves home[r]: a request that
\* has not arrived has nothing pending (IdleIsUntouched).
LEMMA TypeStep ==
  ASSUME Inductive, [Next]_vars
  PROVE  TypeOK'
<1> USE DEF Inductive, TypeOK, ghostVars, Objects, Phases
<1>1. CASE \E r \in Requests : Receive(r)
  <2>1. PICK r \in Requests : Receive(r)
    BY <1>1
  <2>2. contested' \subseteq Backends
    BY <2>1 DEF Receive, NoteArrival, MayWrite
  <2> QED
    BY <2>1, <2>2 DEF Receive, NoteArrival, IdleIsUntouched, Active
<1>2. CASE \E r \in Requests : PrimaryExecutes(r)
  BY <1>2 DEF PrimaryExecutes, ExecuteAtHome, Execute, Effect, Requests
<1>3. CASE \E r \in Requests : Acknowledge(r)
  BY <1>3 DEF Acknowledge, Spawn
<1>4. CASE \E r \in Requests : MaskDeleteError(r)
  BY <1>4 DEF MaskDeleteError, Spawn
<1>5. CASE \E r \in Requests : PrimaryFails(r) \/ ClientGone(r)
  BY <1>5 DEF PrimaryFails, ClientGone, Abandon
<1>6. CASE \E r \in Requests : BodyFails(r)
  BY <1>6 DEF BodyFails
<1>7. CASE \E r \in Requests : LateExecution(r)
  BY <1>7 DEF LateExecution, ExecuteAtHome, Execute, Effect, Requests
<1>8. CASE \E r \in Requests : Fetch(r)
  BY <1>8 DEF Fetch
<1>9. CASE \E r \in Requests : FetchFails(r)
  BY <1>9 DEF FetchFails
<1>10. CASE \E r \in Requests, b \in Backends : CopyApplies(r, b)
  BY <1>10 DEF CopyApplies, Execute, CopyOf
<1>11. CASE \E r \in Requests, b \in Backends : CopyFails(r, b)
  BY <1>11 DEF CopyFails
<1>12. CASE Restart
  BY <1>12 DEF Restart, InHandler, IsRemote
<1>13. CASE UNCHANGED vars
  BY <1>13 DEF vars, procVars
<1> QED
  BY <1>1, <1>2, <1>3, <1>4, <1>5, <1>6, <1>7, <1>8, <1>9, <1>10, <1>11, <1>12,
     <1>13
     DEF Next, Handler, Background

\* An object spreads only from a primary that executed its PUT: Fetch reads a
\* backend, whose object is in held already, and CopyApplies writes what Fetch
\* read.
LEMMA HeldStep ==
  ASSUME Inductive, [Next]_vars
  PROVE  ReplicasHoldOnlyPrimaryValues'
<1> USE DEF Inductive, TypeOK, ghostVars, ReplicasHoldOnlyPrimaryValues,
            Effect, CopyOf, Requests
<1>1. CASE \E r \in Requests : Receive(r)
  BY <1>1 DEF Receive, NoteArrival
<1>2. CASE \E r \in Requests : PrimaryExecutes(r)
  BY <1>2 DEF PrimaryExecutes, ExecuteAtHome, Execute
<1>3. CASE \E r \in Requests : Acknowledge(r)
  BY <1>3 DEF Acknowledge, Spawn
<1>4. CASE \E r \in Requests : MaskDeleteError(r)
  BY <1>4 DEF MaskDeleteError, Spawn
<1>5. CASE \E r \in Requests : PrimaryFails(r) \/ ClientGone(r)
  BY <1>5 DEF PrimaryFails, ClientGone, Abandon
<1>6. CASE \E r \in Requests : BodyFails(r)
  BY <1>6 DEF BodyFails
<1>7. CASE \E r \in Requests : LateExecution(r)
  BY <1>7 DEF LateExecution, ExecuteAtHome, Execute
<1>8. CASE \E r \in Requests : Fetch(r)
  BY <1>8 DEF Fetch
<1>9. CASE \E r \in Requests : FetchFails(r)
  BY <1>9 DEF FetchFails
<1>10. CASE \E r \in Requests, b \in Backends : CopyApplies(r, b)
  BY <1>10 DEF CopyApplies, Execute
<1>11. CASE \E r \in Requests, b \in Backends : CopyFails(r, b)
  BY <1>11 DEF CopyFails
<1>12. CASE Restart
  BY <1>12 DEF Restart
<1>13. CASE UNCHANGED vars
  BY <1>13 DEF vars, procVars
<1> QED
  BY <1>1, <1>2, <1>3, <1>4, <1>5, <1>6, <1>7, <1>8, <1>9, <1>10, <1>11, <1>12,
     <1>13
     DEF Next, Handler, Background

\* On a backend that is not contested only the last request writes, by
\* RivalsAreConfined; a copy of it is its own object by OwnCopies.
LEMMA UncontestedStep ==
  ASSUME Inductive, [Next]_vars
  PROVE  UncontestedWriteHolds'
<1> USE DEF Inductive, TypeOK, ghostVars, UncontestedWriteHolds,
            RivalsAreConfined, Effect, Active, InHandler, MayWrite
<1>1. CASE \E r \in Requests : Receive(r)
  BY <1>1 DEF Receive, NoteArrival, IdleIsUntouched
<1>2. CASE \E r \in Requests : PrimaryExecutes(r)
  BY <1>2 DEF PrimaryExecutes, ExecuteAtHome, Execute
<1>3. CASE \E r \in Requests : Acknowledge(r)
  BY <1>3 DEF Acknowledge, Spawn
<1>4. CASE \E r \in Requests : MaskDeleteError(r)
  BY <1>4 DEF MaskDeleteError, Spawn
<1>5. CASE \E r \in Requests : PrimaryFails(r) \/ ClientGone(r)
  BY <1>5 DEF PrimaryFails, ClientGone, Abandon
<1>6. CASE \E r \in Requests : BodyFails(r)
  BY <1>6 DEF BodyFails
<1>7. CASE \E r \in Requests : LateExecution(r)
  BY <1>7 DEF LateExecution, ExecuteAtHome, Execute
<1>8. CASE \E r \in Requests : Fetch(r)
  BY <1>8 DEF Fetch
<1>9. CASE \E r \in Requests : FetchFails(r)
  BY <1>9 DEF FetchFails
<1>10. CASE \E r \in Requests, b \in Backends : CopyApplies(r, b)
  BY <1>10 DEF CopyApplies, Execute, CopyOf, OwnCopies, Requests,
               Objects
<1>11. CASE \E r \in Requests, b \in Backends : CopyFails(r, b)
  BY <1>11 DEF CopyFails
<1>12. CASE Restart
  BY <1>12 DEF Restart, IsRemote
<1>13. CASE UNCHANGED vars
  BY <1>13 DEF vars, procVars
<1> QED
  BY <1>1, <1>2, <1>3, <1>4, <1>5, <1>6, <1>7, <1>8, <1>9, <1>10, <1>11, <1>12,
     <1>13
     DEF Next, Handler, Background

\* Nothing but Receive touches a request that has not arrived.
LEMMA IdleStep ==
  ASSUME Inductive, [Next]_vars
  PROVE  IdleIsUntouched'
<1> USE DEF Inductive, TypeOK, ghostVars, IdleIsUntouched, Active, InHandler
<1>1. CASE \E r \in Requests : Receive(r)
  BY <1>1 DEF Receive, NoteArrival
<1>2. CASE \E r \in Requests : PrimaryExecutes(r)
  BY <1>2 DEF PrimaryExecutes, ExecuteAtHome, Execute
<1>3. CASE \E r \in Requests : Acknowledge(r)
  BY <1>3 DEF Acknowledge, Spawn
<1>4. CASE \E r \in Requests : MaskDeleteError(r)
  BY <1>4 DEF MaskDeleteError, Spawn
<1>5. CASE \E r \in Requests : PrimaryFails(r) \/ ClientGone(r)
  BY <1>5 DEF PrimaryFails, ClientGone, Abandon
<1>6. CASE \E r \in Requests : BodyFails(r)
  BY <1>6 DEF BodyFails
<1>7. CASE \E r \in Requests : LateExecution(r)
  BY <1>7 DEF LateExecution, ExecuteAtHome, Execute
<1>8. CASE \E r \in Requests : Fetch(r)
  BY <1>8 DEF Fetch
<1>9. CASE \E r \in Requests : FetchFails(r)
  BY <1>9 DEF FetchFails
<1>10. CASE \E r \in Requests, b \in Backends : CopyApplies(r, b)
  BY <1>10 DEF CopyApplies, Execute
<1>11. CASE \E r \in Requests, b \in Backends : CopyFails(r, b)
  BY <1>11 DEF CopyFails
<1>12. CASE Restart
  BY <1>12 DEF Restart
<1>13. CASE UNCHANGED vars
  BY <1>13 DEF vars, procVars
<1> QED
  BY <1>1, <1>2, <1>3, <1>4, <1>5, <1>6, <1>7, <1>8, <1>9, <1>10, <1>11, <1>12,
     <1>13
     DEF Next, Handler, Background

\* The primary executes before the handler goes on; a restart takes reached
\* away from in-memory backends only, and with it every handler and every
\* fetch.
LEMMA HomeStep ==
  ASSUME Inductive, [Next]_vars
  PROVE  HomeReached'
<1> USE DEF Inductive, TypeOK, ghostVars, HomeReached, IdleIsUntouched, Active,
            InHandler, IsRemote
<1>1. CASE \E r \in Requests : Receive(r)
  BY <1>1 DEF Receive, NoteArrival
<1>2. CASE \E r \in Requests : PrimaryExecutes(r)
  BY <1>2 DEF PrimaryExecutes, ExecuteAtHome, Execute
<1>3. CASE \E r \in Requests : Acknowledge(r)
  BY <1>3 DEF Acknowledge, Spawn
<1>4. CASE \E r \in Requests : MaskDeleteError(r)
  BY <1>4 DEF MaskDeleteError, Spawn, Requests
<1>5. CASE \E r \in Requests : PrimaryFails(r) \/ ClientGone(r)
  BY <1>5 DEF PrimaryFails, ClientGone, Abandon
<1>6. CASE \E r \in Requests : BodyFails(r)
  BY <1>6 DEF BodyFails
<1>7. CASE \E r \in Requests : LateExecution(r)
  BY <1>7 DEF LateExecution, ExecuteAtHome, Execute
<1>8. CASE \E r \in Requests : Fetch(r)
  BY <1>8 DEF Fetch
<1>9. CASE \E r \in Requests : FetchFails(r)
  BY <1>9 DEF FetchFails
<1>10. CASE \E r \in Requests, b \in Backends : CopyApplies(r, b)
  BY <1>10 DEF CopyApplies, Execute
<1>11. CASE \E r \in Requests, b \in Backends : CopyFails(r, b)
  BY <1>11 DEF CopyFails
<1>12. CASE Restart
  BY <1>12 DEF Restart
<1>13. CASE UNCHANGED vars
  BY <1>13 DEF vars, procVars
<1> QED
  BY <1>1, <1>2, <1>3, <1>4, <1>5, <1>6, <1>7, <1>8, <1>9, <1>10, <1>11, <1>12,
     <1>13
     DEF Next, Handler, Background

\* No step but Receive adds to what a request may write.
LEMMA RivalsStep ==
  ASSUME Inductive, [Next]_vars
  PROVE  RivalsAreConfined'
<1> USE DEF Inductive, TypeOK, ghostVars, RivalsAreConfined, IdleIsUntouched,
            Active, InHandler, MayWrite
<1>1. CASE \E r \in Requests : Receive(r)
  BY <1>1 DEF Receive, NoteArrival
<1>2. CASE \E r \in Requests : PrimaryExecutes(r)
  BY <1>2 DEF PrimaryExecutes, ExecuteAtHome, Execute
<1>3. CASE \E r \in Requests : Acknowledge(r)
  BY <1>3 DEF Acknowledge, Spawn
<1>4. CASE \E r \in Requests : MaskDeleteError(r)
  BY <1>4 DEF MaskDeleteError, Spawn
<1>5. CASE \E r \in Requests : PrimaryFails(r) \/ ClientGone(r)
  BY <1>5 DEF PrimaryFails, ClientGone, Abandon
<1>6. CASE \E r \in Requests : BodyFails(r)
  BY <1>6 DEF BodyFails
<1>7. CASE \E r \in Requests : LateExecution(r)
  BY <1>7 DEF LateExecution, ExecuteAtHome, Execute
<1>8. CASE \E r \in Requests : Fetch(r)
  BY <1>8 DEF Fetch
<1>9. CASE \E r \in Requests : FetchFails(r)
  BY <1>9 DEF FetchFails
<1>10. CASE \E r \in Requests, b \in Backends : CopyApplies(r, b)
  BY <1>10 DEF CopyApplies, Execute
<1>11. CASE \E r \in Requests, b \in Backends : CopyFails(r, b)
  BY <1>11 DEF CopyFails
<1>12. CASE Restart
  BY <1>12 DEF Restart
<1>13. CASE UNCHANGED vars
  BY <1>13 DEF vars, procVars
<1> QED
  BY <1>1, <1>2, <1>3, <1>4, <1>5, <1>6, <1>7, <1>8, <1>9, <1>10, <1>11, <1>12,
     <1>13
     DEF Next, Handler, Background

\* Fetch of a PUT whose primary is not contested finds its own object there.
LEMMA OwnCopiesStep ==
  ASSUME Inductive, [Next]_vars
  PROVE  OwnCopies'
<1> USE DEF Inductive, TypeOK, ghostVars, OwnCopies, RivalsAreConfined,
            IdleIsUntouched, Active, InHandler, MayWrite, Requests
<1>1. CASE \E r \in Requests : Receive(r)
  BY <1>1 DEF Receive, NoteArrival
<1>2. CASE \E r \in Requests : PrimaryExecutes(r)
  BY <1>2 DEF PrimaryExecutes, ExecuteAtHome, Execute
<1>3. CASE \E r \in Requests : Acknowledge(r)
  BY <1>3 DEF Acknowledge, Spawn
<1>4. CASE \E r \in Requests : MaskDeleteError(r)
  BY <1>4 DEF MaskDeleteError, Spawn
<1>5. CASE \E r \in Requests : PrimaryFails(r) \/ ClientGone(r)
  BY <1>5 DEF PrimaryFails, ClientGone, Abandon
<1>6. CASE \E r \in Requests : BodyFails(r)
  BY <1>6 DEF BodyFails
<1>7. CASE \E r \in Requests : LateExecution(r)
  BY <1>7 DEF LateExecution, ExecuteAtHome, Execute
<1>8. CASE \E r \in Requests : Fetch(r)
  BY <1>8 DEF Fetch, UncontestedWriteHolds, HomeReached, Effect
<1>9. CASE \E r \in Requests : FetchFails(r)
  BY <1>9 DEF FetchFails
<1>10. CASE \E r \in Requests, b \in Backends : CopyApplies(r, b)
  BY <1>10 DEF CopyApplies, Execute
<1>11. CASE \E r \in Requests, b \in Backends : CopyFails(r, b)
  BY <1>11 DEF CopyFails
<1>12. CASE Restart
  BY <1>12 DEF Restart
<1>13. CASE UNCHANGED vars
  BY <1>13 DEF vars, procVars
<1> QED
  BY <1>1, <1>2, <1>3, <1>4, <1>5, <1>6, <1>7, <1>8, <1>9, <1>10, <1>11, <1>12,
     <1>13
     DEF Next, Handler, Background

\* Every step preserves the invariant.
LEMMA InductiveStep == Inductive /\ [Next]_vars => Inductive'
BY TypeStep, HeldStep, UncontestedStep, IdleStep, HomeStep, RivalsStep,
   OwnCopiesStep DEF Inductive

\* Inductive is an invariant of AsyncReplication.
THEOREM InductiveInvariant == Spec => []Inductive
<1>1. Init => Inductive
  BY InitInductive
<1>2. Inductive /\ [Next]_vars => Inductive'
  BY InductiveStep
<1> QED
  BY <1>1, <1>2, PTL DEF Spec

\* Type correctness; and no background task has its own primary to write.
THEOREM TypeCorrect == Spec => []TypeOK
<1>1. Inductive => TypeOK
  BY DEF Inductive
<1> QED
  BY <1>1, InductiveInvariant, PTL

\* A replica never holds an object that its request's primary did not store
\* first: put_object.rs:122-134 copies from the primary, after its success.
THEOREM ReplicasFollowPrimary == Spec => []ReplicasHoldOnlyPrimaryValues
<1>1. Inductive => ReplicasHoldOnlyPrimaryValues
  BY DEF Inductive
<1> QED
  BY <1>1, InductiveInvariant, PTL

\* Every backend that the last request got to, and where no older request had
\* a write to come when it arrived, holds its effect, for any number of
\* backends, requests and restarts.
THEOREM UncontestedWritesHold == Spec => []UncontestedWriteHolds
<1>1. Inductive => UncontestedWriteHolds
  BY DEF Inductive
<1> QED
  BY <1>1, InductiveInvariant, PTL

\* An acknowledged PUT is on the remote backend that served it as primary,
\* through any number of restarts, until another request arrives, unless an
\* older one had that very primary to write when it arrived.
THEOREM AckedWritesSurvive == Spec => []AckedWriteSurvives
<1>1. Inductive => AckedWriteSurvives
  BY DEF Inductive, UncontestedWriteHolds, HomeReached, AckedWriteSurvives,
         Effect, Requests
<1> QED
  BY <1>1, InductiveInvariant, PTL

=============================================================================
