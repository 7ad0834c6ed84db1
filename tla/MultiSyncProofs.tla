--------------------------- MODULE MultiSyncProofs ---------------------------
(***************************************************************************)
(* Proofs about MultiSync: its type invariant and what an acknowledgement  *)
(* means, for any number of backends of either kind, any sets of requests, *)
(* with and without restarts and disconnections.                           *)
(*                                                                         *)
(* Inductive is the invariant; one lemma per conjunct, in its order, and   *)
(* in each lemma one step per action.                                      *)
(***************************************************************************)
EXTENDS MultiSync, TLAPS

USE BackendsAssumption, MultiSyncAssumption

\* The initial state satisfies the invariant.
LEMMA InitInductive == Init => Inductive
<1> SUFFICES ASSUME Init PROVE Inductive
  OBVIOUS
<1>1. TypeOK
  BY DEF Init, TypeOK, Objects, Phases, Parts
<1>2. IdleIsUntouched /\ StreamingIsUnstored /\ OnlyGoneAreCut
  BY DEF Init, IdleIsUntouched, StreamingIsUnstored, OnlyGoneAreCut
<1>3. RivalsAreConfined /\ UncontestedResultHolds
  BY DEF Init, RivalsAreConfined, UncontestedResultHolds
<1>4. SuccessIsExecuted /\ AckedBySuccess
  BY DEF Init, SuccessIsExecuted, AckedBySuccess
<1> QED
  BY <1>1, <1>2, <1>3, <1>4 DEF Inductive

\* Types.
LEMMA TypeStep ==
  ASSUME Inductive, [Next]_vars
  PROVE  TypeOK'
<1> USE DEF Inductive, TypeOK, ghostVars, Parts, Objects, Phases,
            Requests, Result, InHandler
<1>1. CASE \E r \in Requests : Receive(r)
  <2>1. PICK r \in Requests : Receive(r)
    BY <1>1
  <2>2. part' \in [Requests -> [Backends -> Parts]]
    BY <2>1 DEF Receive
  <2>3. contested' \subseteq Backends
    BY <2>1 DEF Receive, MayWrite
  <2> QED
    BY <2>1, <2>2, <2>3 DEF Receive
<1>2. CASE \E r \in Requests : BodyEnds(r)
  BY <1>2 DEF BodyEnds
<1>3. CASE \E r \in Requests : BodyFails(r)
  BY <1>3 DEF BodyFails
<1>4. CASE \E r \in Requests : Join(r)
  BY <1>4 DEF Join, Answered
<1>5. CASE \E r \in Requests : ClientGone(r)
  <2>1. PICK r \in Requests : ClientGone(r)
    BY <1>5
  <2>2. part' \in [Requests -> [Backends -> Parts]]
    BY <2>1 DEF ClientGone
  <2>3. cut' \in [Requests -> SUBSET Backends]
    BY <2>1 DEF ClientGone
  <2>4. doubt' \in [Requests -> SUBSET S3Backends]
    BY <2>1 DEF ClientGone
  <2> QED
    BY <2>1, <2>2, <2>3, <2>4 DEF ClientGone
<1>6. CASE \E r \in Requests, b \in Backends : PartApplies(r, b)
  BY <1>6 DEF PartApplies, Execute
<1>7. CASE \E r \in Requests, b \in Backends : PartSucceeds(r, b)
  BY <1>7 DEF PartSucceeds
<1>8. CASE \E r \in Requests, b \in Backends : PartFails(r, b)
  <2>1. PICK r \in Requests, b \in Backends : PartFails(r, b)
    BY <1>8
  <2>2. part' \in [Requests -> [Backends -> Parts]]
    BY <2>1 DEF PartFails, ErrorSeen
  <2>3. doubt' \in [Requests -> SUBSET S3Backends]
    BY <2>1 DEF PartFails, IsRemote
  <2> QED
    BY <2>1, <2>2, <2>3 DEF PartFails
<1>9. CASE \E r \in Requests, b \in Backends : LateExecution(r, b)
  <2>1. PICK r \in Requests, b \in Backends : LateExecution(r, b)
    BY <1>9
  <2>2. doubt' \in [Requests -> SUBSET S3Backends]
    BY <2>1 DEF LateExecution
  <2>3. CASE Execute(r, b)
    BY <2>1, <2>2, <2>3 DEF LateExecution, Execute
  <2>4. CASE UNCHANGED <<store, ghostVars>>
    BY <2>1, <2>2, <2>4 DEF LateExecution
  <2> QED
    BY <2>1, <2>3, <2>4 DEF LateExecution
<1>10. CASE Restart
  BY <1>10 DEF Restart
<1>11. CASE UNCHANGED vars
  BY <1>11 DEF vars, procVars
<1> QED
  BY <1>1, <1>2, <1>3, <1>4, <1>5, <1>6, <1>7, <1>8, <1>9,
     <1>10, <1>11
     DEF Next, Handler, Part

\* Nothing but Receive touches a request that has not arrived.
LEMMA IdleStep ==
  ASSUME Inductive, [Next]_vars
  PROVE  IdleIsUntouched'
<1> USE DEF Inductive, TypeOK, ghostVars, Parts,
            IdleIsUntouched, Active, InHandler
<1>1. CASE \E r \in Requests : Receive(r)
  BY <1>1 DEF Receive
<1>2. CASE \E r \in Requests : BodyEnds(r)
  BY <1>2 DEF BodyEnds
<1>3. CASE \E r \in Requests : BodyFails(r)
  BY <1>3 DEF BodyFails
<1>4. CASE \E r \in Requests : Join(r)
  BY <1>4 DEF Join, Answered
<1>5. CASE \E r \in Requests : ClientGone(r)
  BY <1>5 DEF ClientGone
<1>6. CASE \E r \in Requests, b \in Backends : PartApplies(r, b)
  BY <1>6 DEF PartApplies, Execute
<1>7. CASE \E r \in Requests, b \in Backends : PartSucceeds(r, b)
  BY <1>7 DEF PartSucceeds
<1>8. CASE \E r \in Requests, b \in Backends : PartFails(r, b)
  BY <1>8 DEF PartFails, ErrorSeen
<1>9. CASE \E r \in Requests, b \in Backends : LateExecution(r, b)
  BY <1>9 DEF LateExecution, Execute
<1>10. CASE Restart
  BY <1>10 DEF Restart
<1>11. CASE UNCHANGED vars
  BY <1>11 DEF vars, procVars
<1> QED
  BY <1>1, <1>2, <1>3, <1>4, <1>5, <1>6, <1>7, <1>8, <1>9,
     <1>10, <1>11
     DEF Next, Handler, Part

\* No backend executes a PUT, and none is in doubt about it, before the end of
\* its body.
LEMMA StreamingStep ==
  ASSUME Inductive, [Next]_vars
  PROVE  StreamingIsUnstored'
<1> USE DEF Inductive, TypeOK, ghostVars, Parts,
            StreamingIsUnstored, IdleIsUntouched, InHandler
<1>1. CASE \E r \in Requests : Receive(r)
  BY <1>1 DEF Receive
<1>2. CASE \E r \in Requests : BodyEnds(r)
  BY <1>2 DEF BodyEnds
<1>3. CASE \E r \in Requests : BodyFails(r)
  BY <1>3 DEF BodyFails
<1>4. CASE \E r \in Requests : Join(r)
  BY <1>4 DEF Join, Answered
<1>5. CASE \E r \in Requests : ClientGone(r)
  BY <1>5 DEF ClientGone
<1>6. CASE \E r \in Requests, b \in Backends : PartApplies(r, b)
  BY <1>6 DEF PartApplies, Execute
<1>7. CASE \E r \in Requests, b \in Backends : PartSucceeds(r, b)
  BY <1>7 DEF PartSucceeds
<1>8. CASE \E r \in Requests, b \in Backends : PartFails(r, b)
  BY <1>8 DEF PartFails, ErrorSeen
<1>9. CASE \E r \in Requests, b \in Backends : LateExecution(r, b)
  BY <1>9 DEF LateExecution, Execute
<1>10. CASE Restart
  BY <1>10 DEF Restart
<1>11. CASE UNCHANGED vars
  BY <1>11 DEF vars, procVars
<1> QED
  BY <1>1, <1>2, <1>3, <1>4, <1>5, <1>6, <1>7, <1>8, <1>9,
     <1>10, <1>11
     DEF Next, Handler, Part

\* Only ClientGone cuts a body, and it ends the handler; a handler that has
\* gone stays so.
LEMMA CutStep ==
  ASSUME Inductive, [Next]_vars
  PROVE  OnlyGoneAreCut'
<1> USE DEF Inductive, TypeOK, ghostVars, Parts,
            OnlyGoneAreCut, IdleIsUntouched, InHandler
<1>1. CASE \E r \in Requests : Receive(r)
  BY <1>1 DEF Receive
<1>2. CASE \E r \in Requests : BodyEnds(r)
  BY <1>2 DEF BodyEnds
<1>3. CASE \E r \in Requests : BodyFails(r)
  BY <1>3 DEF BodyFails
<1>4. CASE \E r \in Requests : Join(r)
  BY <1>4 DEF Join, Answered
<1>5. CASE \E r \in Requests : ClientGone(r)
  BY <1>5 DEF ClientGone
<1>6. CASE \E r \in Requests, b \in Backends : PartApplies(r, b)
  BY <1>6 DEF PartApplies, Execute
<1>7. CASE \E r \in Requests, b \in Backends : PartSucceeds(r, b)
  BY <1>7 DEF PartSucceeds
<1>8. CASE \E r \in Requests, b \in Backends : PartFails(r, b)
  BY <1>8 DEF PartFails, ErrorSeen
<1>9. CASE \E r \in Requests, b \in Backends : LateExecution(r, b)
  BY <1>9 DEF LateExecution, Execute
<1>10. CASE Restart
  BY <1>10 DEF Restart
<1>11. CASE UNCHANGED vars
  BY <1>11 DEF vars, procVars
<1> QED
  BY <1>1, <1>2, <1>3, <1>4, <1>5, <1>6, <1>7, <1>8, <1>9,
     <1>10, <1>11
     DEF Next, Handler, Part

\* No step but Receive adds to what a request may write.
LEMMA RivalsStep ==
  ASSUME Inductive, [Next]_vars
  PROVE  RivalsAreConfined'
<1> USE DEF Inductive, TypeOK, ghostVars, Parts,
            RivalsAreConfined, IdleIsUntouched, StreamingIsUnstored,
            MayWrite, InHandler
<1>1. CASE \E r \in Requests : Receive(r)
  BY <1>1 DEF Receive
<1>2. CASE \E r \in Requests : BodyEnds(r)
  BY <1>2 DEF BodyEnds
<1>3. CASE \E r \in Requests : BodyFails(r)
  BY <1>3 DEF BodyFails
<1>4. CASE \E r \in Requests : Join(r)
  BY <1>4 DEF Join, Answered
<1>5. CASE \E r \in Requests : ClientGone(r)
  BY <1>5 DEF ClientGone
<1>6. CASE \E r \in Requests, b \in Backends : PartApplies(r, b)
  BY <1>6 DEF PartApplies, Execute
<1>7. CASE \E r \in Requests, b \in Backends : PartSucceeds(r, b)
  BY <1>7 DEF PartSucceeds
<1>8. CASE \E r \in Requests, b \in Backends : PartFails(r, b)
  BY <1>8 DEF PartFails, ErrorSeen
<1>9. CASE \E r \in Requests, b \in Backends : LateExecution(r, b)
  BY <1>9 DEF LateExecution, Execute
<1>10. CASE Restart
  BY <1>10 DEF Restart
<1>11. CASE UNCHANGED vars
  BY <1>11 DEF vars, procVars
<1> QED
  BY <1>1, <1>2, <1>3, <1>4, <1>5, <1>6, <1>7, <1>8, <1>9,
     <1>10, <1>11
     DEF Next, Handler, Part

\* On a backend that is not contested only the last request writes, by
\* RivalsAreConfined; ClientGone changes results only where nothing was
\* executed yet.
LEMMA UncontestedResultStep ==
  ASSUME Inductive, [Next]_vars
  PROVE  UncontestedResultHolds'
<1> USE DEF Inductive, TypeOK, ghostVars, Parts,
            UncontestedResultHolds, RivalsAreConfined, IdleIsUntouched,
            StreamingIsUnstored, MayWrite, InHandler, Result, IsRemote
<1>1. CASE \E r \in Requests : Receive(r)
  BY <1>1 DEF Receive
<1>2. CASE \E r \in Requests : BodyEnds(r)
  BY <1>2 DEF BodyEnds
<1>3. CASE \E r \in Requests : BodyFails(r)
  BY <1>3 DEF BodyFails
<1>4. CASE \E r \in Requests : Join(r)
  BY <1>4 DEF Join, Answered
<1>5. CASE \E r \in Requests : ClientGone(r)
  <2>1. PICK r \in Requests : ClientGone(r)
    BY <1>5
  <2>2. UNCHANGED <<store, ghostVars>>
    BY <2>1 DEF ClientGone
  <2>3. \A q \in Requests : cut'[q] = cut[q] \/ reached[q] = {}
    BY <2>1 DEF ClientGone
  <2> QED
    BY <2>2, <2>3
<1>6. CASE \E r \in Requests, b \in Backends : PartApplies(r, b)
  BY <1>6 DEF PartApplies, Execute
<1>7. CASE \E r \in Requests, b \in Backends : PartSucceeds(r, b)
  BY <1>7 DEF PartSucceeds
<1>8. CASE \E r \in Requests, b \in Backends : PartFails(r, b)
  BY <1>8 DEF PartFails, ErrorSeen
<1>9. CASE \E r \in Requests, b \in Backends : LateExecution(r, b)
  <2>1. PICK r \in Requests, b \in Backends : LateExecution(r, b)
    BY <1>9
  <2>2. CASE UNCHANGED <<store, ghostVars>>
    BY <2>1, <2>2 DEF LateExecution
  <2>3. CASE Execute(r, b)
    <3>1. last # NoRequest /\ b \notin contested => r = last
      BY <2>1 DEF LateExecution
    <3>2. UNCHANGED <<last, contested, cut, phase>>
      BY <2>1, <2>3 DEF LateExecution, Execute
    <3> QED
      BY <2>3, <3>1, <3>2 DEF Execute
  <2> QED
    BY <2>1, <2>2, <2>3 DEF LateExecution
<1>10. CASE Restart
  BY <1>10 DEF Restart
<1>11. CASE UNCHANGED vars
  BY <1>11 DEF vars, procVars
<1> QED
  BY <1>1, <1>2, <1>3, <1>4, <1>5, <1>6, <1>7, <1>8, <1>9,
     <1>10, <1>11
     DEF Next, Handler, Part

\* A part succeeds after its backend executed it, unless ErrorSeen hides a
\* failure; a restart takes reached away from in-memory backends only.
LEMMA SuccessStep ==
  ASSUME Inductive, [Next]_vars
  PROVE  SuccessIsExecuted'
<1> USE DEF Inductive, TypeOK, ghostVars, Parts,
            SuccessIsExecuted, IdleIsUntouched, IsRemote
<1>1. CASE \E r \in Requests : Receive(r)
  BY <1>1 DEF Receive
<1>2. CASE \E r \in Requests : BodyEnds(r)
  BY <1>2 DEF BodyEnds
<1>3. CASE \E r \in Requests : BodyFails(r)
  BY <1>3 DEF BodyFails
<1>4. CASE \E r \in Requests : Join(r)
  BY <1>4 DEF Join, Answered
<1>5. CASE \E r \in Requests : ClientGone(r)
  <2>1. PICK r \in Requests : ClientGone(r)
    BY <1>5
  <2>2. UNCHANGED reached
    BY <2>1 DEF ClientGone
  <2>3. \A q \in Requests, b \in Backends :
           part'[q][b] = part[q][b] \/ part'[q][b] = "off"
    <3>1. CASE r \in Puts
      BY <2>1, <3>1 DEF ClientGone
    <3>2. CASE r \notin Puts
      <4>1. \A q \in Requests \ {r} : part'[q] = part[q]
        BY <2>1, <3>2 DEF ClientGone
      <4>2. \A b \in Backends :
               part'[r][b] = part[r][b] \/ part'[r][b] = "off"
        BY <2>1, <3>2 DEF ClientGone
      <4> QED
        BY <4>1, <4>2
    <3> QED
      BY <3>1, <3>2
  <2> QED
    BY <2>2, <2>3
<1>6. CASE \E r \in Requests, b \in Backends : PartApplies(r, b)
  BY <1>6 DEF PartApplies, Execute
<1>7. CASE \E r \in Requests, b \in Backends : PartSucceeds(r, b)
  BY <1>7 DEF PartSucceeds
<1>8. CASE \E r \in Requests, b \in Backends : PartFails(r, b)
  BY <1>8 DEF PartFails, ErrorSeen
<1>9. CASE \E r \in Requests, b \in Backends : LateExecution(r, b)
  BY <1>9 DEF LateExecution, Execute
<1>10. CASE Restart
  BY <1>10 DEF Restart
<1>11. CASE UNCHANGED vars
  BY <1>11 DEF vars, procVars
<1> QED
  BY <1>1, <1>2, <1>3, <1>4, <1>5, <1>6, <1>7, <1>8, <1>9,
     <1>10, <1>11
     DEF Next, Handler, Part

\* Join acknowledges when all have answered and none with an error.
LEMMA AckedStep ==
  ASSUME Inductive, [Next]_vars
  PROVE  AckedBySuccess'
<1> USE DEF Inductive, TypeOK, ghostVars, Parts,
            AckedBySuccess, IdleIsUntouched, InHandler
<1>1. CASE \E r \in Requests : Receive(r)
  BY <1>1 DEF Receive
<1>2. CASE \E r \in Requests : BodyEnds(r)
  BY <1>2 DEF BodyEnds
<1>3. CASE \E r \in Requests : BodyFails(r)
  BY <1>3 DEF BodyFails
<1>4. CASE \E r \in Requests : Join(r)
  BY <1>4 DEF Join, Answered
<1>5. CASE \E r \in Requests : ClientGone(r)
  BY <1>5 DEF ClientGone
<1>6. CASE \E r \in Requests, b \in Backends : PartApplies(r, b)
  BY <1>6 DEF PartApplies, Execute
<1>7. CASE \E r \in Requests, b \in Backends : PartSucceeds(r, b)
  BY <1>7 DEF PartSucceeds
<1>8. CASE \E r \in Requests, b \in Backends : PartFails(r, b)
  BY <1>8 DEF PartFails, ErrorSeen
<1>9. CASE \E r \in Requests, b \in Backends : LateExecution(r, b)
  BY <1>9 DEF LateExecution, Execute
<1>10. CASE Restart
  BY <1>10 DEF Restart
<1>11. CASE UNCHANGED vars
  BY <1>11 DEF vars, procVars
<1> QED
  BY <1>1, <1>2, <1>3, <1>4, <1>5, <1>6, <1>7, <1>8, <1>9,
     <1>10, <1>11
     DEF Next, Handler, Part

\* Every step preserves the invariant.
LEMMA InductiveStep == Inductive /\ [Next]_vars => Inductive'
BY TypeStep, IdleStep, StreamingStep, CutStep, RivalsStep,
   UncontestedResultStep, SuccessStep, AckedStep DEF Inductive

\* Inductive is an invariant of MultiSync.
THEOREM InductiveInvariant == Spec => []Inductive
<1>1. Init => Inductive
  BY InitInductive
<1>2. Inductive /\ [Next]_vars => Inductive'
  BY InductiveStep
<1> QED
  BY <1>1, <1>2, PTL DEF Spec

\* Type correctness; only remote backends are ever in doubt.
THEOREM TypeCorrect == Spec => []TypeOK
<1>1. Inductive => TypeOK
  BY DEF Inductive
<1> QED
  BY <1>1, InductiveInvariant, PTL

\* What the invariant says of an acknowledged request.
LEMMA InductiveHolds == Inductive => AckedWriteHolds
<1> SUFFICES ASSUME Inductive,
                    NEW r \in Requests,
                    last = r, phase[r] = "acked"
             PROVE  /\ \A b \in reached[r] \ contested :
                          store[b] = IF r \in Puts THEN r ELSE Nil
                    /\ r \in Puts => S3Backends \subseteq reached[r]
                    /\ ~ MayRestart =>
                          Backends \ S3Backends \subseteq reached[r]
  BY DEF AckedWriteHolds
<1>1. \A b \in reached[r] \ contested :
         store[b] = IF r \in Puts THEN r ELSE Nil
  BY DEF Inductive, UncontestedResultHolds, OnlyGoneAreCut, Result, Requests
<1>2. \A b \in Backends : part[r][b] = "ok"
  BY DEF Inductive, AckedBySuccess
<1>3. r \in Puts => S3Backends \subseteq reached[r]
  BY <1>2 DEF Inductive, SuccessIsExecuted, IsRemote
<1>4. ~ MayRestart => Backends \ S3Backends \subseteq reached[r]
  BY <1>2 DEF Inductive, SuccessIsExecuted, IsRemote
<1> QED
  BY <1>1, <1>3, <1>4

\* An acknowledged request that no later one follows is in force
\* (put_object.rs:73-97, delete_object.rs:51-66), whatever failed requests had
\* left behind, except where older ones still had writes to come.
THEOREM AckedWritesHold == Spec => []AckedWriteHolds
BY InductiveHolds, InductiveInvariant, PTL

=============================================================================
