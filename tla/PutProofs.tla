------------------------------ MODULE PutProofs ------------------------------
(***************************************************************************)
(* Proofs about one MULTI_SYNC PUT on its way from the client's body to    *)
(* the backends, for any number of backends and chunks, any capacity of    *)
(* the channels, with and without disconnections.  In three parts:         *)
(*                                                                         *)
(* Broadcast: what success and a broken body mean to the backends, and     *)
(* backpressure.  Inductive is the invariant; one lemma per conjunct, in   *)
(* its order, and in each lemma one step per action.                       *)
(*                                                                         *)
(* S3Put: the two channels behind a remote backend behave as the one       *)
(* channel of Broadcast, so all that the first part shows holds with       *)
(* them; and what they buffer is bounded.  A step of S3Put is a step or a  *)
(* stutter of Broadcast in any state of the invariant; that preserves      *)
(* Broadcast's part of it.                                                 *)
(*                                                                         *)
(* The refinement: the chunk-level PUT of Broadcast, and with it that of   *)
(* S3Put, implements the object-level PUT of MultiSync.  MultiSync         *)
(* decides when the client leaves which backends will store a torn         *)
(* object; Broadcast finds out when they store.  CutsAreKnown, with        *)
(* Inductive, says that the two agree.                                     *)
(***************************************************************************)
EXTENDS S3Put, TLAPS

USE BackendsAssumption, BroadcastAssumption

-----------------------------------------------------------------------------
(* Broadcast.                                                              *)

\* A counter one behind, at most equal and not equal is exactly one behind:
\* the next send brings a target to the chunk just read.
LEMMA OneBehind ==
  ASSUME NEW x \in Int, NEW y \in Int, x - 1 <= y, y <= x, y # x
  PROVE  y + 1 = x
  OBVIOUS

\* The initial state satisfies the invariant.
LEMMA InitInductive == Init => Inductive
<1> SUFFICES ASSUME Init PROVE Inductive
  OBVIOUS
<1> USE DEF Init, None, Backends
<1>1. TypeOK
  BY DEF TypeOK, Callers, Tasks
<1>2. StartedOnce /\ SendsInOrder
  BY DEF StartedOnce, SendsInOrder
<1>3. ChannelsAreBounded /\ ErrorsReachAll /\ ReceivesToTheEnd
  BY DEF ChannelsAreBounded, ErrorsReachAll, ReceivesToTheEnd
<1> QED
  BY <1>1, <1>2, <1>3 DEF Inductive

\* Types; the chunks of a channel are chunks of the body (SendsInOrder).
LEMMA TypeStep ==
  ASSUME Inductive, [Next]_vars
  PROVE  TypeOK'
<1> USE DEF Inductive, TypeOK, callerVars, taskVars, Callers, Tasks, Backends,
            None, SendsInOrder, ChannelsAreBounded
<1>1. CASE Start
  BY <1>1 DEF Start
<1>2. CASE ReadChunk
  BY <1>2 DEF ReadChunk
<1>3. CASE ReadError
  BY <1>3 DEF ReadError
<1>4. CASE ReadEnd
  BY <1>4 DEF ReadEnd
<1>5. CASE SendChunk
  <2>1. ASSUME target \in receiving
        PROVE  sent[target] + 1 \in 0 .. Chunks
    <3>1. sent[target] \in Int /\ read \in Int /\ read \in 0 .. Chunks
      BY <2>1
    <3>2. /\ read - 1 <= sent[target]
          /\ sent[target] <= read
          /\ sent[target] # read
      BY <1>5, <2>1, <3>1 DEF SendChunk
    <3>3. sent[target] + 1 = read
      BY <3>1, <3>2, OneBehind
    <3> QED
      BY <3>1, <3>3
  <2>2. sent' \in [Backends -> 0 .. Chunks]
    BY <1>5, <2>1 DEF SendChunk
  <2>3. target' \in Backends /\ caller' \in Callers
    BY <1>5 DEF SendChunk
  <2> QED
    BY <1>5, <2>2, <2>3 DEF SendChunk
<1>6. CASE SendError
  <2>1. errSent' \subseteq Backends
    BY <1>6 DEF SendError
  <2>2. target' \in Backends /\ caller' \in Callers
    <3>1. \/ target + 1 < NumBackends /\ target' = target + 1
          \/ target' = 0
      BY <1>6 DEF SendError
    <3>2. caller' \in {caller, "broken"}
      BY <1>6 DEF SendError
    <3> QED
      BY <3>1, <3>2
  <2>3. open' = open \/ open' = FALSE
    BY <1>6 DEF SendError
  <2> QED
    BY <1>6, <2>1, <2>2, <2>3 DEF SendError
<1>7. CASE Join
  BY <1>7 DEF Join
<1>8. CASE ClientGone
  BY <1>8 DEF ClientGone
<1>9. CASE \E b \in Backends : TakeChunk(b)
  <2>1. PICK b \in Backends : TakeChunk(b)
    BY <1>9
  <2>2. taken[b] + 1 \in 0 .. Chunks
    <3>1. /\ taken[b] \in 0 .. Chunks /\ sent[b] \in 0 .. Chunks
          /\ taken[b] < sent[b]
      BY <2>1 DEF TakeChunk
    <3> QED
      BY <3>1
  <2>3. taken' \in [Backends -> 0 .. Chunks]
    BY <2>1, <2>2 DEF TakeChunk
  <2> QED
    BY <2>1, <2>3 DEF TakeChunk
<1>10. CASE \E b \in Backends : TakeError(b)
  BY <1>10 DEF TakeError
<1>11. CASE \E b \in Backends : TakeEnd(b)
  BY <1>11 DEF TakeEnd
<1>12. CASE \E b \in Backends : Store(b)
  BY <1>12 DEF Store
<1>13. CASE \E b \in Backends : Finish(b)
  BY <1>13 DEF Finish
<1>14. CASE \E b \in Backends : RemoteFails(b)
  BY <1>14 DEF RemoteFails, IsRemote
<1>15. CASE \E b \in Backends : DropReceiver(b)
  BY <1>15 DEF DropReceiver
<1>16. CASE \E b \in Backends : LateStore(b)
  BY <1>16 DEF LateStore
<1>17. CASE UNCHANGED vars
  BY <1>17 DEF vars
<1> QED
  BY <1>1, <1>2, <1>3, <1>4, <1>5, <1>6, <1>7, <1>8, <1>9, <1>10, <1>11,
     <1>12, <1>13, <1>14, <1>15, <1>16, <1>17
     DEF Next, Caller, Task

\* Only Start moves the caller and the tasks from where they begin.
LEMMA StartedStep ==
  ASSUME Inductive, [Next]_vars
  PROVE  StartedOnce'
<1> USE DEF Inductive, TypeOK, callerVars, taskVars, Callers, Tasks, Backends,
            None, StartedOnce
<1>1. CASE Start
  BY <1>1 DEF Start
<1>2. CASE ReadChunk
  BY <1>2 DEF ReadChunk
<1>3. CASE ReadError
  BY <1>3 DEF ReadError
<1>4. CASE ReadEnd
  BY <1>4 DEF ReadEnd
<1>5. CASE SendChunk
  BY <1>5 DEF SendChunk, CanSend, HasRoom
<1>6. CASE SendError
  BY <1>6 DEF SendError, CanSend, HasRoom
<1>7. CASE Join
  BY <1>7 DEF Join
<1>8. CASE ClientGone
  BY <1>8 DEF ClientGone
<1>9. CASE \E b \in Backends : TakeChunk(b)
  BY <1>9 DEF TakeChunk
<1>10. CASE \E b \in Backends : TakeError(b)
  BY <1>10 DEF TakeError
<1>11. CASE \E b \in Backends : TakeEnd(b)
  BY <1>11 DEF TakeEnd
<1>12. CASE \E b \in Backends : Store(b)
  BY <1>12 DEF Store
<1>13. CASE \E b \in Backends : Finish(b)
  BY <1>13 DEF Finish
<1>14. CASE \E b \in Backends : RemoteFails(b)
  BY <1>14 DEF RemoteFails, IsRemote
<1>15. CASE \E b \in Backends : DropReceiver(b)
  BY <1>15 DEF DropReceiver
<1>16. CASE \E b \in Backends : LateStore(b)
  BY <1>16 DEF LateStore
<1>17. CASE UNCHANGED vars
  BY <1>17 DEF vars
<1> QED
  BY <1>1, <1>2, <1>3, <1>4, <1>5, <1>6, <1>7, <1>8, <1>9, <1>10, <1>11,
     <1>12, <1>13, <1>14, <1>15, <1>16, <1>17
     DEF Next, Caller, Task

\* The loop over the senders goes once through every channel per chunk.
LEMMA SendsStep ==
  ASSUME Inductive, [Next]_vars
  PROVE  SendsInOrder'
<1> USE DEF Inductive, TypeOK, callerVars, taskVars, Callers, Tasks, Backends,
            None, SendsInOrder, StartedOnce
<1>1. CASE Start
  BY <1>1 DEF Start
<1>2. CASE ReadChunk
  BY <1>2 DEF ReadChunk
<1>3. CASE ReadError
  BY <1>3 DEF ReadError
<1>4. CASE ReadEnd
  BY <1>4 DEF ReadEnd
<1>5. CASE SendChunk
  <2>1. \A b \in receiving \ {target} : sent'[b] = sent[b]
    BY <1>5 DEF SendChunk
  <2>2. target \in receiving => sent[target] = read - 1 /\ sent'[target] = read
    BY <1>5 DEF SendChunk
  <2>3. CASE target + 1 < NumBackends
    <3>1. /\ target' = target + 1 /\ caller' = "send"
          /\ UNCHANGED <<read, open, receiving>>
      BY <1>5, <2>3 DEF SendChunk
    <3> QED
      BY <1>5, <2>1, <2>2, <3>1 DEF SendChunk
  <2>4. CASE ~ (target + 1 < NumBackends)
    <3>1. /\ caller' = "read"
          /\ UNCHANGED <<read, open, receiving>>
      BY <1>5, <2>4 DEF SendChunk
    <3>2. \A b \in receiving : b <= target
      BY <2>4
    <3>3. \A b \in receiving : sent'[b] = read
      BY <1>5, <2>1, <2>2, <3>2 DEF SendChunk
    <3> QED
      BY <1>5, <3>1, <3>3 DEF SendChunk
  <2> QED
    BY <2>3, <2>4
<1>6. CASE SendError
  BY <1>6 DEF SendError, CanSend, HasRoom
<1>7. CASE Join
  BY <1>7 DEF Join
<1>8. CASE ClientGone
  BY <1>8 DEF ClientGone
<1>9. CASE \E b \in Backends : TakeChunk(b)
  BY <1>9 DEF TakeChunk
<1>10. CASE \E b \in Backends : TakeError(b)
  BY <1>10 DEF TakeError
<1>11. CASE \E b \in Backends : TakeEnd(b)
  BY <1>11 DEF TakeEnd
<1>12. CASE \E b \in Backends : Store(b)
  BY <1>12 DEF Store
<1>13. CASE \E b \in Backends : Finish(b)
  BY <1>13 DEF Finish
<1>14. CASE \E b \in Backends : RemoteFails(b)
  BY <1>14 DEF RemoteFails, IsRemote
<1>15. CASE \E b \in Backends : DropReceiver(b)
  BY <1>15 DEF DropReceiver
<1>16. CASE \E b \in Backends : LateStore(b)
  BY <1>16 DEF LateStore
<1>17. CASE UNCHANGED vars
  BY <1>17 DEF vars
<1> QED
  BY <1>1, <1>2, <1>3, <1>4, <1>5, <1>6, <1>7, <1>8, <1>9, <1>10, <1>11,
     <1>12, <1>13, <1>14, <1>15, <1>16, <1>17
     DEF Next, Caller, Task

\* A chunk is sent where there is room, and only what was sent is taken.
LEMMA ChannelsStep ==
  ASSUME Inductive, [Next]_vars
  PROVE  ChannelsAreBounded'
<1> USE DEF Inductive, TypeOK, callerVars, taskVars, Callers, Tasks, Backends,
            None, SendsInOrder, ChannelsAreBounded, ErrorsReachAll, StartedOnce
<1>1. CASE Start
  BY <1>1 DEF Start
<1>2. CASE ReadChunk
  BY <1>2 DEF ReadChunk
<1>3. CASE ReadError
  BY <1>3 DEF ReadError
<1>4. CASE ReadEnd
  BY <1>4 DEF ReadEnd
<1>5. CASE SendChunk
  BY <1>5 DEF SendChunk, CanSend, HasRoom
<1>6. CASE SendError
  BY <1>6 DEF SendError, CanSend, HasRoom
<1>7. CASE Join
  BY <1>7 DEF Join
<1>8. CASE ClientGone
  BY <1>8 DEF ClientGone
<1>9. CASE \E b \in Backends : TakeChunk(b)
  <2>1. PICK b \in Backends : TakeChunk(b)
    BY <1>9
  <2>2. /\ taken[b] < sent[b] /\ taken' = [taken EXCEPT ![b] = @ + 1]
        /\ UNCHANGED <<caller, read, sent, target, receiving, errSent>>
    BY <2>1 DEF TakeChunk
  <2> QED
    BY <2>2
<1>10. CASE \E b \in Backends : TakeError(b)
  BY <1>10 DEF TakeError
<1>11. CASE \E b \in Backends : TakeEnd(b)
  BY <1>11 DEF TakeEnd
<1>12. CASE \E b \in Backends : Store(b)
  BY <1>12 DEF Store
<1>13. CASE \E b \in Backends : Finish(b)
  BY <1>13 DEF Finish
<1>14. CASE \E b \in Backends : RemoteFails(b)
  BY <1>14 DEF RemoteFails, IsRemote
<1>15. CASE \E b \in Backends : DropReceiver(b)
  BY <1>15 DEF DropReceiver
<1>16. CASE \E b \in Backends : LateStore(b)
  BY <1>16 DEF LateStore
<1>17. CASE UNCHANGED vars
  BY <1>17 DEF vars
<1> QED
  BY <1>1, <1>2, <1>3, <1>4, <1>5, <1>6, <1>7, <1>8, <1>9, <1>10, <1>11,
     <1>12, <1>13, <1>14, <1>15, <1>16, <1>17
     DEF Next, Caller, Task

\* The loop that sends the error item passes every channel before the caller
\* returns.
LEMMA ErrorsStep ==
  ASSUME Inductive, [Next]_vars
  PROVE  ErrorsReachAll'
<1> USE DEF Inductive, TypeOK, callerVars, taskVars, Callers, Tasks, Backends,
            None, ErrorsReachAll
<1>1. CASE Start
  BY <1>1 DEF Start
<1>2. CASE ReadChunk
  BY <1>2 DEF ReadChunk
<1>3. CASE ReadError
  BY <1>3 DEF ReadError
<1>4. CASE ReadEnd
  BY <1>4 DEF ReadEnd
<1>5. CASE SendChunk
  BY <1>5 DEF SendChunk, CanSend, HasRoom
<1>6. CASE SendError
  BY <1>6 DEF SendError, CanSend, HasRoom
<1>7. CASE Join
  BY <1>7 DEF Join
<1>8. CASE ClientGone
  BY <1>8 DEF ClientGone
<1>9. CASE \E b \in Backends : TakeChunk(b)
  BY <1>9 DEF TakeChunk
<1>10. CASE \E b \in Backends : TakeError(b)
  BY <1>10 DEF TakeError
<1>11. CASE \E b \in Backends : TakeEnd(b)
  BY <1>11 DEF TakeEnd
<1>12. CASE \E b \in Backends : Store(b)
  BY <1>12 DEF Store
<1>13. CASE \E b \in Backends : Finish(b)
  BY <1>13 DEF Finish
<1>14. CASE \E b \in Backends : RemoteFails(b)
  BY <1>14 DEF RemoteFails, IsRemote
<1>15. CASE \E b \in Backends : DropReceiver(b)
  BY <1>15 DEF DropReceiver
<1>16. CASE \E b \in Backends : LateStore(b)
  BY <1>16 DEF LateStore
<1>17. CASE UNCHANGED vars
  BY <1>17 DEF vars
<1> QED
  BY <1>1, <1>2, <1>3, <1>4, <1>5, <1>6, <1>7, <1>8, <1>9, <1>10, <1>11,
     <1>12, <1>13, <1>14, <1>15, <1>16, <1>17
     DEF Next, Caller, Task

\* A task ends its body when the senders are dropped without an error item,
\* having taken all that was sent.
LEMMA ReceivesStep ==
  ASSUME Inductive, [Next]_vars
  PROVE  ReceivesToTheEnd'
<1> USE DEF Inductive, TypeOK, callerVars, taskVars, Callers, Tasks, Backends,
            None, ReceivesToTheEnd, SendsInOrder, ErrorsReachAll, StartedOnce
<1>1. CASE Start
  BY <1>1 DEF Start
<1>2. CASE ReadChunk
  BY <1>2 DEF ReadChunk
<1>3. CASE ReadError
  BY <1>3 DEF ReadError
<1>4. CASE ReadEnd
  BY <1>4 DEF ReadEnd
<1>5. CASE SendChunk
  BY <1>5 DEF SendChunk, CanSend, HasRoom
<1>6. CASE SendError
  BY <1>6 DEF SendError, CanSend, HasRoom
<1>7. CASE Join
  BY <1>7 DEF Join
<1>8. CASE ClientGone
  BY <1>8 DEF ClientGone
<1>9. CASE \E b \in Backends : TakeChunk(b)
  BY <1>9 DEF TakeChunk
<1>10. CASE \E b \in Backends : TakeError(b)
  BY <1>10 DEF TakeError
<1>11. CASE \E b \in Backends : TakeEnd(b)
  BY <1>11 DEF TakeEnd
<1>12. CASE \E b \in Backends : Store(b)
  BY <1>12 DEF Store
<1>13. CASE \E b \in Backends : Finish(b)
  BY <1>13 DEF Finish
<1>14. CASE \E b \in Backends : RemoteFails(b)
  BY <1>14 DEF RemoteFails, IsRemote
<1>15. CASE \E b \in Backends : DropReceiver(b)
  BY <1>15 DEF DropReceiver
<1>16. CASE \E b \in Backends : LateStore(b)
  BY <1>16 DEF LateStore
<1>17. CASE UNCHANGED vars
  BY <1>17 DEF vars
<1> QED
  BY <1>1, <1>2, <1>3, <1>4, <1>5, <1>6, <1>7, <1>8, <1>9, <1>10, <1>11,
     <1>12, <1>13, <1>14, <1>15, <1>16, <1>17
     DEF Next, Caller, Task

\* Every step preserves the invariant.
LEMMA InductiveStep == Inductive /\ [Next]_vars => Inductive'
BY TypeStep, StartedStep, SendsStep, ChannelsStep, ErrorsStep, ReceivesStep
   DEF Inductive

\* Inductive is an invariant of Broadcast.
THEOREM InductiveInvariant == Spec => []Inductive
<1>1. Init => Inductive
  BY InitInductive
<1>2. Inductive /\ [Next]_vars => Inductive'
  BY InductiveStep
<1> QED
  BY <1>1, <1>2, PTL DEF Spec

\* Types, and that no channel is ever sent more than the body has.
THEOREM TypeCorrect == Spec => []TypeOK
<1>1. Inductive => TypeOK
  BY DEF Inductive
<1> QED
  BY <1>1, InductiveInvariant, PTL

\* A PUT that is answered with success is stored, whole, by every backend,
\* whatever the number of backends and chunks (put_object.rs:201-235, 75-97).
THEOREM AckedIsWhole == Spec => []AckedMeansWholeEverywhere
<1>1. Inductive => AckedMeansWholeEverywhere
  BY DEF Inductive, ReceivesToTheEnd, AckedMeansWholeEverywhere
<1> QED
  BY <1>1, InductiveInvariant, PTL

\* A body that breaks off is stored by no backend (put_object.rs:213-218).
THEOREM BrokenIsNotStored == Spec => []BrokenBodyStoresNothing
<1>1. Inductive => BrokenBodyStoresNothing
  BY DEF Inductive, ReceivesToTheEnd, BrokenBodyStoresNothing
<1> QED
  BY <1>1, InductiveInvariant, PTL

\* Backpressure: no receiving task is more than a full channel and a chunk
\* ahead of another (put_object.rs:188, 207-211).
THEOREM SlowestSetsThePace == Spec => []LockStep
<1>1. Inductive => LockStep
  <2> SUFFICES ASSUME Inductive, NEW b \in receiving, NEW c \in receiving
               PROVE  /\ sent[b] - taken[b] <= Capacity
                      /\ taken[b] - taken[c] <= Capacity + 1
    BY DEF LockStep
  <2>1. /\ b \in Backends /\ c \in Backends
        /\ {read, sent[b], sent[c], taken[b], taken[c]} \subseteq Nat
    BY DEF Inductive, TypeOK
  <2>2. /\ taken[b] <= sent[b]
        /\ sent[b] - taken[b] <= Capacity
        /\ sent[c] - taken[c] <= Capacity
    BY <2>1 DEF Inductive, ChannelsAreBounded
  <2>3. sent[b] <= read /\ read - 1 <= sent[c]
    BY DEF Inductive, SendsInOrder
  <2> QED
    BY <2>1, <2>2, <2>3
<1> QED
  BY <1>1, InductiveInvariant, PTL

-----------------------------------------------------------------------------
(* The pipeline of a remote backend.                                       *)

\* The remote backends are among the backends.
LEMMA RemoteAreBackends == S3Backends \subseteq Backends
BY BackendsAssumption

\* The initial state satisfies the invariant.
LEMMA PutInitInductive == PutInit => PutInductive
<1> SUFFICES ASSUME PutInit PROVE PutInductive
  OBVIOUS
<1>1. Inductive
  BY InitInductive DEF PutInit
<1>2. /\ \A b \in S3Backends : task[b] = "off" /\ taken[b] = 0
      /\ errSent = {} /\ receiving = Backends
  BY RemoteAreBackends DEF PutInit, Init
<1>3. PipeTypeOK
  BY BroadcastAssumption DEF PutInit, PipeTypeOK, Forwarders, Bodies
<1>4. ForwardsInOrder
  BY <1>2, RemoteAreBackends, BroadcastAssumption DEF PutInit, ForwardsInOrder
<1>5. BodyFitsCall
  BY <1>2 DEF PutInit, BodyFitsCall
<1> QED
  BY <1>1, <1>3, <1>4, <1>5 DEF PutInductive

\* Every step of S3Put is a step or a stutter of Broadcast: only the taking of
\* chunks, the end of the stream, an error frame, the service's work and a
\* failure of the call are seen there.
LEMMA StepRefines ==
  ASSUME PutInductive, [PutNext]_putVars
  PROVE  [Next]_vars
<1> USE RemoteAreBackends, BackendsAssumption, BroadcastAssumption
<1> USE DEF vars, PutInductive, Inductive,
            TypeOK, PipeTypeOK, ForwardsInOrder,
            BodyFitsCall, callerVars, taskVars, pipeVars, Callers, Tasks,
            Forwarders, Bodies, IsRemote

<1>1. CASE Handler
  BY <1>1 DEF Handler, Next
<1>2. CASE \E b \in Backends \ S3Backends : InMemory(b)
  BY <1>2 DEF InMemory, Next
<1>3. CASE \E b \in S3Backends : ForwarderTakes(b)
  <2>1. PICK b \in S3Backends : ForwarderTakes(b)
    BY <1>3
  <2>2. TakeChunk(b)
    BY <2>1 DEF ForwarderTakes, TakeChunk,
                StartedOnce, ReceivesToTheEnd
  <2> QED
    BY <2>2 DEF Next, Task
<1>4. CASE \E b \in S3Backends : ForwarderTakesError(b)
  BY <1>4 DEF ForwarderTakesError
<1>5. CASE \E b \in S3Backends : ForwarderPasses(b)
  BY <1>5 DEF ForwarderPasses
<1>6. CASE \E b \in S3Backends : ForwarderStops(b)
  <2>1. PICK b \in S3Backends : ForwarderStops(b)
    BY <1>6
  <2>2. DropReceiver(b)
    BY <2>1 DEF ForwarderStops, DropReceiver
  <2> QED
    BY <2>2 DEF Next, Task
<1>7. CASE \E b \in S3Backends : ForwarderEnds(b)
  <2>1. PICK b \in S3Backends : ForwarderEnds(b)
    BY <1>7
  <2>2. TakeEnd(b) \/ DropReceiver(b)
    BY <2>1 DEF ForwarderEnds, TakeEnd, DropReceiver,
                StartedOnce, SendsInOrder, ReceivesToTheEnd
  <2> QED
    BY <2>2 DEF Next, Task
<1>8. CASE \E b \in S3Backends : PollsChunk(b)
  BY <1>8 DEF PollsChunk
<1>9. CASE \E b \in S3Backends : PollsError(b)
  <2>1. PICK b \in S3Backends : PollsError(b)
    BY <1>9
  <2>2. TakeError(b)
    BY <2>1 DEF PollsError, TakeError, Calling
  <2> QED
    BY <2>2 DEF Next, Task
<1>10. CASE \E b \in S3Backends : PollsEnd(b)
  BY <1>10 DEF PollsEnd
<1>11. CASE \E b \in S3Backends : ServiceStores(b)
  <2>1. PICK b \in S3Backends : ServiceStores(b)
    BY <1>11
  <2>2. Store(b)
    BY <2>1 DEF ServiceStores, Store
  <2> QED
    BY <2>2 DEF Next, Task
<1>12. CASE \E b \in S3Backends : CallSucceeds(b)
  BY <1>12 DEF CallSucceeds, Next, Task
<1>13. CASE \E b \in S3Backends : CallFails(b)
  <2>1. PICK b \in S3Backends : CallFails(b)
    BY <1>13
  <2>2. RemoteFails(b)
    BY <2>1 DEF CallFails, RemoteFails
  <2> QED
    BY <2>2 DEF Next, Task
<1>14. CASE \E b \in S3Backends : Late(b)
  BY <1>14 DEF Late, Next
<1>15. CASE UNCHANGED putVars
  BY <1>15 DEF putVars
<1> QED
  BY <1>1, <1>2, <1>3, <1>4, <1>5, <1>6, <1>7, <1>8, <1>9, <1>10, <1>11,
     <1>12, <1>13, <1>14, <1>15
     DEF PutNext, Forwarder, Call

\* Types; a chunk passed on or polled is a chunk of the body.
LEMMA PipeTypeStep ==
  ASSUME PutInductive, [PutNext]_putVars, Inductive'
  PROVE  PipeTypeOK'
<1> USE RemoteAreBackends, BackendsAssumption, BroadcastAssumption
<1> USE DEF PutInductive, Inductive, TypeOK, PipeTypeOK, ForwardsInOrder,
            BodyFitsCall, callerVars, taskVars, pipeVars, Callers, Tasks,
            Forwarders, Bodies, IsRemote
<1>1. CASE Start /\ UNCHANGED pipeVars
  BY <1>1 DEF Start
<1>2. CASE ReadChunk /\ UNCHANGED pipeVars
  BY <1>2 DEF ReadChunk
<1>3. CASE ReadError /\ UNCHANGED pipeVars
  BY <1>3 DEF ReadError
<1>4. CASE ReadEnd /\ UNCHANGED pipeVars
  BY <1>4 DEF ReadEnd
<1>5. CASE SendChunk /\ UNCHANGED pipeVars
  BY <1>5 DEF SendChunk
<1>6. CASE SendError /\ UNCHANGED pipeVars
  BY <1>6 DEF SendError
<1>7. CASE Join /\ UNCHANGED pipeVars
  BY <1>7 DEF Join
<1>8. CASE ClientGone /\ UNCHANGED pipeVars
  BY <1>8 DEF ClientGone
<1>9. CASE \E b \in Backends \ S3Backends :
             TakeChunk(b) /\ UNCHANGED pipeVars
  BY <1>9 DEF TakeChunk
<1>10. CASE \E b \in Backends \ S3Backends :
             TakeError(b) /\ UNCHANGED pipeVars
  BY <1>10 DEF TakeError
<1>11. CASE \E b \in Backends \ S3Backends :
             TakeEnd(b) /\ UNCHANGED pipeVars
  BY <1>11 DEF TakeEnd
<1>12. CASE \E b \in Backends \ S3Backends :
             Store(b) /\ UNCHANGED pipeVars
  BY <1>12 DEF Store
<1>13. CASE \E b \in Backends \ S3Backends :
             Finish(b) /\ UNCHANGED pipeVars
  BY <1>13 DEF Finish
<1>14. CASE \E b \in S3Backends : ForwarderTakes(b)
  BY <1>14 DEF ForwarderTakes
<1>15. CASE \E b \in S3Backends : ForwarderTakesError(b)
  BY <1>15 DEF ForwarderTakesError, vars
<1>16. CASE \E b \in S3Backends : ForwarderPasses(b)
  BY <1>16 DEF ForwarderPasses, BodyHasRoom, vars
<1>17. CASE \E b \in S3Backends : ForwarderStops(b)
  BY <1>17 DEF ForwarderStops
<1>18. CASE \E b \in S3Backends : ForwarderEnds(b)
  BY <1>18 DEF ForwarderEnds
<1>19. CASE \E b \in S3Backends : PollsChunk(b)
  BY <1>19 DEF PollsChunk, Calling, vars
<1>20. CASE \E b \in S3Backends : PollsError(b)
  BY <1>20 DEF PollsError, Calling
<1>21. CASE \E b \in S3Backends : PollsEnd(b)
  BY <1>21 DEF PollsEnd, Calling, vars
<1>22. CASE \E b \in S3Backends : ServiceStores(b)
  BY <1>22 DEF ServiceStores
<1>23. CASE \E b \in S3Backends : CallSucceeds(b)
  BY <1>23 DEF CallSucceeds, Finish
<1>24. CASE \E b \in S3Backends : CallFails(b)
  BY <1>24 DEF CallFails
<1>25. CASE \E b \in S3Backends : Late(b)
  BY <1>25 DEF Late, LateStore
<1>26. CASE UNCHANGED putVars
  BY <1>26 DEF putVars, vars
<1> QED
  BY <1>1, <1>2, <1>3, <1>4, <1>5, <1>6, <1>7, <1>8, <1>9, <1>10, <1>11,
     <1>12, <1>13, <1>14, <1>15, <1>16, <1>17, <1>18, <1>19, <1>20,
     <1>21, <1>22, <1>23, <1>24, <1>25, <1>26
     DEF PutNext, Handler, Caller, InMemory, Task, Forwarder, Call

\* What was taken is in hand or passed on, and no channel is overfull.
LEMMA OrderStep ==
  ASSUME PutInductive, [PutNext]_putVars, Inductive'
  PROVE  ForwardsInOrder'
<1> USE RemoteAreBackends, BackendsAssumption, BroadcastAssumption
<1> USE DEF PutInductive, Inductive, TypeOK, PipeTypeOK, ForwardsInOrder,
            BodyFitsCall, callerVars, taskVars, pipeVars, Callers, Tasks,
            Forwarders, Bodies, IsRemote
<1>1. CASE Start /\ UNCHANGED pipeVars
  BY <1>1 DEF Start
<1>2. CASE ReadChunk /\ UNCHANGED pipeVars
  BY <1>2 DEF ReadChunk
<1>3. CASE ReadError /\ UNCHANGED pipeVars
  BY <1>3 DEF ReadError
<1>4. CASE ReadEnd /\ UNCHANGED pipeVars
  BY <1>4 DEF ReadEnd
<1>5. CASE SendChunk /\ UNCHANGED pipeVars
  BY <1>5 DEF SendChunk, ErrorsReachAll
<1>6. CASE SendError /\ UNCHANGED pipeVars
  BY <1>6 DEF SendError
<1>7. CASE Join /\ UNCHANGED pipeVars
  BY <1>7 DEF Join
<1>8. CASE ClientGone /\ UNCHANGED pipeVars
  BY <1>8 DEF ClientGone
<1>9. CASE \E b \in Backends \ S3Backends :
             TakeChunk(b) /\ UNCHANGED pipeVars
  BY <1>9 DEF TakeChunk
<1>10. CASE \E b \in Backends \ S3Backends :
             TakeError(b) /\ UNCHANGED pipeVars
  BY <1>10 DEF TakeError
<1>11. CASE \E b \in Backends \ S3Backends :
             TakeEnd(b) /\ UNCHANGED pipeVars
  BY <1>11 DEF TakeEnd
<1>12. CASE \E b \in Backends \ S3Backends :
             Store(b) /\ UNCHANGED pipeVars
  BY <1>12 DEF Store
<1>13. CASE \E b \in Backends \ S3Backends :
             Finish(b) /\ UNCHANGED pipeVars
  BY <1>13 DEF Finish
<1>14. CASE \E b \in S3Backends : ForwarderTakes(b)
  BY <1>14 DEF ForwarderTakes
<1>15. CASE \E b \in S3Backends : ForwarderTakesError(b)
  BY <1>15 DEF ForwarderTakesError, vars
<1>16. CASE \E b \in S3Backends : ForwarderPasses(b)
  BY <1>16 DEF ForwarderPasses, BodyHasRoom, vars
<1>17. CASE \E b \in S3Backends : ForwarderStops(b)
  BY <1>17 DEF ForwarderStops
<1>18. CASE \E b \in S3Backends : ForwarderEnds(b)
  BY <1>18 DEF ForwarderEnds
<1>19. CASE \E b \in S3Backends : PollsChunk(b)
  BY <1>19 DEF PollsChunk, Calling, vars
<1>20. CASE \E b \in S3Backends : PollsError(b)
  BY <1>20 DEF PollsError, Calling
<1>21. CASE \E b \in S3Backends : PollsEnd(b)
  BY <1>21 DEF PollsEnd, Calling, vars
<1>22. CASE \E b \in S3Backends : ServiceStores(b)
  BY <1>22 DEF ServiceStores
<1>23. CASE \E b \in S3Backends : CallSucceeds(b)
  BY <1>23 DEF CallSucceeds, Finish
<1>24. CASE \E b \in S3Backends : CallFails(b)
  BY <1>24 DEF CallFails
<1>25. CASE \E b \in S3Backends : Late(b)
  BY <1>25 DEF Late, LateStore
<1>26. CASE UNCHANGED putVars
  BY <1>26 DEF putVars, vars
<1> QED
  BY <1>1, <1>2, <1>3, <1>4, <1>5, <1>6, <1>7, <1>8, <1>9, <1>10, <1>11,
     <1>12, <1>13, <1>14, <1>15, <1>16, <1>17, <1>18, <1>19, <1>20,
     <1>21, <1>22, <1>23, <1>24, <1>25, <1>26
     DEF PutNext, Handler, Caller, InMemory, Task, Forwarder, Call

\* The body ends for the SDK as its stream did, or with the call.
LEMMA BodyStep ==
  ASSUME PutInductive, [PutNext]_putVars, Inductive'
  PROVE  BodyFitsCall'
<1> USE RemoteAreBackends, BackendsAssumption, BroadcastAssumption
<1> USE DEF PutInductive, Inductive, TypeOK, PipeTypeOK, ForwardsInOrder,
            BodyFitsCall, callerVars, taskVars, pipeVars, Callers, Tasks,
            Forwarders, Bodies, IsRemote
<1>1. CASE Start /\ UNCHANGED pipeVars
  BY <1>1 DEF Start, ErrorsReachAll,
               ReceivesToTheEnd, StartedOnce
<1>2. CASE ReadChunk /\ UNCHANGED pipeVars
  BY <1>2 DEF ReadChunk, SendsInOrder
<1>3. CASE ReadError /\ UNCHANGED pipeVars
  BY <1>3 DEF ReadError
<1>4. CASE ReadEnd /\ UNCHANGED pipeVars
  BY <1>4 DEF ReadEnd
<1>5. CASE SendChunk /\ UNCHANGED pipeVars
  BY <1>5 DEF SendChunk
<1>6. CASE SendError /\ UNCHANGED pipeVars
  BY <1>6 DEF SendError, StartedOnce,
               ReceivesToTheEnd
<1>7. CASE Join /\ UNCHANGED pipeVars
  BY <1>7 DEF Join
<1>8. CASE ClientGone /\ UNCHANGED pipeVars
  BY <1>8 DEF ClientGone
<1>9. CASE \E b \in Backends \ S3Backends :
             TakeChunk(b) /\ UNCHANGED pipeVars
  BY <1>9 DEF TakeChunk
<1>10. CASE \E b \in Backends \ S3Backends :
             TakeError(b) /\ UNCHANGED pipeVars
  BY <1>10 DEF TakeError
<1>11. CASE \E b \in Backends \ S3Backends :
             TakeEnd(b) /\ UNCHANGED pipeVars
  BY <1>11 DEF TakeEnd
<1>12. CASE \E b \in Backends \ S3Backends :
             Store(b) /\ UNCHANGED pipeVars
  BY <1>12 DEF Store
<1>13. CASE \E b \in Backends \ S3Backends :
             Finish(b) /\ UNCHANGED pipeVars
  BY <1>13 DEF Finish
<1>14. CASE \E b \in S3Backends : ForwarderTakes(b)
  BY <1>14 DEF ForwarderTakes
<1>15. CASE \E b \in S3Backends : ForwarderTakesError(b)
  BY <1>15 DEF ForwarderTakesError, vars
<1>16. CASE \E b \in S3Backends : ForwarderPasses(b)
  BY <1>16 DEF ForwarderPasses, BodyHasRoom, vars
<1>17. CASE \E b \in S3Backends : ForwarderStops(b)
  BY <1>17 DEF ForwarderStops
<1>18. CASE \E b \in S3Backends : ForwarderEnds(b)
  BY <1>18 DEF ForwarderEnds, SendsInOrder
<1>19. CASE \E b \in S3Backends : PollsChunk(b)
  BY <1>19 DEF PollsChunk, Calling, vars
<1>20. CASE \E b \in S3Backends : PollsError(b)
  BY <1>20 DEF PollsError, Calling
<1>21. CASE \E b \in S3Backends : PollsEnd(b)
  BY <1>21 DEF PollsEnd, Calling, vars
<1>22. CASE \E b \in S3Backends : ServiceStores(b)
  BY <1>22 DEF ServiceStores
<1>23. CASE \E b \in S3Backends : CallSucceeds(b)
  BY <1>23 DEF CallSucceeds, Finish
<1>24. CASE \E b \in S3Backends : CallFails(b)
  BY <1>24 DEF CallFails
<1>25. CASE \E b \in S3Backends : Late(b)
  BY <1>25 DEF Late, LateStore
<1>26. CASE UNCHANGED putVars
  BY <1>26 DEF putVars, vars
<1> QED
  BY <1>1, <1>2, <1>3, <1>4, <1>5, <1>6, <1>7, <1>8, <1>9, <1>10, <1>11,
     <1>12, <1>13, <1>14, <1>15, <1>16, <1>17, <1>18, <1>19, <1>20,
     <1>21, <1>22, <1>23, <1>24, <1>25, <1>26
     DEF PutNext, Handler, Caller, InMemory, Task, Forwarder, Call

\* Every step preserves the invariant.
LEMMA PutInductiveStep ==
  PutInductive /\ [PutNext]_putVars => PutInductive'
<1> SUFFICES ASSUME PutInductive, [PutNext]_putVars PROVE PutInductive'
  OBVIOUS
<1>1. Inductive'
  BY StepRefines, InductiveStep DEF PutInductive
<1> QED
  BY <1>1, PipeTypeStep, OrderStep, BodyStep DEF PutInductive

\* PutInductive is an invariant of S3Put.
THEOREM PutInductiveInvariant == PutSpec => []PutInductive
<1>1. PutInit => PutInductive
  BY PutInitInductive
<1>2. PutInductive /\ [PutNext]_putVars => PutInductive'
  BY PutInductiveStep
<1> QED
  BY <1>1, <1>2, PTL DEF PutSpec

\* The safety of Broadcast is that of S3Put: its initial states and steps are
\* those of Broadcast (s3.rs:33-75 within put_object.rs:174-236).
THEOREM PutRefinesBroadcast == PutSpec => Init /\ [][Next]_vars
<1>1. PutInit => Init
  BY DEF PutInit
<1>2. PutInductive /\ [PutNext]_putVars => [Next]_vars
  BY StepRefines
<1> QED
  BY <1>1, <1>2, PutInductiveInvariant, PTL DEF PutSpec

\* The proxy holds at most two channels and two chunks of a body for a remote
\* backend, whatever the length of the body (s3.rs:34, put_object.rs:188).
THEOREM BuffersAreBounded == PutSpec => []BuffersBounded
<1>1. PutInductive => BuffersBounded
  <2> SUFFICES ASSUME PutInductive, NEW b \in S3Backends, body[b] = "open"
               PROVE  read - polled[b] <= 2 * Capacity + 2
    BY DEF BuffersBounded
  <2>1. /\ {read, sent[b], taken[b], passed[b], polled[b]} \subseteq Nat
        /\ Capacity \in Nat /\ Capacity >= 1
        /\ b \in Backends
    BY RemoteAreBackends, BroadcastAssumption
       DEF PutInductive, Inductive, TypeOK, PipeTypeOK
  <2>2. passed[b] - polled[b] <= Capacity
    BY <2>1 DEF PutInductive, ForwardsInOrder
  <2>3. taken[b] <= passed[b] + 1
    BY <2>1 DEF PutInductive, ForwardsInOrder, PipeTypeOK, Forwarders,
               BodyFitsCall
  <2>4. read <= taken[b] + Capacity + 1
    <3>1. forwarder[b] # "over" => sent[b] <= taken[b] + Capacity
      BY <2>1 DEF PutInductive, Inductive, ChannelsAreBounded, ForwardsInOrder
    <3>2. forwarder[b] # "over" => read <= sent[b] + 1
      BY <2>1 DEF PutInductive, Inductive, SendsInOrder, ForwardsInOrder
    <3>3. forwarder[b] = "over" => read <= taken[b] + Capacity + 1
      BY <2>1 DEF PutInductive, BodyFitsCall
    <3> QED
      BY <2>1, <3>1, <3>2, <3>3
  <2> QED
    BY <2>1, <2>2, <2>3, <2>4
<1> QED
  BY <1>1, PutInductiveInvariant, PTL

\* With both channels, too, success means that every backend stores the whole
\* body (put_object.rs:75-97).
THEOREM PutAckedIsWhole == PutSpec => []AckedMeansWholeEverywhere
<1>1. PutInductive => AckedMeansWholeEverywhere
  BY DEF PutInductive, Inductive, ReceivesToTheEnd, AckedMeansWholeEverywhere
<1> QED
  BY <1>1, PutInductiveInvariant, PTL

-----------------------------------------------------------------------------
(* The refinement of MultiSync.                                            *)

\* Whoever has taken all of its channel when it stores, or may, has taken the
\* whole body, unless it is among those that missed chunks when the handler
\* was dropped.
CutsAreKnown ==
    /\ missed # {} => caller = "gone"
    /\ \A b \in Backends :
          /\ task[b] \in {"store", "stored", "ok"} \/ b \in doubt =>
                taken[b] = sent[b]
          /\ caller = "gone" =>
                /\ b \in missed => sent[b] < Chunks
                /\ b \notin missed /\ (task[b] \in {"recv", "store"}
                                       \/ b \in doubt) =>
                      sent[b] = Chunks

\* At the start nobody has missed anything.
LEMMA CutsInit == Init => CutsAreKnown
BY DEF Init, CutsAreKnown

\* What a backend lacked when the handler was dropped it never gets.
LEMMA CutsStep ==
  ASSUME Inductive, CutsAreKnown, [Next]_vars
  PROVE  CutsAreKnown'
<1> USE DEF Inductive, TypeOK, callerVars, taskVars, Callers, Tasks, Backends,
            None, CutsAreKnown, SendsInOrder, ChannelsAreBounded,
            ErrorsReachAll, ReceivesToTheEnd, StartedOnce
<1>1. CASE Start
  BY <1>1 DEF Start
<1>2. CASE ReadChunk
  BY <1>2 DEF ReadChunk
<1>3. CASE ReadError
  BY <1>3 DEF ReadError
<1>4. CASE ReadEnd
  BY <1>4 DEF ReadEnd
<1>5. CASE SendChunk
  BY <1>5 DEF SendChunk
<1>6. CASE SendError
  BY <1>6 DEF SendError
<1>7. CASE Join
  BY <1>7 DEF Join
<1>8. CASE ClientGone
  <2>1. ASSUME NEW b \in Backends, b \notin missed',
               task[b] \in {"recv", "store"} \/ b \in doubt
        PROVE  sent[b] = Chunks
    <3>1. CASE caller \in {"read", "send"}
      BY <1>8, <2>1, <3>1 DEF ClientGone
    <3>2. CASE caller = "join" /\ task[b] = "recv"
      BY <3>2
    <3>3. CASE caller = "join" /\ (task[b] = "store" \/ b \in doubt)
      BY <3>3
    <3> QED
      BY <1>8, <2>1, <3>1, <3>2, <3>3 DEF ClientGone
  <2> QED
    BY <1>8, <2>1 DEF ClientGone
<1>9. CASE \E b \in Backends : TakeChunk(b)
  BY <1>9 DEF TakeChunk
<1>10. CASE \E b \in Backends : TakeError(b)
  BY <1>10 DEF TakeError
<1>11. CASE \E b \in Backends : TakeEnd(b)
  BY <1>11 DEF TakeEnd
<1>12. CASE \E b \in Backends : Store(b)
  BY <1>12 DEF Store
<1>13. CASE \E b \in Backends : Finish(b)
  BY <1>13 DEF Finish
<1>14. CASE \E b \in Backends : RemoteFails(b)
  BY <1>14 DEF RemoteFails
<1>15. CASE \E b \in Backends : DropReceiver(b)
  BY <1>15 DEF DropReceiver
<1>16. CASE \E b \in Backends : LateStore(b)
  BY <1>16 DEF LateStore
<1>17. CASE UNCHANGED vars
  BY <1>17 DEF vars
<1> QED
  BY <1>1, <1>2, <1>3, <1>4, <1>5, <1>6, <1>7, <1>8, <1>9, <1>10, <1>11,
     <1>12, <1>13, <1>14, <1>15, <1>16, <1>17
     DEF Next, Caller, Task

-----------------------------------------------------------------------------
\* MultiSync's backends are those of Broadcast, and its only request is Put.
LEMMA SameBackends == Abstract!Backends = Backends
BY DEF Abstract!Backends, Backends

\* The one request of the instance.
LEMMA OneRequest == Abstract!Requests = {Put}
BY DEF Abstract!Requests

\* The initial state is one of MultiSync.
LEMMA AbstractInit == Init => Abstract!Init
<1> SUFFICES ASSUME Init PROVE Abstract!Init
  OBVIOUS
<1> USE DEF Init, None
<1>1. absStore = [b \in Backends |-> Nil]
  BY DEF absStore, Object
<1>2. absPart = [r \in {Put} |-> [b \in Backends |-> "off"]]
  BY DEF absPart, PartOf
<1>3. absPhase = [r \in {Put} |-> "idle"] /\ absLast = NoRequest
  BY DEF absPhase, Handling, absLast
<1>4. absReached = [r \in {Put} |-> {}]
  BY DEF absReached
<1>5. /\ absCut = [r \in {Put} |-> {}]
      /\ absDoubt = [r \in {Put} |-> {}]
      /\ absContested = {}
  BY DEF absCut, absDoubt, absContested
<1> QED
  BY <1>1, <1>2, <1>3, <1>4, <1>5, SameBackends, OneRequest
     DEF Abstract!Init

\* The task of one backend moves.
LEMMA PartMoves ==
  ASSUME NEW b \in Backends, NEW v, PartOf(b)' = v,
         \A c \in Backends \ {b} : PartOf(c)' = PartOf(c)
  PROVE  absPart' = [absPart EXCEPT ![Put][b] = v]
BY DEF absPart

\* Every step is one of MultiSync, or nothing there: sending and receiving
\* chunks is not seen, nor is the arrival of an error item.
LEMMA AbstractStep ==
  ASSUME Inductive, CutsAreKnown, [Next]_vars
  PROVE  [Abstract!Next]_(Abstract!vars)
<1> USE DEF Inductive, TypeOK, callerVars, taskVars, Callers, Tasks, None,
            CutsAreKnown, SendsInOrder, ChannelsAreBounded, ErrorsReachAll,
            ReceivesToTheEnd, StartedOnce
<1>1. CASE Start
  <2>1. /\ absPhase[Put] = "idle"
        /\ absPhase' = [absPhase EXCEPT ![Put] = "stream"]
    BY <1>1 DEF Start, absPhase, Handling
  <2>2. /\ \A b \in Backends : absPart[Put][b] = "off"
        /\ absPart' = [absPart EXCEPT ![Put] = [b \in Backends |-> "running"]]
    BY <1>1 DEF Start, absPart, PartOf
  <2>3. absLast' = Put
    BY <1>1 DEF Start, absLast
  <2>4. absContested' = {} /\ \A r \in {Put} : Abstract!MayWrite(r) = {}
    BY <1>1, <2>2, SameBackends DEF Start, absContested, absDoubt,
        Abstract!MayWrite
  <2>5. absDoubt[Put] = {} /\ absDoubt' = absDoubt
    BY <1>1 DEF Start, absDoubt
  <2>6. UNCHANGED <<absStore, absCut, absReached>>
    BY <1>1 DEF Start, absStore, Object, absCut, absReached
  <2>7. Abstract!Receive(Put)
    BY <2>1, <2>2, <2>3, <2>4, <2>5, <2>6, SameBackends, OneRequest DEF
        Abstract!Receive
  <2> QED
    BY <2>7, SameBackends, OneRequest DEF Abstract!Next, Abstract!Handler
<1>2. CASE ReadChunk
  <2>1. UNCHANGED <<absStore, absPhase, absPart, absCut>>
    BY <1>2 DEF ReadChunk, absStore, Object, absPhase, Handling, absPart,
        PartOf, absCut
  <2>2. UNCHANGED <<absDoubt, absReached, absLast, absContested>>
    BY <1>2 DEF ReadChunk, absDoubt, absReached, absLast, absContested
  <2> QED
    BY <2>1, <2>2
       DEF Abstract!vars, Abstract!procVars, Abstract!ghostVars
<1>3. CASE ReadError
  <2>1. /\ absPhase[Put] = "stream"
        /\ absPhase' = [absPhase EXCEPT ![Put] = "failed"]
    BY <1>3 DEF ReadError, absPhase, Handling
  <2>2. absPart' =
           [absPart EXCEPT ![Put] =
               [b \in Backends |->
                   IF @[b] = "running" THEN "err" ELSE @[b]]]
    BY <1>3 DEF ReadError, absPart, PartOf
  <2>3. UNCHANGED <<absStore, absCut, absDoubt, absReached, absLast,
            absContested>>
    BY <1>3 DEF ReadError, absStore, Object, absCut, absDoubt, absReached,
        absLast, absContested
  <2>4. Abstract!BodyFails(Put)
    BY <2>1, <2>2, <2>3, SameBackends, OneRequest DEF Abstract!BodyFails,
        Abstract!ghostVars
  <2> QED
    BY <2>4, SameBackends, OneRequest DEF Abstract!Next, Abstract!Handler
<1>4. CASE ReadEnd
  <2>1. /\ absPhase[Put] = "stream"
        /\ absPhase' = [absPhase EXCEPT ![Put] = "join"]
    BY <1>4 DEF ReadEnd, absPhase, Handling
  <2>2. UNCHANGED <<absStore, absPart, absCut, absDoubt, absReached, absLast,
            absContested>>
    BY <1>4 DEF ReadEnd, absStore, Object, absPart, PartOf, absCut, absDoubt,
        absReached, absLast, absContested
  <2>3. Abstract!BodyEnds(Put)
    BY <2>1, <2>2, SameBackends, OneRequest DEF Abstract!BodyEnds,
        Abstract!ghostVars
  <2> QED
    BY <2>3, SameBackends, OneRequest DEF Abstract!Next, Abstract!Handler
<1>5. CASE SendChunk
  <2>1. UNCHANGED <<absStore, absPhase, absPart, absCut>>
    BY <1>5 DEF SendChunk, absStore, Object, absPhase, Handling, absPart,
        PartOf, absCut
  <2>2. UNCHANGED <<absDoubt, absReached, absLast, absContested>>
    BY <1>5 DEF SendChunk, absDoubt, absReached, absLast, absContested
  <2> QED
    BY <2>1, <2>2
       DEF Abstract!vars, Abstract!procVars, Abstract!ghostVars
<1>6. CASE SendError
  <2>1. /\ Handling' = Handling
        /\ \A b \in Backends : PartOf(b)' = PartOf(b)
        /\ \A b \in Backends : Object(b)' = Object(b)
    BY <1>6 DEF SendError, Handling, PartOf, Object
  <2>2. UNCHANGED <<absStore, absPhase, absPart>>
    BY <2>1 DEF absStore, absPhase, absPart
  <2>3. UNCHANGED <<absCut, absDoubt, absReached, absLast, absContested>>
    BY <1>6 DEF SendError, absCut, absDoubt, absReached, absLast, absContested
  <2> QED
    BY <2>2, <2>3 DEF Abstract!vars, Abstract!procVars, Abstract!ghostVars
<1>7. CASE Join
  <2>1. /\ absPhase[Put] = "join"
        /\ absPhase' =
              [absPhase EXCEPT ![Put] =
                  IF \E b \in Backends : absPart[Put][b] = "err"
                  THEN "failed" ELSE "acked"]
        /\ \A b \in Backends : absPart[Put][b] \in {"ok", "err"}
        /\ absPart' = absPart
    BY <1>7 DEF Join, absPhase, Handling, absPart, PartOf
  <2>2. UNCHANGED <<absStore, absCut, absDoubt, absReached, absLast,
            absContested>>
    BY <1>7 DEF Join, absStore, Object, absCut, absDoubt, absReached,
        absLast, absContested
  <2>3. Abstract!Join(Put)
    BY <2>1, <2>2, SameBackends, OneRequest DEF Abstract!Join,
        Abstract!Answered, Abstract!ghostVars
  <2> QED
    BY <2>3, SameBackends, OneRequest DEF Abstract!Next, Abstract!Handler
<1>8. CASE ClientGone
  <2>1. /\ MayVanish
        /\ absPhase[Put] \in {"stream", "join"}
        /\ absPhase' = [absPhase EXCEPT ![Put] = "gone"]
    BY <1>8 DEF ClientGone, absPhase, Handling
  <2>2. /\ missed' \in SUBSET Backends
        /\ absCut' =
              [absCut EXCEPT ![Put] =
                  IF absPhase[Put] = "stream" THEN missed' ELSE @]
    BY <1>8 DEF ClientGone, absCut, absPhase, Handling
  <2>3. UNCHANGED <<absStore, absPart, absDoubt, absReached, absLast,
            absContested>>
    BY <1>8 DEF ClientGone, absStore, Object, absPart, PartOf, absDoubt,
        absReached, absLast, absContested
  <2>4. Abstract!ClientGone(Put)
    BY <2>1, <2>2, <2>3, SameBackends, OneRequest DEF Abstract!ClientGone,
        Abstract!InHandler, Abstract!ghostVars
  <2> QED
    BY <2>4, SameBackends, OneRequest DEF Abstract!Next, Abstract!Handler
<1>9. CASE \E b \in Backends : TakeChunk(b)
  <2>1. UNCHANGED <<absStore, absPhase, absPart, absCut>>
    BY <1>9 DEF TakeChunk, absStore, Object, absPhase, Handling, absPart,
        PartOf, absCut
  <2>2. UNCHANGED <<absDoubt, absReached, absLast, absContested>>
    BY <1>9 DEF TakeChunk, absDoubt, absReached, absLast, absContested
  <2> QED
    BY <2>1, <2>2
       DEF Abstract!vars, Abstract!procVars, Abstract!ghostVars
<1>10. CASE \E b \in Backends : TakeError(b)
  <2>1. UNCHANGED <<absStore, absPhase, absPart, absCut>>
    BY <1>10 DEF TakeError, absStore, Object, absPhase, Handling, absPart,
        PartOf, absCut
  <2>2. UNCHANGED <<absDoubt, absReached, absLast, absContested>>
    BY <1>10 DEF TakeError, absDoubt, absReached, absLast, absContested
  <2> QED
    BY <2>1, <2>2
       DEF Abstract!vars, Abstract!procVars, Abstract!ghostVars
<1>11. CASE \E b \in Backends : TakeEnd(b)
  <2>1. UNCHANGED <<absStore, absPhase, absPart, absCut>>
    BY <1>11 DEF TakeEnd, absStore, Object, absPhase, Handling, absPart,
        PartOf, absCut
  <2>2. UNCHANGED <<absDoubt, absReached, absLast, absContested>>
    BY <1>11 DEF TakeEnd, absDoubt, absReached, absLast, absContested
  <2> QED
    BY <2>1, <2>2
       DEF Abstract!vars, Abstract!procVars, Abstract!ghostVars
<1>12. CASE \E b \in Backends : Store(b)
  <2>1. PICK b \in Backends : Store(b)
    BY <1>12
  <2>2. /\ absPart[Put][b] = "running"
        /\ absPart' = [absPart EXCEPT ![Put][b] = "applied"]
    <3>1. /\ PartOf(b) = "running"
          /\ PartOf(b)' = "applied"
          /\ \A c \in Backends \ {b} : PartOf(c)' = PartOf(c)
      BY <2>1 DEF Store, PartOf
    <3> QED
      BY <2>1, <3>1, PartMoves DEF absPart
  <2>3. absPhase[Put] # "stream"
    BY <2>1 DEF Store, absPhase, Handling
  <2>4. taken[b] # None /\ (taken[b] = Chunks <=> b \notin missed)
    BY <2>1 DEF Store
  <2>5. absStore' =
           [absStore EXCEPT ![b] = IF b \in absCut[Put] THEN Torn ELSE Put]
    <3>1. \A c \in Backends :
             Object(c)' = IF c # b THEN Object(c)
                          ELSE IF b \in missed THEN Torn ELSE Put
      BY <2>1, <2>4 DEF Store, Object
    <3> QED
      BY <3>1 DEF absStore, absCut
  <2>6. absReached' = [absReached EXCEPT ![Put] = @ \cup {b}]
    <3>1. {c \in Backends : stored'[c] # None} =
             {c \in Backends : stored[c] # None} \cup {b}
      BY <2>1, <2>4 DEF Store
    <3> QED
      BY <3>1 DEF absReached
  <2>7. UNCHANGED <<absPhase, absCut, absDoubt, absLast, absContested>>
    BY <2>1 DEF Store, absPhase, Handling, absCut, absDoubt, absLast,
                absContested
  <2>8. Abstract!PartApplies(Put, b)
    BY <2>1, <2>2, <2>3, <2>5, <2>6, <2>7, SameBackends, OneRequest
       DEF Abstract!PartApplies, Abstract!Execute, Abstract!Result
  <2> QED
    BY <2>1, <2>8, SameBackends, OneRequest DEF Abstract!Next, Abstract!Part
<1>13. CASE \E b \in Backends : Finish(b)
  <2>1. PICK b \in Backends : Finish(b)
    BY <1>13
  <2>2. /\ absPart[Put][b] = "applied"
        /\ absPart' = [absPart EXCEPT ![Put][b] = "ok"]
    <3>1. /\ PartOf(b) = "applied"
          /\ PartOf(b)' = "ok"
          /\ \A c \in Backends \ {b} : PartOf(c)' = PartOf(c)
      BY <2>1 DEF Finish, PartOf
    <3> QED
      BY <2>1, <3>1, PartMoves DEF absPart
  <2>3. UNCHANGED <<absStore, absPhase, absCut, absDoubt>>
    BY <2>1 DEF Finish, absStore, Object, absPhase, Handling, absCut, absDoubt
  <2>4. UNCHANGED <<absReached, absLast, absContested>>
    BY <2>1 DEF Finish, absReached, absLast, absContested
  <2>5. Abstract!PartSucceeds(Put, b)
    BY <2>1, <2>2, <2>3, <2>4, SameBackends, OneRequest
       DEF Abstract!PartSucceeds, Abstract!ghostVars
  <2> QED
    BY <2>1, <2>5, SameBackends, OneRequest DEF Abstract!Next, Abstract!Part
<1>14. CASE \E b \in Backends : RemoteFails(b)
  <2>1. PICK b \in Backends : RemoteFails(b)
    BY <1>14
  <2>2. /\ absPart[Put][b] \in {"running", "applied", "err"}
        /\ absPart' = [absPart EXCEPT ![Put][b] = "err"]
    <3>1. /\ PartOf(b) \in {"running", "applied", "err"}
          /\ PartOf(b)' = "err"
          /\ \A c \in Backends \ {b} : PartOf(c)' = PartOf(c)
      BY <2>1 DEF RemoteFails, PartOf
    <3> QED
      BY <2>1, <3>1, PartMoves DEF absPart
  <2>3. UNCHANGED <<absPhase, absCut, absLast, absContested>>
    BY <2>1 DEF RemoteFails, absPhase, Handling, absCut, absLast, absContested
  <2>4. UNCHANGED <<absStore, absReached>>
    BY <2>1 DEF RemoteFails, absStore, Object, absReached
  <2>5. \/ absDoubt' = absDoubt
        \/ /\ absDoubt' = [absDoubt EXCEPT ![Put] = @ \cup {b}]
           /\ absPart[Put][b] = "running"
           /\ absPhase[Put] # "stream"
    BY <2>1 DEF RemoteFails, absDoubt, absPart, PartOf, absPhase, Handling
  <2>6. CASE absPart[Put][b] \in {"running", "applied"}
    <3>1. Abstract!PartFails(Put, b)
      BY <2>1, <2>2, <2>3, <2>4, <2>5, <2>6, SameBackends, OneRequest
         DEF RemoteFails, IsRemote, Abstract!PartFails, Abstract!ErrorSeen,
             Abstract!IsRemote, Abstract!ghostVars
    <3> QED
      BY <2>1, <3>1, SameBackends, OneRequest DEF Abstract!Next
  <2>7. CASE absPart[Put][b] = "err"
    <3>1. absPart' = absPart
      <4>1. \A c \in Backends : PartOf(c)' = PartOf(c)
        BY <2>2, <2>7 DEF absPart
      <4> QED
        BY <4>1 DEF absPart
    <3>2. absDoubt' = absDoubt
      BY <2>5, <2>7
    <3> QED
      BY <2>3, <2>4, <3>1, <3>2
         DEF Abstract!vars, Abstract!procVars, Abstract!ghostVars
  <2> QED
    BY <2>2, <2>6, <2>7
<1>15. CASE \E b \in Backends : DropReceiver(b)
  <2>1. UNCHANGED <<absStore, absPhase, absPart, absCut>>
    BY <1>15 DEF DropReceiver, absStore, Object, absPhase, Handling, absPart,
        PartOf, absCut
  <2>2. UNCHANGED <<absDoubt, absReached, absLast, absContested>>
    BY <1>15 DEF DropReceiver, absDoubt, absReached, absLast, absContested
  <2> QED
    BY <2>1, <2>2
       DEF Abstract!vars, Abstract!procVars, Abstract!ghostVars
<1>16. CASE \E b \in Backends : LateStore(b)
  <2>1. PICK b \in Backends : LateStore(b)
    BY <1>16
  <2>2. /\ b \in absDoubt[Put]
        /\ absDoubt' = [absDoubt EXCEPT ![Put] = @ \ {b}]
    BY <2>1 DEF LateStore, absDoubt
  <2>3. UNCHANGED <<absPhase, absPart, absCut, absLast, absContested>>
    BY <2>1 DEF LateStore, absPhase, Handling, absPart, PartOf, absCut,
                absLast, absContested
  <2>4. CASE stored' = stored
    <3>1. UNCHANGED <<absStore, absReached>>
      BY <2>4 DEF absStore, Object, absReached
    <3>2. Abstract!LateExecution(Put, b)
      BY <2>2, <2>3, <3>1 DEF Abstract!LateExecution, Abstract!ghostVars
    <3> QED
      BY <2>1, <3>2, SameBackends, OneRequest DEF Abstract!Next
  <2>5. CASE stored' = [stored EXCEPT ![b] = taken[b]]
    <3>1. taken[b] # None /\ (taken[b] = Chunks <=> b \notin missed)
      BY <2>1 DEF LateStore
    <3>2. absStore' =
             [absStore EXCEPT ![b] =
                 IF b \in absCut[Put] THEN Torn ELSE Put]
      <4>1. \A c \in Backends :
               Object(c)' = IF c # b THEN Object(c)
                            ELSE IF b \in missed THEN Torn ELSE Put
        BY <2>5, <3>1 DEF Object
      <4> QED
        BY <4>1 DEF absStore, absCut
    <3>3. absReached' = [absReached EXCEPT ![Put] = @ \cup {b}]
      <4>1. {c \in Backends : stored'[c] # None} =
               {c \in Backends : stored[c] # None} \cup {b}
        BY <2>5, <3>1
      <4> QED
        BY <4>1 DEF absReached
    <3>4. Abstract!LateExecution(Put, b)
      BY <2>1, <2>2, <2>3, <3>2, <3>3, SameBackends, OneRequest
         DEF Abstract!LateExecution, Abstract!Execute, Abstract!Result
    <3> QED
      BY <2>1, <3>4, SameBackends, OneRequest DEF Abstract!Next
  <2> QED
    BY <2>1, <2>4, <2>5 DEF LateStore
<1>17. CASE UNCHANGED vars
  BY <1>17 DEF vars, absStore, Object, absPhase, Handling, absPart, PartOf,
               absCut, absDoubt, absReached, absLast, absContested,
               Abstract!vars, Abstract!procVars, Abstract!ghostVars
<1> QED
  BY <1>1, <1>2, <1>3, <1>4, <1>5, <1>6, <1>7, <1>8, <1>9, <1>10, <1>11,
     <1>12, <1>13, <1>14, <1>15, <1>16, <1>17
     DEF Next, Caller, Task

\* What follows from the steps, whatever fairness is assumed.
LEMMA SafetyRefines ==
  Init /\ [][Next]_vars =>
     Abstract!Init /\ [][Abstract!Next]_(Abstract!vars)
<1>1. Init => Abstract!Init
  BY AbstractInit
<1>2. /\ Init => Inductive /\ CutsAreKnown
      /\ Inductive /\ CutsAreKnown /\ [Next]_vars =>
            Inductive' /\ CutsAreKnown'
  BY InitInductive, CutsInit, InductiveStep, CutsStep
<1>3. Inductive /\ CutsAreKnown /\ [Next]_vars =>
         [Abstract!Next]_(Abstract!vars)
  BY AbstractStep
<1> QED
  BY <1>1, <1>2, <1>3, PTL

\* The chunk-level PUT (put_object.rs:174-236) implements the object-level one
\* (put_object.rs:55-98), its fairness apart.
THEOREM BroadcastRefinesMultiSync ==
  Spec => Abstract!Init /\ [][Abstract!Next]_(Abstract!vars)
BY SafetyRefines, PTL DEF Spec

\* And so does the PUT with the pipeline of S3Backend (s3.rs:27-77) behind the
\* channels.
THEOREM PipelineRefinesMultiSync ==
  PutSpec => Abstract!Init /\ [][Abstract!Next]_(Abstract!vars)
BY PutRefinesBroadcast, SafetyRefines, PTL

=============================================================================
