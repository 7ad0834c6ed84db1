----------------------------- MODULE Broadcast -----------------------------
(***************************************************************************)
(* broadcast_stream_to_backends (put_object.rs:174-236) and the handler    *)
(* around it (55-98): one MULTI_SYNC PUT, chunk by chunk.                  *)
(*                                                                         *)
(* The caller reads the body and sends each chunk to one bounded channel   *)
(* per backend, in the order of the list, waiting wherever a channel is    *)
(* full.  A spawned task per backend drains its channel into put_object.   *)
(* The end of the body is signalled by dropping the senders, an error by   *)
(* an error item; a task that fails drops its receiver, which turns the    *)
(* sends to it into no-ops.                                                *)
(*                                                                         *)
(* Chunks are numbered, so a channel is three counters: how many chunks    *)
(* were put into it, how many were taken out of it, and whether the error  *)
(* item follows.                                                           *)
(***************************************************************************)
EXTENDS StorageBackend

CONSTANTS
    Chunks,      \* number of chunks in the body
    Capacity,    \* of a channel; 256 in the code
    MayVanish,   \* whether the client may disconnect during the request
    Put,         \* the request, as MultiSync names it
    Torn,        \* an object that ends before its body does
    NoRequest    \* not a request

ASSUME BroadcastAssumption ==
    /\ Chunks \in Nat
    /\ Capacity \in Nat \ {0}
    /\ MayVanish \in BOOLEAN
    /\ Put \notin {Torn, Nil, NoRequest}
    /\ Torn # Nil
    /\ NoRequest # Nil
    /\ NoRequest # Torn

VARIABLES
    caller,    \* what the handler is doing
    read,      \* chunks it has read from the body
    target,    \* the sender the for loop is at
    open,      \* the senders have not been dropped
    sent,      \* sent[b]: chunks sent into b's channel
    errSent,   \* backends whose channel was given the error item
    taken,     \* taken[b]: chunks that b's task took out of it
    receiving, \* backends whose task still holds its receiver
    task,      \* task[b]: what b's task is doing
    doubt,     \* remote backends that may store the body after the task's end
    stored,    \* stored[b]: chunks of the object that b stores, or None

    \* History, read by the refinement mapping only.
    missed     \* backends that lacked chunks when the client disappeared

callerVars == <<caller, read, target, open, sent, errSent>>
taskVars   == <<taken, receiving, task, doubt, stored>>
vars       == <<callerVars, taskVars, missed>>

None == -1

Callers == {"idle", "read", "send", "sendErr", "join",
            "acked", "failed", "broken", "gone"}
Tasks   == {"off", "recv", "store", "stored", "ok", "err"}

Init ==
    /\ caller    = "idle"
    /\ read      = 0
    /\ target    = 0
    /\ open      = TRUE
    /\ sent      = [b \in Backends |-> 0]
    /\ errSent   = {}
    /\ taken     = [b \in Backends |-> 0]
    /\ receiving = Backends
    /\ task      = [b \in Backends |-> "off"]
    /\ doubt     = {}
    /\ stored    = [b \in Backends |-> None]
    /\ missed    = {}

-----------------------------------------------------------------------------
(* The caller.                                                             *)

\* The channels are created and the tasks spawned.
Start ==
    /\ caller = "idle"
    /\ caller' = "read"
    /\ task' = [b \in Backends |-> "recv"]
    /\ UNCHANGED <<read, target, open, sent, errSent, taken, receiving,
                   doubt, stored, missed>>

\* stream.next() yields a chunk.
ReadChunk ==
    /\ caller = "read"
    /\ read < Chunks
    /\ read'   = read + 1
    /\ target' = 0
    /\ caller' = "send"
    /\ UNCHANGED <<open, sent, errSent, taskVars, missed>>

\* stream.next() yields an error: the rest of the body will not come.
ReadError ==
    /\ caller = "read"
    /\ read < Chunks
    /\ target' = 0
    /\ caller' = "sendErr"
    /\ UNCHANGED <<read, open, sent, errSent, taskVars, missed>>

\* A mutant: the senders are kept while the tasks are awaited.
ReadEnd_KeepSenders ==
    /\ caller = "read"
    /\ read = Chunks
    /\ caller' = "join"
    /\ UNCHANGED <<read, target, open, sent, errSent, taskVars, missed>>

\* stream.next() yields None: the senders are dropped.
ReadEnd ==
    /\ caller = "read"
    /\ read = Chunks
    /\ open'   = FALSE
    /\ caller' = "join"
    /\ UNCHANGED <<read, target, sent, errSent, taskVars, missed>>

\* A mutant: the channel is taken for unbounded.
HasRoom_Unbounded(b) == TRUE

\* Bounded channel: a permit is free.
HasRoom(b) ==
    sent[b] + (IF b \in errSent THEN 1 ELSE 0) - taken[b] < Capacity

\* A mutant: a send waits for room though nobody receives any more.
CanSend_IgnoreClosed(b) == HasRoom(b)

\* send() returns: there is room, or the receiver is gone and it fails.
CanSend(b) == HasRoom(b) \/ b \notin receiving

\* One round of `for sender in &senders': a failed send is only logged.
SendChunk ==
    /\ caller = "send"
    /\ CanSend(target)
    /\ sent' = IF target \in receiving
               THEN [sent EXCEPT ![target] = @ + 1] ELSE sent
    /\ IF target + 1 < NumBackends
       THEN target' = target + 1 /\ UNCHANGED caller
       ELSE target' = 0 /\ caller' = "read"
    /\ UNCHANGED <<read, open, errSent, taskVars, missed>>

\* A mutant: the error is not sent on, the senders are just dropped.
SendError_JustDrop ==
    /\ caller = "sendErr"
    /\ caller' = "broken"
    /\ open' = FALSE
    /\ UNCHANGED <<read, target, sent, errSent, taskVars, missed>>

\* The same loop for the error item; then the caller returns the error, and
\* the senders are dropped with it.  The tasks are not awaited.
SendError ==
    /\ caller = "sendErr"
    /\ CanSend(target)
    /\ errSent' = errSent \cup ({target} \cap receiving)
    /\ IF target + 1 < NumBackends
       THEN target' = target + 1 /\ UNCHANGED <<caller, open>>
       ELSE target' = 0 /\ caller' = "broken" /\ open' = FALSE
    /\ UNCHANGED <<read, sent, taskVars, missed>>

\* A mutant: only the tasks that are done are looked at.
Join_AnyDone ==
    /\ caller = "join"
    /\ \E b \in Backends : task[b] \in {"ok", "err"}
    /\ caller' = IF \E b \in Backends : task[b] = "err"
                 THEN "failed" ELSE "acked"
    /\ UNCHANGED <<read, target, open, sent, errSent, taskVars, missed>>

\* Every task has been awaited; one error fails the PUT (no rollback).
Join ==
    /\ caller = "join"
    /\ \A b \in Backends : task[b] \in {"ok", "err"}
    /\ caller' = IF \E b \in Backends : task[b] = "err"
                 THEN "failed" ELSE "acked"
    /\ UNCHANGED <<read, target, open, sent, errSent, taskVars, missed>>

\* The client disconnects and the server drops the handler, with its senders.
\* The HTTP/1 connection can tell that the client is gone only when the whole
\* body has arrived, and at most one chunk of it waits for the handler: an
\* earlier disconnection is an error of the body, ReadError.
ClientGone ==
    /\ MayVanish
    /\ caller \in {"read", "send", "join"}
    /\ read + 1 >= Chunks
    /\ caller' = "gone"
    /\ open' = FALSE
    /\ missed' = IF caller = "join" THEN {}
                 ELSE {b \in Backends : sent[b] < Chunks}
    /\ UNCHANGED <<read, target, sent, errSent, taskVars>>

-----------------------------------------------------------------------------
(* The task of backend b: put_object on the receiver of its channel.       *)

\* An in-memory put_object reads its stream itself; that of S3Backend has it
\* forwarded by another task, which may go on for a while though the call has
\* failed (StreamBody::new, s3.rs:37-51; module S3Put).
TakeChunk(b) ==
    /\ b \in receiving
    /\ task[b] = "recv" \/ (task[b] = "err" /\ IsRemote(b))
    /\ taken[b] < sent[b]
    /\ taken' = [taken EXCEPT ![b] = @ + 1]
    /\ UNCHANGED <<callerVars, receiving, task, doubt, stored, missed>>

\* The error item: put_object stores nothing.
TakeError(b) ==
    /\ task[b] = "recv"
    /\ taken[b] = sent[b]
    /\ b \in errSent
    /\ task' = [task EXCEPT ![b] = "err"]
    /\ receiving' = IF IsRemote(b) THEN receiving ELSE receiving \ {b}
    /\ UNCHANGED <<callerVars, taken, doubt, stored, missed>>

\* A mutant: an empty channel is taken for the end of the body.
TakeEnd_Empty(b) ==
    /\ task[b] = "recv"
    /\ taken[b] = sent[b]
    /\ b \notin errSent
    /\ task' = [task EXCEPT ![b] = "store"]
    /\ receiving' = receiving \ {b}
    /\ UNCHANGED <<callerVars, taken, doubt, stored, missed>>

\* The channel is drained and its sender dropped: the body is complete, as
\* far as the task can tell.
TakeEnd(b) ==
    /\ task[b] = "recv"
    /\ taken[b] = sent[b]
    /\ b \notin errSent
    /\ ~ open
    /\ task' = [task EXCEPT ![b] = "store"]
    /\ receiving' = receiving \ {b}
    /\ UNCHANGED <<callerVars, taken, doubt, stored, missed>>

\* The backend stores what it was sent.
Store(b) ==
    /\ task[b] = "store"
    /\ task'   = [task EXCEPT ![b] = "stored"]
    /\ stored' = [stored EXCEPT ![b] = taken[b]]
    /\ UNCHANGED <<callerVars, taken, receiving, doubt, missed>>

Finish(b) ==
    /\ task[b] = "stored"
    /\ task' = [task EXCEPT ![b] = "ok"]
    /\ UNCHANGED <<callerVars, taken, receiving, doubt, stored, missed>>

\* The remote call fails.  After the end of the body the outcome is open.
RemoteFails(b) ==
    /\ IsRemote(b)
    /\ task[b] \in {"recv", "store", "stored"}
    /\ task'  = [task EXCEPT ![b] = "err"]
    /\ doubt' \in {doubt, IF task[b] = "store" THEN doubt \cup {b} ELSE doubt}
    /\ UNCHANGED <<callerVars, taken, receiving, stored, missed>>

\* The forwarding task lets go of the channel: it could not pass an item on to
\* the failed call, or it has passed on the error and seen the end.
DropReceiver(b) ==
    /\ IsRemote(b)
    /\ b \in receiving
    /\ \/ task[b] = "err"
       \/ task[b] = "recv" /\ b \in errSent /\ taken[b] = sent[b] /\ ~ open
    /\ receiving' = receiving \ {b}
    /\ UNCHANGED <<callerVars, taken, task, doubt, stored, missed>>

LateStore(b) ==
    /\ b \in doubt
    /\ doubt' = doubt \ {b}
    /\ stored' \in {stored, [stored EXCEPT ![b] = taken[b]]}
    /\ UNCHANGED <<callerVars, taken, receiving, task, missed>>

-----------------------------------------------------------------------------
Caller == Start \/ ReadChunk \/ ReadError \/ ReadEnd
             \/ SendChunk \/ SendError \/ Join \/ ClientGone

Task(b) == TakeChunk(b) \/ TakeError(b) \/ TakeEnd(b) \/ Store(b)
             \/ Finish(b)

Next == Caller \/ \E b \in Backends :
                      \/ Task(b)
                      \/ DropReceiver(b)
                      \/ RemoteFails(b)
                      \/ LateStore(b)

\* The runtime polls what is ready; a remote backend deals with what it has
\* been sent, unless it fails.  Nothing makes the client send the next chunk,
\* nor a remote backend fail.
Fairness ==
    /\ WF_vars(SendChunk \/ SendError \/ Join)
    /\ \A b \in Backends : WF_vars(Task(b)) /\ WF_vars(LateStore(b))

Spec == Init /\ [][Next]_vars /\ Fairness

-----------------------------------------------------------------------------
(* Properties.                                                             *)

TypeOK ==
    /\ caller \in Callers
    /\ read \in 0 .. Chunks
    /\ target \in Backends
    /\ open \in BOOLEAN
    /\ sent \in [Backends -> 0 .. Chunks]
    /\ errSent \subseteq Backends
    /\ taken \in [Backends -> 0 .. Chunks]
    /\ receiving \subseteq Backends
    /\ task \in [Backends -> Tasks]
    /\ doubt \subseteq S3Backends
    /\ stored \in [Backends -> {None} \cup 0 .. Chunks]
    /\ missed \subseteq Backends

\* A PUT that is answered with success is stored, whole, by every backend,
\* even though a send to a failed one is only logged (put_object.rs:208-210).
AckedMeansWholeEverywhere ==
    caller = "acked" => \A b \in Backends : stored[b] = Chunks

\* A body that breaks off is stored by no backend, though the tasks that
\* receive it are not awaited: the error item overtakes nothing and is never
\* lost (put_object.rs:213-218).
BrokenBodyStoresNothing ==
    caller \in {"sendErr", "broken"} =>
        \A b \in Backends : stored[b] = None /\ task[b] # "store"

\* Backpressure: no task that is still receiving is more than a full channel
\* and a chunk ahead of another, so one slow backend holds all of them back,
\* and no channel holds more than its capacity.
LockStep ==
    \A b, c \in receiving :
        /\ sent[b] - taken[b] <= Capacity
        /\ taken[b] - taken[c] <= Capacity + 1

(* Why these hold: the facts that, with them, every step preserves.        *)

\* Before Start nothing has happened, after it every task is there.
StartedOnce ==
    /\ caller = "idle" =>
           /\ read = 0
           /\ \A b \in Backends : sent[b] = 0
    /\ \A b \in Backends : caller = "idle" <=> task[b] = "off"

\* Where the caller is in the body decides what it has sent to the channels
\* whose receivers are still there.
SendsInOrder ==
    /\ caller = "send" => read > 0
    /\ open <=> caller \in {"idle", "read", "send", "sendErr"}
    /\ caller \in {"join", "acked", "failed"} => read = Chunks
    /\ \A b \in receiving :
           /\ read - 1 <= sent[b]
           /\ sent[b] <= read
           /\ caller \notin {"send", "gone"} => sent[b] = read
           /\ caller = "send" => (b < target <=> sent[b] = read)

\* A channel holds no more than its capacity, and gives what was put in.
ChannelsAreBounded ==
    \A b \in Backends :
        /\ taken[b] <= sent[b]
        /\ b \in receiving => sent[b] - taken[b] <= Capacity

\* The error item is sent once the body is broken, and then to everyone.
ErrorsReachAll ==
    /\ errSent # {} => caller \in {"sendErr", "broken"}
    /\ caller = "sendErr" =>
           \A b \in receiving : b < target => b \in errSent
    /\ caller = "broken" => receiving \subseteq errSent

\* A task stops receiving when it has all there is, or failed.
ReceivesToTheEnd ==
    \A b \in Backends :
        /\ task[b] \in {"off", "recv"} => b \in receiving \/ b \in errSent
        /\ task[b] \in {"store", "stored", "ok"} \/ b \in doubt
               \/ stored[b] # None =>
                   /\ ~ open
                   /\ b \notin receiving
                   /\ caller \notin {"sendErr", "broken"}
                   /\ caller \in {"join", "acked", "failed"} =>
                          taken[b] = Chunks
        /\ task[b] \in {"stored", "ok"} => stored[b] = taken[b]
        /\ stored[b] # None =>
               stored[b] = taken[b] /\ task[b] \in {"stored", "ok", "err"}
        /\ b \in doubt => task[b] = "err"
        /\ caller = "acked" => task[b] = "ok"

\* The inductive invariant behind the properties above: the caller's place in
\* its loops, the channels and the tasks stay in step, whoever moves next
\* (put_object.rs:174-236).
Inductive ==
    /\ TypeOK
    /\ StartedOnce
    /\ SendsInOrder
    /\ ChannelsAreBounded
    /\ ErrorsReachAll
    /\ ReceivesToTheEnd

-----------------------------------------------------------------------------
\* A send never waits for ever: a slow backend catches up, a failed one makes
\* room or lets go of its channel.
SendReturns ==
    caller \in {"send", "sendErr"} ~> caller \notin {"send", "sendErr"}

\* Once the caller is done with the body, however it ended, every task ends.
TasksEnd ==
    caller \in {"join", "broken", "gone"}
        ~> \A b \in Backends : task[b] \in {"ok", "err"}

\* put_object.rs:223, "signal EOF to backend tasks": a backend that is told
\* that the body has ended stores a whole body.
StoredIsWhole == \A b \in Backends : stored[b] \in {None, Chunks}

\* The chunk-level PUT as MultiSync sees it: the objects, the handler and the
\* tasks.  A task that has yet to take an error item from its channel counts
\* as failed.
Object(b) ==
    CASE stored[b] = None   -> Nil
      [] stored[b] = Chunks -> Put
      [] OTHER              -> Torn

Handling ==
    CASE caller \in {"read", "send"}      -> "stream"
      [] caller \in {"sendErr", "broken"} -> "failed"
      [] OTHER                            -> caller

PartOf(b) ==
    IF task[b] = "recv" /\ caller \in {"sendErr", "broken"} THEN "err"
    ELSE IF task[b] \in {"recv", "store"} THEN "running"
    ELSE IF task[b] = "stored" THEN "applied"
    ELSE task[b]

absStore   == [b \in Backends |-> Object(b)]
absPhase   == [r \in {Put} |-> Handling]
absPart    == [r \in {Put} |-> [b \in Backends |-> PartOf(b)]]
absCut     == [r \in {Put} |-> missed]
absDoubt   == [r \in {Put} |-> doubt]
absReached == [r \in {Put} |-> {b \in Backends : stored[b] # None}]
absLast    == IF caller = "idle" THEN NoRequest ELSE Put
absContested == {}   \* there is no other request

\* One PUT of MultiSync.
Abstract == INSTANCE MultiSync WITH
    Puts <- {Put}, Deletes <- {}, MayRestart <- FALSE,
    store <- absStore, phase <- absPhase, part <- absPart, cut <- absCut,
    doubt <- absDoubt, reached <- absReached, last <- absLast,
    contested <- absContested

\* The chunk-level PUT implements the object-level one, its liveness included.
ImplementsMultiSync == Abstract!Spec

=============================================================================
