-------------------------- MODULE AsyncReplication --------------------------
(***************************************************************************)
(* The ASYNC_REPLICATION write path of MultiBackend: put_object.rs and     *)
(* delete_object.rs under src/src/storage/multi_backend.                   *)
(*                                                                         *)
(* A PUT or DELETE is executed on the primary backend, answered, and only  *)
(* then copied to the other backends by detached tokio tasks: the task of  *)
(* a PUT first GETs the object back from the primary and streams whatever  *)
(* it finds there to all the others; a DELETE starts one delete task per   *)
(* other backend.  Nothing orders the tasks of two requests, nothing       *)
(* retries them, and nothing records them across a restart.                *)
(***************************************************************************)
EXTENDS StorageBackend

CONSTANTS
    Puts, Deletes,   \* the requests that clients may send; the body of a PUT
                     \* is identified with the request
    PrimaryIndex,    \* primary_index chosen at start-up
    LatencyBased,    \* useLatencyBasedPrimaryBackend: start-up measures again
    MayRestart,      \* whether the process may stop and start again
    Sequential,      \* TRUE: one client, which waits for each answer
    NoRequest        \* not a request

Requests == Puts \cup Deletes

ASSUME AsyncAssumption ==
    /\ PrimaryIndex \in Backends
    /\ Puts \cap Deletes = {}
    /\ NoRequest \notin Requests
    /\ Nil \notin Requests
    /\ {LatencyBased, MayRestart, Sequential} \subseteq BOOLEAN

VARIABLES
    store,     \* store[b]: the object backend b holds under the key
    primary,   \* MultiBackend.primary_index of the running process
    phase,     \* phase[r]: where the handler of request r is
    home,      \* home[r]: the backend that was primary when r arrived
    doubt,     \* requests given up on while the remote primary may run them
    fetching,  \* PUTs whose background task has not read the primary yet
    fetched,   \* fetched[r]: the object that task read
    pending,   \* pending[r]: backends the tasks of r have still to write

    \* History, read by the properties only.
    held,      \* PUTs that were executed on their primary
    reached,   \* reached[r]: backends that executed r and still keep it
    last,      \* the request that arrived last
    contested  \* backends that requests before the last might still change
               \* when it arrived

procVars  == <<primary, phase, home, doubt, fetching, fetched, pending>>
ghostVars == <<held, reached, last, contested>>
vars      == <<store, procVars, ghostVars>>

Objects == Puts \cup {Nil}
Phases  == {"idle", "primary", "applied", "acked", "ended"}

\* What executing r leaves under the key.
Effect(r) == IF r \in Puts THEN r ELSE Nil

\* A request is in the hands of its handler.
InHandler(r) == phase[r] \in {"primary", "applied"}

\* Some step on behalf of r may still change a backend.
Active(r) ==
    \/ InHandler(r)
    \/ r \in doubt
    \/ r \in fetching
    \/ pending[r] # {}

\* The backends that some step on behalf of r may still change.
MayWrite(r) ==
    {b \in Backends :
        \/ phase[r] = "primary"
        \/ b # home[r] /\ (phase[r] = "applied" \/ r \in fetching)
        \/ b = home[r] /\ r \in doubt
        \/ b \in pending[r]}

Quiescent == \A r \in Requests : ~ Active(r)

Init ==
    /\ store     = [b \in Backends |-> Nil]
    /\ primary   = PrimaryIndex
    /\ phase     = [r \in Requests |-> "idle"]
    /\ home      = [r \in Requests |-> PrimaryIndex]
    /\ doubt     = {}
    /\ fetching  = {}
    /\ fetched   = [r \in Requests |-> Nil]
    /\ pending   = [r \in Requests |-> {}]
    /\ held      = {}
    /\ reached   = [r \in Requests |-> {}]
    /\ last      = NoRequest
    /\ contested = {}

-----------------------------------------------------------------------------
(* The handler: put_object_async_replication_streaming,                    *)
(* delete_object_async_replication.                                        *)

\* History: r arrives, and finds these backends contested.
NoteArrival(r) ==
    /\ last'      = r
    /\ contested' = UNION {MayWrite(p) : p \in Requests}

\* A mutant: the replicas are written along with the primary, not after it.
Receive_EagerFanOut(r) ==
    /\ phase[r] = "idle"
    /\ Sequential => \A q \in Requests : ~ InHandler(q)
    /\ phase'   = [phase EXCEPT ![r] = "primary"]
    /\ home'    = [home EXCEPT ![r] = primary]
    /\ fetched' = [fetched EXCEPT ![r] = Effect(r)]
    /\ pending' = [pending EXCEPT ![r] = Backends \ {primary}]
    /\ NoteArrival(r)
    /\ UNCHANGED <<store, primary, doubt, fetching, held, reached>>

\* A request arrives and its handler calls the primary.
Receive(r) ==
    /\ phase[r] = "idle"
    /\ Sequential => \A q \in Requests : ~ InHandler(q)
    /\ phase' = [phase EXCEPT ![r] = "primary"]
    /\ home'  = [home EXCEPT ![r] = primary]
    /\ NoteArrival(r)
    /\ UNCHANGED <<store, primary, doubt, fetching, fetched, pending,
                   held, reached>>

\* Backend b executes r with result v.
Execute(r, b, v) ==
    /\ store'   = [store EXCEPT ![b] = v]
    /\ reached' = [reached EXCEPT ![r] = @ \cup {b}]

\* The primary executes the request on behalf of its handler.
ExecuteAtHome(r) ==
    /\ Execute(r, home[r], Effect(r))
    /\ held' = held \cup ({r} \cap Puts)

PrimaryExecutes(r) ==
    /\ phase[r] = "primary"
    /\ phase' = [phase EXCEPT ![r] = "applied"]
    /\ ExecuteAtHome(r)
    /\ UNCHANGED <<primary, home, doubt, fetching, fetched, pending,
                   last, contested>>

\* A mutant: the primary is left in the list of the backends to copy to.
Spawn_KeepPrimary(r) ==
    IF NumBackends <= 1
    THEN UNCHANGED <<fetching, pending>>
    ELSE IF r \in Puts
    THEN fetching' = fetching \cup {r} /\ UNCHANGED pending
    ELSE pending' = [pending EXCEPT ![r] = Backends] /\ UNCHANGED fetching

\* spawn_background_replication_tasks_streaming, spawn_background_delete_tasks.
Spawn(r) ==
    LET others == Backends \ {home[r]}
    IN  IF NumBackends <= 1
        THEN UNCHANGED <<fetching, pending>>
        ELSE IF r \in Puts
        THEN fetching' = fetching \cup {r} /\ UNCHANGED pending
        ELSE pending' = [pending EXCEPT ![r] = others] /\ UNCHANGED fetching

\* A mutant: the handler does not await the primary.
Acknowledge_NoAwait(r) ==
    /\ phase[r] \in {"primary", "applied"}
    /\ phase' = [phase EXCEPT ![r] = "acked"]
    /\ Spawn(r)
    /\ UNCHANGED <<store, primary, home, doubt, fetched, ghostVars>>

\* The primary's success reaches the handler, which spawns the background
\* tasks and answers; there is no await between the two.
Acknowledge(r) ==
    /\ phase[r] = "applied"
    /\ phase' = [phase EXCEPT ![r] = "acked"]
    /\ Spawn(r)
    /\ UNCHANGED <<store, primary, home, doubt, fetched, ghostVars>>

\* S3Backend::delete_object turns every error into Ok(()) (s3.rs:367-371):
\* the handler goes on as if the primary had deleted the object.
MaskDeleteError(r) ==
    /\ r \in Deletes
    /\ phase[r] = "primary"
    /\ IsRemote(home[r])
    /\ phase' = [phase EXCEPT ![r] = "acked"]
    /\ doubt' = doubt \cup {r}
    /\ Spawn(r)
    /\ UNCHANGED <<store, primary, home, fetched, ghostVars>>

\* The handler stops without spawning anything.  A call that was on its way
\* to a remote primary may be executed all the same.
Abandon(r) ==
    /\ phase' = [phase EXCEPT ![r] = "ended"]
    /\ doubt' = IF phase[r] = "primary" /\ IsRemote(home[r])
                THEN doubt \cup {r} ELSE doubt
    /\ UNCHANGED <<store, primary, home, fetching, fetched, pending,
                   ghostVars>>

\* The remote primary reports an error for a PUT: `?' returns it to the client.
PrimaryFails(r) ==
    /\ r \in Puts
    /\ InHandler(r)
    /\ IsRemote(home[r])
    /\ Abandon(r)

\* The body of a PUT breaks off: put_object of either backend returns the
\* error and stores nothing.
BodyFails(r) ==
    /\ r \in Puts
    /\ phase[r] = "primary"
    /\ phase' = [phase EXCEPT ![r] = "ended"]
    /\ UNCHANGED <<store, primary, home, doubt, fetching, fetched, pending,
                   ghostVars>>

\* The client disconnects and the server drops the handler's future at an
\* await.  InMemoryStorage has none between storing and the handler's return.
ClientGone(r) ==
    /\ InHandler(r)
    /\ phase[r] = "applied" => IsRemote(home[r])
    /\ Abandon(r)

\* The remote primary executes, or turns out never to execute, a request its
\* handler has given up on.
LateExecution(r) ==
    /\ r \in doubt
    /\ doubt' = doubt \ {r}
    /\ \/ ExecuteAtHome(r)
       \/ UNCHANGED <<store, held, reached>>
    /\ UNCHANGED <<primary, phase, home, fetching, fetched, pending,
                   last, contested>>

-----------------------------------------------------------------------------
(* The background tasks.                                                   *)

\* A mutant: the task reads the first backend of the list.
Fetch_FirstBackend(r) ==
    LET others == Backends \ {home[r]}
    IN  /\ r \in fetching
        /\ store[0] # Nil
        /\ fetching' = fetching \ {r}
        /\ fetched'  = [fetched EXCEPT ![r] = store[0]]
        /\ pending'  = [pending EXCEPT ![r] = others]
        /\ UNCHANGED <<store, primary, phase, home, doubt, ghostVars>>

\* The task of a PUT reads the primary, whatever it holds by now, and starts
\* to stream that to the other backends.
Fetch(r) ==
    LET others == Backends \ {home[r]}
    IN  /\ r \in fetching
        /\ store[home[r]] # Nil
        /\ fetching' = fetching \ {r}
        /\ fetched'  = [fetched EXCEPT ![r] = store[home[r]]]
        /\ pending'  = [pending EXCEPT ![r] = others]
        /\ UNCHANGED <<store, primary, phase, home, doubt, ghostVars>>

\* A mutant: the task waits for a missing object to come back.
FetchFails_WaitForKey(r) ==
    /\ r \in fetching
    /\ IsRemote(home[r])
    /\ fetching' = fetching \ {r}
    /\ UNCHANGED <<store, primary, phase, home, doubt, fetched, pending,
                   ghostVars>>

\* The GET finds no object or fails, or its stream breaks before the end
\* (then every backend is sent the error and none stores): logged, and over.
FetchFails(r) ==
    /\ r \in fetching
    /\ store[home[r]] = Nil \/ IsRemote(home[r])
    /\ fetching' = fetching \ {r}
    /\ UNCHANGED <<store, primary, phase, home, doubt, fetched, pending,
                   ghostVars>>

\* What the background tasks of r write.
CopyOf(r) == IF r \in Puts THEN fetched[r] ELSE Nil

\* One of the other backends executes the write of r's task.
CopyApplies(r, b) ==
    /\ b \in pending[r]
    /\ pending' = [pending EXCEPT ![r] = @ \ {b}]
    /\ Execute(r, b, CopyOf(r))
    /\ UNCHANGED <<primary, phase, home, doubt, fetching, fetched,
                   held, last, contested>>

\* A mutant: the first backend that fails ends the task.
CopyFails_EndsTask(r, b) ==
    /\ b \in pending[r]
    /\ IsRemote(b)
    /\ pending' = [pending EXCEPT ![r] = {}]
    /\ UNCHANGED <<store, primary, phase, home, doubt, fetching, fetched,
                   ghostVars>>

\* It fails: logged, and over.
CopyFails(r, b) ==
    /\ b \in pending[r]
    /\ IsRemote(b)
    /\ pending' = [pending EXCEPT ![r] = @ \ {b}]
    /\ UNCHANGED <<store, primary, phase, home, doubt, fetching, fetched,
                   ghostVars>>

-----------------------------------------------------------------------------
(* The process.                                                            *)

\* The process stops and main() runs again: handlers and tasks are gone, the
\* calls already on their way to a remote backend are not, the in-memory
\* backends start empty, and a latency-based primary is measured anew.
Restart ==
    /\ MayRestart
    /\ phase' = [r \in Requests |-> IF InHandler(r) THEN "ended" ELSE phase[r]]
    /\ doubt' = doubt \cup
                {r \in Requests : phase[r] = "primary" /\ IsRemote(home[r])}
    /\ fetching' = {}
    /\ pending'  = [r \in Requests |-> pending[r] \cap S3Backends]
    /\ store'    = [b \in Backends |-> IF IsRemote(b) THEN store[b] ELSE Nil]
    /\ reached'  = [r \in Requests |-> reached[r] \cap S3Backends]
    /\ primary' \in IF LatencyBased THEN Backends ELSE {PrimaryIndex}
    /\ UNCHANGED <<home, fetched, held, last, contested>>

Handler(r) ==
    \/ PrimaryExecutes(r)
    \/ Acknowledge(r)
    \/ MaskDeleteError(r)
    \/ PrimaryFails(r)

Background(r) ==
    \/ Fetch(r)
    \/ FetchFails(r)
    \/ \E b \in Backends : CopyApplies(r, b) \/ CopyFails(r, b)

Next ==
    \/ \E r \in Requests :
          \/ Receive(r)
          \/ Handler(r)
          \/ BodyFails(r)
          \/ ClientGone(r)
          \/ LateExecution(r)
          \/ Background(r)
    \/ Restart

\* tokio polls every task that is ready, and the calls that a background task
\* awaits come to an end: an in-memory backend never blocks for good, a remote
\* call is executed unless it fails.  Nothing is assumed of the handlers: a
\* client may take for ever to send the body of a PUT.
Fairness ==
    \A r \in Requests :
        /\ WF_vars(LateExecution(r))
        /\ WF_vars(Fetch(r) \/ FetchFails(r))
        /\ \A b \in Backends : WF_vars(CopyApplies(r, b))

Spec == Init /\ [][Next]_vars /\ Fairness

-----------------------------------------------------------------------------
(* Properties.                                                             *)

\* Types; and a background task never has its own primary to write.
TypeOK ==
    /\ store \in [Backends -> Objects]
    /\ primary \in Backends
    /\ phase \in [Requests -> Phases]
    /\ home \in [Requests -> Backends]
    /\ doubt \subseteq Requests
    /\ fetching \subseteq Puts
    /\ fetched \in [Requests -> Objects]
    /\ pending \in [Requests -> SUBSET Backends]
    /\ held \subseteq Puts
    /\ reached \in [Requests -> SUBSET Backends]
    /\ last \in Requests \cup {NoRequest}
    /\ contested \subseteq Backends
    /\ \A r \in Requests : home[r] \notin pending[r]

\* A replica never holds, and no task ever carries, an object that its
\* request's primary did not store first: the copy is made from the primary
\* (put_object.rs:122-134), after the primary's success (43-49).
ReplicasHoldOnlyPrimaryValues ==
    /\ \A b \in Backends : store[b] \in held \cup {Nil}
    /\ \A r \in Requests : fetched[r] \in held \cup {Nil}

\* Requests overtake each other, but an older one undoes the last request only
\* where it had a write to come when the last arrived: every other backend that
\* the last got to holds its effect.  Where older requests had writes to come
\* for the primary itself, a PUT's copies may be copies of another's object.
UncontestedWriteHolds ==
    last # NoRequest =>
        \A b \in reached[last] \ contested :
            b = home[last] \/ last \in Deletes \/ home[last] \notin contested
                => store[b] = Effect(last)

\* An acknowledged PUT is on the remote backend that served it as primary,
\* through any number of restarts, until another request arrives, unless an
\* older one had that very primary to write: the background tasks of others
\* never get at it ("streaming to primary" before the answer,
\* put_object.rs:42-51, and the filter, put_object.rs:112).
AckedWriteSurvives ==
    \A r \in Puts :
        /\ last = r
        /\ home[r] \notin contested
        /\ phase[r] = "acked"
        /\ IsRemote(home[r])
        => store[home[r]] = r

(* Why these hold: the facts that, with them, every step preserves.        *)

\* A request that has not arrived has left no trace.
IdleIsUntouched ==
    \A r \in Requests :
        phase[r] = "idle" => reached[r] = {} /\ ~ Active(r)

\* A handler that goes on, a task that is to read the primary and an
\* acknowledged PUT on a remote primary all come after the primary's execution.
HomeReached ==
    \A r \in Requests :
        \/ phase[r] = "applied"
        \/ r \in fetching
        \/ phase[r] = "acked" /\ r \in Puts /\ IsRemote(home[r])
        => home[r] \in reached[r]

\* Older requests write only what they had to write when the last arrived.
RivalsAreConfined ==
    last # NoRequest =>
        \A r \in Requests \ {last} : MayWrite(r) \subseteq contested

\* The copies of a PUT whose primary is uncontested are copies of that PUT.
OwnCopies ==
    last \in Puts =>
        (home[last] \notin contested /\ pending[last] # {}
            => fetched[last] = last)

\* The inductive invariant behind the properties above: whatever a handler, a
\* detached task or a restart does next (put_object.rs:34-52, 100-171,
\* delete_object.rs:14-28, 69-119) preserves the conjunction of these facts.
Inductive ==
    /\ TypeOK
    /\ ReplicasHoldOnlyPrimaryValues
    /\ UncontestedWriteHolds
    /\ IdleIsUntouched
    /\ HomeReached
    /\ RivalsAreConfined
    /\ OwnCopies

-----------------------------------------------------------------------------
\* The background work of every acknowledged request comes to an end.
AckedWriteDrains ==
    \A r \in Requests : phase[r] = "acked" ~> ~ Active(r)

\* An acknowledged PUT ends up on every backend that does not fail if its
\* primary does not, however slow or broken the rest are and whatever else is
\* going on, save on the backends that older requests had writes to come for,
\* or another request arrives.
EventuallyReplicated ==
    \A r \in Puts :
        /\ phase[r] = "acked"
        /\ last = r
        /\ home[r] \notin contested \cup S3Backends
        ~> \/ last # r
           \/ \A b \in Backends \ (S3Backends \cup contested) : store[b] = r

\* delete_object.rs:154-156, "Verify both backends deleted the object": an
\* acknowledged DELETE that no later request follows has deleted the object
\* everywhere once the background work is over.
DeletedEverywhere ==
    Quiescent /\ last \in Deletes =>
        (phase[last] = "acked" => \A b \in Backends : store[b] = Nil)

=============================================================================
