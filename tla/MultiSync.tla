----------------------------- MODULE MultiSync -----------------------------
(***************************************************************************)
(* The MULTI_SYNC write path of MultiBackend, one whole object at a time:  *)
(* put_object.rs:55-98 and delete_object.rs:30-67 under                    *)
(* src/src/storage/multi_backend.                                          *)
(*                                                                         *)
(* A PUT runs one spawned task per backend, fed by the handler; a DELETE   *)
(* runs one call per backend inside the handler itself.  The handler waits *)
(* for every answer and fails the request if one of them is an error;      *)
(* nothing is rolled back and nothing orders two requests.  Module         *)
(* Broadcast shows how the handler feeds the tasks, chunk by chunk.        *)
(***************************************************************************)
EXTENDS StorageBackend

CONSTANTS
    Puts, Deletes,   \* the requests that clients may send; the body of a PUT
                     \* is identified with the request
    Torn,            \* an object that ends before its body does
    MayRestart,      \* whether the process may stop and start again
    MayVanish,       \* whether clients may disconnect during a request
    NoRequest        \* not a request

Requests == Puts \cup Deletes

ASSUME MultiSyncAssumption ==
    /\ Puts \cap Deletes = {}
    /\ Torn # Nil
    /\ {NoRequest, Nil, Torn} \cap Requests = {}
    /\ {MayRestart, MayVanish} \subseteq BOOLEAN

VARIABLES
    store,     \* store[b]: the object backend b holds under the key
    phase,     \* phase[r]: where the handler of request r is
    part,      \* part[r][b]: the task or call that r makes to backend b
    cut,       \* cut[r]: backends whose task sees the body end too early
    doubt,     \* doubt[r]: remote backends that may execute r after its end

    \* History, read by the properties only.
    reached,   \* reached[r]: backends that executed r and still keep it
    last,      \* the request that arrived last
    contested  \* backends that requests before the last might still change
               \* when it arrived

procVars  == <<phase, part, cut, doubt>>
ghostVars == <<reached, last, contested>>
vars      == <<store, procVars, ghostVars>>

Objects == Puts \cup {Nil, Torn}
Phases  == {"idle", "stream", "join", "acked", "failed", "gone"}
Parts   == {"off", "running", "applied", "ok", "err"}

InHandler(r) == phase[r] \in {"stream", "join"}

\* Some step on behalf of r may still change a backend.
Active(r) ==
    \/ InHandler(r)
    \/ doubt[r] # {}
    \/ \E b \in Backends : part[r][b] = "running"

\* The backends that some step on behalf of r may still change.
MayWrite(r) == doubt[r] \cup {b \in Backends : part[r][b] = "running"}

Quiescent == \A r \in Requests : ~ Active(r)

\* What r leaves at backend b.
Result(r, b) ==
    IF r \in Deletes THEN Nil ELSE IF b \in cut[r] THEN Torn ELSE r

Init ==
    /\ store     = [b \in Backends |-> Nil]
    /\ phase     = [r \in Requests |-> "idle"]
    /\ part      = [r \in Requests |-> [b \in Backends |-> "off"]]
    /\ cut       = [r \in Requests |-> {}]
    /\ doubt     = [r \in Requests |-> {}]
    /\ reached   = [r \in Requests |-> {}]
    /\ last      = NoRequest
    /\ contested = {}

-----------------------------------------------------------------------------
(* The handler.                                                            *)

\* A request arrives; every backend is given its task or call.
Receive(r) ==
    /\ phase[r] = "idle"
    /\ phase' = [phase EXCEPT ![r] = IF r \in Puts THEN "stream" ELSE "join"]
    /\ part'  = [part EXCEPT ![r] = [b \in Backends |-> "running"]]
    /\ last'  = r
    /\ contested' = UNION {MayWrite(p) : p \in Requests}
    /\ UNCHANGED <<store, cut, doubt, reached>>

\* The body has been sent to every task, and the senders are dropped.
BodyEnds(r) ==
    /\ phase[r] = "stream"
    /\ phase' = [phase EXCEPT ![r] = "join"]
    /\ UNCHANGED <<store, part, cut, doubt, ghostVars>>

\* The body breaks off: every task is sent the error, none stores anything,
\* and the client gets the error.
BodyFails(r) ==
    /\ phase[r] = "stream"
    /\ phase' = [phase EXCEPT ![r] = "failed"]
    /\ part'  = [part EXCEPT ![r] =
                    [b \in Backends |->
                        IF @[b] = "running" THEN "err" ELSE @[b]]]
    /\ UNCHANGED <<store, cut, doubt, ghostVars>>

\* A mutant: the handler waits for every backend to succeed.
Answered_OnlyOk(r) == \A b \in Backends : part[r][b] = "ok"

\* Every task or call of r has reported.
Answered(r) == \A b \in Backends : part[r][b] \in {"ok", "err"}

\* A mutant: the handler answers at the first success.
Join_FirstOk(r) ==
    /\ phase[r] = "join"
    /\ \E b \in Backends : part[r][b] = "ok"
    /\ phase' = [phase EXCEPT ![r] = "acked"]
    /\ UNCHANGED <<store, part, cut, doubt, ghostVars>>

\* All the answers are in: one error is enough to fail the request.
Join(r) ==
    /\ phase[r] = "join"
    /\ Answered(r)
    /\ phase' = [phase EXCEPT ![r] =
                    IF \E b \in Backends : part[r][b] = "err"
                    THEN "failed" ELSE "acked"]
    /\ UNCHANGED <<store, part, cut, doubt, ghostVars>>

\* The client disconnects and the server drops the handler.  The calls of a
\* DELETE are dropped with it.  The tasks of a PUT go on: their channels are
\* closed, which is how the end of a body looks to them, wherever the handler
\* was in sending it.
ClientGone(r) ==
    LET running == {b \in Backends : part[r][b] = "running"}
    IN  /\ MayVanish
        /\ InHandler(r)
        /\ phase' = [phase EXCEPT ![r] = "gone"]
        /\ IF r \in Puts
           THEN /\ \E missed \in SUBSET Backends :
                      cut' = [cut EXCEPT ![r] =
                                 IF phase[r] = "stream" THEN missed ELSE @]
                /\ UNCHANGED <<part, doubt>>
           ELSE /\ part'  = [part EXCEPT ![r] =
                                [b \in Backends |->
                                    IF b \in running THEN "off" ELSE @[b]]]
                /\ doubt' = [doubt EXCEPT ![r] =
                                @ \cup (running \cap S3Backends)]
                /\ UNCHANGED cut
        /\ UNCHANGED <<store, ghostVars>>

-----------------------------------------------------------------------------
(* The task or call of request r at backend b.                             *)

Execute(r, b) ==
    /\ store'   = [store EXCEPT ![b] = Result(r, b)]
    /\ reached' = [reached EXCEPT ![r] = @ \cup {b}]
    /\ UNCHANGED <<last, contested>>

\* The backend executes the request; a PUT is executed only after the end of
\* its stream.
PartApplies(r, b) ==
    /\ part[r][b] = "running"
    /\ phase[r] # "stream"
    /\ part' = [part EXCEPT ![r][b] = "applied"]
    /\ Execute(r, b)
    /\ UNCHANGED <<phase, cut, doubt>>

PartSucceeds(r, b) ==
    /\ part[r][b] = "applied"
    /\ part' = [part EXCEPT ![r][b] = "ok"]
    /\ UNCHANGED <<store, phase, cut, doubt, ghostVars>>

\* A mutant: the error of a PUT is swallowed as well.
ErrorSeen_MaskPut(r) == "ok"

\* What the caller of a remote backend sees when the service fails or its
\* answer is lost: a PUT errs, and a DELETE succeeds (s3.rs:367-371).
ErrorSeen(r) == IF r \in Puts THEN "err" ELSE "ok"

PartFails(r, b) ==
    /\ IsRemote(b)
    /\ part[r][b] \in {"running", "applied"}
    /\ part' = [part EXCEPT ![r][b] = ErrorSeen(r)]
    /\ \/ UNCHANGED doubt
       \/ /\ part[r][b] = "running"
          /\ phase[r] # "stream"
          /\ doubt' = [doubt EXCEPT ![r] = @ \cup {b}]
    /\ UNCHANGED <<store, phase, cut, ghostVars>>

\* A remote backend executes, or turns out never to execute, a request whose
\* caller has stopped waiting.
LateExecution(r, b) ==
    /\ b \in doubt[r]
    /\ doubt' = [doubt EXCEPT ![r] = @ \ {b}]
    /\ \/ Execute(r, b)
       \/ UNCHANGED <<store, ghostVars>>
    /\ UNCHANGED <<phase, part, cut>>

-----------------------------------------------------------------------------
(* The process.                                                            *)

\* The process stops and starts again: handlers and tasks are gone, requests
\* on their way to remote backends are not, in-memory backends are empty.
Restart ==
    /\ MayRestart
    /\ phase'   = [r \in Requests |->
                      IF InHandler(r) THEN "gone" ELSE phase[r]]
    /\ doubt'   = [r \in Requests |->
                      IF phase[r] = "stream" THEN doubt[r]
                      ELSE doubt[r] \cup
                           {b \in S3Backends : part[r][b] = "running"}]
    /\ part'    = [r \in Requests |-> [b \in Backends |->
                      IF part[r][b] \in {"running", "applied"}
                      THEN "off" ELSE part[r][b]]]
    /\ store'   = [b \in Backends |-> IF IsRemote(b) THEN store[b] ELSE Nil]
    /\ reached' = [r \in Requests |-> reached[r] \cap S3Backends]
    /\ UNCHANGED <<cut, last, contested>>

Handler(r) ==
    \/ Receive(r)
    \/ BodyEnds(r)
    \/ BodyFails(r)
    \/ Join(r)
    \/ ClientGone(r)

Part(r, b) ==
    \/ PartApplies(r, b)
    \/ PartSucceeds(r, b)

Next ==
    \/ \E r \in Requests :
          \/ Handler(r)
          \/ \E b \in Backends :
                Part(r, b) \/ PartFails(r, b) \/ LateExecution(r, b)
    \/ Restart

\* tokio polls what is ready, and a backend that has the whole request answers
\* unless its call fails.  A body need not ever end, nor a call fail.
Fairness ==
    \A r \in Requests :
        /\ WF_vars(Join(r))
        /\ \A b \in Backends :
              /\ WF_vars(Part(r, b))
              /\ WF_vars(LateExecution(r, b))

Spec == Init /\ [][Next]_vars /\ Fairness

-----------------------------------------------------------------------------
(* Properties.                                                             *)

TypeOK ==
    /\ store \in [Backends -> Objects]
    /\ phase \in [Requests -> Phases]
    /\ part \in [Requests -> [Backends -> Parts]]
    /\ cut \in [Requests -> SUBSET Backends]
    /\ doubt \in [Requests -> SUBSET S3Backends]
    /\ reached \in [Requests -> SUBSET Backends]
    /\ last \in Requests \cup {NoRequest}
    /\ contested \subseteq Backends

\* An acknowledged request that no later one follows is in force: a PUT is on
\* every remote backend and, until the process stops, on the in-memory ones,
\* whatever earlier requests that failed half way had left behind; a DELETE has
\* taken effect on every backend that really executed it, the in-memory ones
\* among them.  An older request undoes it only on a backend where it had a
\* write to come when this one arrived.
AckedWriteHolds ==
    \A r \in Requests :
        last = r /\ phase[r] = "acked" =>
            /\ \A b \in reached[r] \ contested :
                  store[b] = IF r \in Puts THEN r ELSE Nil
            /\ r \in Puts => S3Backends \subseteq reached[r]
            /\ ~ MayRestart => Backends \ S3Backends \subseteq reached[r]

(* Why it holds: the facts that, with it, every step preserves.            *)

\* A request that has not arrived has left no trace.
IdleIsUntouched ==
    \A r \in Requests :
        phase[r] = "idle" =>
            /\ reached[r] = {}
            /\ doubt[r] = {}
            /\ cut[r] = {}
            /\ \A b \in Backends : part[r][b] = "off"

\* While the body of a PUT streams, nothing of it has been executed.
StreamingIsUnstored ==
    \A r \in Requests :
        phase[r] = "stream" =>
            /\ r \in Puts
            /\ reached[r] = {}
            /\ doubt[r] = {}
            /\ \A b \in Backends : part[r][b] \in {"running", "err"}

\* A body is cut short only for the tasks of a handler that is gone.
OnlyGoneAreCut == \A r \in Requests : cut[r] # {} => phase[r] = "gone"

\* Older requests write only what they had to write when the last arrived.
RivalsAreConfined ==
    last # NoRequest =>
        \A r \in Requests \ {last} : MayWrite(r) \subseteq contested

\* Every other backend that the most recent request got to holds its result.
UncontestedResultHolds ==
    last # NoRequest =>
        \A b \in reached[last] \ contested : store[b] = Result(last, b)

\* A success means that the backend executed the request, except for a DELETE
\* that failed remotely, and for as long as the backend keeps its objects.
SuccessIsExecuted ==
    \A r \in Requests, b \in Backends :
        /\ part[r][b] \in {"applied", "ok"}
        /\ r \in Puts \/ ~ IsRemote(b)
        /\ IsRemote(b) \/ ~ MayRestart
        => b \in reached[r]

\* An acknowledged request has had the success of every backend.
AckedBySuccess ==
    \A r \in Requests :
        phase[r] = "acked" => \A b \in Backends : part[r][b] = "ok"

\* The inductive invariant behind AckedWriteHolds: whatever the handler,
\* its tasks and a restart do next (put_object.rs:55-98,
\* delete_object.rs:30-67) preserves the conjunction of these facts.
Inductive ==
    /\ TypeOK
    /\ IdleIsUntouched
    /\ StreamingIsUnstored
    /\ OnlyGoneAreCut
    /\ RivalsAreConfined
    /\ UncontestedResultHolds
    /\ SuccessIsExecuted
    /\ AckedBySuccess

-----------------------------------------------------------------------------
\* A request whose body has ended, or that has none, is answered: every task
\* reports, and no failing backend can keep the handler waiting.
JoinEnds == \A r \in Requests : phase[r] = "join" ~> phase[r] # "join"

\* docs/docs/read-write-modes.md:168 promises "Strong" consistency: when every
\* PUT has succeeded and nothing is going on, the backends agree.
AckedPutsAgree ==
    Quiescent /\ (\A r \in Puts : phase[r] = "acked") =>
        \A b, c \in Backends : store[b] = store[c]

=============================================================================
