------------------------------- MODULE S3Put -------------------------------
(***************************************************************************)
(* S3Backend::put_object (s3.rs:312-349) and its StreamBody (27-75), under *)
(* a MULTI_SYNC PUT: Broadcast with what stands behind a remote backend.   *)
(*                                                                         *)
(* The SDK wants a body it can poll, and the stream of the broadcast is    *)
(* not one: a task of its own, the forwarder, reads the stream and sends   *)
(* each item through a second bounded channel, which the SDK polls.        *)
(* Nobody holds the forwarder's handle.  It stops when the stream ends, or *)
(* when it finds the second channel closed because the call has ended; and *)
(* only by stopping does it let go of the first channel, on which the      *)
(* handler may be waiting.                                                 *)
(***************************************************************************)
EXTENDS Broadcast

VARIABLES
    forwarder, \* forwarder[b]: where the forwarder of b's call is
    passed,    \* passed[b]: chunks it has sent through the second channel
    errPassed, \* backends it has passed an error item on to
    polled,    \* polled[b]: chunks that the SDK has polled
    body       \* body[b]: the SDK's end of the second channel

pipeVars == <<forwarder, passed, errPassed, polled, body>>
putVars  == <<vars, pipeVars>>

Forwarders == {"next", "send", "sendErr", "over"}
Bodies     == {"open", "eof", "dropped"}

PutInit ==
    /\ Init
    /\ forwarder = [b \in S3Backends |-> "next"]
    /\ passed    = [b \in S3Backends |-> 0]
    /\ errPassed = {}
    /\ polled    = [b \in S3Backends |-> 0]
    /\ body      = [b \in S3Backends |-> "open"]

-----------------------------------------------------------------------------
(* The forwarder of b: `while let Some(result) = stream.next().await'.     *)

ForwarderTakes(b) ==
    /\ forwarder[b] = "next"
    /\ taken[b] < sent[b]
    /\ taken' = [taken EXCEPT ![b] = @ + 1]
    /\ forwarder' = [forwarder EXCEPT ![b] = "send"]
    /\ UNCHANGED <<callerVars, receiving, task, doubt, stored, missed,
                   passed, errPassed, polled, body>>

ForwarderTakesError(b) ==
    /\ forwarder[b] = "next"
    /\ taken[b] = sent[b]
    /\ b \in errSent \ errPassed
    /\ forwarder' = [forwarder EXCEPT ![b] = "sendErr"]
    /\ UNCHANGED <<vars, passed, errPassed, polled, body>>

\* A mutant: the second channel is taken for unbounded.
BodyHasRoom_Unbounded(b) == TRUE

\* Bounded channel: a permit is free.
BodyHasRoom(b) ==
    passed[b] + (IF b \in errPassed THEN 1 ELSE 0) - polled[b] < Capacity

\* tx.send() succeeds.
ForwarderPasses(b) ==
    /\ body[b] = "open"
    /\ BodyHasRoom(b)
    /\ \/ /\ forwarder[b] = "send"
          /\ passed' = [passed EXCEPT ![b] = @ + 1]
          /\ UNCHANGED errPassed
       \/ /\ forwarder[b] = "sendErr"
          /\ errPassed' = errPassed \cup {b}
          /\ UNCHANGED passed
    /\ forwarder' = [forwarder EXCEPT ![b] = "next"]
    /\ UNCHANGED <<vars, polled, body>>

\* A mutant: the forwarder does not stop when its reader is gone.
ForwarderStops_IgnoreClosed(b) == FALSE /\ UNCHANGED putVars

\* tx.send() fails, the reader is gone: the stream is dropped unread.
ForwarderStops(b) ==
    /\ body[b] = "dropped"
    /\ forwarder[b] \in {"send", "sendErr"}
    /\ forwarder' = [forwarder EXCEPT ![b] = "over"]
    /\ receiving' = receiving \ {b}
    /\ UNCHANGED <<callerVars, taken, task, doubt, stored, missed,
                   passed, errPassed, polled, body>>

\* A mutant: an empty stream is taken for one that has ended.
ForwarderEnds_Empty(b) ==
    /\ forwarder[b] = "next"
    /\ taken[b] = sent[b]
    /\ task[b] # "off"
    /\ b \in errSent => b \in errPassed
    /\ forwarder' = [forwarder EXCEPT ![b] = "over"]
    /\ receiving' = receiving \ {b}
    /\ task' = IF task[b] = "recv" /\ b \notin errSent
               THEN [task EXCEPT ![b] = "store"] ELSE task
    /\ UNCHANGED <<callerVars, taken, doubt, stored, missed,
                   passed, errPassed, polled, body>>

\* The stream yields None: the loop ends and both channels are let go of.
\* From here on the call waits for nobody but the service.
ForwarderEnds(b) ==
    /\ forwarder[b] = "next"
    /\ taken[b] = sent[b]
    /\ ~ open
    /\ b \in errSent => b \in errPassed
    /\ forwarder' = [forwarder EXCEPT ![b] = "over"]
    /\ receiving' = receiving \ {b}
    /\ task' = IF task[b] = "recv" /\ b \notin errSent
               THEN [task EXCEPT ![b] = "store"] ELSE task
    /\ UNCHANGED <<callerVars, taken, doubt, stored, missed,
                   passed, errPassed, polled, body>>

-----------------------------------------------------------------------------
(* The call to the service: the SDK polls StreamBody::poll_frame.          *)

Calling(b) == task[b] \in {"recv", "store"} /\ body[b] = "open"

PollsChunk(b) ==
    /\ Calling(b)
    /\ polled[b] < passed[b]
    /\ polled' = [polled EXCEPT ![b] = @ + 1]
    /\ UNCHANGED <<vars, forwarder, passed, errPassed, body>>

\* A mutant: poll_frame turns an error of the stream into the body's end.
PollsError_AsEnd(b) ==
    /\ Calling(b)
    /\ polled[b] = passed[b]
    /\ b \in errPassed
    /\ body' = [body EXCEPT ![b] = "eof"]
    /\ task' = [task EXCEPT ![b] = "store"]
    /\ UNCHANGED <<callerVars, taken, receiving, doubt, stored, missed,
                   forwarder, passed, errPassed, polled>>

\* An error frame: the SDK gives the request up and drops the body.
PollsError(b) ==
    /\ Calling(b)
    /\ polled[b] = passed[b]
    /\ b \in errPassed
    /\ body' = [body EXCEPT ![b] = "dropped"]
    /\ task' = [task EXCEPT ![b] = "err"]
    /\ UNCHANGED <<callerVars, taken, receiving, doubt, stored, missed,
                   forwarder, passed, errPassed, polled>>

\* The second channel is drained and its sender gone: the body is complete.
PollsEnd(b) ==
    /\ Calling(b)
    /\ polled[b] = passed[b]
    /\ forwarder[b] = "over"
    /\ b \notin errPassed
    /\ body' = [body EXCEPT ![b] = "eof"]
    /\ UNCHANGED <<vars, forwarder, passed, errPassed, polled>>

\* The service stores the body it was sent.
ServiceStores(b) ==
    /\ task[b] = "store"
    /\ body[b] = "eof"
    /\ task'   = [task EXCEPT ![b] = "stored"]
    /\ stored' = [stored EXCEPT ![b] = polled[b]]
    /\ UNCHANGED <<callerVars, taken, receiving, doubt, missed, pipeVars>>

\* Its answer arrives.
CallSucceeds(b) == Finish(b) /\ UNCHANGED pipeVars

\* The call fails at any moment; only a service that has seen the end of the
\* body may store it nevertheless.  The body is dropped with the call.
CallFails(b) ==
    /\ task[b] \in {"recv", "store", "stored"}
    /\ task'  = [task EXCEPT ![b] = "err"]
    /\ doubt' \in {doubt} \cup
                  (IF task[b] = "store" /\ body[b] = "eof"
                   THEN {doubt \cup {b}} ELSE {})
    /\ body'  = [body EXCEPT ![b] = "dropped"]
    /\ UNCHANGED <<callerVars, taken, receiving, stored, missed,
                   forwarder, passed, errPassed, polled>>

-----------------------------------------------------------------------------
Forwarder(b) ==
    \/ ForwarderTakes(b)
    \/ ForwarderTakesError(b)
    \/ ForwarderPasses(b)
    \/ ForwarderStops(b)
    \/ ForwarderEnds(b)

Call(b) ==
    \/ PollsChunk(b)
    \/ PollsError(b)
    \/ PollsEnd(b)
    \/ ServiceStores(b)
    \/ CallSucceeds(b)

InMemory(b) == Task(b) /\ UNCHANGED pipeVars

Handler == Caller /\ UNCHANGED pipeVars

Late(b) == LateStore(b) /\ UNCHANGED pipeVars

PutNext ==
    \/ Handler
    \/ \E b \in Backends \ S3Backends : InMemory(b)
    \/ \E b \in S3Backends :
          Forwarder(b) \/ Call(b) \/ CallFails(b) \/ Late(b)

\* As in Broadcast: the runtime polls what is ready, and a service goes on
\* polling the body and answers, unless its call fails.
PutFairness ==
    /\ WF_putVars((SendChunk \/ SendError \/ Join) /\ UNCHANGED pipeVars)
    /\ \A b \in Backends \ S3Backends : WF_putVars(InMemory(b))
    /\ \A b \in S3Backends :
          /\ WF_putVars(Forwarder(b))
          /\ WF_putVars(Call(b))
          /\ WF_putVars(Late(b))

PutSpec == PutInit /\ [][PutNext]_putVars /\ PutFairness

-----------------------------------------------------------------------------
(* Properties.                                                             *)

PipeTypeOK ==
    /\ forwarder \in [S3Backends -> Forwarders]
    /\ passed \in [S3Backends -> 0 .. Chunks]
    /\ errPassed \subseteq S3Backends
    /\ polled \in [S3Backends -> 0 .. Chunks]
    /\ body \in [S3Backends -> Bodies]

\* What the forwarder has in hand or has passed on is what it has taken, in
\* order, and it is over when it has let go of the first channel.
ForwardsInOrder ==
    \A b \in S3Backends :
        /\ polled[b] <= passed[b]
        /\ passed[b] + (IF b \in errPassed THEN 1 ELSE 0) - polled[b]
              <= Capacity
        /\ forwarder[b] = "send" => passed[b] + 1 = taken[b]
        /\ forwarder[b] \in {"next", "sendErr"} => passed[b] = taken[b]
        /\ forwarder[b] = "sendErr" \/ b \in errPassed =>
              b \in errSent /\ taken[b] = sent[b]
        /\ b \in receiving <=> forwarder[b] # "over"

\* The SDK's end of the second channel fits the call it belongs to.
BodyFitsCall ==
    \A b \in S3Backends :
        /\ body[b] = "open" =>
              /\ task[b] \in {"off", "recv", "store"}
              /\ forwarder[b] = "over" =>
                     ~ open /\ passed[b] = taken[b] /\ read <= taken[b] + 1
        /\ task[b] = "recv" =>
              /\ body[b] = "open"
              /\ forwarder[b] = "over" => b \in errPassed
        /\ task[b] = "off" => body[b] = "open" /\ b \notin errSent
        /\ task[b] \in {"store", "stored", "ok"} =>
              forwarder[b] = "over" /\ b \notin errSent
        /\ task[b] \in {"stored", "ok"} => body[b] = "eof"
        /\ body[b] = "eof" => polled[b] = taken[b] /\ forwarder[b] = "over"
        /\ body[b] = "dropped" => task[b] = "err"

\* The inductive invariant: Broadcast's, and the two channels of a remote
\* backend in step with it (s3.rs:33-75).
PutInductive ==
    Inductive /\ PipeTypeOK /\ ForwardsInOrder /\ BodyFitsCall

\* What the proxy holds of a body for a remote backend that is still being
\* sent to: two full channels, a chunk in the forwarder's hands and one in the
\* handler's, however long the body is (s3.rs:29-30 speaks of one channel).
BuffersBounded ==
    \A b \in S3Backends :
        body[b] = "open" => read - polled[b] <= 2 * Capacity + 2

\* A forwarder never outlives its PUT for ever, though nobody awaits it: not
\* when the call fails with chunks in both channels, nor when the body breaks
\* or the client goes away (s3.rs:37-51).
ForwardersEnd ==
    caller \in {"join", "broken", "gone"}
        ~> \A b \in S3Backends : forwarder[b] = "over"

\* The pipeline behaves, to the handler and to the other backends, as the one
\* channel of Broadcast, fairness included: a failed call never blocks the
\* handler on a full channel (s3.rs:46-49, put_object.rs:207-211).
ImplementsBroadcast == Spec

=============================================================================
