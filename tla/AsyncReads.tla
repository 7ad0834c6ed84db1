----------------------------- MODULE AsyncReads -----------------------------
(***************************************************************************)
(* An ASYNC_REPLICATION MultiBackend as its clients see it: the writes of  *)
(* AsyncReplication, their background tasks included, and the reads of     *)
(* ReadPath on the same backends.                                          *)
(***************************************************************************)
EXTENDS AsyncReplication

CONSTANTS
    Reads   \* the read requests that clients may send

VARIABLES
    readMode, read,   \* of ReadPath

    \* History, read by the properties only.
    basis   \* basis[q]: the write that read q has to reflect, if any

R == INSTANCE ReadPath

allVars == <<vars, readMode, read, basis>>

\* A restart drops the reads and empties an in-memory primary: it is left to
\* AsyncReplication.
ASSUME AsyncReadsAssumption == ~ MayRestart

AsyncReadsInit ==
    /\ Init
    /\ R!ReadInit
    /\ basis = [q \in Reads |-> NoRequest]

\* The arrival of a write.
Write(r) ==
    /\ Receive(r)
    /\ basis' = [q \in Reads |-> NoRequest]
    /\ UNCHANGED <<readMode, read>>

\* Any later step of it or of its background tasks.
WriteStep(r) ==
    /\ \/ Handler(r)
       \/ BodyFails(r)
       \/ ClientGone(r)
       \/ LateExecution(r)
       \/ Background(r)
    /\ UNCHANGED <<readMode, read, basis>>

\* The modes that believe the primary: the other backends are asked by LIST
\* alone, and then only if the primary fails.
PrimaryModes == {"PRIMARY_ONLY", "PRIMARY_FALLBACK"}
AsksPrimaryOnly(op) ==
    \/ readMode = "PRIMARY_ONLY"
    \/ /\ readMode = "PRIMARY_FALLBACK"
       /\ op # "list" \/ ~ IsRemote(primary)

\* The last write is settled for a read that starts now: it is acknowledged,
\* and every backend that the read may ask has executed it and has no write of
\* an older request to come.  The primary has executed it, once a PUT is
\* acknowledged or if it is in memory.
Settled(op) ==
    /\ last # NoRequest
    /\ phase[last] = "acked"
    /\ IF AsksPrimaryOnly(op)
       THEN /\ last \in Puts \/ ~ IsRemote(primary)
            /\ primary \notin contested
       ELSE /\ reached[last] = Backends
            /\ contested = {}

\* The arrival of a read.
Read(q, op) ==
    /\ R!Ask(q, op)
    /\ basis' = [basis EXCEPT ![q] = IF Settled(op) THEN last ELSE NoRequest]
    /\ UNCHANGED vars

ReadStep(q) ==
    /\ R!ReadStep(q)
    /\ UNCHANGED <<vars, basis>>

AsyncReadsNext ==
    \/ \E r \in Requests : Write(r) \/ WriteStep(r)
    \/ \E q \in Reads :
          ReadStep(q) \/ \E op \in R!Operations : Read(q, op)

\* A call to a backend ends, and the runtime polls what is ready.
AsyncReadsSpec ==
    /\ AsyncReadsInit
    /\ [][AsyncReadsNext]_allVars
    /\ \A q \in Reads : WF_allVars(ReadStep(q))

-----------------------------------------------------------------------------
(* Properties.                                                             *)

Done(q)     == read[q].phase = "done"
Returned(q) == read[q].result

\* No failure of a backend can hide the object from q, and no comparison of
\* the ETags of different kinds of backends can refuse it.
Dependable(q) ==
    \/ S3Backends = {}
    \/ /\ readMode \in PrimaryModes
       /\ ~ IsRemote(primary)

\* A read that starts once the last write is settled for its mode returns what
\* that write left, or fails if a backend does, never what was there before it:
\* PRIMARY_ONLY and PRIMARY_FALLBACK follow the acknowledgement, whatever tasks
\* of older requests are still copying, the other modes only the end of the
\* background tasks.
ReadsSeeSettledWrite ==
    \A q \in Reads :
        Done(q) /\ basis[q] # NoRequest /\ read[q].op # "bucket" =>
            /\ Returned(q).object \in {Effect(basis[q]), Nil}
            /\ Returned(q).kind = "ok" \/ Dependable(q) =>
                  Returned(q).object = Effect(basis[q])

\* Every read is answered, in every mode, whichever backends fail.
ReadsEnd == \A q \in Reads : read[q].phase = "asking" ~> Done(q)

(* With a primary in memory, the modes that believe the primary make an    *)
(* atomic register of the key: a write takes effect when the primary       *)
(* executes it, and a read looks at the primary at one instant.  The       *)
(* background tasks, however late and out of order, cannot be seen.        *)

\* Reads in the other modes, and of the bucket, are not the register's.
ReaderOf(q) ==
    LET told == read[q].answers[primary]
    IN  IF \/ readMode \notin PrimaryModes
           \/ read[q].op = "bucket"
           \/ read[q].phase = "idle"
        THEN [at |-> "idle", got |-> Nil]
        ELSE IF read[q].phase = "done"
        THEN [at |-> "told", got |-> Returned(q).object]
        ELSE IF told = R!NoAnswer
        THEN [at |-> "asked", got |-> Nil]
        ELSE [at |-> "taken", got |-> told.object]

WriteOf(r) ==
    CASE phase[r] = "idle"  -> "idle"
      [] phase[r] = "acked" -> "succeeded"
      [] phase[r] = "ended" -> "failed"
      [] OTHER              -> "called"

absValue  == store[primary]
absWrite  == [r \in Requests |-> WriteOf(r)]
absTodo   == {r \in Requests : phase[r] = "primary" \/ r \in doubt}
absReader == [q \in Reads |-> ReaderOf(q)]

Reg == INSTANCE Register WITH
    Writers <- Requests, Readers <- Reads, Value <- Effect, Empty <- Nil,
    value <- absValue, write <- absWrite, todo <- absTodo,
    reader <- absReader

\* put_object.rs:43-51 and delete_object.rs:18-27 answer after the primary and
\* get_object.rs:19-26 asks nobody else: beside concurrent writes, failures of
\* the replicas, broken bodies and disconnections, the key is a register.
ImplementsRegister == Reg!RegSpec

(* Why it does: the facts that, with the Inductive of AsyncReplication,    *)
(* every step preserves while the primary is in memory.                    *)

Answers == {R!NoAnswer, R!NotFound, R!Error, R!Ok(Nil, R!NoTag)} \cup
           {R!Ok(v, R!ETag(b, v)) : v \in Objects, b \in Backends}

ReadStates ==
    [phase : {"idle", "asking", "done"}, op : R!Operations,
     waiting : SUBSET Backends, tried : SUBSET Backends,
     answers : [Backends -> Answers], result : Answers]

ReadTypeOK ==
    /\ readMode \in R!ReadModes
    /\ read \in [Reads -> ReadStates]

\* Nothing but a restart replaces the primary, and a call to memory is never
\* left in doubt.
PrimaryStays ==
    /\ primary = PrimaryIndex
    /\ \A r \in Requests : home[r] = PrimaryIndex
    /\ doubt = {}

\* A read that believes the primary waits for the primary alone, and is told
\* something.
PrimaryTells ==
    readMode \in PrimaryModes =>
        \A q \in Reads :
            /\ read[q].phase = "idle" => read[q].answers[primary] = R!NoAnswer
            /\ read[q].waiting =
                  IF read[q].phase = "asking" THEN {primary} ELSE {}
            /\ read[q].answers[primary].kind # "error"
            /\ read[q].answers[primary].kind = "notFound" =>
                  read[q].op # "list"

RegisterInductive ==
    Inductive /\ ReadTypeOK /\ PrimaryStays /\ PrimaryTells

(* Why a settled write is seen, wherever the primary is.                   *)

\* Nothing replaces the primary, and what an acknowledged request has left
\* there is in memory for good.
HomeStays ==
    /\ primary = PrimaryIndex
    /\ \A r \in Requests :
          /\ home[r] = PrimaryIndex
          /\ phase[r] = "acked" /\ ~ IsRemote(PrimaryIndex) =>
                PrimaryIndex \in reached[r]

\* Only a read under way waits, and one that has not arrived has been told
\* nothing.
OnlyAskingWaits ==
    \A q \in Reads :
        /\ read[q].phase # "asking" => read[q].waiting = {}
        /\ read[q].phase = "idle" =>
              \A b \in Backends : read[q].answers[b] = R!NoAnswer

\* The basis of q is in force on every backend that q asks, so what q is told
\* is still true, or is the failure of a remote backend.
Reflects(q) ==
    /\ basis[q] = last
    /\ phase[last] = "acked"
    /\ read[q].phase # "idle"
    /\ read[q].waiting \subseteq read[q].tried
    /\ read[q].tried \subseteq reached[last]
    /\ IF AsksPrimaryOnly(read[q].op)
       THEN read[q].tried = {primary} /\ primary \notin contested
       ELSE reached[last] = Backends /\ contested = {}
    /\ \A b \in Backends :
          \/ read[q].answers[b] = R!NoAnswer
          \/ /\ b \in read[q].tried
             /\ \/ read[q].answers[b] = R!Truth(read[q].op, b)
                \/ /\ IsRemote(b)
                   /\ read[q].answers[b] = R!FailureSeen(read[q].op)
    /\ Done(q) /\ read[q].op # "bucket" =>
          /\ Returned(q).object \in {Effect(last), Nil}
          /\ Returned(q).kind = "ok" \/ Dependable(q) =>
                Returned(q).object = Effect(last)

SettledInductive ==
    /\ Inductive
    /\ ReadTypeOK
    /\ HomeStays
    /\ OnlyAskingWaits
    /\ basis \in [Reads -> Requests \cup {NoRequest}]
    /\ \A q \in Reads : basis[q] # NoRequest => Reflects(q)

=============================================================================
