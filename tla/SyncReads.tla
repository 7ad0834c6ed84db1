----------------------------- MODULE SyncReads -----------------------------
(***************************************************************************)
(* A MULTI_SYNC MultiBackend as its clients see it: the writes of          *)
(* MultiSync and the reads of ReadPath on the same backends.               *)
(***************************************************************************)
EXTENDS MultiSync

CONSTANTS
    Reads,         \* the read requests that clients may send
    PrimaryIndex   \* primary_index chosen at start-up

VARIABLES
    readMode, read,   \* of ReadPath

    \* History, read by the properties only.
    basis,   \* basis[q]: the write that read q has to reflect, if any
    shown    \* shown[q][b]: the objects b has held since q began, if q is to
             \* compare the backends

R == INSTANCE ReadPath WITH primary <- PrimaryIndex

allVars == <<vars, readMode, read, basis, shown>>

\* A restart drops the reads and leaves nothing of them: it is left out.
ASSUME SyncReadsAssumption ==
    /\ ~ MayRestart
    /\ PrimaryIndex \in Backends

SyncInit ==
    /\ Init
    /\ R!ReadInit
    /\ basis = [q \in Reads |-> NoRequest]
    /\ shown = [q \in Reads |-> [b \in Backends |-> {}]]

\* The arrival of a write.
Write(r) ==
    /\ Receive(r)
    /\ basis' = [q \in Reads |-> NoRequest]
    /\ UNCHANGED <<readMode, read, shown>>

\* Only ALL_CONSISTENT compares what the backends answer.
Compares == readMode = "ALL_CONSISTENT"

\* History: what the backends hold after the step is shown to the reads that
\* are under way.
NoteStore ==
    shown' = [q \in Reads |->
                 IF Compares /\ read[q].phase = "asking"
                 THEN [b \in Backends |-> shown[q][b] \cup {store'[b]}]
                 ELSE shown[q]]

\* Any later step of it.
WriteStep(r) ==
    /\ \/ BodyEnds(r)
       \/ BodyFails(r)
       \/ Join(r)
       \/ ClientGone(r)
       \/ \E b \in Backends :
             Part(r, b) \/ PartFails(r, b) \/ LateExecution(r, b)
    /\ NoteStore
    /\ UNCHANGED <<readMode, read, basis>>

\* The backends that a read may ask.
MayAsk == IF readMode = "PRIMARY_ONLY" THEN {PrimaryIndex} ELSE Backends

\* The arrival of a read: it has to reflect the last write if that is
\* acknowledged and no older one can undo it where the read looks.
Read(q, op) ==
    /\ R!Ask(q, op)
    /\ basis' = [basis EXCEPT ![q] =
                    IF /\ last # NoRequest
                       /\ MayAsk \cap contested = {}
                       /\ phase[last] = "acked"
                    THEN last ELSE NoRequest]
    /\ shown' = [shown EXCEPT ![q] =
                    [b \in Backends |-> IF Compares THEN {store[b]} ELSE {}]]
    /\ UNCHANGED vars

ReadStep(q) ==
    /\ R!ReadStep(q)
    /\ UNCHANGED <<vars, basis, shown>>

SyncNext ==
    \/ \E r \in Requests : Write(r) \/ WriteStep(r)
    \/ \E q \in Reads :
          ReadStep(q) \/ \E op \in R!Operations : Read(q, op)

SyncSpec == SyncInit /\ [][SyncNext]_allVars

-----------------------------------------------------------------------------
(* Properties.                                                             *)

Done(q)     == read[q].phase = "done"
Returned(q) == read[q].result

\* Whatever the read mode, a read that starts after a PUT was acknowledged
\* returns that PUT, or fails with its backends: no success shows an older
\* object that some backend could still have, nor, to a LIST, a key that is not
\* there.  It holds until the next write arrives and where no older one had a
\* write to come.
ReadsSeeAckedPut ==
    \A q \in Reads :
        Done(q) /\ basis[q] \in Puts /\ read[q].op # "bucket" =>
            Returned(q).object =
                IF Returned(q).kind = "ok" THEN basis[q] ELSE Nil

\* ALL_CONSISTENT exposes what failed writes left behind, writes that are going
\* on or not: every backend has held, since the read began, the object that a
\* successful read returns.  While nothing is written the backends agree.
ConsistentReadsProveAgreement ==
    \A q \in Reads :
        /\ Done(q)
        /\ Compares
        /\ read[q].op # "bucket"
        /\ Returned(q).kind = "ok"
        => \A b \in Backends : Returned(q).object \in shown[q][b]

\* With the fallback and in the race, LIST fails only if it failed on every
\* backend.
ListFailsLast ==
    \A q \in Reads :
        /\ Done(q)
        /\ readMode \in {"PRIMARY_FALLBACK", "BEST_EFFORT"}
        /\ Returned(q).kind = "error"
        => \A b \in Backends : read[q].answers[b].kind = "error"

(* Why they hold: the facts that, with MultiSync's Inductive, every step   *)
(* preserves.                                                              *)

Answers ==
    {R!NoAnswer, R!NotFound, R!Error, R!Ok(Nil, R!NoTag)} \cup
    {R!Ok(v, R!ETag(b, v)) : v \in Objects, b \in Backends}

ReadStates ==
    [phase : {"idle", "asking", "done"}, op : R!Operations,
     waiting : SUBSET Backends, tried : SUBSET Backends,
     answers : [Backends -> Answers], result : Answers]

ReadTypeOK ==
    /\ readMode \in R!ReadModes
    /\ read \in [Reads -> ReadStates]
    /\ basis \in [Reads -> Requests \cup {NoRequest}]
    /\ shown \in [Reads -> [Backends -> SUBSET Objects]]

\* Nothing is known to a read before it starts, and nothing is awaited after
\* it has ended; a backend is awaited only once it is asked, and one at a time
\* with the fallback.
CallsFitPhase ==
    \A q \in Reads :
        /\ read[q].phase = "idle" => read[q] = R!Idle
        /\ read[q].phase # "asking" => read[q].waiting = {}
        /\ read[q].waiting \subseteq read[q].tried
        /\ readMode = "PRIMARY_FALLBACK" =>
              \A b, c \in read[q].waiting : b = c
        /\ readMode = "BEST_EFFORT" /\ read[q].phase # "idle" =>
              read[q].tried = Backends
        /\ readMode = "PRIMARY_ONLY" => read[q].tried \subseteq {PrimaryIndex}

\* Only LIST fails with an error, and LIST never finds nothing.
KindsFitOperation ==
    \A q \in Reads, b \in Backends :
        /\ read[q].answers[b].kind = "error" => read[q].op = "list"
        /\ read[q].answers[b].kind = "notFound" => read[q].op # "list"

\* A write that a read has to reflect is still the last one and in force.
BasisInForce ==
    \A q \in Reads :
        basis[q] # NoRequest =>
            /\ basis[q] = last
            /\ MayAsk \cap contested = {}
            /\ phase[last] = "acked"

\* No answer to such a read shows an older object.
Reflects(q, a) ==
    a.object = IF a.kind = "ok" THEN basis[q] ELSE Nil

AnswersReflectBasis ==
    \A q \in Reads :
        basis[q] \in Puts /\ read[q].op # "bucket" =>
            /\ \A b \in Backends : Reflects(q, read[q].answers[b])
            /\ Reflects(q, Returned(q))

\* A backend that is under way may change while it is read, but what it has
\* answered was there at some moment of the read.
AnswersWereShown ==
    Compares => \A q \in Reads, b \in Backends :
        /\ read[q].phase = "asking" => store[b] \in shown[q][b]
        /\ read[q].answers[b].kind = "ok" /\ read[q].op # "bucket" =>
              LET v == read[q].answers[b].object
              IN  /\ v \in shown[q][b]
                  /\ read[q].answers[b].etag =
                        IF v = Nil THEN R!NoTag ELSE R!ETag(b, v)

\* A success in ALL_CONSISTENT is one of equal ETags, and the primary's.
SuccessIsConsistent ==
    \A q \in Reads :
        Done(q) /\ Compares /\ Returned(q).kind = "ok" =>
            /\ R!Consistent(q)
            /\ Returned(q) = read[q].answers[PrimaryIndex]

\* Whoever was asked for a LIST and is no longer awaited has failed.
LosersFailed ==
    \A q \in Reads :
        /\ read[q].phase = "asking"
        /\ readMode \in {"PRIMARY_FALLBACK", "BEST_EFFORT"}
        /\ read[q].op = "list"
        => \A b \in read[q].tried \ read[q].waiting :
              read[q].answers[b].kind = "error"

\* The inductive invariant: whatever the writes, the backends and the handlers
\* of reads do next (utils.rs, get_object.rs, list_objects.rs) preserves it.
ReadInductive ==
    /\ Inductive
    /\ ReadTypeOK
    /\ CallsFitPhase
    /\ KindsFitOperation
    /\ BasisInForce
    /\ AnswersReflectBasis
    /\ AnswersWereShown
    /\ SuccessIsConsistent
    /\ LosersFailed
    /\ ListFailsLast

=============================================================================
