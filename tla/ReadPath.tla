------------------------------ MODULE ReadPath ------------------------------
(***************************************************************************)
(* The read side of MultiBackend: GET, HEAD, LIST and HEAD bucket in the   *)
(* four read modes (get_object.rs, head_object.rs, list_objects.rs,        *)
(* head_bucket.rs and the helpers of utils.rs, all under                   *)
(* src/src/storage/multi_backend), over backends that change meanwhile.    *)
(*                                                                         *)
(* GET and HEAD are one operation here, "object": the same code but for    *)
(* the payload.  LIST is seen through the one key that the models follow:  *)
(* a listing is the object under the key, or Nil for a listing without it. *)
(***************************************************************************)
EXTENDS StorageBackend

CONSTANTS
    Reads       \* the read requests that clients may send

VARIABLES
    store,      \* store[b]: the object backend b holds under the key
    primary,    \* MultiBackend.primary_index, which no read changes
    readMode,   \* MultiBackend.read_mode
    read        \* read[q]: the handler of read q

readVars == <<readMode, read>>

ReadModes  == {"PRIMARY_ONLY", "PRIMARY_FALLBACK", "BEST_EFFORT",
               "ALL_CONSISTENT"}
Operations == {"object", "list", "bucket"}

\* What a call returns: Ok with the object it found and that object's ETag,
\* NoSuchKey or NoSuchBucket, or another error.
NoTag      == <<>>
Ok(v, tag) == [kind |-> "ok", object |-> v, etag |-> tag]
NotFound   == [kind |-> "notFound", object |-> Nil, etag |-> NoTag]
Error      == [kind |-> "error", object |-> Nil, etag |-> NoTag]
NoAnswer   == [kind |-> "none", object |-> Nil, etag |-> NoTag]

\* The ETag of an object: the SHA-256 of its data in memory
\* (in_memory.rs:34-38), whatever the service computes (MD5) on S3.
ETag(b, v) == <<IsRemote(b), v>>

\* What a backend that works answers.
Truth(op, b) ==
    CASE op = "bucket"                   -> Ok(Nil, NoTag)
      [] op = "list" /\ store[b] = Nil   -> Ok(Nil, NoTag)
      [] op = "object" /\ store[b] = Nil -> NotFound
      [] OTHER                           -> Ok(store[b], ETag(b, store[b]))

\* What S3Backend makes of a failure of the service: NoSuchKey for GET and
\* HEAD (s3.rs:263-266, 305-308), NoSuchBucket for HEAD bucket (174-181), an
\* error only for LIST (230-236).
FailureSeen(op) == IF op = "list" THEN Error ELSE NotFound

Idle ==
    [phase |-> "idle", op |-> "object", waiting |-> {}, tried |-> {},
     answers |-> [b \in Backends |-> NoAnswer], result |-> NoAnswer]

ReadInit ==
    /\ readMode \in ReadModes
    /\ read = [q \in Reads |-> Idle]

-----------------------------------------------------------------------------
(* The handler of a read.                                                  *)

\* The calls under way when a read starts.
FirstAsked ==
    IF readMode \in {"PRIMARY_ONLY", "PRIMARY_FALLBACK"}
    THEN {primary} ELSE Backends

Ask(q, op) ==
    /\ read[q].phase = "idle"
    /\ read' = [read EXCEPT ![q].phase = "asking", ![q].op = op,
                            ![q].waiting = FirstAsked,
                            ![q].tried = FirstAsked]
    /\ UNCHANGED <<store, readMode>>

\* Backend b executes the call of q, or fails to.
Answer(q, b) ==
    /\ b \in read[q].waiting
    /\ read[q].answers[b] = NoAnswer
    /\ \E a \in {Truth(read[q].op, b)} \cup
                (IF IsRemote(b) THEN {FailureSeen(read[q].op)} ELSE {}) :
          read' = [read EXCEPT ![q].answers[b] = a]
    /\ UNCHANGED <<store, readMode>>

\* The answer of b is in the handler's hands.
Delivered(q, b) ==
    /\ b \in read[q].waiting
    /\ read[q].answers[b] # NoAnswer

\* The handler of q returns a.
Return(q, a) ==
    read' = [read EXCEPT ![q].phase = "done", ![q].result = a,
                         ![q].waiting = {}]

\* PRIMARY_ONLY: the answer of the primary, whatever it is.
PrimaryOnly(q) ==
    /\ readMode = "PRIMARY_ONLY"
    /\ Delivered(q, primary)
    /\ Return(q, read[q].answers[primary])
    /\ UNCHANGED <<store, readMode>>

\* The answer ends a fallback read: a success, or the primary's word that
\* there is no such thing.  LIST has no such word.
EndsFallback(q, b) ==
    \/ read[q].answers[b].kind = "ok"
    \/ /\ b = primary
       /\ read[q].op # "list"
       /\ read[q].answers[b].kind = "notFound"

\* What is returned when every backend has failed.
AllFailed(op) == IF op = "list" THEN Error ELSE NotFound

\* A mutant: the last backend of the list is never tried.
Untried_SkipLast(q) == {b \in Backends \ read[q].tried : b + 1 < NumBackends}

Untried(q) == Backends \ read[q].tried

\* PRIMARY_FALLBACK, try_primary_fallback: the others follow in list order.
Fallback(q) ==
    /\ readMode = "PRIMARY_FALLBACK"
    /\ \E b \in read[q].waiting :
          /\ Delivered(q, b)
          /\ IF EndsFallback(q, b) THEN Return(q, read[q].answers[b])
             ELSE IF Untried(q) = {} THEN Return(q, AllFailed(read[q].op))
             ELSE \E c \in Untried(q) :
                     /\ \A d \in Untried(q) : c <= d
                     /\ read' = [read EXCEPT ![q].waiting = {c},
                                             ![q].tried = @ \cup {c}]
    /\ UNCHANGED <<store, readMode>>

\* The answer is neither a success nor a NoSuchKey or NoSuchBucket.
LosesRace(q, b) == read[q].answers[b].kind = "error"

\* BEST_EFFORT, race_all_backends: the first answer that is not an error wins
\* and the other calls are dropped; the last error if there is no winner.
Race(q) ==
    /\ readMode = "BEST_EFFORT"
    /\ \E b \in read[q].waiting :
          /\ Delivered(q, b)
          /\ IF LosesRace(q, b) /\ read[q].waiting # {b}
             THEN read' = [read EXCEPT ![q].waiting = @ \ {b}]
             ELSE Return(q, read[q].answers[b])
    /\ UNCHANGED <<store, readMode>>

\* A mutant: the ETags are not compared.
Consistent_NoCompare(q) ==
    \A b \in Backends : read[q].answers[b].kind = "ok"

\* All calls succeeded, with the primary's ETag.
Consistent(q) ==
    \A b \in Backends :
        /\ read[q].answers[b].kind = "ok"
        /\ read[q].answers[b].etag = read[q].answers[primary].etag

\* A mutant: a success is awaited from every backend.
Verify_AwaitSuccess(q) ==
    /\ readMode = "ALL_CONSISTENT"
    /\ read[q].phase = "asking"
    /\ \A b \in Backends : Delivered(q, b)
                            /\ read[q].answers[b].kind = "ok"
    /\ Return(q, IF Consistent(q)
                 THEN read[q].answers[primary] ELSE Error)
    /\ UNCHANGED <<store, readMode>>

\* ALL_CONSISTENT, verify_all_consistent_etag, verify_all_succeed and
\* list_objects_all_consistent: every answer is awaited, then compared.
Verify(q) ==
    /\ readMode = "ALL_CONSISTENT"
    /\ read[q].phase = "asking"
    /\ \A b \in Backends : Delivered(q, b)
    /\ Return(q, IF Consistent(q)
                 THEN read[q].answers[primary] ELSE Error)
    /\ UNCHANGED <<store, readMode>>

ReadStep(q) ==
    \/ \E b \in Backends : Answer(q, b)
    \/ PrimaryOnly(q)
    \/ Fallback(q)
    \/ Race(q)
    \/ Verify(q)

ReadNext == \E q \in Reads : ReadStep(q) \/ \E op \in Operations : Ask(q, op)

=============================================================================
