----------------------------- MODULE FrontEnd -----------------------------
(***************************************************************************)
(* A request on its way from its client's clock and signature, through     *)
(* auth_middleware (middleware.rs:25-58, signature.rs), the routes         *)
(* (server.rs) and the handlers, to the storage and back as a status.      *)
(*                                                                         *)
(* The signature is the term it is computed from: an HMAC never collides   *)
(* and nobody guesses a secret.  Times are multiples of five minutes.  A   *)
(* query is a sequence of <<name, value>> pairs, numbered in their order   *)
(* as strings.                                                             *)
(***************************************************************************)
EXTENDS Listings, Sequences

CONSTANTS
    Requests,     \* the requests a client may send
    Selected,     \* Selected[p]: the keys that prefix p selects
    Horizon,      \* bound on the clock
    DayLength,    \* of a calendar day
    PageLimit,    \* 1000 in the code
    MaxI32,       \* the largest i32
    Nobody,       \* not a secret
    NoRequest     \* not a request

\* What a client makes of a request:
\*   header  "missing", "malformed" or "fine": its Authorization header
\*   secret  the secret that it signs with
\*   known   the secret that the server holds for its access key, or Nobody
\*   dated   "amz", "date" or "none": the header with the time of signing
\*   hash    whether x-amz-content-sha256 is there
\*   region  the region that its signing key is made for
\*   skew    its clock's lead over the server's
Fields == {"header", "secret", "known", "dated", "hash", "region", "skew",
           "method", "path", "query"}

ASSUME FrontEndAssumption ==
    /\ \A r \in Requests :
          /\ DOMAIN r = Fields
          /\ r.secret # Nobody
          /\ r.skew \in Int
          /\ r.query \in Seq(Int \X Int)
    /\ {Horizon, DayLength, PageLimit, MaxI32} \subseteq Nat \ {0}
    /\ DayLength <= Horizon
    /\ PageLimit <= MaxI32

VARIABLES
    now,      \* the server's clock
    request,  \* the client's request
    stamp,    \* the client's clock when it signed it
    phase,    \* how far the request has got
    answer,   \* the status and the S3 code of the response
    counts    \* KeyCount and MaxKeys of a listing's XML

frontVars == <<now, request, stamp, phase, answer, counts>>
allVars   == <<listVars, frontVars>>

FrontPhases == {"client", "sent", "storage", "answered"}

Skew   == 3             \* 15 minutes
Region == "us-east-1"

\* The names of the parameters of LIST, in their order.
ListType == 1
MaxKeys  == 2
Prefix   == 3

Refusals == {"AccessDenied", "InvalidRequest", "SignatureDoesNotMatch"}

NoCounts == [keys |-> 0, max |-> 0]

FrontInit ==
    /\ ListInit
    /\ now \in 0 .. DayLength - 1
    /\ request = NoRequest
    /\ stamp = 0
    /\ phase = "client"
    /\ answer = [status |-> 0, code |-> "none"]
    /\ counts = NoCounts

-----------------------------------------------------------------------------
(* The signature.                                                          *)

\* By name, then by value.
Precedes(p, q) == p[1] < q[1] \/ (p[1] = q[1] /\ p[2] < q[2])

\* canonicalize_query_string: a stable sort of the pairs.
Canonical(query) ==
    LET n       == Len(query)
        rank(i) == Cardinality(
                      {j \in 1 .. n : \/ Precedes(query[j], query[i])
                                      \/ /\ ~ Precedes(query[i], query[j])
                                         /\ j <= i})
    IN  [k \in 1 .. n |-> query[CHOOSE i \in 1 .. n : rank(i) = k]]

\* A mutant: the signing key is made for the day of the server's clock.
DateKey_Today(dated, time) == {now \div DayLength}

\* The day a signing key is made for: the first eight characters of the header
\* with the time, which are a day only in the ISO format of x-amz-date.
DateKey(dated, time) == IF dated = "amz" THEN {time \div DayLength} ELSE {}

\* What the server computes from the request it has received.
Expected(r, query) ==
    <<r.known, DateKey(r.dated, stamp), Region, stamp,
      <<r.method, r.path, Canonical(query)>>>>

\* What the client computed, by the same rules: the order of the parameters
\* that it wrote is no part of it.  Their percent-encoding, which the server
\* takes as it comes (signature.rs:218-250), is that of the request, and the
\* signed headers are left out.
Given(r) ==
    <<r.secret, {stamp \div DayLength}, r.region, stamp,
      <<r.method, r.path, Canonical(r.query)>>>>

\* Fifteen minutes either way.
Fresh(time) == now - time <= Skew /\ now - time >= - Skew

\* auth_middleware and verify_signature, in the order of their checks.
Verdict(r, query) ==
    IF r.header = "missing"                  THEN "AccessDenied"
    ELSE IF r.header = "malformed"           THEN "InvalidRequest"
    ELSE IF r.known = Nobody                 THEN "AccessDenied"
    ELSE IF r.dated = "none" \/ ~ r.hash     THEN "InvalidRequest"
    ELSE IF ~ Fresh(stamp)                   THEN "InvalidRequest"
    ELSE IF Expected(r, query) # Given(r)    THEN "SignatureDoesNotMatch"
    ELSE "Accepted"

-----------------------------------------------------------------------------
(* Routes and handlers.                                                    *)

Operation(r) ==
    CASE r.path = "object" /\ r.method \in {"GET", "HEAD"}  -> "read"
      [] r.path = "object" /\ r.method = "PUT"              -> "put"
      [] r.path = "object" /\ r.method = "DELETE"           -> "delete"
      [] r.path = "bucket" /\ r.method = "GET"              -> "list"
      [] r.path = "bucket" /\ r.method = "HEAD"             -> "bucket"
      [] r.path = "elsewhere"                               -> "notFound"
      [] OTHER                                              -> "notAllowed"

\* What the storage may answer, but to LIST, whose pages Listings computes.  No
\* backend fails a DELETE: S3Backend answers Ok to whatever the service says.
Outcomes(op) ==
    CASE op = "read"             -> {"Ok", "NoSuchKey", "InternalError"}
      [] op = "put"              -> {"Ok", "InternalError"}
      [] op = "delete"           -> {"Ok"}
      [] op = "bucket"           -> {"Ok", "NoSuchBucket", "InternalError"}

Status(op, code) ==
    CASE code = "Ok"                                      ->
             IF op = "delete" THEN 204 ELSE 200
      [] code \in {"NoSuchKey", "NoSuchBucket"}           -> 404
      [] code = "InvalidRequest"                          -> 400
      [] code \in {"AccessDenied", "SignatureDoesNotMatch"} -> 403
      [] code = "InternalError"                           -> 500

Answered(status, code) ==
    /\ phase' = "answered"
    /\ answer' = [status |-> status, code |-> code]

Named(query, name) == {i \in DOMAIN query : query[i][1] = name}

\* serde reads the parameters of LIST: none of them twice, max-keys an i32.
Readable(query) ==
    /\ \A name \in {ListType, MaxKeys, Prefix} :
          Cardinality(Named(query, name)) <= 1
    /\ \A i \in Named(query, MaxKeys) :
          query[i][2] \in - MaxI32 - 1 .. MaxI32

\* A mutant: the number asked for is passed on as it is.
Limit_Unbounded(query) ==
    IF Named(query, MaxKeys) = {} THEN PageLimit
    ELSE query[CHOOSE i \in Named(query, MaxKeys) : TRUE][2]

\* unwrap_or(1000).min(1000)
Limit(query) ==
    LET asked == {query[i][2] : i \in Named(query, MaxKeys)} \cup {PageLimit}
    IN  CHOOSE n \in asked : \A m \in asked : n <= m

Matching(query) ==
    {k \in Keys : \A i \in Named(query, Prefix) : k \in Selected[query[i][2]]}

\* The client signs the request and sends it.
Send(r) ==
    /\ phase = "client"
    /\ request' = r
    /\ stamp' = now + r.skew
    /\ phase' = "sent"
    /\ UNCHANGED <<listVars, now, answer, counts>>

\* Time passes until the request arrives.
Tick ==
    /\ phase = "sent"
    /\ now < Horizon
    /\ now' = now + 1
    /\ UNCHANGED <<listVars, request, stamp, phase, answer, counts>>

\* The same parameters in another order, as a proxy may write them.
Reorderings(query) ==
    {[i \in DOMAIN query |-> query[f[i]]] :
        f \in {g \in [DOMAIN query -> DOMAIN query] :
                  \A i, j \in DOMAIN query : g[i] = g[j] => i = j}}

\* The request arrives.  The layer with the middleware is around every route
\* and the fallback; there is no await before the storage is called.
Arrive ==
    /\ phase = "sent"
    /\ \E query \in Reorderings(request.query) :
          LET verdict == Verdict(request, query)
              op      == Operation(request)
          IN  IF verdict # "Accepted"
              THEN /\ Answered(Status(op, verdict), verdict)
                   /\ UNCHANGED listVars
              ELSE \/ /\ op = "notFound"
                      /\ Answered(404, "NoSuchBucket")
                      /\ UNCHANGED listVars
                   \/ /\ op = "notAllowed"
                      /\ Answered(405, "none")
                      /\ UNCHANGED listVars
                   \/ /\ op = "list"
                      /\ ~ Readable(query)
                      /\ Answered(400, "none")
                      /\ UNCHANGED listVars
                   \/ /\ op = "list"
                      /\ Readable(query)
                      /\ AskList(Matching(query), Limit(query))
                      /\ phase' = "storage"
                      /\ UNCHANGED answer
                   \/ /\ op \in {"read", "put", "delete", "bucket"}
                      /\ phase' = "storage"
                      /\ UNCHANGED <<listVars, answer>>
    /\ UNCHANGED <<now, request, stamp, counts>>

\* The storage answers an operation other than LIST; a PUT whose body breaks
\* off is answered with an InternalError too.
StorageAnswers ==
    /\ phase = "storage"
    /\ Operation(request) # "list"
    /\ \E code \in Outcomes(Operation(request)) :
          Answered(Status(Operation(request), code), code)
    /\ UNCHANGED <<listVars, now, request, stamp, counts>>

\* A mutant: MaxKeys repeats what the client asked for.
ListAnswered_AskedMax ==
    /\ phase = "storage"
    /\ list.phase = "done"
    /\ IF list.result.kind = "ok"
       THEN /\ Answered(200, "Ok")
            /\ counts' = [keys |-> Cardinality(DOMAIN Page),
                          max |-> Limit_Unbounded(request.query)]
       ELSE /\ Answered(500, "InternalError")
            /\ UNCHANGED counts
    /\ UNCHANGED <<listVars, now, request, stamp>>

\* The page is rendered; IsTruncated is always false.
ListAnswered ==
    /\ phase = "storage"
    /\ list.phase = "done"
    /\ IF list.result.kind = "ok"
       THEN /\ Answered(200, "Ok")
            /\ counts' = [keys |-> Cardinality(DOMAIN Page),
                          max |-> list.max]
       ELSE /\ Answered(500, "InternalError")
            /\ UNCHANGED counts
    /\ UNCHANGED <<listVars, now, request, stamp>>

\* Objects change on the way of a LIST to the server and while it is served;
\* no other request is followed into the storage.
WriteBeside ==
    /\ phase = "sent" \/ list.phase = "asking"
    /\ Operation(request) = "list"
    /\ WriteSome
    /\ UNCHANGED frontVars

FrontNext ==
    \/ \E r \in Requests : Send(r)
    \/ Tick
    \/ Arrive
    \/ StorageAnswers
    \/ ListAnswered
    \/ WriteBeside
    \/ ListStep /\ UNCHANGED frontVars

FrontSpec == FrontInit /\ [][FrontNext]_allVars

-----------------------------------------------------------------------------
(* Properties.                                                             *)

FrontTypeOK ==
    /\ ListTypeOK
    /\ now \in 0 .. Horizon
    /\ request \in Requests \cup {NoRequest}
    /\ phase \in FrontPhases
    /\ list.max \in - MaxI32 - 1 .. PageLimit
    /\ answer.status \in {0, 200, 204, 400, 403, 404, 405, 500}

Honest(r) ==
    /\ r.header = "fine"
    /\ r.secret = r.known
    /\ r.dated = "amz"
    /\ r.hash
    /\ r.region = Region

\* A client that signs as the server does is served if its request arrives
\* within fifteen minutes of its own clock, wherever midnight falls and in
\* whatever order the parameters arrive (signature.rs:144-188, 224-256, 310).
PunctualIsServed ==
    /\ phase = "answered"
    /\ Honest(request)
    /\ now - stamp \in - Skew .. Skew
    => answer.code \notin Refusals

\* IsTruncated being always false, KeyCount below MaxKeys is what tells a
\* client that a listing is whole: then it has every key that matches and that
\* every backend held throughout (handlers/list_objects.rs:38-60).
ShortListingIsWhole ==
    phase = "answered" /\ counts.keys < counts.max =>
        steady \cap list.matching \subseteq DOMAIN Page

\* A listing has no more than a thousand keys, unless a negative max-keys gets
\* to an in-memory backend, which then lists all that match; a service refuses
\* it (handlers/list_objects.rs:38, in_memory.rs:71).
ListingIsBounded ==
    phase = "answered" /\ Listed =>
        \/ 0 <= counts.max /\ counts.max <= PageLimit
              /\ counts.keys <= counts.max
        \/ /\ counts.max < 0
           /\ \E b \in list.tried :
                 /\ ~ IsRemote(b)
                 /\ Page = list.answers[b].page

(* Why they hold: the facts that every step preserves.                     *)

\* The storage is busy with a LIST only between the arrival of a request for
\* one and its answer, and nothing touches the LIST after that.
ListFitsRequest ==
    /\ phase # "client" => request \in Requests
    /\ phase \in {"client", "sent"} => list.phase = "idle"
    /\ phase = "storage" =>
          /\ Operation(request) \in {"read", "put", "delete", "bucket", "list"}
          /\ Operation(request) = "list" <=> list.phase # "idle"
    /\ phase = "answered" => list.phase # "asking"

\* An answer and its numbers are made once, when the request is answered.
AnswerFitsRequest ==
    /\ phase # "answered" => answer.code = "none"
    /\ counts = IF phase = "answered" /\ Listed
                THEN [keys |-> Cardinality(DOMAIN Page), max |-> list.max]
                ELSE NoCounts

\* The inductive invariant behind all the properties, those of Listings too.
FrontInductive ==
    /\ FrontTypeOK
    /\ stamp \in Int
    /\ ListInductive
    /\ ListFitsRequest
    /\ AnswerFitsRequest
    /\ PunctualIsServed

=============================================================================
