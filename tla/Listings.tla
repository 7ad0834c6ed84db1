----------------------------- MODULE Listings -----------------------------
(***************************************************************************)
(* LIST over several keys: list_objects.rs under                           *)
(* src/src/storage/multi_backend, the list_objects of both backends        *)
(* (in_memory.rs:50-74, s3.rs:188-238), and objects that writes change     *)
(* meanwhile, one backend at a time.                                       *)
(*                                                                         *)
(* ReadPath follows a LIST through one key; here the key has neighbours, a *)
(* prefix selects among them and max_keys cuts the listing short.  Keys    *)
(* are numbered in their order, which is the same byte order in both       *)
(* backends.                                                               *)
(***************************************************************************)
EXTENDS StorageBackend, FiniteSets

CONSTANTS
    Keys,            \* the keys of the bucket, in order
    Values,          \* the objects they may hold
    Configurations,  \* the lists of backends that may be configured
    MaxWrites        \* bound on the writes to a single backend

ASSUME ListingsAssumption ==
    /\ Keys \subseteq Int
    /\ IsFiniteSet(Keys)
    /\ Nil \notin Values
    /\ MaxWrites \in Nat
    /\ Configurations \subseteq SUBSET Backends \ {{}}

VARIABLES
    members,   \* MultiBackend.backends, as indices
    primary,   \* MultiBackend.primary_index
    readMode,  \* MultiBackend.read_mode
    objects,   \* objects[b][k]: what backend b holds under key k
    list,      \* the LIST that MultiBackend is executing

    \* History, read by the properties only.
    writes,    \* changes to a backend so far
    still,     \* nothing was written since the LIST began
    steady     \* keys that every backend has held since the LIST began

configVars == <<members, primary, readMode>>
listVars   == <<configVars, objects, list, writes, still, steady>>

ReadModes == {"PRIMARY_ONLY", "PRIMARY_FALLBACK", "BEST_EFFORT",
              "ALL_CONSISTENT"}

\* What a call returns: a page, that is the ETags of the keys listed, or an
\* error.
NoPage   == [k \in {} |-> Nil]
Ok(page) == [kind |-> "ok", page |-> page]
Error    == [kind |-> "error", page |-> NoPage]
NoAnswer == [kind |-> "none", page |-> NoPage]

\* SHA-256 in memory, the service's own choice on S3.
ETag(b, v) == <<IsRemote(b), v>>

Held(b)     == {k \in Keys : objects[b][k] # Nil}
HeldByAll   == {k \in Keys : \A b \in members : k \in Held(b)}
First(S, n) == {k \in S : Cardinality({j \in S : j < k}) < n}

\* A mutant: the collected objects are truncated before they are sorted.
Cut_BeforeSort(S, n) ==
    {T \in SUBSET S : Cardinality(T) = IF n < 0 \/ n > Cardinality(S)
                                       THEN Cardinality(S) ELSE n}

\* The first n of the keys S, sorted; in memory `max_keys as usize' makes a
\* negative n larger than any listing.  (A set, of one: the mutant's has more.)
Cut(S, n) == IF n < 0 THEN {S} ELSE {First(S, n)}

\* What a backend that works answers.  The service refuses a negative number.
Pages(b) ==
    IF IsRemote(b) /\ list.max < 0 THEN {Error}
    ELSE {Ok([k \in cut |-> ETag(b, objects[b][k])]) :
             cut \in Cut(Held(b) \cap list.matching, list.max)}

NoList ==
    [phase |-> "idle", matching |-> {}, max |-> 0, waiting |-> {},
     tried |-> {}, answers |-> [b \in Backends |-> NoAnswer],
     result |-> NoAnswer]

\* Every backend holds what earlier writes have left everywhere.
ListInit ==
    /\ members \in Configurations
    /\ primary \in members
    /\ readMode \in ReadModes
    /\ \E held \in [Keys -> Values \cup {Nil}] :
          objects = [b \in Backends |-> held]
    /\ list = NoList
    /\ writes = 0
    /\ still = FALSE
    /\ steady = {}

-----------------------------------------------------------------------------
\* A write, a copy of one or a late execution changes a key at one backend.
Write(b, k, v) ==
    /\ writes < MaxWrites
    /\ b \in members
    /\ objects[b][k] # v
    /\ objects' = [objects EXCEPT ![b][k] = v]
    /\ writes' = writes + 1
    /\ still' = FALSE
    /\ steady' = IF v = Nil THEN steady \ {k} ELSE steady
    /\ UNCHANGED <<configVars, list>>

FirstAsked ==
    IF readMode \in {"PRIMARY_ONLY", "PRIMARY_FALLBACK"}
    THEN {primary} ELSE members

\* list_objects is called.
AskList(matching, max) ==
    /\ list.phase = "idle"
    /\ list' = [list EXCEPT !.phase = "asking", !.matching = matching,
                            !.max = max, !.waiting = FirstAsked,
                            !.tried = FirstAsked]
    /\ still' = TRUE
    /\ steady' = HeldByAll
    /\ UNCHANGED <<configVars, objects, writes>>

\* Backend b lists its objects, or fails to.
AnswerList(b) ==
    /\ b \in list.waiting
    /\ list.answers[b] = NoAnswer
    /\ \E a \in Pages(b) \cup (IF IsRemote(b) THEN {Error} ELSE {}) :
          list' = [list EXCEPT !.answers[b] = a]
    /\ UNCHANGED <<configVars, objects, writes, still, steady>>

Delivered(b) == b \in list.waiting /\ list.answers[b] # NoAnswer
Failed(b)    == list.answers[b].kind = "error"

Return(a) ==
    list' = [list EXCEPT !.phase = "done", !.result = a, !.waiting = {}]

Untried == members \ list.tried

\* PRIMARY_ONLY; or PRIMARY_FALLBACK, which tries the others in list order
\* after any error, the primary's too.
ListOneByOne ==
    /\ readMode \in {"PRIMARY_ONLY", "PRIMARY_FALLBACK"}
    /\ \E b \in list.waiting :
          /\ Delivered(b)
          /\ IF ~ Failed(b) \/ readMode = "PRIMARY_ONLY"
             THEN Return(list.answers[b])
             ELSE IF Untried = {} THEN Return(Error)
             ELSE \E c \in Untried :
                     /\ \A d \in Untried : c <= d
                     /\ list' = [list EXCEPT !.waiting = {c},
                                             !.tried = @ \cup {c}]
    /\ UNCHANGED <<configVars, objects, writes, still, steady>>

\* BEST_EFFORT: the first page wins, the last error if there is none.
ListRace ==
    /\ readMode = "BEST_EFFORT"
    /\ \E b \in list.waiting :
          /\ Delivered(b)
          /\ IF Failed(b) /\ list.waiting # {b}
             THEN list' = [list EXCEPT !.waiting = @ \ {b}]
             ELSE Return(list.answers[b])
    /\ UNCHANGED <<configVars, objects, writes, still, steady>>

\* A mutant: the keys of a page are looked up in the primary's, but not
\* counted.
SamePages_NoCount(page, mine) ==
    \A k \in DOMAIN page : k \in DOMAIN mine /\ page[k] = mine[k]

\* As many objects, and each of them in the primary's page with its ETag.
SamePages(page, mine) ==
    /\ Cardinality(DOMAIN page) = Cardinality(DOMAIN mine)
    /\ \A k \in DOMAIN page : k \in DOMAIN mine /\ page[k] = mine[k]

\* An error fails the LIST, and so does a page that differs from the primary's.
Compared ==
    LET page(b) == list.answers[b].page
    IN  IF \A b \in members : ~ Failed(b) /\ SamePages(page(b), page(primary))
        THEN Ok(page(primary)) ELSE Error

\* ALL_CONSISTENT: every answer is awaited.
ListAllConsistent ==
    /\ readMode = "ALL_CONSISTENT"
    /\ list.phase = "asking"
    /\ \A b \in members : Delivered(b)
    /\ Return(Compared)
    /\ UNCHANGED <<configVars, objects, writes, still, steady>>

ListStep ==
    \/ \E b \in members : AnswerList(b)
    \/ ListOneByOne
    \/ ListRace
    \/ ListAllConsistent

WriteSome ==
    \E b \in members, k \in Keys, v \in Values \cup {Nil} : Write(b, k, v)

-----------------------------------------------------------------------------
(* Properties.                                                             *)

ListTypeOK ==
    /\ members \in Configurations
    /\ primary \in members
    /\ readMode \in ReadModes
    /\ objects \in [Backends -> [Keys -> Values \cup {Nil}]]
    /\ list.phase \in {"idle", "asking", "done"}
    /\ list.waiting \subseteq list.tried
    /\ list.tried \subseteq members
    /\ writes \in 0 .. MaxWrites
    /\ steady \subseteq Keys

Listed == list.phase = "done" /\ list.result.kind = "ok"
Page   == list.result.page

\* The keys that a page tells of: all that match, or those up to its last one
\* if max_keys cut it short.
CoveredBy(page) ==
    {k \in list.matching :
        \/ list.max < 0
        \/ Cardinality(DOMAIN page) < list.max
        \/ \E l \in DOMAIN page : k <= l}

Covered == CoveredBy(Page)

\* An ALL_CONSISTENT page proves, if nothing was written meanwhile, that every
\* backend holds the same up to the end of the page, although each backend cut
\* its own listing and only the cuts are compared (list_objects.rs:142-186).
PagesProveAgreement ==
    Listed /\ readMode = "ALL_CONSISTENT" /\ still =>
        \A k \in Covered, b, c \in members : objects[b][k] = objects[c][k]

\* Conversely, backends that agree are not taken for inconsistent by the way
\* each of them cuts its listing, if they are of one kind; on different kinds
\* equal objects have different ETags, and only empty pages can pass
\* (in_memory.rs:34-38, s3.rs:202-212).
AgreementIsSeen ==
    list.phase = "done" /\ readMode = "ALL_CONSISTENT" =>
        IF \A b, c \in members : IsRemote(b) <=> IsRemote(c)
        THEN /\ still
             /\ \A b \in members : list.answers[b].kind = "ok"
             /\ \A k \in list.matching, b, c \in members :
                   objects[b][k] = objects[c][k]
             => Listed
        ELSE Listed => DOMAIN Page = {}

\* What every backend holds throughout is listed, in every mode and whatever
\* else is written meanwhile, unless the page is full.
SteadyKeysAreListed ==
    Listed => \A k \in steady \cap Covered : k \in DOMAIN Page

(* Why they hold: the facts that every step preserves.                     *)

AllPages ==
    UNION {[D -> {ETag(b, v) : b \in Backends, v \in Values}] :
              D \in SUBSET Keys}
Answers == [kind : {"none", "ok", "error"}, page : AllPages]

\* Every backend is asked once at most: after the LIST nobody is awaited, and
\* before it nobody has been tried.
ListShape ==
    /\ list \in [phase : {"idle", "asking", "done"}, matching : SUBSET Keys,
                 max : Int, waiting : SUBSET members, tried : SUBSET members,
                 answers : [Backends -> Answers], result : Answers]
    /\ list.phase = "idle" => list = NoList
    /\ list.phase = "done" => list.waiting = {}

\* What is steady is held by everyone, whatever has been written.
SteadyIsHeld == steady \subseteq HeldByAll

\* A page, however old it is, lists matching keys with ETags of its backend, as
\* many as max_keys allows, and no steady key is missing up to its last one.
PageFits(b, page) ==
    /\ IsRemote(b) => list.max >= 0
    /\ \A k \in DOMAIN page :
          k \in list.matching /\ \E v \in Values : page[k] = ETag(b, v)
    /\ list.max >= 0 => Cardinality(DOMAIN page) <= list.max
    /\ steady \cap CoveredBy(page) \subseteq DOMAIN page

\* Answers are the errors of remote backends and pages; as long as nothing is
\* written they are what the backend would answer now.
AnswersFit ==
    \A b \in Backends :
        LET a == list.answers[b]
        IN  /\ a # NoAnswer => b \in list.tried
            /\ \/ a = NoAnswer
               \/ a = Error /\ IsRemote(b)
               \/ /\ a.kind = "ok"
                  /\ PageFits(b, a.page)
                  /\ still => a \in Pages(b)

\* The result is an error or somebody's answer; with ALL_CONSISTENT it is what
\* the comparison of all the answers says.
ResultFits ==
    list.phase = "done" =>
        IF readMode = "ALL_CONSISTENT"
        THEN /\ \A b \in members : list.answers[b] # NoAnswer
             /\ list.result = Compared
        ELSE \/ list.result = Error
             \/ \E b \in list.tried :
                   /\ list.answers[b] # NoAnswer
                   /\ list.result = list.answers[b]

ListInductive ==
    /\ ListTypeOK
    /\ ListShape
    /\ SteadyIsHeld
    /\ AnswersFit
    /\ ResultFits

=============================================================================
