------------------------------ MODULE StartUp ------------------------------
(***************************************************************************)
(* How a ReplicaT4 process comes up: main() (src/src/main.rs:56-198), the  *)
(* loading and validation of its configuration (src/src/config.rs:85-156)  *)
(* and the benchmark that may choose the primary backend                   *)
(* (src/src/storage/multi_backend/mod.rs:69-194).                          *)
(*                                                                         *)
(* The other modules take the list of backends and the index of the        *)
(* primary from here: AsyncReplication!Restart says that the primary moves *)
(* with a restart only if it is chosen by latency.                         *)
(***************************************************************************)
EXTENDS Integers, Sequences, FiniteSets

CONSTANTS
    Names,        \* the names that backends may have in the file
    NoName,       \* primaryBackendName is absent
    MaxBackends,  \* bound on the length of the list in the file
    Requests,     \* BENCHMARK_REQUESTS, 10 in the code
    Durations     \* how long an answer to HEAD bucket may take

NoPrimary == -1

ASSUME StartUpAssumption ==
    /\ NoName \notin Names
    /\ MaxBackends \in Nat
    /\ Requests \in Nat \ {0}
    /\ Durations \subseteq Nat

VARIABLES
    config,    \* what the file says; every run reads the same file
    step,      \* where main() is
    created,   \* how many entries of config.backends it has been through
    made,      \* backends and backend_names
    times,     \* backend_latencies, by position in made
    asked,     \* HEAD requests sent to the backend that is benchmarked
    primary,   \* primary_index of the MultiBackend, if there is one

    \* History, read by the properties only.
    former     \* the primary of the last run that served with one

locals == <<created, made, times, asked, primary>>
vars   == <<config, step, locals, former>>

Kinds   == {"s3", "memory"}
Entries == [name : Names, kind : Kinds]

\* useLatencyBasedPrimaryBackend is an Option<bool> that counts only as
\* Some(true).
Configs ==
    [backends    : UNION {[1 .. n -> Entries] : n \in 0 .. MaxBackends},
     primaryName : Names \cup {NoName},
     latency     : BOOLEAN]

Steps == {"load", "create", "bench", "bind", "serving", "exited"}

Init ==
    /\ config \in Configs
    /\ step = "load"
    /\ created = 0
    /\ made = <<>>
    /\ times = <<>>
    /\ asked = 0
    /\ primary = NoPrimary
    /\ former = NoPrimary

-----------------------------------------------------------------------------
(* Loading.                                                                *)

\* A mutant: the named primary is not looked up.
Valid_UnknownPrimary(c) ==
    LET nameOf(i) == c.backends[i].name
    IN  /\ \A i, j \in DOMAIN c.backends : nameOf(i) = nameOf(j) => i = j
        /\ ~ (c.primaryName # NoName /\ c.latency)

\* Config::validate: names are unique, the two ways to choose a primary
\* exclude each other, and a named primary exists.
Valid(c) ==
    LET nameOf(i) == c.backends[i].name
    IN  /\ \A i, j \in DOMAIN c.backends : nameOf(i) = nameOf(j) => i = j
        /\ ~ (c.primaryName # NoName /\ c.latency)
        /\ \/ c.primaryName = NoName
           \/ \E i \in DOMAIN c.backends : nameOf(i) = c.primaryName

Load ==
    /\ step = "load"
    /\ step' = IF Valid(config) THEN "create" ELSE "exited"
    /\ UNCHANGED <<config, locals, former>>

\* The file is missing, has another extension, or cannot be parsed.
LoadFails ==
    /\ step = "load"
    /\ step' = "exited"
    /\ UNCHANGED <<config, locals, former>>

-----------------------------------------------------------------------------
(* The backends.                                                           *)

\* A mutant: the S3 client is tried out, and may not work.
NewOutcomes_TryS3(kind) == IF kind = "s3" THEN {"ok", "err"} ELSE {"ok"}

\* Neither constructor has an error path: S3Backend::new sends no request and
\* returns Ok whatever it is given (s3.rs:109-147).
NewOutcomes(kind) == {"ok"}

\* The next backend of the list; one that could not be made would be skipped.
Create ==
    /\ step = "create"
    /\ created < Len(config.backends)
    /\ created' = created + 1
    /\ LET entry == config.backends[created + 1]
       IN  \E o \in NewOutcomes(entry.kind) :
              made' = IF o = "ok" THEN Append(made, entry) ELSE made
    /\ UNCHANGED <<config, step, times, asked, primary, former>>

AllCreated ==
    /\ step = "create"
    /\ created = Len(config.backends)

\* "No backends configured! Exiting."
NoBackends ==
    /\ AllCreated
    /\ Len(made) = 0
    /\ step' = "exited"
    /\ UNCHANGED <<config, locals, former>>

\* One backend is used as it is, without a MultiBackend.
SingleBackend ==
    /\ AllCreated
    /\ Len(made) = 1
    /\ step' = "bind"
    /\ UNCHANGED <<config, locals, former>>

-----------------------------------------------------------------------------
(* The primary.                                                            *)

\* position: the first place of name n in the list.
IsPosition(list, i, n) ==
    /\ list[i].name = n
    /\ \A j \in 1 .. i - 1 : list[j].name # n

\* A mutant: positions in the list count from 1.
IndexIn_FromOne(list, n) ==
    IF \E i \in DOMAIN list : list[i].name = n
    THEN CHOOSE i \in DOMAIN list : IsPosition(list, i, n)
    ELSE 0

\* The index of the backend with name n, or else of the first one.
IndexIn(list, n) ==
    IF \E i \in DOMAIN list : list[i].name = n
    THEN (CHOOSE i \in DOMAIN list : IsPosition(list, i, n)) - 1
    ELSE 0

ByName ==
    /\ AllCreated
    /\ Len(made) > 1
    /\ ~ config.latency
    /\ primary' = IndexIn(made, config.primaryName)
    /\ step' = "bind"
    /\ UNCHANGED <<config, created, made, times, asked, former>>

ByLatency ==
    /\ AllCreated
    /\ Len(made) > 1
    /\ config.latency
    /\ times' = << <<>> >>
    /\ step' = "bench"
    /\ UNCHANGED <<config, created, made, asked, primary, former>>

\* The backend under test answers a HEAD bucket request after a time d, or, if
\* it is remote, fails to.
HeadBucket ==
    /\ step = "bench"
    /\ asked < Requests
    /\ asked' = asked + 1
    /\ \/ \E d \in Durations :
             times' = [times EXCEPT ![Len(times)] = Append(@, d)]
       \/ /\ made[Len(times)].kind = "s3"
          /\ UNCHANGED times
    /\ UNCHANGED <<config, step, created, made, primary, former>>

\* On to the next backend.
NextBackend ==
    /\ step = "bench"
    /\ asked = Requests
    /\ Len(times) < Len(made)
    /\ asked' = 0
    /\ times' = Append(times, <<>>)
    /\ UNCHANGED <<config, step, created, made, primary, former>>

\* How many times of s are not behind the one at i in a stable sort.
Position(s, i) ==
    Cardinality({j \in DOMAIN s : s[j] < s[i] \/ (s[j] = s[i] /\ j <= i)})

\* latencies.sort()
Sorted(s) ==
    [k \in DOMAIN s |-> s[CHOOSE i \in DOMAIN s : Position(s, i) = k]]

\* A mutant: the lower of the two middle times.
P50_Lower(s) == Sorted(s)[(Len(s) - 1) \div 2 + 1]

\* latencies[len / 2], counting from 0.
P50(s) == Sorted(s)[Len(s) \div 2 + 1]

\* A mutant: Option's own order, None first.
Before_NoneFirst(i, j) ==
    \/ times[i] = <<>> /\ times[j] # <<>>
    \/ times[i] # <<>> /\ times[j] # <<>> /\ P50(times[i]) < P50(times[j])

\* The order of the P50s: a backend without an answer comes last.
Before(i, j) ==
    \/ times[i] # <<>> /\ times[j] = <<>>
    \/ times[i] # <<>> /\ times[j] # <<>> /\ P50(times[i]) < P50(times[j])

\* The head of the list after a stable sort in that order; it is the first
\* backend of the list if none has answered.
IsFastest(i) ==
    /\ \A j \in DOMAIN times : ~ Before(j, i)
    /\ \A j \in 1 .. i - 1 : Before(i, j)

ChooseFastest ==
    /\ step = "bench"
    /\ asked = Requests
    /\ Len(times) = Len(made)
    /\ primary' = (CHOOSE i \in DOMAIN times : IsFastest(i)) - 1
    /\ step' = "bind"
    /\ UNCHANGED <<config, created, made, times, asked, former>>

-----------------------------------------------------------------------------
(* The process.                                                            *)

\* The listener is bound and served.
Bind ==
    /\ step = "bind"
    /\ step' = "serving"
    /\ UNCHANGED <<config, locals, former>>

\* The address is in use: unwrap() ends the process.
BindFails ==
    /\ step = "bind"
    /\ step' = "exited"
    /\ UNCHANGED <<config, locals, former>>

\* The process is over, at any moment, and somebody starts it again.
Restart ==
    /\ step # "load"
    /\ step' = "load"
    /\ created' = 0
    /\ made' = <<>>
    /\ times' = <<>>
    /\ asked' = 0
    /\ primary' = NoPrimary
    /\ former' = IF step = "serving" /\ primary # NoPrimary
                 THEN primary ELSE former
    /\ UNCHANGED config

Next ==
    \/ Load
    \/ LoadFails
    \/ Create
    \/ NoBackends
    \/ SingleBackend
    \/ ByName
    \/ ByLatency
    \/ HeadBucket
    \/ NextBackend
    \/ ChooseFastest
    \/ Bind
    \/ BindFails
    \/ Restart

Spec == Init /\ [][Next]_vars

-----------------------------------------------------------------------------
(* Properties.                                                             *)

\* Types; and backends[primary_index] and backend_names[primary_index] exist
\* where they are used: from "bind" on there is a backend, and with several
\* there is a primary among them.
TypeOK ==
    /\ config \in Configs
    /\ step \in Steps
    /\ created \in 0 .. Len(config.backends)
    /\ Len(made) <= created
    /\ \A i \in DOMAIN made : made[i] \in Entries
    /\ Len(times) <= Len(made)
    /\ \A i \in DOMAIN times : Len(times[i]) <= Requests
    /\ asked \in 0 .. Requests
    /\ primary \in {NoPrimary} \cup 0 .. Len(made) - 1
    /\ step \in {"bind", "serving"} =>
          Len(made) > 0 /\ (Len(made) > 1 => primary # NoPrimary)

\* What serves is what the file says: every backend of the list at its place,
\* and the named backend, or else the first, as the primary.  The replication
\* modes promise things about all the backends, so none may be missing, and an
\* index into a shorter list would mean another backend.
ServesAsConfigured ==
    step = "serving" =>
        /\ made = config.backends
        /\ Len(made) > 1 /\ ~ config.latency =>
              made[primary + 1].name =
                  IF config.primaryName = NoName
                  THEN config.backends[1].name
                  ELSE config.primaryName

\* Unless it is chosen by latency, every run of the process has the same
\* primary, so that an acknowledged object is still where reads look for it.
RestartKeepsPrimary ==
    step = "serving" /\ former # NoPrimary /\ ~ config.latency =>
        primary = former

ChosenByLatency == step = "serving" /\ config.latency /\ Len(made) > 1

\* The benchmark never prefers a backend that failed every request to one that
\* answered.
LatencyPrimaryAnswers ==
    ChosenByLatency =>
        \/ times[primary + 1] # <<>>
        \/ \A i \in DOMAIN times : times[i] = <<>>

\* What the P50s mean: there is a time within which more than half of the
\* primary's answers came, and which at least half of the answers of every
\* other backend took.  Failures do not count on either side.
Within(s, d)  == {i \in DOMAIN s : s[i] <= d}
AtLeast(s, d) == {i \in DOMAIN s : s[i] >= d}

FastestByMajority ==
    ChosenByLatency /\ times[primary + 1] # <<>> =>
        \E d \in Durations :
            /\ 2 * Cardinality(Within(times[primary + 1], d)) >
                   Len(times[primary + 1])
            /\ \A i \in DOMAIN times :
                  2 * Cardinality(AtLeast(times[i], d)) >= Len(times[i])

(* Why they hold: the facts that every step preserves.                     *)

\* Only what was validated gets past loading.
RunsValid == step \notin {"load", "exited"} => Valid(config)

\* No entry of the file has been skipped so far, and none is left out later.
NoneSkipped ==
    /\ created \in 0 .. Len(config.backends)
    /\ made \in Seq(Entries)
    /\ Len(made) = created
    /\ \A i \in 1 .. created : made[i] = config.backends[i]
    /\ step \in {"bench", "bind", "serving"} => created = Len(config.backends)

\* The primary that is not chosen by latency depends on the file alone.
PrimaryFromFile ==
    LET index == IndexIn(config.backends, config.primaryName)
    IN  ~ config.latency =>
            /\ step \in {"bind", "serving"} =>
                  primary = IF Len(made) > 1 THEN index ELSE NoPrimary
            /\ step \in {"load", "create"} => primary = NoPrimary
            /\ step # "bench"
            /\ former # NoPrimary =>
                  former = index /\ Len(config.backends) > 1

\* The primary that is chosen by latency is the head of the sorted list, and
\* the list has the times of every backend.
PrimaryFromTimes ==
    /\ times \in Seq(Seq(Durations))
    /\ step \in {"load", "create", "bench"} => primary = NoPrimary
    /\ step = "bench" =>
          /\ config.latency
          /\ Len(made) > 1
          /\ Len(times) > 0
          /\ Len(times[Len(times)]) <= asked
    /\ step \in {"bind", "serving"} /\ config.latency /\ Len(made) > 1 =>
          /\ Len(times) = Len(made)
          /\ IsFastest(primary + 1)

\* The inductive invariant behind all of them: no step of main() and no
\* restart (main.rs:57-180) leaves these facts.
Inductive ==
    /\ config \in Configs
    /\ RunsValid
    /\ NoneSkipped
    /\ PrimaryFromFile
    /\ TypeOK
    /\ PrimaryFromTimes

=============================================================================
