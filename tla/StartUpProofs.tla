--------------------------- MODULE StartUpProofs ---------------------------
(***************************************************************************)
(* Proofs about StartUp: whatever the file lists, the process serves       *)
(* exactly that with the primary the file names, a restart keeps the       *)
(* primary unless it is chosen by latency, and the benchmark chooses a     *)
(* backend that answered and that is the fastest in the sense of the P50,  *)
(* whatever the times, for any number of backends and requests.            *)
(***************************************************************************)
EXTENDS StartUp, SequenceTheorems, Ranks

\* The list of backends of a file is a sequence.
LEMMA BackendsAreSeq ==
  ASSUME config \in Configs
  PROVE  config.backends \in Seq(Entries)
<1>1. PICK n \in 0 .. MaxBackends : config.backends \in [1 .. n -> Entries]
  BY DEF Configs
<1> QED
  BY <1>1, StartUpAssumption

\* A list of which nothing was skipped is the list of the file.
LEMMA SameList ==
  ASSUME config \in Configs, NoneSkipped, created = Len(config.backends)
  PROVE  made = config.backends
BY BackendsAreSeq, SeqEqual DEF NoneSkipped

\* A file without a valid named primary is not served, so the position that
\* main() looks for exists and is unique.
LEMMA PositionFound ==
  ASSUME config \in Configs, Valid(config), config.primaryName # NoName
  PROVE  \E i \in 1 .. Len(config.backends) :
            /\ config.backends[i].name = config.primaryName
            /\ IndexIn(config.backends, config.primaryName) = i - 1
<1> DEFINE list == config.backends
           n == config.primaryName
<1>1. DOMAIN list = 1 .. Len(list) /\ Len(list) \in Nat
  BY BackendsAreSeq, LenProperties
<1>2. PICK i \in DOMAIN list : list[i].name = n
  BY DEF Valid
<1>3. \A j \in DOMAIN list : list[j].name = n => j = i
  BY <1>2 DEF Valid
<1>4. IsPosition(list, i, n)
  BY <1>1, <1>2, <1>3 DEF IsPosition
<1>5. IndexIn(list, n) =
          (CHOOSE j \in DOMAIN list : IsPosition(list, j, n)) - 1
  BY <1>2 DEF IndexIn
<1>6. \A j \in DOMAIN list : IsPosition(list, j, n) => j = i
  BY <1>3 DEF IsPosition
<1>7. (CHOOSE j \in DOMAIN list : IsPosition(list, j, n)) = i
  BY <1>2, <1>4, <1>6
<1> QED
  BY <1>1, <1>2, <1>5, <1>7

\* Without a name, the first backend is the primary.
LEMMA FirstByDefault ==
  ASSUME config \in Configs, config.primaryName = NoName
  PROVE  IndexIn(config.backends, config.primaryName) = 0
<1>1. \A i \in DOMAIN config.backends : config.backends[i] \in Entries
  BY BackendsAreSeq, LenProperties, ElementOfSeq
<1>2. \A e \in Entries : e.name \in Names
  BY DEF Entries
<1> QED
  BY <1>1, <1>2, StartUpAssumption DEF IndexIn

-----------------------------------------------------------------------------
(* The sort of the times.                                                  *)

\* The order in which a stable sort puts the positions of s.
TimeOrder(s) ==
    {p \in Nat \X Nat :
        \/ s[p[1]] < s[p[2]]
        \/ s[p[1]] = s[p[2]] /\ p[1] < p[2]}

\* It is an order, and Position counts by it.
LEMMA TimeOrderOrders ==
  ASSUME NEW s \in Seq(Int)
  PROVE  /\ IsFiniteSet(DOMAIN s) /\ Cardinality(DOMAIN s) = Len(s)
         /\ Orders(TimeOrder(s), DOMAIN s)
         /\ \A i \in DOMAIN s :
               /\ Position(s, i) = Rank(i, DOMAIN s, TimeOrder(s))
               /\ \A j \in UpTo(i, DOMAIN s, TimeOrder(s)) : s[j] <= s[i]
               /\ \A j \in DOMAIN s \ UpTo(i, DOMAIN s, TimeOrder(s)) :
                     s[j] >= s[i]
<1>1. /\ DOMAIN s = 1 .. Len(s) /\ Len(s) \in Nat
      /\ \A i \in DOMAIN s : s[i] \in Int
  BY LenProperties, ElementOfSeq
<1>2. IsFiniteSet(DOMAIN s) /\ Cardinality(DOMAIN s) = Len(s)
  BY <1>1, FS_Interval
<1>3. ASSUME NEW i \in DOMAIN s, NEW j \in DOMAIN s
      PROVE  <<i, j>> \in TimeOrder(s) <=>
                 (s[i] < s[j] \/ (s[i] = s[j] /\ i < j))
  <2>1. i \in Nat /\ j \in Nat /\ s[i] \in Int /\ s[j] \in Int
    BY <1>1
  <2> QED
    BY <2>1 DEF TimeOrder
<1>4. Orders(TimeOrder(s), DOMAIN s)
  BY <1>1, <1>3 DEF Orders
<1>5. ASSUME NEW i \in DOMAIN s
      PROVE  UpTo(i, DOMAIN s, TimeOrder(s)) =
                 {j \in DOMAIN s : s[j] < s[i] \/ (s[j] = s[i] /\ j <= i)}
  BY <1>1, <1>3 DEF UpTo
<1>6. ASSUME NEW i \in DOMAIN s
      PROVE  /\ Position(s, i) = Rank(i, DOMAIN s, TimeOrder(s))
             /\ \A j \in UpTo(i, DOMAIN s, TimeOrder(s)) : s[j] <= s[i]
             /\ \A j \in DOMAIN s \ UpTo(i, DOMAIN s, TimeOrder(s)) :
                   s[j] >= s[i]
  <2>1. Position(s, i) = Rank(i, DOMAIN s, TimeOrder(s))
    BY <1>5, <1>6, Zenon DEF Position, Rank
  <2> QED
    BY <1>1, <1>5, <2>1
<1> QED
  BY <1>2, <1>4, <1>6

\* The P50 is one of the times: that with position len / 2 + 1.
LEMMA P50Position ==
  ASSUME NEW s \in Seq(Int), s # <<>>
  PROVE  \E i \in DOMAIN s :
            P50(s) = s[i] /\ Position(s, i) = Len(s) \div 2 + 1
<1> DEFINE D == DOMAIN s
           R == TimeOrder(s)
           k == Len(s) \div 2 + 1
<1>1. Len(s) \in Nat /\ Len(s) # 0 /\ D = 1 .. Len(s)
  BY LenProperties, EmptySeq
<1>2. k \in 1 .. Len(s)
  BY <1>1
<1>3. PICK i \in D : Rank(i, D, R) = k
  BY <1>2, TimeOrderOrders, RankExists
<1>4. \E j \in D : Position(s, j) = k
  BY <1>3, TimeOrderOrders
<1>5. P50(s) = s[CHOOSE j \in D : Position(s, j) = k]
  BY <1>1, <1>2 DEF P50, Sorted
<1> QED
  BY <1>4, <1>5

\* More than half of the times are within the P50, and at least half of them
\* are as long.
LEMMA P50Halves ==
  ASSUME NEW s \in Seq(Durations), s # <<>>
  PROVE  /\ P50(s) \in Durations
         /\ 2 * Cardinality(Within(s, P50(s))) > Len(s)
         /\ 2 * Cardinality(AtLeast(s, P50(s))) >= Len(s)
<1> DEFINE D == DOMAIN s
           R == TimeOrder(s)
<1>1. s \in Seq(Int) /\ Len(s) \in Nat
  <2>1. Durations \subseteq Int
    BY StartUpAssumption
  <2> QED
    BY <2>1, LenProperties, SeqMonotonic
<1>2. PICK i \in D : P50(s) = s[i] /\ Position(s, i) = Len(s) \div 2 + 1
  BY <1>1, P50Position
<1>3. P50(s) \in Durations
  BY <1>2, ElementOfSeq, LenProperties
<1> DEFINE U == UpTo(i, D, R)
           V == (D \ U) \cup {i}
<1>4. /\ IsFiniteSet(D) /\ Cardinality(D) = Len(s)
      /\ Cardinality(U) = Len(s) \div 2 + 1
      /\ \A j \in U : s[j] <= s[i]
      /\ \A j \in D \ U : s[j] >= s[i]
  BY <1>1, <1>2, TimeOrderOrders DEF Rank
<1>5. U \in SUBSET D /\ i \in U /\ s[i] \in Int
  BY <1>1, ElementOfSeq, LenProperties DEF UpTo
<1>6. ASSUME NEW W \in SUBSET D
      PROVE  IsFiniteSet(W) /\ Cardinality(W) \in Nat
  BY <1>4, FS_Subset, FS_CardinalityType
<1> HIDE DEF U
<1>7. 2 * Cardinality(Within(s, P50(s))) > Len(s)
  <2>1. Within(s, P50(s)) \in SUBSET D /\ U \in SUBSET Within(s, P50(s))
    BY <1>2, <1>4, <1>5 DEF Within
  <2>2. Cardinality(U) <= Cardinality(Within(s, P50(s)))
    BY <1>6, <2>1, FS_Subset
  <2>3. Cardinality(Within(s, P50(s))) \in Nat
    BY <1>6, <2>1
  <2> QED
    BY <1>1, <1>4, <2>2, <2>3
<1>8. 2 * Cardinality(AtLeast(s, P50(s))) >= Len(s)
  <2>1. AtLeast(s, P50(s)) \in SUBSET D /\ V \in SUBSET AtLeast(s, P50(s))
    BY <1>2, <1>4, <1>5 DEF AtLeast
  <2>2. Cardinality(V) <= Cardinality(AtLeast(s, P50(s)))
    BY <1>6, <2>1, FS_Subset
  <2>3. D \cap U = U
    BY <1>5
  <2>4. IsFiniteSet(D \ U) /\ Cardinality(D \ U) = Len(s) - Cardinality(U)
    <3> HIDE DEF D
    <3>1. /\ IsFiniteSet(D \ U)
          /\ Cardinality(D \ U) = Cardinality(D) - Cardinality(D \cap U)
      BY <1>4, FS_Difference
    <3> QED
      BY <1>4, <2>3, <3>1
  <2>5. Cardinality(V) = Cardinality(D \ U) + 1
    <3>1. i \notin D \ U
      BY <1>5
    <3>2. /\ IsFiniteSet(V)
          /\ Cardinality(V) =
                IF i \in D \ U THEN Cardinality(D \ U)
                ELSE Cardinality(D \ U) + 1
      BY <2>4, FS_AddElement
    <3> QED
      BY <3>1, <3>2
  <2>6. /\ Cardinality(AtLeast(s, P50(s))) \in Nat
        /\ Cardinality(U) \in Nat
    BY <1>5, <1>6, <2>1
  <2> QED
    BY <1>1, <1>4, <2>2, <2>4, <2>5, <2>6
<1> QED
  BY <1>3, <1>7, <1>8

-----------------------------------------------------------------------------
(* The sort of the backends.                                               *)

\* The order in which a stable sort puts the backends.
SpeedOrder ==
    {p \in Nat \X Nat :
        \/ Before(p[1], p[2])
        \/ ~ Before(p[2], p[1]) /\ p[1] < p[2]}

\* The head of the list exists and is unique.
LEMMA FastestExists ==
  ASSUME times \in Seq(Seq(Durations)), times # <<>>
  PROVE  \E i \in DOMAIN times : IsFastest(i)
<1> DEFINE n == Len(times)
           D == 1 .. n
           p(i) == P50(times[i])
<1>1. DOMAIN times = D /\ n \in Nat \ {0}
  BY LenProperties, EmptySeq
<1>2. IsFiniteSet(D) /\ 1 \in D
  BY <1>1, FS_Interval
<1>3. ASSUME NEW i \in D
      PROVE  times[i] # <<>> => p(i) \in Int
  <2>1. times[i] \in Seq(Durations)
    BY <1>3, ElementOfSeq
  <2>2. times[i] # <<>> => P50(times[i]) \in Durations
    BY <2>1, P50Halves
  <2>3. Durations \subseteq Int
    BY StartUpAssumption
  <2> QED
    BY <2>2, <2>3
<1>4. ASSUME NEW i \in D, NEW j \in D
      PROVE  Before(i, j) <=> \/ times[i] # <<>> /\ times[j] = <<>>
                              \/ /\ times[i] # <<>> /\ times[j] # <<>>
                                 /\ p(i) < p(j)
  BY DEF Before
<1>5. ASSUME NEW i \in D, NEW j \in D
      PROVE  <<i, j>> \in SpeedOrder <=>
                 (Before(i, j) \/ (~ Before(j, i) /\ i < j))
  <2>1. i \in Nat /\ j \in Nat
    BY <1>1
  <2> QED
    BY <2>1 DEF SpeedOrder
<1> HIDE DEF p
<1>6. Orders(SpeedOrder, D)
  <2>1. \A x \in D : <<x, x>> \notin SpeedOrder
    BY <1>1, <1>3, <1>4, <1>5
  <2>2. ASSUME NEW x \in D, NEW y \in D, NEW z \in D,
               <<x, y>> \in SpeedOrder, <<y, z>> \in SpeedOrder
        PROVE  <<x, z>> \in SpeedOrder
    <3>1. CASE times[x] = <<>>
      BY <1>1, <1>3, <1>4, <1>5, <2>2, <3>1
    <3>2. CASE times[x] # <<>> /\ times[y] = <<>>
      BY <1>1, <1>3, <1>4, <1>5, <2>2, <3>2
    <3>3. CASE times[x] # <<>> /\ times[y] # <<>>
      BY <1>1, <1>3, <1>4, <1>5, <2>2, <3>3
    <3> QED
      BY <3>1, <3>2, <3>3
  <2>3. ASSUME NEW x \in D, NEW y \in D, x # y
        PROVE  <<x, y>> \in SpeedOrder \/ <<y, x>> \in SpeedOrder
    <3>1. CASE x < y
      BY <1>1, <1>3, <1>4, <1>5, <3>1
    <3>2. CASE y < x
      BY <1>1, <1>3, <1>4, <1>5, <3>2
    <3> QED
      BY <1>1, <2>3, <3>1, <3>2
  <2> QED
    BY <2>1, <2>2, <2>3 DEF Orders
<1> HIDE DEF D
<1>7. PICK i \in D : \A j \in D : j = i \/ <<i, j>> \in SpeedOrder
  BY <1>2, <1>6, FirstExists
<1> USE DEF D
<1>8. ASSUME NEW j \in D
      PROVE  ~ Before(j, i)
  <2>1. CASE j = i
    BY <1>3, <1>4, <2>1
  <2>2. CASE <<i, j>> \in SpeedOrder
    BY <1>3, <1>4, <1>5, <2>2
  <2> QED
    BY <1>7, <2>1, <2>2
<1>9. \A j \in 1 .. i - 1 : Before(i, j)
  <2>1. ASSUME NEW j \in 1 .. i - 1
        PROVE  Before(i, j)
    <3>1. j \in D /\ j < i /\ j # i
      BY <1>1
    <3>2. <<i, j>> \in SpeedOrder
      BY <1>7, <3>1
    <3> QED
      BY <1>1, <1>5, <3>1, <3>2
  <2> QED
    BY <2>1
<1> QED
  BY <1>1, <1>8, <1>9 DEF IsFastest

-----------------------------------------------------------------------------
(* The invariant.                                                          *)

\* The part of the invariant that depends on the file alone.
FromFile ==
    /\ config \in Configs
    /\ RunsValid
    /\ NoneSkipped
    /\ PrimaryFromFile

LEMMA InitInductive == Init => Inductive
<1> SUFFICES ASSUME Init PROVE Inductive
  OBVIOUS
<1>1. config.backends \in Seq(Entries) /\ Len(config.backends) \in Nat
  BY BackendsAreSeq, LenProperties DEF Init
<1>2. made = <<>> /\ made \in Seq(Entries) /\ Len(made) = 0
  BY EmptySeq DEF Init
<1>3. times = <<>> /\ times \in Seq(Seq(Durations)) /\ Len(times) = 0
  BY EmptySeq DEF Init
<1>4. NoneSkipped
  BY <1>1, <1>2 DEF Init, NoneSkipped
<1>5. RunsValid /\ PrimaryFromFile
  BY DEF Init, RunsValid, PrimaryFromFile
<1>6. TypeOK
  BY <1>1, <1>2, <1>3, StartUpAssumption DEF Init, TypeOK, Steps
<1>7. PrimaryFromTimes
  BY <1>3 DEF Init, PrimaryFromTimes
<1> QED
  BY <1>4, <1>5, <1>6, <1>7 DEF Init, Inductive

\* Every step keeps the part about the file: Create appends the entry that is
\* next, Load lets only valid files pass, ByName looks the primary up in a list
\* that is the file's, and Restart remembers a primary that came from the file.
LEMMA StepFromFile ==
  ASSUME FromFile, [Next]_vars
  PROVE  FromFile'
<1> USE DEF FromFile, RunsValid, locals
<1>1. config.backends \in Seq(Entries) /\ Len(config.backends) \in Nat
  BY BackendsAreSeq, LenProperties
<1>2. CASE Load
  BY <1>2 DEF Load, NoneSkipped, PrimaryFromFile
<1>3. CASE LoadFails \/ BindFails
  BY <1>3 DEF LoadFails, BindFails, NoneSkipped, PrimaryFromFile
<1>4. CASE Create
  <2> DEFINE entry == config.backends[created + 1]
  <2>1. entry \in Entries /\ created + 1 \in 1 .. Len(config.backends)
    BY <1>1, <1>4, ElementOfSeq DEF Create, NoneSkipped
  <2>2. made' = Append(made, entry) /\ created' = created + 1
    BY <1>4 DEF Create, NewOutcomes
  <2>3. /\ made' \in Seq(Entries)
        /\ Len(made') = created + 1
        /\ \A i \in 1 .. created : made'[i] = made[i]
        /\ made'[created + 1] = entry
    BY <2>1, <2>2, AppendProperties DEF NoneSkipped
  <2>4. NoneSkipped'
    BY <1>4, <2>1, <2>2, <2>3 DEF NoneSkipped, Create
  <2> QED
    BY <1>4, <2>4 DEF Create, PrimaryFromFile
<1>5. CASE NoBackends
  BY <1>5 DEF NoBackends, NoneSkipped, PrimaryFromFile
<1>6. CASE SingleBackend
  BY <1>6 DEF SingleBackend, AllCreated, NoneSkipped, PrimaryFromFile
<1>7. CASE ByName
  <2>1. made = config.backends
    BY <1>7, SameList DEF ByName, AllCreated
  <2>2. NoneSkipped'
    BY <1>7 DEF ByName, AllCreated, NoneSkipped
  <2>3. PrimaryFromFile'
    BY <1>7, <2>1 DEF ByName, PrimaryFromFile
  <2> QED
    BY <1>7, <2>2, <2>3 DEF ByName, AllCreated
<1>8. CASE ByLatency
  BY <1>8 DEF ByLatency, AllCreated, NoneSkipped, PrimaryFromFile
<1>9. CASE HeadBucket \/ NextBackend \/ ChooseFastest
  BY <1>9 DEF HeadBucket, NextBackend, ChooseFastest, NoneSkipped,
              PrimaryFromFile
<1>10. CASE Bind
  BY <1>10 DEF Bind, NoneSkipped, PrimaryFromFile
<1>11. CASE Restart
  <2>1. NoneSkipped'
    BY <1>1, <1>11, EmptySeq DEF Restart, NoneSkipped
  <2>2. PrimaryFromFile'
    BY <1>1, <1>11 DEF Restart, NoneSkipped, PrimaryFromFile
  <2> QED
    BY <1>11, <2>1, <2>2 DEF Restart
<1>12. CASE UNCHANGED vars
  BY <1>12 DEF vars, NoneSkipped, PrimaryFromFile
<1> QED
  BY <1>2, <1>3, <1>4, <1>5, <1>6, <1>7, <1>8, <1>9, <1>10, <1>11, <1>12
     DEF Next

\* Every step keeps the types and the part about the times: the benchmark is
\* over only when it has times for every backend, and what it chooses exists.
LEMMA StepFromTimes ==
  ASSUME Inductive, [Next]_vars
  PROVE  TypeOK' /\ PrimaryFromTimes'
<1> USE DEF locals, Steps
<1>1. /\ config.backends \in Seq(Entries) /\ Len(config.backends) \in Nat
      /\ made \in Seq(Entries) /\ Len(made) \in Nat
      /\ DOMAIN made = 1 .. Len(made)
      /\ times \in Seq(Seq(Durations)) /\ Len(times) \in Nat
      /\ DOMAIN times = 1 .. Len(times)
      /\ \A i \in 1 .. Len(times) :
            times[i] \in Seq(Durations) /\ Len(times[i]) \in Nat
  <2>1. config \in Configs /\ made \in Seq(Entries)
    BY DEF Inductive, NoneSkipped
  <2>2. times \in Seq(Seq(Durations))
    BY DEF Inductive, PrimaryFromTimes
  <2>3. \A i \in 1 .. Len(times) : times[i] \in Seq(Durations)
    BY <2>2, ElementOfSeq
  <2>4. ASSUME NEW i \in 1 .. Len(times)
        PROVE  Len(times[i]) \in Nat
    BY <2>3, LenProperties
  <2> QED
    BY <2>1, <2>2, <2>3, <2>4, BackendsAreSeq, LenProperties
<1>2. TypeOK /\ PrimaryFromTimes /\ NoneSkipped
  BY DEF Inductive
<1>3. CASE Load \/ LoadFails \/ NoBackends \/ SingleBackend \/ Bind
           \/ BindFails \/ UNCHANGED vars
  <2>1. UNCHANGED <<config, locals>>
    BY <1>3 DEF Load, LoadFails, NoBackends, SingleBackend, Bind, BindFails,
                vars
  <2>2. step' \in Steps
    BY <1>2, <1>3 DEF Load, LoadFails, NoBackends, SingleBackend, Bind,
                      BindFails, vars, TypeOK
  <2>3. IsFastest(primary + 1)' <=> IsFastest(primary + 1)
    BY <2>1 DEF IsFastest, Before
  <2>4. step' \in {"bind", "serving"} =>
            \/ step \in {"bind", "serving"}
            \/ Len(made) = 1
    BY <1>3 DEF Load, LoadFails, NoBackends, SingleBackend, Bind, BindFails,
                vars
  <2>5. TypeOK'
    <3>1. step' \in {"bind", "serving"} =>
              Len(made) > 0 /\ (Len(made) > 1 => primary # NoPrimary)
      <4>1. CASE step \in {"bind", "serving"}
        BY <1>2, <4>1 DEF TypeOK
      <4>2. CASE Len(made) = 1
        BY <4>2
      <4> QED
        BY <2>4, <4>1, <4>2
    <3> QED
      BY <1>2, <2>1, <2>2, <3>1 DEF TypeOK
  <2>6. PrimaryFromTimes'
    <3>1. step' = "bench" => step = "bench"
      BY <1>3 DEF Load, LoadFails, NoBackends, SingleBackend, Bind, BindFails,
                  vars
    <3>2. step' \in {"load", "create"} => step \in {"load", "create"}
      BY <1>3 DEF Load, LoadFails, NoBackends, SingleBackend, Bind, BindFails,
                  vars
    <3> QED
      <4>1. times' \in Seq(Seq(Durations))
        BY <1>1, <2>1
      <4>2. step' \in {"load", "create", "bench"} => primary' = NoPrimary
        BY <1>2, <2>1, <3>1, <3>2 DEF PrimaryFromTimes
      <4>3. step' = "bench" =>
                /\ config'.latency
                /\ Len(made') > 1
                /\ Len(times') > 0
                /\ Len(times'[Len(times')]) <= asked'
        BY <1>2, <2>1, <3>1 DEF PrimaryFromTimes
      <4>4. ASSUME step' \in {"bind", "serving"}, config.latency,
                   Len(made) > 1
            PROVE  Len(times) = Len(made) /\ IsFastest(primary + 1)'
        <5>1. step \in {"bind", "serving"}
          BY <1>1, <2>4, <4>4
        <5> QED
          BY <1>2, <2>3, <4>4, <5>1 DEF PrimaryFromTimes
      <4> QED
        BY <2>1, <4>1, <4>2, <4>3, <4>4 DEF PrimaryFromTimes
  <2> QED
    BY <2>5, <2>6
<1>4. CASE Create
  <2> DEFINE entry == config.backends[created + 1]
  <2>1. entry \in Entries /\ made' = Append(made, entry)
    <3>1. created + 1 \in 1 .. Len(config.backends)
      BY <1>2, <1>4 DEF Create, TypeOK
    <3>2. entry \in Entries
      BY <1>1, <3>1, ElementOfSeq
    <3> QED
      BY <1>4, <3>2 DEF Create, NewOutcomes
  <2> HIDE DEF entry
  <2>2. /\ Len(made') = Len(made) + 1
        /\ DOMAIN made' = 1 .. Len(made) + 1
        /\ \A i \in 1 .. Len(made) : made'[i] = made[i]
        /\ made'[Len(made) + 1] = entry
    <3>1. made' \in Seq(Entries)
      BY <1>1, <2>1, AppendProperties
    <3> QED
      BY <1>1, <2>1, <3>1, AppendProperties, LenProperties
  <2>3. \A i \in DOMAIN made' : made'[i] \in Entries
    BY <1>1, <1>2, <2>1, <2>2 DEF TypeOK
  <2>4. TypeOK'
    BY <1>1, <1>2, <1>4, <2>2, <2>3 DEF Create, TypeOK
  <2> QED
    BY <1>1, <1>2, <1>4, <2>4 DEF Create, PrimaryFromTimes
<1>5. CASE ByName
  <2>1. made = config.backends
    BY <1>2, <1>5, SameList DEF ByName, AllCreated, Inductive
  <2>2. IndexIn(made, config.primaryName) \in 0 .. Len(made) - 1
    <3>1. config \in Configs /\ Valid(config)
      BY <1>5 DEF ByName, AllCreated, Inductive, RunsValid
    <3>2. CASE config.primaryName = NoName
      BY <1>1, <1>5, <2>1, <3>1, <3>2, FirstByDefault DEF ByName
    <3>3. CASE config.primaryName # NoName
      BY <1>1, <2>1, <3>1, <3>3, PositionFound
    <3> QED
      BY <3>2, <3>3
  <2> QED
    <3>1. TypeOK'
      BY <1>1, <1>2, <1>5, <2>2 DEF ByName, AllCreated, TypeOK, NoPrimary
    <3>2. PrimaryFromTimes'
      BY <1>2, <1>5 DEF ByName, AllCreated, PrimaryFromTimes
    <3> QED
      BY <3>1, <3>2
<1>6. CASE ByLatency
  <2>1. /\ times' = << <<>> >> /\ times' \in Seq(Seq(Durations))
        /\ Len(times') = 1 /\ DOMAIN times' = 1 .. 1
        /\ times'[1] = <<>> /\ Len(times'[1]) = 0
    BY <1>6, EmptySeq DEF ByLatency
  <2> QED
    <3>1. TypeOK'
      BY <1>1, <1>2, <1>6, <2>1, StartUpAssumption
         DEF ByLatency, AllCreated, TypeOK
    <3>2. PrimaryFromTimes'
      BY <1>2, <1>6, <2>1
         DEF ByLatency, AllCreated, TypeOK, PrimaryFromTimes
    <3> QED
      BY <3>1, <3>2
<1>7. CASE HeadBucket
  <2> DEFINE n == Len(times)
  <2>1. /\ n \in 1 .. Len(times) /\ Len(times[n]) <= asked
        /\ asked' = asked + 1 /\ asked' \in 0 .. Requests
        /\ asked \in Nat
        /\ UNCHANGED <<config, step, created, made, primary>>
    BY <1>1, <1>2, <1>7, StartUpAssumption
       DEF HeadBucket, TypeOK, PrimaryFromTimes
  <2>2. CASE UNCHANGED times
    BY <1>1, <1>2, <1>7, <2>1, <2>2
       DEF HeadBucket, TypeOK, PrimaryFromTimes
  <2>3. ASSUME NEW d \in Durations,
               times' = [times EXCEPT ![n] = Append(@, d)]
        PROVE  TypeOK' /\ PrimaryFromTimes'
    <3>1. /\ Append(times[n], d) \in Seq(Durations)
          /\ Len(Append(times[n], d)) = Len(times[n]) + 1
      BY <1>1, <2>1, AppendProperties
    <3>2. times' = [times EXCEPT ![n] = Append(times[n], d)]
      BY <2>3
    <3>3. /\ times' \in Seq(Seq(Durations))
          /\ Len(times') = n
          /\ \A i \in 1 .. n :
                times'[i] = IF i = n THEN Append(times[n], d) ELSE times[i]
      BY <1>1, <2>1, <3>1, <3>2, ExceptSeq
    <3>4. DOMAIN times' = 1 .. n
      BY <3>3, LenProperties
    <3>5. /\ Len(times'[n]) <= asked'
          /\ \A i \in 1 .. n : Len(times'[i]) <= Requests
      <4>1. Len(times'[n]) = Len(times[n]) + 1
        BY <2>1, <3>1, <3>3
      <4>2. Len(times'[n]) <= asked'
        BY <1>1, <2>1, <4>1
      <4>3. ASSUME NEW i \in 1 .. n
            PROVE  Len(times'[i]) <= Requests
        <5>1. CASE i = n
          BY <1>1, <2>1, <4>1, <5>1, StartUpAssumption
        <5>2. CASE i # n
          BY <1>1, <1>2, <3>3, <5>2 DEF TypeOK
        <5> QED
          BY <5>1, <5>2
      <4> QED
        BY <4>2, <4>3
    <3> QED
      BY <1>1, <1>2, <1>7, <2>1, <3>3, <3>4, <3>5
         DEF HeadBucket, TypeOK, PrimaryFromTimes
  <2> QED
    BY <1>7, <2>2, <2>3 DEF HeadBucket
<1>8. CASE NextBackend
  <2>1. <<>> \in Seq(Durations) /\ Len(<<>>) = 0
    BY EmptySeq
  <2>2. /\ times' \in Seq(Seq(Durations))
        /\ Len(times') = Len(times) + 1
        /\ \A i \in 1 .. Len(times) : times'[i] = times[i]
        /\ times'[Len(times) + 1] = <<>>
    BY <1>1, <1>8, <2>1, AppendProperties DEF NextBackend
  <2>3. DOMAIN times' = 1 .. Len(times) + 1
    BY <2>2, LenProperties
  <2>4. \A i \in DOMAIN times' : Len(times'[i]) <= Requests
    <3>1. ASSUME NEW i \in DOMAIN times'
          PROVE  Len(times'[i]) <= Requests
      <4>1. CASE i = Len(times) + 1
        BY <2>1, <2>2, <4>1, StartUpAssumption
      <4>2. CASE i # Len(times) + 1
        <5>1. i \in 1 .. Len(times)
          BY <1>1, <2>3, <4>2
        <5> QED
          BY <1>1, <1>2, <2>2, <5>1 DEF TypeOK
      <4> QED
        BY <4>1, <4>2
    <3> QED
      BY <3>1
  <2> QED
    BY <1>1, <1>2, <1>8, <2>1, <2>2, <2>4, StartUpAssumption
       DEF NextBackend, TypeOK, PrimaryFromTimes
<1>9. CASE ChooseFastest
  <2> DEFINE i == CHOOSE i \in DOMAIN times : IsFastest(i)
  <2>1. times # <<>>
    BY <1>2, <1>9, EmptySeq DEF ChooseFastest, PrimaryFromTimes
  <2>2. i \in DOMAIN times /\ IsFastest(i)
    BY <1>1, <2>1, FastestExists
  <2>3. primary' = i - 1
    BY <1>9 DEF ChooseFastest
  <2> HIDE DEF i
  <2>4. primary' + 1 = i
    BY <1>1, <2>2, <2>3
  <2>5. IsFastest(primary + 1)'
    BY <1>9, <2>2, <2>4 DEF ChooseFastest, IsFastest, Before
  <2> QED
    BY <1>1, <1>2, <1>9, <2>2, <2>3, <2>5
       DEF ChooseFastest, TypeOK, PrimaryFromTimes, NoPrimary
<1>10. CASE Restart
  <2>1. made' = <<>> /\ Len(made') = 0 /\ DOMAIN made' = {}
    BY <1>10 DEF Restart
  <2>2. /\ times' = <<>> /\ Len(times') = 0 /\ DOMAIN times' = {}
        /\ times' \in Seq(Seq(Durations))
    BY <1>10, EmptySeq DEF Restart
  <2> QED
    <3>1. TypeOK'
      BY <1>1, <1>2, <1>10, <2>1, <2>2, StartUpAssumption DEF Restart, TypeOK
    <3>2. PrimaryFromTimes'
      BY <1>10, <2>2 DEF Restart, PrimaryFromTimes
    <3> QED
      BY <3>1, <3>2
<1> QED
  BY <1>3, <1>4, <1>5, <1>6, <1>7, <1>8, <1>9, <1>10 DEF Next

LEMMA StepInductive == Inductive /\ [Next]_vars => Inductive'
<1> SUFFICES ASSUME Inductive, [Next]_vars PROVE Inductive'
  OBVIOUS
<1>1. FromFile'
  BY StepFromFile DEF Inductive, FromFile
<1>2. TypeOK' /\ PrimaryFromTimes'
  BY StepFromTimes
<1> QED
  BY <1>1, <1>2 DEF Inductive, FromFile

\* The inductive invariant holds in every run over every file: no entry is
\* skipped, only a validated file is served, and a primary that is not chosen
\* by latency is a function of the file (main.rs:94-172).
THEOREM InductiveInvariant == Spec => []Inductive
BY InitInductive, StepInductive, PTL DEF Spec

\* The process serves every backend of the file at its place, with the named
\* backend, or else the first one, as the primary (main.rs:94-172).
THEOREM ServedAsConfigured == Spec => []ServesAsConfigured
<1>1. Inductive => ServesAsConfigured
  <2> SUFFICES ASSUME Inductive, step = "serving" PROVE
        /\ made = config.backends
        /\ Len(made) > 1 /\ ~ config.latency =>
              made[primary + 1].name =
                  IF config.primaryName = NoName
                  THEN config.backends[1].name
                  ELSE config.primaryName
    BY DEF ServesAsConfigured
  <2>1. made = config.backends
    BY SameList DEF Inductive, NoneSkipped
  <2>2. ASSUME Len(made) > 1, ~ config.latency
        PROVE  primary = IndexIn(config.backends, config.primaryName)
    BY <2>2 DEF Inductive, PrimaryFromFile
  <2>3. Valid(config) /\ config \in Configs
    BY DEF Inductive, RunsValid
  <2>4. CASE config.primaryName = NoName
    BY <2>1, <2>2, <2>3, <2>4, FirstByDefault
  <2>5. CASE config.primaryName # NoName
    <3>1. PICK i \in 1 .. Len(config.backends) :
              /\ config.backends[i].name = config.primaryName
              /\ IndexIn(config.backends, config.primaryName) = i - 1
      BY <2>3, <2>5, PositionFound
    <3>2. ASSUME Len(made) > 1, ~ config.latency
          PROVE  primary + 1 = i
      BY <2>2, <3>1, <3>2
    <3> QED
      BY <2>1, <2>5, <3>1, <3>2
  <2> QED
    BY <2>1, <2>4, <2>5
<1> QED
  BY <1>1, InductiveInvariant, PTL

\* Every run of the process over one file has the same primary, unless the
\* primary is chosen by latency (main.rs:143-163).
THEOREM RestartsKeepPrimary == Spec => []RestartKeepsPrimary
<1>1. Inductive => RestartKeepsPrimary
  BY DEF Inductive, NoneSkipped, PrimaryFromFile, RestartKeepsPrimary
<1> QED
  BY <1>1, InductiveInvariant, PTL

\* Types, and the primary's index is that of a backend where the replication
\* modes use it (main.rs:121-172).
THEOREM TypeCorrect == Spec => []TypeOK
<1>1. Inductive => TypeOK
  BY DEF Inductive
<1> QED
  BY <1>1, InductiveInvariant, PTL

\* What is known of the chosen primary when the process serves.
LEMMA ServesFastest ==
  ASSUME Inductive, ChosenByLatency
  PROVE  /\ primary + 1 \in DOMAIN times
         /\ IsFastest(primary + 1)
         /\ times \in Seq(Seq(Durations))
<1>1. made \in Seq(Entries) /\ times \in Seq(Seq(Durations))
  BY DEF Inductive, NoneSkipped, PrimaryFromTimes
<1>2. /\ Len(made) \in Nat /\ DOMAIN times = 1 .. Len(times)
      /\ Len(times) = Len(made) /\ IsFastest(primary + 1)
  BY <1>1, LenProperties DEF Inductive, PrimaryFromTimes, ChosenByLatency
<1>3. primary \in 0 .. Len(made) - 1
  BY DEF Inductive, TypeOK, ChosenByLatency
<1> QED
  BY <1>1, <1>2, <1>3

\* A backend that failed every request of the benchmark becomes the primary
\* only if all of them did (mod.rs:170-190).
THEOREM LatencyPrimaryAnswered == Spec => []LatencyPrimaryAnswers
<1>1. Inductive => LatencyPrimaryAnswers
  BY ServesFastest DEF LatencyPrimaryAnswers, IsFastest, Before
<1> QED
  BY <1>1, InductiveInvariant, PTL

\* The primary chosen by latency is the fastest by majorities: some duration
\* bounds more than half of its answers from above and at least half of any
\* other backend's from below (mod.rs:141-177).
THEOREM PrimaryIsFastest == Spec => []FastestByMajority
<1>1. ASSUME Inductive, ChosenByLatency, times[primary + 1] # <<>>
      PROVE  \E d \in Durations :
                /\ 2 * Cardinality(Within(times[primary + 1], d)) >
                       Len(times[primary + 1])
                /\ \A i \in DOMAIN times :
                      2 * Cardinality(AtLeast(times[i], d)) >= Len(times[i])
  <2> DEFINE p == primary + 1
             d == P50(times[p])
  <2>1. p \in DOMAIN times /\ IsFastest(p) /\ times \in Seq(Seq(Durations))
    BY <1>1, ServesFastest
  <2>2. \A i \in DOMAIN times : times[i] \in Seq(Durations)
    BY <2>1, ElementOfSeq, LenProperties
  <2>3. /\ d \in Durations
        /\ 2 * Cardinality(Within(times[p], d)) > Len(times[p])
    BY <1>1, <2>1, <2>2, P50Halves
  <2>4. ASSUME NEW i \in DOMAIN times
        PROVE  2 * Cardinality(AtLeast(times[i], d)) >= Len(times[i])
    <3>1. CASE times[i] = <<>>
      <4> HIDE DEF d
      <4>1. AtLeast(times[i], d) = {} /\ Len(times[i]) = 0
        BY <3>1 DEF AtLeast
      <4>2. Cardinality({}) = 0
        BY FS_EmptySet
      <4>3. 2 * Cardinality(AtLeast(times[i], d)) = 0
        BY <4>1, <4>2
      <4> QED
        BY <4>1, <4>3
    <3>2. CASE times[i] # <<>>
      <4>1. /\ P50(times[i]) \in Durations
            /\ 2 * Cardinality(AtLeast(times[i], P50(times[i])))
                   >= Len(times[i])
        BY <2>2, <3>2, P50Halves
      <4>2. ~ (P50(times[i]) < d)
        BY <1>1, <2>1, <3>2 DEF IsFastest, Before
      <4>3. d \in Int /\ P50(times[i]) \in Int
        <5>1. Durations \subseteq Int
          BY StartUpAssumption
        <5> QED
          BY <2>3, <4>1, <5>1
      <4>4. /\ DOMAIN times[i] = 1 .. Len(times[i]) /\ Len(times[i]) \in Nat
            /\ \A j \in DOMAIN times[i] : times[i][j] \in Int
        <5>1. Durations \subseteq Int
          BY StartUpAssumption
        <5> QED
          BY <2>2, <5>1, LenProperties, ElementOfSeq
      <4> HIDE DEF d
      <4>5. AtLeast(times[i], P50(times[i])) \in
                SUBSET AtLeast(times[i], d)
        BY <4>2, <4>3, <4>4 DEF AtLeast
      <4>6. AtLeast(times[i], d) \in SUBSET (1 .. Len(times[i]))
        BY <4>4 DEF AtLeast
      <4>7. IsFiniteSet(AtLeast(times[i], d))
        <5>1. IsFiniteSet(1 .. Len(times[i]))
          BY <4>4, FS_Interval
        <5> QED
          BY <4>6, <5>1, FS_Subset
      <4>8. /\ Cardinality(AtLeast(times[i], P50(times[i])))
                   <= Cardinality(AtLeast(times[i], d))
            /\ IsFiniteSet(AtLeast(times[i], P50(times[i])))
        BY <4>5, <4>7, FS_Subset
      <4>9. /\ Cardinality(AtLeast(times[i], P50(times[i]))) \in Nat
            /\ Cardinality(AtLeast(times[i], d)) \in Nat
        BY <4>7, <4>8, FS_CardinalityType
      <4> QED
        BY <4>1, <4>4, <4>8, <4>9
    <3> QED
      BY <3>1, <3>2
  <2> QED
    BY <2>3, <2>4
<1>2. Inductive => FastestByMajority
  BY <1>1 DEF FastestByMajority
<1> QED
  BY <1>2, InductiveInvariant, PTL

=============================================================================
