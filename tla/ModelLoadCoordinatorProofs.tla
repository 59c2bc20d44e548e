--------------------- MODULE ModelLoadCoordinatorProofs ---------------------
(***************************************************************************)
(* Proofs about the coordinator, for any finite set of runtimes and any    *)
(* memory sizes.  What has to be shown is that the integer counters, which *)
(* are all the waits look at, count the reservations and reclaims alive:   *)
(* the exclusion of loads and reclaims is an invariant only with that, and *)
(* that the memory promised is the sum of the reservations alive: a grant  *)
(* leaves the headroom free only with that.                                *)
(***************************************************************************)
EXTENDS ModelLoadCoordinator, FiniteSetTheorems, WellFoundedInduction, TLAPS

\* The inductive invariant.
Inv == TypeOK /\ CountsMatchOwners /\ LoadReclaimExclusion

\* What a reservation takes, as a function to be summed.
Required == [r \in Runtime |-> RequiredMemory(r)]

\* The memory promised is that of the reservations alive: a grant weighs the
\* device against a sum it cannot see the parts of.
ReservedMatchesOwners ==
    reserved_load_memory_mb = SumFunctionOnSet(Required, Holders)

-----------------------------------------------------------------------------
\* The thread sets are finite, so their cardinalities are natural numbers.
LEMMA OwnersFinite ==
    /\ IsFiniteSet(Holders) /\ Cardinality(Holders) \in Nat
    /\ IsFiniteSet(Reclaimers) /\ Cardinality(Reclaimers) \in Nat
<1>1. Holders \subseteq Runtime /\ Reclaimers \subseteq Runtime
  BY DEF Holders, Reclaimers
<1>2. IsFiniteSet(Holders) /\ IsFiniteSet(Reclaimers)
  BY <1>1, FS_Subset, ConstantsAssumption
<1>3. QED
  BY <1>2, FS_CardinalityType

\* The memory a reservation stands for is a positive number of megabytes.
LEMMA RequiredMemoryType ==
    ASSUME NEW r \in Runtime
    PROVE  RequiredMemory(r) \in Nat
BY ConstantsAssumption DEF RequiredMemory, AtLeast

\* A thread that joins, leaves or stays out of a finite set of threads changes its
\* size by one or not at all.
LEMMA CountOfChange ==
    ASSUME NEW S, IsFiniteSet(S), NEW x
    PROVE  /\ x \notin S => Cardinality(S \cup {x}) = Cardinality(S) + 1
           /\ x \in S => Cardinality(S \ {x}) = Cardinality(S) - 1
                          /\ Cardinality(S) > 0
<1>1. x \notin S => Cardinality(S \cup {x}) = Cardinality(S) + 1
  BY FS_AddElement
<1>2. ASSUME x \in S
      PROVE  Cardinality(S \ {x}) = Cardinality(S) - 1 /\ Cardinality(S) > 0
  <2>1. Cardinality(S \ {x}) = Cardinality(S) - 1
    BY <1>2, FS_RemoveElement
  <2>2. Cardinality(S) \in Nat /\ Cardinality(S) # 0
    BY <1>2, FS_CardinalityType, FS_EmptySet
  <2>3. QED
    BY <2>1, <2>2
<1>3. QED
  BY <1>1, <1>2

-----------------------------------------------------------------------------
\* The initial state is well typed.
LEMMA InitTypeOK == Init => TypeOK
<1> SUFFICES ASSUME Init PROVE TypeOK
  OBVIOUS
<1>1. pc \in [Runtime -> PC]
  BY DEF Init, PC
<1>2. occupied \in SUBSET Runtime /\ shutdown_requested \in BOOLEAN
  BY DEF Init
<1>3. QED
  BY <1>1, <1>2 DEF Init, TypeOK

\* Every step keeps the variables in their types.
LEMMA TypeStep == TypeOK /\ [Next]_vars => TypeOK'
<1> SUFFICES ASSUME TypeOK, [Next]_vars PROVE TypeOK'
  OBVIOUS
<1> USE DEF TypeOK, PC
<1>1. CASE Start
  BY <1>1 DEF Start
<1>2. CASE Shutdown
  BY <1>2 DEF Shutdown
<1>3. CASE ExternalMemory
  BY <1>3 DEF ExternalMemory
<1>4. ASSUME NEW r \in Runtime, Step(r) PROVE TypeOK'
  <2> USE RequiredMemoryType
  <2>1. CASE TryAcquire(r)
    BY <2>1 DEF TryAcquire, ReserveLoadLocked
  <2>2. CASE Acquire(r)
    BY <2>2 DEF Acquire
  <2>3. CASE AcquireGranted(r)
    BY <2>3 DEF AcquireGranted, ReserveLoadLocked
  <2>4. CASE AcquireThrows(r)
    BY <2>4 DEF AcquireThrows
  <2>5. CASE LoadModel(r)
    BY <2>5 DEF LoadModel
  <2>6. CASE ReleaseLoad(r)
    BY <2>6 DEF ReleaseLoad, ReturnReservation, AtLeast
  <2>7. CASE BeginReclaim(r)
    BY <2>7 DEF BeginReclaim
  <2>8. CASE BeginReclaimOfReservation(r)
    BY <2>8 DEF BeginReclaimOfReservation, ReturnReservation, AtLeast
  <2>9. CASE StartReclaim(r)
    BY <2>9 DEF StartReclaim
  <2>10. CASE Unload(r)
    BY <2>10 DEF Unload
  <2>11. CASE EndReclaim(r)
    BY <2>11 DEF EndReclaim, AtLeast
  <2>12. QED
    BY <1>4, <2>1, <2>2, <2>3, <2>4, <2>5, <2>6, <2>7, <2>8, <2>9, <2>10, <2>11
       DEF Step
<1>5. CASE UNCHANGED vars
  BY <1>5 DEF vars
<1>6. QED
  BY <1>1, <1>2, <1>3, <1>4, <1>5 DEF Next

\* The counters, the reservations and the guards stay within their types.
THEOREM TypeCorrect == Spec => []TypeOK
<1> QED
  BY InitTypeOK, TypeStep, PTL DEF Spec

-----------------------------------------------------------------------------
\* How each action changes the two sets of threads.
LEMMA OwnersStep ==
    ASSUME TypeOK, NEW r \in Runtime
    PROVE  /\ TryAcquire(r) \/ AcquireGranted(r) =>
                /\ r \notin Holders
                /\ Holders' = Holders \cup {r}
                /\ Reclaimers' = Reclaimers
           /\ ReleaseLoad(r) =>
                /\ r \in Holders
                /\ Holders' = Holders \ {r}
                /\ Reclaimers' = Reclaimers
           /\ BeginReclaim(r) =>
                /\ r \notin Reclaimers
                /\ Holders' = Holders
                /\ Reclaimers' = Reclaimers \cup {r}
           /\ BeginReclaimOfReservation(r) =>
                /\ r \in Holders /\ r \notin Reclaimers
                /\ Holders' = Holders \ {r}
                /\ Reclaimers' = Reclaimers \cup {r}
           /\ EndReclaim(r) =>
                /\ r \in Reclaimers
                /\ Holders' = Holders
                /\ Reclaimers' = Reclaimers \ {r}
           /\ Acquire(r) \/ AcquireThrows(r) \/ LoadModel(r) \/ StartReclaim(r)
                \/ Unload(r) =>
                /\ Holders' = Holders
                /\ Reclaimers' = Reclaimers
<1> USE DEF TypeOK, PC, Holders, Reclaimers
<1>1. TryAcquire(r) \/ AcquireGranted(r) =>
         r \notin Holders /\ Holders' = Holders \cup {r} /\ Reclaimers' = Reclaimers
  BY DEF TryAcquire, AcquireGranted, ReserveLoadLocked
<1>2. ReleaseLoad(r) =>
         r \in Holders /\ Holders' = Holders \ {r} /\ Reclaimers' = Reclaimers
  BY DEF ReleaseLoad
<1>3. BeginReclaim(r) =>
         /\ r \notin Reclaimers
         /\ Holders' = Holders
         /\ Reclaimers' = Reclaimers \cup {r}
  BY DEF BeginReclaim
<1>4. BeginReclaimOfReservation(r) =>
         /\ r \in Holders /\ r \notin Reclaimers
         /\ Holders' = Holders \ {r}
         /\ Reclaimers' = Reclaimers \cup {r}
  BY DEF BeginReclaimOfReservation
<1>5. EndReclaim(r) =>
         r \in Reclaimers /\ Holders' = Holders /\ Reclaimers' = Reclaimers \ {r}
  BY DEF EndReclaim
<1>6. Acquire(r) \/ AcquireThrows(r) \/ LoadModel(r) \/ StartReclaim(r) \/ Unload(r)
         => Holders' = Holders /\ Reclaimers' = Reclaimers
  BY DEF Acquire, AcquireThrows, LoadModel, StartReclaim, Unload
<1>7. QED
  BY <1>1, <1>2, <1>3, <1>4, <1>5, <1>6

\* Every step keeps the counters equal to the number of owners: the clamps at
\* zero never take effect.
LEMMA CountsStep == TypeOK /\ CountsMatchOwners /\ [Next]_vars => CountsMatchOwners'
<1> SUFFICES ASSUME TypeOK, CountsMatchOwners, [Next]_vars
             PROVE  CountsMatchOwners'
  OBVIOUS
<1> USE DEF CountsMatchOwners
<1>1. CASE Start \/ Shutdown \/ ExternalMemory \/ UNCHANGED vars
  BY <1>1 DEF Start, Shutdown, ExternalMemory, vars, Holders, Reclaimers
<1>2. ASSUME NEW r \in Runtime, Step(r) PROVE CountsMatchOwners'
  <2> USE OwnersStep, OwnersFinite
  <2>1. CASE TryAcquire(r) \/ AcquireGranted(r)
    <3>1. Cardinality(Holders') = Cardinality(Holders) + 1
      BY <2>1, CountOfChange
    <3>2. active_load_count' = active_load_count + 1 /\ UNCHANGED reclaim_count
      BY <2>1 DEF TryAcquire, AcquireGranted, ReserveLoadLocked
    <3>3. QED
      BY <2>1, <3>1, <3>2
  <2>2. CASE ReleaseLoad(r)
    <3>1. Cardinality(Holders') = Cardinality(Holders) - 1 /\ Cardinality(Holders) > 0
      BY <2>2, CountOfChange
    <3>2. active_load_count' = AtLeast(0, active_load_count - 1)
          /\ UNCHANGED reclaim_count
      BY <2>2 DEF ReleaseLoad, ReturnReservation
    <3>3. QED
      BY <2>2, <3>1, <3>2 DEF AtLeast
  <2>3. CASE BeginReclaim(r)
    <3>1. Cardinality(Reclaimers') = Cardinality(Reclaimers) + 1
      BY <2>3, CountOfChange
    <3>2. reclaim_count' = reclaim_count + 1 /\ UNCHANGED active_load_count
      BY <2>3 DEF BeginReclaim
    <3>3. QED
      BY <2>3, <3>1, <3>2
  <2>4. CASE BeginReclaimOfReservation(r)
    <3>1. Cardinality(Holders') = Cardinality(Holders) - 1 /\ Cardinality(Holders) > 0
      BY <2>4, CountOfChange
    <3>2. Cardinality(Reclaimers') = Cardinality(Reclaimers) + 1
      BY <2>4, CountOfChange
    <3>3. active_load_count' = AtLeast(0, active_load_count - 1)
          /\ reclaim_count' = reclaim_count + 1
      BY <2>4 DEF BeginReclaimOfReservation, ReturnReservation
    <3>4. QED
      BY <2>4, <3>1, <3>2, <3>3 DEF AtLeast
  <2>5. CASE EndReclaim(r)
    <3>1. Cardinality(Reclaimers') = Cardinality(Reclaimers) - 1
          /\ Cardinality(Reclaimers) > 0
      BY <2>5, CountOfChange
    <3>2. reclaim_count' = AtLeast(0, reclaim_count - 1) /\ UNCHANGED active_load_count
      BY <2>5 DEF EndReclaim
    <3>3. QED
      BY <2>5, <3>1, <3>2 DEF AtLeast
  <2>6. CASE Acquire(r) \/ AcquireThrows(r) \/ LoadModel(r) \/ StartReclaim(r)
               \/ Unload(r)
    <3>1. UNCHANGED <<active_load_count, reclaim_count>>
      BY <2>6 DEF Acquire, AcquireThrows, LoadModel, StartReclaim, Unload
    <3>2. QED
      BY <2>6, <3>1
  <2>7. QED
    BY <1>2, <2>1, <2>2, <2>3, <2>4, <2>5, <2>6 DEF Step
<1>3. QED
  BY <1>1, <1>2 DEF Next

\* Every step keeps loads and reclaims apart.  The counters carry the argument: a
\* reservation is granted only when reclaim_count says that nobody reclaims, and a
\* reclaim starts only when active_load_count says that nobody loads.
LEMMA ExclusionStep == Inv /\ [Next]_vars => LoadReclaimExclusion'
<1> SUFFICES ASSUME Inv, [Next]_vars
             PROVE  LoadReclaimExclusion'
  OBVIOUS
<1> USE DEF Inv, LoadReclaimExclusion
<1>1. CASE Start \/ Shutdown \/ ExternalMemory \/ UNCHANGED vars
  BY <1>1 DEF Start, Shutdown, ExternalMemory, vars, Holders
<1>2. ASSUME NEW r \in Runtime, Step(r) PROVE LoadReclaimExclusion'
  <2> USE OwnersFinite, FS_EmptySet DEF TypeOK, PC
  <2>1. CASE TryAcquire(r) \/ AcquireGranted(r)
    <3>1. Reclaimers = {}
      BY <2>1 DEF TryAcquire, AcquireGranted, CanReserve, CountsMatchOwners
    <3>2. pc' = [pc EXCEPT ![r] = "reserved"]
      BY <2>1 DEF TryAcquire, AcquireGranted, ReserveLoadLocked
    <3>3. QED
      BY <3>1, <3>2 DEF Reclaimers
  <2>2. CASE StartReclaim(r)
    <3>1. Holders = {}
      BY <2>2 DEF StartReclaim, CountsMatchOwners
    <3>2. Holders' = {}
      BY <2>2, <3>1, OwnersStep
    <3>3. QED
      BY <3>2
  <2>3. CASE ReleaseLoad(r) \/ BeginReclaimOfReservation(r)
    <3>1. Holders' = Holders \ {r}
      BY <2>3, OwnersStep
    <3>2. \E v \in PC \ {"reclaiming"} : pc' = [pc EXCEPT ![r] = v]
      BY <2>3 DEF ReleaseLoad, BeginReclaimOfReservation
    <3>3. QED
      BY <3>1, <3>2
  <2>4. CASE Acquire(r) \/ AcquireThrows(r) \/ LoadModel(r) \/ BeginReclaim(r)
               \/ Unload(r) \/ EndReclaim(r)
    <3>1. Holders' = Holders
      BY <2>4, OwnersStep
    <3>2. \/ UNCHANGED pc
          \/ \E v \in PC \ {"reclaiming"} : pc' = [pc EXCEPT ![r] = v]
      BY <2>4 DEF Acquire, AcquireThrows, LoadModel, BeginReclaim, Unload, EndReclaim
    <3>3. QED
      BY <3>1, <3>2
  <2>5. QED
    BY <1>2, <2>1, <2>2, <2>3, <2>4 DEF Step
<1>3. QED
  BY <1>1, <1>2 DEF Next

\* Inv holds in every reachable state.
THEOREM Invariance == Spec => []Inv
<1>1. Init => Inv
  <2> USE DEF Init
  <2>1. Init => TypeOK
    BY InitTypeOK
  <2>2. Init => Holders = {} /\ Reclaimers = {}
    BY DEF Holders, Reclaimers
  <2>3. QED
    BY <2>1, <2>2, FS_EmptySet DEF Inv, CountsMatchOwners, LoadReclaimExclusion
<1>2. Inv /\ [Next]_vars => Inv'
  BY TypeStep, CountsStep, ExclusionStep DEF Inv
<1>3. QED
  BY <1>1, <1>2, PTL DEF Spec

\* No reservation or reclaim is ever lost or counted twice.
THEOREM CountsCorrect == Spec => []CountsMatchOwners
<1>1. Inv => CountsMatchOwners
  BY DEF Inv
<1>2. QED
  BY <1>1, Invariance, PTL

\* A model is never loading while another one is being unloaded.
THEOREM ExclusionCorrect == Spec => []LoadReclaimExclusion
<1>1. Inv => LoadReclaimExclusion
  BY DEF Inv
<1>2. QED
  BY <1>1, Invariance, PTL

\* No thread obtains a reservation while a reclaim is pending or under way.
THEOREM GrantsHeldBack == Spec => NoGrantDuringReclaim
<1>1. Inv /\ [Next]_vars => [Reclaimers # {} => Holders' \subseteq Holders]_vars
  <2> SUFFICES ASSUME Inv, Next, Reclaimers # {}
               PROVE  Holders' \subseteq Holders
    OBVIOUS
  <2>1. CASE Start \/ Shutdown \/ ExternalMemory
    BY <2>1 DEF Start, Shutdown, ExternalMemory, Holders
  <2>2. ASSUME NEW r \in Runtime, Step(r) PROVE Holders' \subseteq Holders
    <3>1. reclaim_count # 0
      BY OwnersFinite, FS_EmptySet DEF Inv, CountsMatchOwners
    <3>2. ~TryAcquire(r) /\ ~AcquireGranted(r)
      BY <3>1 DEF TryAcquire, AcquireGranted, CanReserve
    <3>3. QED
      BY <2>2, <3>2, OwnersStep DEF Inv, Step
  <2>3. QED
    BY <2>1, <2>2 DEF Next
<1>2. QED
  BY <1>1, Invariance, PTL DEF Spec, NoGrantDuringReclaim

-----------------------------------------------------------------------------
(* Sums over finite sets: what SumFunctionOnSet computes, whatever order it  *)
(* takes the elements in.  A set of natural numbers has a least element, and *)
(* with it a nonempty collection of finite sets a minimal one: every         *)
(* induction below is a minimal counterexample.                              *)

\* The element the fold takes next, and the recursion it stands for.
Pick(s) == CHOOSE x \in s : TRUE

Unfolds(g, f, D) ==
    g = [s \in D |-> IF s = {} THEN 0 ELSE f[Pick(s)] + g[s \ {Pick(s)}]]

-----------------------------------------------------------------------------
\* Every nonempty set of natural numbers has a least element.
LEMMA LeastNat ==
    ASSUME NEW T, T \subseteq Nat, T # {}
    PROVE  \E n \in T : \A m \in T : n <= m
<1> DEFINE Less == {p \in Nat \X Nat : p[1] < p[2]}
<1>1. IsWellFoundedOn(Less, Nat)
  BY NatLessThanWellFounded DEF OpToRel
<1> HIDE DEF Less
<1>2. PICK n \in T : \A m \in T : ~(<<m, n>> \in Less)
  BY <1>1, WFMin
<1>3. ASSUME NEW m \in T PROVE n <= m
  <2>1. m \in Nat /\ n \in Nat
    OBVIOUS
  <2>2. m < n => <<m, n>> \in Less
    BY <2>1 DEF Less
  <2>3. QED
    BY <1>2, <2>1, <2>2
<1>4. QED
  BY <1>3

\* A nonempty collection of subsets of a finite set has a minimal one.
LEMMA MinimalSet ==
    ASSUME NEW R, IsFiniteSet(R), NEW B, B \subseteq SUBSET R, B # {}
    PROVE  \E S \in B : \A T : T \subseteq S /\ T # S => T \notin B
<1> DEFINE Sizes == {Cardinality(S) : S \in B}
<1>1. \A S \in B : IsFiniteSet(S) /\ Cardinality(S) \in Nat
  BY FS_Subset, FS_CardinalityType
<1>2. Sizes \subseteq Nat /\ Sizes # {}
  BY <1>1
<1> HIDE DEF Sizes
<1>3. PICK n \in Sizes : \A m \in Sizes : n <= m
  BY <1>2, LeastNat
<1>4. PICK S \in B : Cardinality(S) = n
  BY <1>3 DEF Sizes
<1>5. ASSUME NEW T, T \subseteq S, T # S, T \in B PROVE FALSE
  <2>1. Cardinality(T) < Cardinality(S)
    BY <1>1, <1>5, FS_Subset
  <2>2. Cardinality(T) \in Sizes
    BY <1>5 DEF Sizes
  <2>3. QED
    BY <1>1, <1>2, <1>3, <1>4, <1>5, <2>1, <2>2
<1>6. QED
  BY <1>5

-----------------------------------------------------------------------------
LEMMA PickIn == ASSUME NEW s, s # {} PROVE Pick(s) \in s
BY DEF Pick

\* The fold is defined by the recursion.
LEMMA SumIsFold ==
    ASSUME NEW f, NEW S
    PROVE  SumFunctionOnSet(f, S) = (CHOOSE g : Unfolds(g, f, SUBSET S))[S]
BY DEF SumFunctionOnSet, FoldFunctionOnSet, MapThenFoldSet, Unfolds, Pick

\* On subsets of a finite set the recursion has a solution.
LEMMA UnfoldingExists ==
    ASSUME NEW f, NEW S, IsFiniteSet(S)
    PROVE  \E g : Unfolds(g, f, SUBSET S)
<1> DEFINE D(n) == {s \in SUBSET S : Cardinality(s) <= n}
           Bad  == {n \in Nat : ~\E g : Unfolds(g, f, D(n))}
<1>1. \A s \in SUBSET S : IsFiniteSet(s) /\ Cardinality(s) \in Nat
                            /\ Cardinality(s) <= Cardinality(S)
  BY FS_Subset, FS_CardinalityType
<1>2. ASSUME NEW n \in Nat, NEW g, Unfolds(g, f, D(n))
      PROVE  \E h : Unfolds(h, f, D(n + 1))
  <2> DEFINE h == [s \in D(n + 1) |->
                     IF s = {} THEN 0 ELSE f[Pick(s)] + g[s \ {Pick(s)}]]
  <2>1. D(n) \subseteq D(n + 1)
    BY <1>1
  <2>2. ASSUME NEW s \in D(n + 1), s # {}
        PROVE  s \ {Pick(s)} \in D(n)
    <3>1. Cardinality(s \ {Pick(s)}) = Cardinality(s) - 1
      BY <1>1, <2>2, PickIn, FS_RemoveElement
    <3>2. QED
      BY <1>1, <2>2, <3>1
  <2>3. \A s \in D(n) : h[s] = g[s]
    BY <1>2, <2>1 DEF Unfolds
  <2>4. Unfolds(h, f, D(n + 1))
    BY <2>2, <2>3 DEF Unfolds
  <2>5. QED
    BY <2>4
<1>3. \E g : Unfolds(g, f, D(0))
  <2> DEFINE g == [s \in D(0) |-> 0]
  <2>1. \A s \in D(0) : s = {}
    BY <1>1, FS_EmptySet
  <2>2. Unfolds(g, f, D(0))
    BY <2>1 DEF Unfolds
  <2>3. QED
    BY <2>2
<1> HIDE DEF D
<1>4. Bad = {}
  <2> SUFFICES ASSUME Bad # {} PROVE FALSE
    OBVIOUS
  <2>1. Bad \subseteq Nat
    OBVIOUS
  <2>2. PICK n \in Bad : \A m \in Bad : n <= m
    BY <2>1, LeastNat
  <2>3. n # 0
    BY <1>3
  <2>4. n - 1 \in Nat /\ n - 1 \notin Bad
    BY <2>2, <2>3
  <2>5. PICK g : Unfolds(g, f, D(n - 1))
    BY <2>4
  <2>6. \E h : Unfolds(h, f, D((n - 1) + 1))
    BY <1>2, <2>4, <2>5
  <2>7. (n - 1) + 1 = n
    BY <2>2
  <2>8. QED
    BY <2>2, <2>6, <2>7
<1>5. Cardinality(S) \in Nat /\ D(Cardinality(S)) = SUBSET S
  BY <1>1 DEF D
<1>6. QED
  BY <1>4, <1>5

-----------------------------------------------------------------------------
\* The sum over a set is the value there of any solution, on whatever larger set
\* it is one: two solutions agree where both are defined.
LEMMA SumOfPart ==
    ASSUME NEW f, NEW S, IsFiniteSet(S), NEW T, T \subseteq S,
           NEW g, Unfolds(g, f, SUBSET S)
    PROVE  SumFunctionOnSet(f, T) = g[T]
<1>1. ASSUME NEW h, Unfolds(h, f, SUBSET T) PROVE h[T] = g[T]
  <2> DEFINE Bad == {s \in SUBSET T : g[s] # h[s]}
  <2> SUFFICES ASSUME Bad # {} PROVE FALSE
    OBVIOUS
  <2>1. IsFiniteSet(T) /\ Bad \subseteq SUBSET T
    BY FS_Subset
  <2> HIDE DEF Bad
  <2>2. PICK s \in Bad : \A t : t \subseteq s /\ t # s => t \notin Bad
    BY <2>1, MinimalSet
  <2>3. s \in SUBSET T /\ s \in SUBSET S /\ g[s] # h[s]
    BY DEF Bad
  <2>4. s # {}
    BY <1>1, <2>3 DEF Unfolds
  <2>5. g[s] = f[Pick(s)] + g[s \ {Pick(s)}] /\ h[s] = f[Pick(s)] + h[s \ {Pick(s)}]
    BY <1>1, <2>3, <2>4 DEF Unfolds
  <2>6. s \ {Pick(s)} \notin Bad
    BY <2>2, <2>4, PickIn
  <2>7. g[s \ {Pick(s)}] = h[s \ {Pick(s)}]
    BY <2>3, <2>6 DEF Bad
  <2>8. QED
    BY <2>3, <2>5, <2>7
<1>2. \E h : Unfolds(h, f, SUBSET T)
  BY UnfoldingExists, FS_Subset
<1>3. Unfolds(CHOOSE h : Unfolds(h, f, SUBSET T), f, SUBSET T)
  BY <1>2
<1>4. QED
  BY <1>1, <1>3, SumIsFold

LEMMA SumEmpty ==
    ASSUME NEW f
    PROVE  SumFunctionOnSet(f, {}) = 0
<1>1. ASSUME NEW g, Unfolds(g, f, SUBSET {}) PROVE g[{}] = 0
  BY <1>1 DEF Unfolds
<1>2. \E g : Unfolds(g, f, SUBSET {})
  BY UnfoldingExists, FS_EmptySet
<1>3. Unfolds(CHOOSE g : Unfolds(g, f, SUBSET {}), f, SUBSET {})
  BY <1>2
<1>4. QED
  BY <1>1, <1>3, SumIsFold

\* One step of the fold.
LEMMA SumUnfolds ==
    ASSUME NEW f, NEW S, IsFiniteSet(S), S # {}
    PROVE  SumFunctionOnSet(f, S)
             = f[Pick(S)] + SumFunctionOnSet(f, S \ {Pick(S)})
<1>1. PICK g : Unfolds(g, f, SUBSET S)
  BY UnfoldingExists
<1>2. g[S] = f[Pick(S)] + g[S \ {Pick(S)}]
  BY <1>1 DEF Unfolds
<1>3. SumFunctionOnSet(f, S) = g[S]
  BY <1>1, SumOfPart
<1>4. SumFunctionOnSet(f, S \ {Pick(S)}) = g[S \ {Pick(S)}]
  BY <1>1, SumOfPart
<1>5. QED
  BY <1>2, <1>3, <1>4

\* A sum of natural numbers is one.
LEMMA SumType ==
    ASSUME NEW R, NEW f \in [R -> Nat], NEW S \in SUBSET R, IsFiniteSet(S)
    PROVE  SumFunctionOnSet(f, S) \in Nat
<1> DEFINE Bad == {s \in SUBSET S : SumFunctionOnSet(f, s) \notin Nat}
<1> SUFFICES ASSUME Bad # {} PROVE FALSE
  OBVIOUS
<1>1. Bad \subseteq SUBSET S
  OBVIOUS
<1> HIDE DEF Bad
<1>2. PICK s \in Bad : \A t : t \subseteq s /\ t # s => t \notin Bad
  BY <1>1, MinimalSet
<1>3. s \in SUBSET S /\ IsFiniteSet(s) /\ SumFunctionOnSet(f, s) \notin Nat
  BY <1>1, FS_Subset DEF Bad
<1>4. s # {}
  BY <1>3, SumEmpty
<1>5. Pick(s) \in s /\ f[Pick(s)] \in Nat
  BY <1>3, <1>4, PickIn
<1>6. SumFunctionOnSet(f, s \ {Pick(s)}) \in Nat
  BY <1>2, <1>3, <1>5 DEF Bad
<1>7. QED
  BY <1>3, <1>4, <1>5, <1>6, SumUnfolds

\* One more element adds its value, whichever element the fold takes first.
LEMMA SumAdd ==
    ASSUME NEW R, IsFiniteSet(R), NEW f \in [R -> Nat],
           NEW S \in SUBSET R, NEW x \in R \ S
    PROVE  SumFunctionOnSet(f, S \cup {x}) = SumFunctionOnSet(f, S) + f[x]
<1> DEFINE Adds(s, y) ==
             SumFunctionOnSet(f, s \cup {y}) = SumFunctionOnSet(f, s) + f[y]
           Bad == {s \in SUBSET R : ~\A y \in R \ s : Adds(s, y)}
<1> SUFFICES Bad = {}
  OBVIOUS
<1> SUFFICES ASSUME Bad # {} PROVE FALSE
  OBVIOUS
<1>1. Bad \subseteq SUBSET R
  OBVIOUS
<1>2. \A s \in SUBSET R : s \notin Bad => \A y \in R \ s : Adds(s, y)
  OBVIOUS
<1>3. \A s \in SUBSET R : IsFiniteSet(s) /\ SumFunctionOnSet(f, s) \in Nat
  BY SumType, FS_Subset
<1>4. \A s \in Bad : \E y \in R \ s : ~Adds(s, y)
  OBVIOUS
<1> HIDE DEF Bad
<1>5. PICK s \in Bad : \A t : t \subseteq s /\ t # s => t \notin Bad
  BY <1>1, MinimalSet
<1>6. PICK y \in R \ s : ~Adds(s, y)
  BY <1>4
<1> DEFINE z == Pick(s \cup {y})
<1>7. z \in s \cup {y} /\ f[z] \in Nat /\ f[y] \in Nat
  BY <1>1, <1>5, <1>6, PickIn
<1>8. SumFunctionOnSet(f, s \cup {y})
        = f[z] + SumFunctionOnSet(f, (s \cup {y}) \ {z})
  BY <1>3, <1>1, <1>5, <1>6, SumUnfolds
<1> HIDE DEF z
<1>9. CASE z = y
  <2>1. (s \cup {y}) \ {z} = s
    BY <1>6, <1>9
  <2>2. SumFunctionOnSet(f, s) \in Nat
    BY <1>3, <1>1, <1>5
  <2>3. SumFunctionOnSet(f, s \cup {y}) = f[y] + SumFunctionOnSet(f, s)
    BY <1>8, <1>9, <2>1
  <2>4. Adds(s, y)
    BY <1>7, <2>2, <2>3
  <2>5. QED
    BY <1>6, <2>4
<1>10. CASE z # y
  <2> DEFINE t == s \ {z}
  <2>1. /\ z \in s /\ t \subseteq s /\ t # s /\ t \in SUBSET R
        /\ y \in R \ t /\ z \in R \ t
        /\ (s \cup {y}) \ {z} = t \cup {y} /\ t \cup {z} = s
    BY <1>1, <1>5, <1>6, <1>7, <1>10
  <2> HIDE DEF t
  <2>2. Adds(t, y) /\ Adds(t, z)
    BY <1>2, <1>5, <2>1
  <2>3. SumFunctionOnSet(f, t) \in Nat /\ SumFunctionOnSet(f, s) \in Nat
    BY <1>3, <1>1, <1>5, <2>1
  <2>4. SumFunctionOnSet(f, s \cup {y}) = f[z] + (SumFunctionOnSet(f, t) + f[y])
    BY <1>8, <2>1, <2>2
  <2>5. SumFunctionOnSet(f, s) = SumFunctionOnSet(f, t) + f[z]
    BY <2>1, <2>2
  <2>6. Adds(s, y)
    BY <1>7, <2>3, <2>4, <2>5
  <2>7. QED
    BY <1>6, <2>6
<1>11. QED
  BY <1>9, <1>10

\* One element less takes its value away.
LEMMA SumRemove ==
    ASSUME NEW R, IsFiniteSet(R), NEW f \in [R -> Nat],
           NEW S \in SUBSET R, NEW x \in S
    PROVE  SumFunctionOnSet(f, S) = SumFunctionOnSet(f, S \ {x}) + f[x]
<1>1. S \ {x} \in SUBSET R /\ x \in R \ (S \ {x}) /\ (S \ {x}) \cup {x} = S
  OBVIOUS
<1>2. QED
  BY <1>1, SumAdd

\* The sum over a union is at most the sum of the sums, also when the second set
\* is counted by a larger function.
LEMMA SumUnionBound ==
    ASSUME NEW R, IsFiniteSet(R), NEW f \in [R -> Nat], NEW g \in [R -> Nat],
           \A r \in R : f[r] <= g[r],
           NEW S \in SUBSET R, NEW T \in SUBSET R
    PROVE  SumFunctionOnSet(f, S \cup T)
             <= SumFunctionOnSet(f, S) + SumFunctionOnSet(g, T)
<1> DEFINE Bounded(t) == SumFunctionOnSet(f, S \cup t)
                           <= SumFunctionOnSet(f, S) + SumFunctionOnSet(g, t)
           Bad == {t \in SUBSET R : ~Bounded(t)}
<1> SUFFICES ASSUME Bad # {} PROVE FALSE
  OBVIOUS
<1>1. Bad \subseteq SUBSET R
  OBVIOUS
<1>2. \A s \in SUBSET R : SumFunctionOnSet(f, s) \in Nat /\ SumFunctionOnSet(g, s) \in Nat
  BY SumType, FS_Subset
<1> HIDE DEF Bad
<1>3. PICK t \in Bad : \A u : u \subseteq t /\ u # t => u \notin Bad
  BY <1>1, MinimalSet
<1>4. t \in SUBSET R /\ ~Bounded(t)
  BY DEF Bad
<1>5. t # {}
  <2>1. S \cup {} = S
    OBVIOUS
  <2>2. Bounded({})
    BY <1>2, <2>1, SumEmpty
  <2>3. QED
    BY <1>4, <2>2
<1>6. PICK x \in t : TRUE
  BY <1>5
<1> DEFINE u == t \ {x}
<1>7. /\ u \subseteq t /\ u # t /\ u \in SUBSET R /\ S \cup u \in SUBSET R
      /\ x \in R \ u /\ u \cup {x} = t /\ S \cup t = (S \cup u) \cup {x}
  BY <1>4, <1>6
<1> HIDE DEF u
<1>8. Bounded(u)
  BY <1>3, <1>7 DEF Bad
<1>9. SumFunctionOnSet(g, t) = SumFunctionOnSet(g, u) + g[x]
  <2>1. SumFunctionOnSet(g, u \cup {x}) = SumFunctionOnSet(g, u) + g[x]
    BY <1>7, SumAdd
  <2>2. QED
    BY <1>7, <2>1
<1>10. SumFunctionOnSet(f, S \cup t) <= SumFunctionOnSet(f, S \cup u) + f[x]
  <2>1. CASE x \in S \cup u
    <3>1. S \cup t = S \cup u
      BY <1>7, <2>1
    <3>2. SumFunctionOnSet(f, S \cup u) \in Nat
      BY <1>2, <1>7
    <3>3. f[x] \in Nat
      BY <1>7
    <3>4. QED
      BY <3>1, <3>2, <3>3
  <2>2. CASE x \notin S \cup u
    <3>1. SumFunctionOnSet(f, S \cup t) = SumFunctionOnSet(f, S \cup u) + f[x]
      BY <1>7, <2>2, SumAdd
    <3>2. QED
      BY <1>2, <1>7, <3>1
  <2>3. QED
    BY <2>1, <2>2
<1>11. f[x] \in Nat /\ g[x] \in Nat /\ f[x] <= g[x]
  BY <1>7
<1>12. /\ SumFunctionOnSet(f, S) \in Nat /\ SumFunctionOnSet(f, S \cup u) \in Nat
       /\ SumFunctionOnSet(f, S \cup t) \in Nat
       /\ SumFunctionOnSet(g, u) \in Nat /\ SumFunctionOnSet(g, t) \in Nat
  BY <1>2, <1>4, <1>7
<1>13. QED
  BY <1>4, <1>8, <1>9, <1>10, <1>11, <1>12
-----------------------------------------------------------------------------
\* What the proofs of the memory promise need of the sizes.
LEMMA Sizes ==
    /\ IsFiniteSet(Runtime)
    /\ Memory \in [Runtime -> Nat]
    /\ Required \in [Runtime -> Nat]
    /\ \A r \in Runtime : Memory[r] <= Required[r] /\ Required[r] = RequiredMemory(r)
    /\ Headroom \in Nat /\ TotalMemory \in Nat /\ MaxExternal \in Nat
BY ConstantsAssumption, RequiredMemoryType DEF Required, RequiredMemory, AtLeast

LEMMA SumsType ==
    ASSUME NEW S \in SUBSET Runtime
    PROVE  ModelMemory(S) \in Nat /\ SumFunctionOnSet(Required, S) \in Nat
BY Sizes, SumType, FS_Subset DEF ModelMemory

LEMMA HoldersAreRuntimes == Holders \in SUBSET Runtime
BY DEF Holders

\* Every step keeps the memory promised equal to the sum over the holders, so
\* the clamps of releaseLoad and beginReclaim take nothing away.
LEMMA ReservedStep ==
    TypeOK /\ ReservedMatchesOwners /\ [Next]_vars => ReservedMatchesOwners'
<1> SUFFICES ASSUME TypeOK, ReservedMatchesOwners, [Next]_vars
             PROVE  ReservedMatchesOwners'
  OBVIOUS
<1> USE DEF ReservedMatchesOwners
<1>1. CASE Start \/ Shutdown \/ ExternalMemory \/ UNCHANGED vars
  BY <1>1 DEF Start, Shutdown, ExternalMemory, vars, Holders
<1>2. ASSUME NEW r \in Runtime, Step(r) PROVE ReservedMatchesOwners'
  <2>1. CASE TryAcquire(r) \/ AcquireGranted(r)
    <3>1. r \in Runtime \ Holders /\ Holders' = Holders \cup {r}
      BY <2>1, OwnersStep
    <3>2. SumFunctionOnSet(Required, Holders \cup {r})
            = SumFunctionOnSet(Required, Holders) + Required[r]
      BY <3>1, Sizes, HoldersAreRuntimes, SumAdd
    <3>3. reserved_load_memory_mb' = reserved_load_memory_mb + RequiredMemory(r)
      BY <2>1 DEF TryAcquire, AcquireGranted, ReserveLoadLocked
    <3>4. QED
      BY <3>1, <3>2, <3>3, Sizes
  <2>2. CASE ReleaseLoad(r) \/ BeginReclaimOfReservation(r)
    <3>1. r \in Holders /\ Holders' = Holders \ {r}
      BY <2>2, OwnersStep
    <3>2. SumFunctionOnSet(Required, Holders)
            = SumFunctionOnSet(Required, Holders \ {r}) + Required[r]
      BY <3>1, Sizes, HoldersAreRuntimes, SumRemove
    <3>3. SumFunctionOnSet(Required, Holders \ {r}) \in Nat
      BY HoldersAreRuntimes, SumsType
    <3>4. reserved_load_memory_mb'
            = AtLeast(0, reserved_load_memory_mb - RequiredMemory(r))
      BY <2>2 DEF ReleaseLoad, BeginReclaimOfReservation, ReturnReservation
    <3>5. Required[r] = RequiredMemory(r) /\ RequiredMemory(r) \in Nat
      BY Sizes, RequiredMemoryType
    <3>6. QED
      BY <3>1, <3>2, <3>3, <3>4, <3>5 DEF AtLeast
  <2>3. CASE \/ Acquire(r) \/ AcquireThrows(r) \/ LoadModel(r) \/ BeginReclaim(r)
             \/ StartReclaim(r) \/ Unload(r) \/ EndReclaim(r)
    <3>1. Holders' = Holders
      BY <2>3, OwnersStep
    <3>2. UNCHANGED reserved_load_memory_mb
      BY <2>3 DEF Acquire, AcquireThrows, LoadModel, BeginReclaim, StartReclaim,
             Unload, EndReclaim
    <3>3. QED
      BY <3>1, <3>2
  <2>4. QED
    BY <1>2, <2>1, <2>2, <2>3 DEF Step
<1>3. QED
  BY <1>1, <1>2 DEF Next

\* A grant looks at memory that is really there: what the device has, less what
\* others took, less the models in memory, less all promises, covers the new one
\* and the headroom.
LEMMA GrantFits ==
    ASSUME TypeOK, ReservedMatchesOwners, NEW r \in Runtime, CanReserve(r)
    PROVE  ModelMemory(occupied \cup (Holders \cup {r})) + Headroom <= TotalMemory
<1> DEFINE promised == SumFunctionOnSet(Required, Holders)
<1>1. /\ ModelMemory(occupied) \in Nat /\ promised \in Nat
      /\ Memory[r] \in Nat /\ RequiredMemory(r) \in Nat
      /\ Memory[r] <= RequiredMemory(r) /\ RequiredMemory(r) >= 1
  BY Sizes, SumsType, HoldersAreRuntimes, RequiredMemoryType
     DEF TypeOK, RequiredMemory, AtLeast
<1>2. /\ external \in Nat /\ reserved_load_memory_mb = promised
      /\ Headroom \in Nat /\ TotalMemory \in Nat
  BY Sizes DEF TypeOK, ReservedMatchesOwners
<1>3. AvailableMemoryMb >= RequiredMemory(r) + Headroom
  BY DEF CanReserve
<1> HIDE DEF promised
<1>4. TotalMemory - external - ModelMemory(occupied) - promised
        >= RequiredMemory(r) + Headroom
  BY <1>1, <1>2, <1>3 DEF AvailableMemoryMb, SystemAvailable, AtLeast
<1>5. ModelMemory(occupied \cup Holders) <= ModelMemory(occupied) + promised
  BY Sizes, HoldersAreRuntimes, SumUnionBound DEF ModelMemory, promised, TypeOK
<1>6. ModelMemory(occupied \cup Holders) \in Nat
  BY HoldersAreRuntimes, SumsType DEF TypeOK
<1>7. ModelMemory(occupied \cup (Holders \cup {r}))
        <= ModelMemory(occupied \cup Holders) + RequiredMemory(r)
  <2>1. CASE r \in occupied \cup Holders
    <3>1. occupied \cup (Holders \cup {r}) = occupied \cup Holders
      BY <2>1
    <3>2. ModelMemory(occupied \cup (Holders \cup {r})) = ModelMemory(occupied \cup Holders)
      BY <3>1
    <3>3. QED
      BY <1>1, <1>6, <3>2
  <2>2. CASE r \notin occupied \cup Holders
    <3>1. SumFunctionOnSet(Memory, (occupied \cup Holders) \cup {r})
            = SumFunctionOnSet(Memory, occupied \cup Holders) + Memory[r]
      <4>1. occupied \cup Holders \in SUBSET Runtime
        BY HoldersAreRuntimes DEF TypeOK
      <4>2. QED
        BY <2>2, <4>1, Sizes, SumAdd
    <3>2. occupied \cup (Holders \cup {r}) = (occupied \cup Holders) \cup {r}
      OBVIOUS
    <3>3. ModelMemory(occupied \cup (Holders \cup {r}))
            = ModelMemory(occupied \cup Holders) + Memory[r]
      BY <3>1, <3>2 DEF ModelMemory
    <3>4. QED
      BY <1>1, <1>6, <3>3
  <2>3. QED
    BY <2>1, <2>2
<1>8. ModelMemory(occupied \cup (Holders \cup {r})) \in Nat
  BY HoldersAreRuntimes, SumsType DEF TypeOK
<1>9. QED
  BY <1>1, <1>2, <1>4, <1>5, <1>6, <1>7, <1>8

\* Every step keeps the headroom.  Memory is taken under a reservation only, so
\* models and promises together change at a grant, where GrantFits holds, and
\* otherwise at most lose a runtime.
LEMMA HeadroomStep ==
    TypeOK /\ ReservedMatchesOwners /\ HeadroomKept /\ [Next]_vars => HeadroomKept'
<1> SUFFICES ASSUME TypeOK, ReservedMatchesOwners, HeadroomKept, [Next]_vars
             PROVE  HeadroomKept'
  OBVIOUS
<1> DEFINE Used == occupied \cup Holders
<1>1. Used \in SUBSET Runtime /\ (Used # {} => ModelMemory(Used) + Headroom <= TotalMemory)
  BY HoldersAreRuntimes DEF TypeOK, HeadroomKept
<1>2. ASSUME Used' = Used PROVE HeadroomKept'
  BY <1>1, <1>2 DEF HeadroomKept, ModelMemory
<1>3. ASSUME NEW r \in Used, Used' = Used \ {r} PROVE HeadroomKept'
  <2>1. SumFunctionOnSet(Memory, Used) = SumFunctionOnSet(Memory, Used \ {r}) + Memory[r]
    BY <1>1, Sizes, SumRemove
  <2>2. ModelMemory(Used) \in Nat /\ ModelMemory(Used \ {r}) \in Nat /\ Memory[r] \in Nat
    BY <1>1, SumsType, Sizes
  <2>3. ModelMemory(Used \ {r}) + Headroom <= TotalMemory
    BY <1>1, <2>1, <2>2, Sizes DEF ModelMemory
  <2>4. QED
    BY <1>3, <2>3 DEF HeadroomKept, ModelMemory
<1>4. CASE Start \/ Shutdown \/ ExternalMemory \/ UNCHANGED vars
  BY <1>2, <1>4 DEF Start, Shutdown, ExternalMemory, vars, Holders
<1>5. ASSUME NEW r \in Runtime, Step(r) PROVE HeadroomKept'
  <2>1. CASE TryAcquire(r) \/ AcquireGranted(r)
    <3>1. CanReserve(r) /\ UNCHANGED occupied
      BY <2>1 DEF TryAcquire, AcquireGranted, ReserveLoadLocked
    <3>2. Holders' = Holders \cup {r}
      BY <2>1, OwnersStep
    <3>3. ModelMemory(occupied \cup (Holders \cup {r})) + Headroom <= TotalMemory
      BY <3>1, GrantFits
    <3>4. QED
      BY <3>1, <3>2, <3>3 DEF HeadroomKept, ModelMemory
  <2>2. CASE LoadModel(r)
    <3>1. Holders' = Holders /\ r \in Holders
      BY <2>2, OwnersStep DEF LoadModel, Holders
    <3>2. Used' = Used
      BY <2>2, <3>1 DEF LoadModel
    <3>3. QED
      BY <1>2, <3>2
  <2>3. CASE ReleaseLoad(r) \/ BeginReclaimOfReservation(r)
    <3>1. r \in Holders /\ Holders' = Holders \ {r} /\ UNCHANGED occupied
      BY <2>3, OwnersStep DEF ReleaseLoad, BeginReclaimOfReservation
    <3>2. Used' = Used \/ (r \in Used /\ Used' = Used \ {r})
      BY <3>1
    <3>3. QED
      BY <1>2, <1>3, <3>2
  <2>4. CASE Unload(r)
    <3>1. Holders' = Holders /\ r \in occupied /\ occupied' = occupied \ {r}
      BY <2>4, OwnersStep DEF Unload
    <3>2. Used' = Used \/ (r \in Used /\ Used' = Used \ {r})
      BY <3>1
    <3>3. QED
      BY <1>2, <1>3, <3>2
  <2>5. CASE \/ Acquire(r) \/ AcquireThrows(r) \/ BeginReclaim(r)
             \/ StartReclaim(r) \/ EndReclaim(r)
    <3>1. Holders' = Holders /\ UNCHANGED occupied
      BY <2>5, OwnersStep DEF Acquire, AcquireThrows, BeginReclaim, StartReclaim,
             EndReclaim
    <3>2. QED
      BY <1>2, <3>1
  <2>6. QED
    BY <1>5, <2>1, <2>2, <2>3, <2>4, <2>5 DEF Step
<1>6. QED
  BY <1>4, <1>5 DEF Next

\* Models in memory and promises together leave the headroom free.
THEOREM HeadroomCorrect == Spec => []HeadroomKept
<1> DEFINE HInv == TypeOK /\ ReservedMatchesOwners /\ HeadroomKept
<1>1. Init => HInv
  <2> SUFFICES ASSUME Init PROVE HInv
    OBVIOUS
  <2>1. Holders = {} /\ occupied = {}
    BY DEF Init, Holders
  <2>2. ReservedMatchesOwners
    BY <2>1, SumEmpty DEF Init, ReservedMatchesOwners
  <2>3. QED
    BY <2>1, <2>2, InitTypeOK DEF HeadroomKept
<1>2. HInv /\ [Next]_vars => HInv'
  BY TypeStep, ReservedStep, HeadroomStep
<1>3. HInv => HeadroomKept
  OBVIOUS
<1> HIDE DEF HInv
<1>4. QED
  BY <1>1, <1>2, <1>3, PTL DEF Spec

=============================================================================
