---- MODULE SystemResourcesProofs ----
(* Proofs about SystemResources, for any managers, models, memory and limit: the  *)
(* registry and the handles of the processes agree, and what a check of the       *)
(* memory promises is kept while one run at a time is admitted.                   *)
EXTENDS SystemResources, FiniteSetTheorems, SequenceTheorems, TLAPS

-----------------------------------------------------------------------------
(* Sequences without repetitions, as the order of accesses is one. Without is a   *)
(* recursion over the positions; induction over them is a least counterexample.   *)

LEMMA LeastNat ==
    ASSUME NEW T, T \subseteq Nat, T # {}
    PROVE  \E n \in T : \A m \in T : n <= m
<1> DEFINE Less == {p \in Nat \X Nat : p[1] < p[2]}
<1>1. IsWellFoundedOn(Less, Nat)
  BY NatLessThanWellFounded DEF OpToRel
<1> HIDE DEF Less
<1>2. PICK n \in T : \A m \in T : ~(<<m, n>> \in Less)
  BY <1>1, WFMin
<1>3. ASSUME NEW m \in T PROVE n <= m
  <2>1. m \in Nat /\ n \in Nat
    OBVIOUS
  <2>2. m < n => <<m, n>> \in Less
    BY <2>1 DEF Less
  <2> QED
    BY <1>2, <2>1, <2>2
<1> QED
  BY <1>3

LEMMA LeastIsMin ==
    ASSUME NEW T, T \subseteq Nat, T # {}
    PROVE  Min(T) \in T
<1>1. PICK n \in T : \A m \in T : n <= m
  BY LeastNat
<1> QED
  BY <1>1 DEF Min

(* What is left of the first positions of s, up to n.                             *)
Leaves(g, s, gone, n) ==
    g = [k \in 0 .. n |-> IF k = 0 THEN <<>>
                          ELSE IF s[k] \in gone THEN g[k - 1] ELSE Append(g[k - 1], s[k])]

LEMMA WithoutIsRecursion ==
    ASSUME NEW s, NEW gone
    PROVE  Without(s, gone) = (CHOOSE g : Leaves(g, s, gone, Len(s)))[Len(s)]
BY DEF Without, Leaves

LEMMA LeavesExists ==
    ASSUME NEW s, NEW gone, NEW n \in Nat
    PROVE  \E g : Leaves(g, s, gone, n)
<1> DEFINE Bad == {k \in Nat : ~\E g : Leaves(g, s, gone, k)}
<1> SUFFICES ASSUME Bad # {} PROVE FALSE
  OBVIOUS
<1>1. PICK k \in Bad : \A j \in Bad : k <= j
  BY LeastNat
<1>2. k # 0
  <2> DEFINE g == [j \in 0 .. 0 |-> <<>>]
  <2>1. Leaves(g, s, gone, 0)
    BY DEF Leaves
  <2> QED
    BY <2>1
<1>3. k - 1 \in Nat /\ k - 1 \notin Bad
  BY <1>1, <1>2
<1>4. PICK g : Leaves(g, s, gone, k - 1)
  BY <1>3
<1> DEFINE h == [j \in 0 .. k |-> IF j = 0 THEN <<>>
                                  ELSE IF s[j] \in gone THEN g[j - 1] ELSE Append(g[j - 1], s[j])]
<1>5. \A j \in 0 .. k - 1 : h[j] = g[j]
  <2>1. \A j \in 0 .. k - 1 : j \in 0 .. k
    BY <1>1
  <2> QED
    BY <1>4, <2>1 DEF Leaves
<1>6. \A j \in 0 .. k : j # 0 => j - 1 \in 0 .. k - 1
  BY <1>1
<1>7. Leaves(h, s, gone, k)
  <2>1. \A j \in 0 .. k : j # 0 => h[j - 1] = g[j - 1]
    BY <1>5, <1>6
  <2>2. h = [j \in 0 .. k |-> IF j = 0 THEN <<>>
                             ELSE IF s[j] \in gone THEN h[j - 1] ELSE Append(h[j - 1], s[j])]
    BY <2>1
  <2> QED
    BY <2>2 DEF Leaves
<1> QED
  BY <1>7

(* What a prefix of s leaves: its elements that are not gone, each as often.      *)
Left(t, T, s, gone, n) ==
    /\ t \in Seq(T)
    /\ ToSet(t) = {s[i] : i \in 1 .. n} \ gone
    /\ IsInjective(s) => IsInjective(t)

LEMMA LeavesLeft ==
    ASSUME NEW T, NEW s \in Seq(T), NEW gone, NEW g, Leaves(g, s, gone, Len(s)),
           NEW n \in 0 .. Len(s)
    PROVE  Left(g[n], T, s, gone, n)
<1> DEFINE Bad == {k \in 0 .. Len(s) : ~Left(g[k], T, s, gone, k)}
<1> SUFFICES ASSUME Bad # {} PROVE FALSE
  OBVIOUS
<1>0. Len(s) \in Nat /\ DOMAIN s = 1 .. Len(s)
  BY LenProperties
<1>1. PICK k \in Bad : \A j \in Bad : k <= j
  <2>1. Bad \subseteq Nat
    BY <1>0
  <2> HIDE DEF Bad
  <2> QED
    BY <2>1, LeastNat
<1>2. Left(g[0], T, s, gone, 0)
  <2>1. g[0] = <<>>
    BY <1>0 DEF Leaves
  <2>2. <<>> \in Seq(T) /\ ToSet(<<>>) = {} /\ IsInjective(<<>>)
    BY DEF ToSet, IsInjective
  <2> QED
    BY <2>1, <2>2 DEF Left
<1>3. k \in 1 .. Len(s) /\ k - 1 \in 0 .. Len(s) /\ k - 1 \notin Bad
  BY <1>0, <1>1, <1>2
<1>4. Left(g[k - 1], T, s, gone, k - 1)
  BY <1>3
<1>5. g[k] = IF s[k] \in gone THEN g[k - 1] ELSE Append(g[k - 1], s[k])
  <2>1. k \in 0 .. Len(s) /\ k # 0
    BY <1>0, <1>3
  <2>2. g = [j \in 0 .. Len(s) |-> IF j = 0 THEN <<>>
                          ELSE IF s[j] \in gone THEN g[j - 1] ELSE Append(g[j - 1], s[j])]
    BY DEF Leaves
  <2>3. [j \in 0 .. Len(s) |-> IF j = 0 THEN <<>>
                          ELSE IF s[j] \in gone THEN g[j - 1] ELSE Append(g[j - 1], s[j])][k]
          = IF s[k] \in gone THEN g[k - 1] ELSE Append(g[k - 1], s[k])
    BY <2>1
  <2> QED
    BY <2>2, <2>3
<1>6. {s[i] : i \in 1 .. k} = {s[i] : i \in 1 .. k - 1} \cup {s[k]} /\ s[k] \in T
  <2>1. 1 .. k = (1 .. k - 1) \cup {k}
    BY <1>0, <1>3
  <2>2. s[k] \in T
    BY <1>3, ElementOfSeq
  <2> QED
    BY <2>1, <2>2
<1>7. CASE s[k] \in gone
  BY <1>1, <1>4, <1>5, <1>6, <1>7 DEF Left
<1>8. CASE s[k] \notin gone
  <2> DEFINE t == g[k - 1]
             u == Append(t, s[k])
  <2>1. t \in Seq(T) /\ ToSet(t) = {s[i] : i \in 1 .. k - 1} \ gone /\ g[k] = u
    BY <1>4, <1>5, <1>8 DEF Left
  <2> HIDE DEF t
  <2>2. /\ u \in Seq(T) /\ Len(t) \in Nat /\ DOMAIN t = 1 .. Len(t)
        /\ DOMAIN u = 1 .. Len(t) + 1 /\ u[Len(t) + 1] = s[k]
        /\ \A i \in 1 .. Len(t) : u[i] = t[i]
    BY <1>6, <2>1, AppendProperties, LenProperties
  <2>3. ToSet(u) = ToSet(t) \cup {s[k]}
    <3>1. \A i \in DOMAIN u : i \in DOMAIN t \/ i = Len(t) + 1
      BY <2>2
    <3>2. DOMAIN t \subseteq DOMAIN u /\ Len(t) + 1 \in DOMAIN u
      BY <2>2
    <3> HIDE DEF u
    <3> QED
      BY <2>2, <3>1, <3>2 DEF ToSet
  <2>4. ASSUME IsInjective(s) PROVE IsInjective(u)
    <3>1. IsInjective(t)
      BY <1>4, <2>4 DEF Left, t
    <3>2. s[k] \notin ToSet(t)
      <4>1. \A i \in 1 .. k - 1 : i \in DOMAIN s /\ i # k
        BY <1>0, <1>3
      <4>2. \A i \in 1 .. k - 1 : s[i] # s[k]
        BY <1>0, <1>3, <2>4, <4>1 DEF IsInjective
      <4> QED
        BY <2>1, <4>2
    <3>3. \A i \in DOMAIN t : t[i] # s[k]
      BY <3>2 DEF ToSet
    <3>4. \A i \in DOMAIN u : i \in DOMAIN t \/ i = Len(t) + 1
      BY <2>2
    <3> HIDE DEF u
    <3> QED
      BY <2>2, <3>1, <3>3, <3>4 DEF IsInjective
  <2>5. Left(u, T, s, gone, k)
    BY <1>6, <1>8, <2>1, <2>2, <2>3, <2>4 DEF Left
  <2> QED
    BY <1>1, <2>1, <2>5
<1> QED
  BY <1>7, <1>8

LEMMA WithoutLeaves ==
    ASSUME NEW T, NEW s \in Seq(T), NEW gone
    PROVE  /\ Without(s, gone) \in Seq(T)
           /\ ToSet(Without(s, gone)) = ToSet(s) \ gone
           /\ IsInjective(s) => IsInjective(Without(s, gone))
<1>1. Len(s) \in Nat /\ DOMAIN s = 1 .. Len(s)
  BY LenProperties
<1>2. \E g : Leaves(g, s, gone, Len(s))
  BY <1>1, LeavesExists
<1> DEFINE g == CHOOSE g : Leaves(g, s, gone, Len(s))
<1>3. Leaves(g, s, gone, Len(s)) /\ Without(s, gone) = g[Len(s)]
  BY <1>2, WithoutIsRecursion
<1> HIDE DEF g
<1>4. Left(g[Len(s)], T, s, gone, Len(s))
  BY <1>1, <1>3, LeavesLeft
<1> QED
  BY <1>1, <1>3, <1>4 DEF Left, ToSet

(* A sequence without repetitions is as long as it has elements.                  *)
LEMMA InjectiveLength ==
    ASSUME NEW T, NEW s \in Seq(T), IsInjective(s)
    PROVE  IsFiniteSet(ToSet(s)) /\ Cardinality(ToSet(s)) = Len(s)
<1>1. Len(s) \in Nat /\ DOMAIN s = 1 .. Len(s) /\ s \in [1 .. Len(s) -> T]
  BY LenProperties
<1>2. s \in Bijection(1 .. Len(s), ToSet(s))
  <2>1. s \in [1 .. Len(s) -> ToSet(s)]
    BY <1>1 DEF ToSet
  <2>2. \A x \in ToSet(s) : \E i \in 1 .. Len(s) : s[i] = x
    BY <1>1 DEF ToSet
  <2> QED
    BY <1>1, <2>1, <2>2 DEF Bijection, Injection, Surjection, IsInjective
<1>3. IsFiniteSet(1 .. Len(s)) /\ Cardinality(1 .. Len(s)) = Len(s)
  BY <1>1, FS_Interval
<1> QED
  BY <1>2, <1>3, FS_Bijection DEF ExistsBijection

LEMMA InjectiveAppend ==
    ASSUME NEW T, NEW s \in Seq(T), NEW x \in T, IsInjective(s), x \notin ToSet(s)
    PROVE  /\ Append(s, x) \in Seq(T) /\ IsInjective(Append(s, x))
           /\ ToSet(Append(s, x)) = ToSet(s) \cup {x}
           /\ Len(Append(s, x)) = Len(s) + 1
<1> DEFINE u == Append(s, x)
<1>1. /\ u \in Seq(T) /\ Len(s) \in Nat /\ DOMAIN s = 1 .. Len(s) /\ Len(u) = Len(s) + 1
      /\ DOMAIN u = 1 .. Len(s) + 1 /\ u[Len(s) + 1] = x
      /\ \A i \in 1 .. Len(s) : u[i] = s[i]
  BY AppendProperties, LenProperties
<1>2. \A i \in DOMAIN u : i \in DOMAIN s \/ i = Len(s) + 1
  BY <1>1
<1>3. DOMAIN s \subseteq DOMAIN u /\ Len(s) + 1 \in DOMAIN u
  BY <1>1
<1>4. \A i \in DOMAIN s : s[i] # x
  BY DEF ToSet
<1> HIDE DEF u
<1>5. IsInjective(u)
  BY <1>1, <1>2, <1>4 DEF IsInjective
<1>6. ToSet(u) = ToSet(s) \cup {x}
  BY <1>1, <1>2, <1>3 DEF ToSet
<1> QED
  BY <1>1, <1>5, <1>6 DEF u

(* The first n of them.                                                           *)
LEMMA InjectivePrefix ==
    ASSUME NEW T, NEW s \in Seq(T), IsInjective(s), NEW n \in 0 .. Len(s)
    PROVE  /\ SubSeq(s, 1, n) \in Seq(T) /\ IsInjective(SubSeq(s, 1, n))
           /\ ToSet(SubSeq(s, 1, n)) \subseteq ToSet(s)
           /\ Len(SubSeq(s, 1, n)) = n
<1> DEFINE u == SubSeq(s, 1, n)
<1>1. Len(s) \in Nat /\ DOMAIN s = 1 .. Len(s)
  BY LenProperties
<1>2. \A i \in 1 .. n : i \in 1 .. Len(s) /\ s[i] \in T
  BY <1>1, ElementOfSeq
<1>3. u \in Seq(T) /\ Len(u) = n /\ \A i \in 1 .. n : u[i] = s[i]
  BY <1>1, <1>2, SubSeqProperties
<1>4. DOMAIN u = 1 .. n
  BY <1>3, LenProperties
<1> HIDE DEF u
<1>5. IsInjective(u) /\ ToSet(u) \subseteq ToSet(s)
  BY <1>1, <1>2, <1>3, <1>4 DEF IsInjective, ToSet
<1> QED
  BY <1>3, <1>5 DEF u

(* The rest after the first.                                                      *)
LEMMA InjectiveTail ==
    ASSUME NEW T, NEW s \in Seq(T), s # <<>>, IsInjective(s)
    PROVE  /\ Head(s) \in T /\ Head(s) \in ToSet(s)
           /\ Tail(s) \in Seq(T) /\ IsInjective(Tail(s)) /\ Len(Tail(s)) = Len(s) - 1
           /\ ToSet(Tail(s)) = ToSet(s) \ {Head(s)}
<1>1. /\ Head(s) \in T /\ Tail(s) \in Seq(T) /\ Head(s) = s[1]
      /\ Len(Tail(s)) = Len(s) - 1 /\ Len(s) \in Nat /\ Len(s) # 0
      /\ DOMAIN s = 1 .. Len(s) /\ DOMAIN Tail(s) = 1 .. Len(s) - 1
      /\ \A i \in 1 .. Len(s) - 1 : Tail(s)[i] = s[i + 1]
  BY HeadTailProperties, LenProperties, EmptySeq
<1>2. \A i \in DOMAIN Tail(s) : i + 1 \in DOMAIN s /\ i + 1 # 1 /\ Tail(s)[i] = s[i + 1]
  BY <1>1
<1>3. \A j \in DOMAIN s : j # 1 => j - 1 \in DOMAIN Tail(s) /\ Tail(s)[j - 1] = s[j]
  BY <1>1
<1>4. IsInjective(Tail(s))
  <2>1. ASSUME NEW i \in DOMAIN Tail(s), NEW j \in DOMAIN Tail(s), Tail(s)[i] = Tail(s)[j] PROVE i = j
    <3>1. i + 1 = j + 1
      BY <1>2, <2>1 DEF IsInjective
    <3> QED
      BY <1>1, <3>1
  <2> QED
    BY <2>1 DEF IsInjective
<1>5. 1 \in DOMAIN s
  BY <1>1
<1>6. ToSet(Tail(s)) = ToSet(s) \ {Head(s)}
  <2>1. ASSUME NEW x \in ToSet(Tail(s)) PROVE x \in ToSet(s) \ {Head(s)}
    BY <1>1, <1>2, <1>5 DEF ToSet, IsInjective
  <2>2. ASSUME NEW x \in ToSet(s) \ {Head(s)} PROVE x \in ToSet(Tail(s))
    <3>1. PICK j \in DOMAIN s : s[j] = x
      BY DEF ToSet
    <3>2. j - 1 \in DOMAIN Tail(s) /\ Tail(s)[j - 1] = x
      BY <1>1, <1>3, <3>1
    <3> QED
      BY <3>2 DEF ToSet
  <2> QED
    BY <2>1, <2>2
<1> QED
  BY <1>1, <1>4, <1>5, <1>6 DEF ToSet

-----------------------------------------------------------------------------
(* Sums over finite sets, as in ModelLoadCoordinatorProofs: what SumFunctionOnSet*)
(* computes, whatever order it takes the elements in.                           *)

(* A nonempty collection of subsets of a finite set has a minimal one.          *)
LEMMA MinimalSet ==
    ASSUME NEW R, IsFiniteSet(R), NEW B, B \subseteq SUBSET R, B # {}
    PROVE  \E S \in B : \A T : T \subseteq S /\ T # S => T \notin B
<1> DEFINE Sizes == {Cardinality(S) : S \in B}
<1>1. \A S \in B : IsFiniteSet(S) /\ Cardinality(S) \in Nat
  BY FS_Subset, FS_CardinalityType
<1>2. Sizes \subseteq Nat /\ Sizes # {}
  BY <1>1
<1> HIDE DEF Sizes
<1>3. PICK n \in Sizes : \A m \in Sizes : n <= m
  BY <1>2, LeastNat
<1>4. PICK S \in B : Cardinality(S) = n
  BY <1>3 DEF Sizes
<1>5. ASSUME NEW T, T \subseteq S, T # S, T \in B PROVE FALSE
  <2>1. Cardinality(T) < Cardinality(S)
    BY <1>1, <1>5, FS_Subset
  <2>2. Cardinality(T) \in Sizes
    BY <1>5 DEF Sizes
  <2> QED
    BY <1>1, <1>2, <1>3, <1>4, <1>5, <2>1, <2>2
<1> QED
  BY <1>5

(* The element the fold takes next, and the recursion it stands for.            *)
Pick(s) == CHOOSE x \in s : TRUE

Unfolds(g, f, D) ==
    g = [s \in D |-> IF s = {} THEN 0 ELSE f[Pick(s)] + g[s \ {Pick(s)}]]

LEMMA PickIn == ASSUME NEW s, s # {} PROVE Pick(s) \in s
BY DEF Pick

(* The fold is defined by the recursion.                                        *)
LEMMA SumIsFold ==
    ASSUME NEW f, NEW S
    PROVE  SumFunctionOnSet(f, S) = (CHOOSE g : Unfolds(g, f, SUBSET S))[S]
BY DEF SumFunctionOnSet, FoldFunctionOnSet, MapThenFoldSet, Unfolds, Pick

(* On subsets of a finite set the recursion has a solution.                     *)
LEMMA UnfoldingExists ==
    ASSUME NEW f, NEW S, IsFiniteSet(S)
    PROVE  \E g : Unfolds(g, f, SUBSET S)
<1> DEFINE D(n) == {s \in SUBSET S : Cardinality(s) <= n}
           Bad  == {n \in Nat : ~\E g : Unfolds(g, f, D(n))}
<1>1. \A s \in SUBSET S : IsFiniteSet(s) /\ Cardinality(s) \in Nat
                            /\ Cardinality(s) <= Cardinality(S)
  BY FS_Subset, FS_CardinalityType
<1>2. ASSUME NEW n \in Nat, NEW g, Unfolds(g, f, D(n))
      PROVE  \E h : Unfolds(h, f, D(n + 1))
  <2> DEFINE h == [s \in D(n + 1) |->
                     IF s = {} THEN 0 ELSE f[Pick(s)] + g[s \ {Pick(s)}]]
  <2>1. D(n) \subseteq D(n + 1)
    BY <1>1
  <2>2. ASSUME NEW s \in D(n + 1), s # {}
        PROVE  s \ {Pick(s)} \in D(n)
    <3>1. Cardinality(s \ {Pick(s)}) = Cardinality(s) - 1
      BY <1>1, <2>2, PickIn, FS_RemoveElement
    <3> QED
      BY <1>1, <2>2, <3>1
  <2>3. \A s \in D(n) : h[s] = g[s]
    BY <1>2, <2>1 DEF Unfolds
  <2>4. Unfolds(h, f, D(n + 1))
    BY <2>2, <2>3 DEF Unfolds
  <2> QED
    BY <2>4
<1>3. \E g : Unfolds(g, f, D(0))
  <2> DEFINE g == [s \in D(0) |-> 0]
  <2>1. \A s \in D(0) : s = {}
    BY <1>1, FS_EmptySet
  <2>2. Unfolds(g, f, D(0))
    BY <2>1 DEF Unfolds
  <2> QED
    BY <2>2
<1> HIDE DEF D
<1>4. Bad = {}
  <2> SUFFICES ASSUME Bad # {} PROVE FALSE
    OBVIOUS
  <2>1. Bad \subseteq Nat
    OBVIOUS
  <2>2. PICK n \in Bad : \A m \in Bad : n <= m
    BY <2>1, LeastNat
  <2>3. n # 0
    BY <1>3
  <2>4. n - 1 \in Nat /\ n - 1 \notin Bad
    BY <2>2, <2>3
  <2>5. PICK g : Unfolds(g, f, D(n - 1))
    BY <2>4
  <2>6. \E h : Unfolds(h, f, D((n - 1) + 1))
    BY <1>2, <2>4, <2>5
  <2>7. (n - 1) + 1 = n
    BY <2>2
  <2> QED
    BY <2>2, <2>6, <2>7
<1>5. Cardinality(S) \in Nat /\ D(Cardinality(S)) = SUBSET S
  BY <1>1 DEF D
<1> QED
  BY <1>4, <1>5

(* The sum over a set is the value there of any solution, on whatever larger set*)
(* it is one: two solutions agree where both are defined.                       *)
LEMMA SumOfPart ==
    ASSUME NEW f, NEW S, IsFiniteSet(S), NEW T, T \subseteq S,
           NEW g, Unfolds(g, f, SUBSET S)
    PROVE  SumFunctionOnSet(f, T) = g[T]
<1>1. ASSUME NEW h, Unfolds(h, f, SUBSET T) PROVE h[T] = g[T]
  <2> DEFINE Bad == {s \in SUBSET T : g[s] # h[s]}
  <2> SUFFICES ASSUME Bad # {} PROVE FALSE
    OBVIOUS
  <2>1. IsFiniteSet(T) /\ Bad \subseteq SUBSET T
    BY FS_Subset
  <2> HIDE DEF Bad
  <2>2. PICK s \in Bad : \A t : t \subseteq s /\ t # s => t \notin Bad
    BY <2>1, MinimalSet
  <2>3. s \in SUBSET T /\ s \in SUBSET S /\ g[s] # h[s]
    BY DEF Bad
  <2>4. s # {}
    BY <1>1, <2>3 DEF Unfolds
  <2>5. g[s] = f[Pick(s)] + g[s \ {Pick(s)}] /\ h[s] = f[Pick(s)] + h[s \ {Pick(s)}]
    BY <1>1, <2>3, <2>4 DEF Unfolds
  <2>6. s \ {Pick(s)} \notin Bad
    BY <2>2, <2>4, PickIn
  <2>7. g[s \ {Pick(s)}] = h[s \ {Pick(s)}]
    BY <2>3, <2>6 DEF Bad
  <2> QED
    BY <2>3, <2>5, <2>7
<1>2. \E h : Unfolds(h, f, SUBSET T)
  BY UnfoldingExists, FS_Subset
<1>3. Unfolds(CHOOSE h : Unfolds(h, f, SUBSET T), f, SUBSET T)
  BY <1>2
<1> QED
  BY <1>1, <1>3, SumIsFold

LEMMA SumEmpty ==
    ASSUME NEW f
    PROVE  SumFunctionOnSet(f, {}) = 0
<1>1. ASSUME NEW g, Unfolds(g, f, SUBSET {}) PROVE g[{}] = 0
  BY <1>1 DEF Unfolds
<1>2. \E g : Unfolds(g, f, SUBSET {})
  BY UnfoldingExists, FS_EmptySet
<1>3. Unfolds(CHOOSE g : Unfolds(g, f, SUBSET {}), f, SUBSET {})
  BY <1>2
<1> QED
  BY <1>1, <1>3, SumIsFold

(* One step of the fold.                                                        *)
LEMMA SumUnfolds ==
    ASSUME NEW f, NEW S, IsFiniteSet(S), S # {}
    PROVE  SumFunctionOnSet(f, S)
             = f[Pick(S)] + SumFunctionOnSet(f, S \ {Pick(S)})
<1>1. PICK g : Unfolds(g, f, SUBSET S)
  BY UnfoldingExists
<1>2. g[S] = f[Pick(S)] + g[S \ {Pick(S)}]
  BY <1>1 DEF Unfolds
<1>3. SumFunctionOnSet(f, S) = g[S]
  BY <1>1, SumOfPart
<1>4. SumFunctionOnSet(f, S \ {Pick(S)}) = g[S \ {Pick(S)}]
  BY <1>1, SumOfPart
<1> QED
  BY <1>2, <1>3, <1>4

(* A sum of natural numbers is one.                                             *)
LEMMA SumType ==
    ASSUME NEW R, NEW f \in [R -> Nat], NEW S \in SUBSET R, IsFiniteSet(S)
    PROVE  SumFunctionOnSet(f, S) \in Nat
<1> DEFINE Bad == {s \in SUBSET S : SumFunctionOnSet(f, s) \notin Nat}
<1> SUFFICES ASSUME Bad # {} PROVE FALSE
  OBVIOUS
<1>1. Bad \subseteq SUBSET S
  OBVIOUS
<1> HIDE DEF Bad
<1>2. PICK s \in Bad : \A t : t \subseteq s /\ t # s => t \notin Bad
  BY <1>1, MinimalSet
<1>3. s \in SUBSET S /\ IsFiniteSet(s) /\ SumFunctionOnSet(f, s) \notin Nat
  BY <1>1, FS_Subset DEF Bad
<1>4. s # {}
  BY <1>3, SumEmpty
<1>5. Pick(s) \in s /\ f[Pick(s)] \in Nat
  BY <1>3, <1>4, PickIn
<1>6. SumFunctionOnSet(f, s \ {Pick(s)}) \in Nat
  BY <1>2, <1>3, <1>5 DEF Bad
<1> QED
  BY <1>3, <1>4, <1>5, <1>6, SumUnfolds

(* One more element adds its value, whichever element the fold takes first.     *)
LEMMA SumAdd ==
    ASSUME NEW R, IsFiniteSet(R), NEW f \in [R -> Nat],
           NEW S \in SUBSET R, NEW x \in R \ S
    PROVE  SumFunctionOnSet(f, S \cup {x}) = SumFunctionOnSet(f, S) + f[x]
<1> DEFINE Adds(s, y) ==
             SumFunctionOnSet(f, s \cup {y}) = SumFunctionOnSet(f, s) + f[y]
           Bad == {s \in SUBSET R : ~\A y \in R \ s : Adds(s, y)}
<1> SUFFICES Bad = {}
  OBVIOUS
<1> SUFFICES ASSUME Bad # {} PROVE FALSE
  OBVIOUS
<1>1. Bad \subseteq SUBSET R
  OBVIOUS
<1>2. \A s \in SUBSET R : s \notin Bad => \A y \in R \ s : Adds(s, y)
  OBVIOUS
<1>3. \A s \in SUBSET R : IsFiniteSet(s) /\ SumFunctionOnSet(f, s) \in Nat
  BY SumType, FS_Subset
<1>4. \A s \in Bad : \E y \in R \ s : ~Adds(s, y)
  OBVIOUS
<1> HIDE DEF Bad
<1>5. PICK s \in Bad : \A t : t \subseteq s /\ t # s => t \notin Bad
  BY <1>1, MinimalSet
<1>6. PICK y \in R \ s : ~Adds(s, y)
  BY <1>4
<1> DEFINE z == Pick(s \cup {y})
<1>7. z \in s \cup {y} /\ f[z] \in Nat /\ f[y] \in Nat
  BY <1>1, <1>5, <1>6, PickIn
<1>8. SumFunctionOnSet(f, s \cup {y})
        = f[z] + SumFunctionOnSet(f, (s \cup {y}) \ {z})
  BY <1>3, <1>1, <1>5, <1>6, SumUnfolds
<1> HIDE DEF z
<1>9. CASE z = y
  <2>1. (s \cup {y}) \ {z} = s
    BY <1>6, <1>9
  <2>2. SumFunctionOnSet(f, s) \in Nat
    BY <1>3, <1>1, <1>5
  <2>3. SumFunctionOnSet(f, s \cup {y}) = f[y] + SumFunctionOnSet(f, s)
    BY <1>8, <1>9, <2>1
  <2>4. Adds(s, y)
    BY <1>7, <2>2, <2>3
  <2> QED
    BY <1>6, <2>4
<1>10. CASE z # y
  <2> DEFINE t == s \ {z}
  <2>1. /\ z \in s /\ t \subseteq s /\ t # s /\ t \in SUBSET R
        /\ y \in R \ t /\ z \in R \ t
        /\ (s \cup {y}) \ {z} = t \cup {y} /\ t \cup {z} = s
    BY <1>1, <1>5, <1>6, <1>7, <1>10
  <2> HIDE DEF t
  <2>2. Adds(t, y) /\ Adds(t, z)
    BY <1>2, <1>5, <2>1
  <2>3. SumFunctionOnSet(f, t) \in Nat /\ SumFunctionOnSet(f, s) \in Nat
    BY <1>3, <1>1, <1>5, <2>1
  <2>4. SumFunctionOnSet(f, s \cup {y}) = f[z] + (SumFunctionOnSet(f, t) + f[y])
    BY <1>8, <2>1, <2>2
  <2>5. SumFunctionOnSet(f, s) = SumFunctionOnSet(f, t) + f[z]
    BY <2>1, <2>2
  <2>6. Adds(s, y)
    BY <1>7, <2>3, <2>4, <2>5
  <2> QED
    BY <1>6, <2>6
<1> QED
  BY <1>9, <1>10

(* One element less takes its value away.                                       *)
LEMMA SumRemove ==
    ASSUME NEW R, IsFiniteSet(R), NEW f \in [R -> Nat],
           NEW S \in SUBSET R, NEW x \in S
    PROVE  SumFunctionOnSet(f, S) = SumFunctionOnSet(f, S \ {x}) + f[x]
<1>1. S \ {x} \in SUBSET R /\ x \in R \ (S \ {x}) /\ (S \ {x}) \cup {x} = S
  OBVIOUS
<1> QED
  BY <1>1, SumAdd

(* Functions that agree on a set have the same sum over it.                     *)
LEMMA SumAgrees ==
    ASSUME NEW R, IsFiniteSet(R), NEW f, NEW g, \A x \in R : f[x] = g[x]
    PROVE  SumFunctionOnSet(f, R) = SumFunctionOnSet(g, R)
<1> DEFINE Bad == {s \in SUBSET R : SumFunctionOnSet(f, s) # SumFunctionOnSet(g, s)}
<1> SUFFICES ASSUME Bad # {} PROVE FALSE
  OBVIOUS
<1>1. Bad \subseteq SUBSET R
  OBVIOUS
<1> HIDE DEF Bad
<1>2. PICK s \in Bad : \A t : t \subseteq s /\ t # s => t \notin Bad
  BY <1>1, MinimalSet
<1>3. s \in SUBSET R /\ IsFiniteSet(s) /\ SumFunctionOnSet(f, s) # SumFunctionOnSet(g, s)
  BY <1>1, FS_Subset DEF Bad
<1>4. s # {}
  BY <1>3, SumEmpty
<1>5. Pick(s) \in s /\ f[Pick(s)] = g[Pick(s)]
  BY <1>3, <1>4, PickIn
<1>6. SumFunctionOnSet(f, s \ {Pick(s)}) = SumFunctionOnSet(g, s \ {Pick(s)})
  BY <1>2, <1>3, <1>5 DEF Bad
<1> QED
  BY <1>3, <1>4, <1>5, <1>6, SumUnfolds

-----------------------------------------------------------------------------
(* The registry.                                                                  *)

Name == (UNION {Models[m] : m \in Manager}) \cup {None}

(* What the proof needs of the types.                                             *)
Typed ==
    /\ pc \in [Manager -> {"idle", "checking", "evicting", "starting", "ready", "running"}]
    /\ asked \in [Manager -> Name]
    /\ model \in [Manager -> Name]
    /\ entry \in [Manager -> Name]

(* Up to the READY of a start, an entry that is left is one for the model asked   *)
(* for: the process it stood for has died, and the new one takes it over.         *)
LeftFits ==
    \A m \in Manager :
      pc[m] \in {"checking", "evicting", "starting"} /\ entry[m] # None => entry[m] = asked[m]

Agreed == Typed /\ EntryNamesModel /\ LeftFits

(* Who is cleaned up has neither entry nor model left, and nobody else changes.   *)
LEMMA CleanUpAgrees ==
    ASSUME Typed, EntryNamesModel, NEW ms, CleanUp(ms)
    PROVE  /\ model' \in [Manager -> Name] /\ entry' \in [Manager -> Name]
           /\ EntryNamesModel'
           /\ \A m \in Manager : entry'[m] \in {None, entry[m]} /\ (m \in ms => entry'[m] = None)
<1>1. None \in Name
  BY DEF Name
<1>2. model' \in [Manager -> Name] /\ entry' \in [Manager -> Name]
  BY <1>1 DEF CleanUp, Typed
<1>3. \A m \in Manager : entry'[m] = (IF m \in ms THEN None ELSE entry[m])
  BY DEF CleanUp
<1>4. \A m \in Manager : model'[m] = (IF m \in ms THEN None ELSE model[m])
  BY DEF CleanUp
<1> QED
  BY <1>2, <1>3, <1>4 DEF EntryNamesModel

(* A step of a manager that cleans up and moves on.                               *)
LEMMA CleanUpStep ==
    ASSUME Agreed, NEW ms, CleanUp(ms), UNCHANGED asked, NEW m \in Manager,
           pc' \in [Manager -> {"idle", "checking", "evicting", "starting", "ready", "running"}],
           \A q \in Manager : q # m => pc'[q] = pc[q],
           pc'[m] \in {pc[m], "idle"}
    PROVE  Agreed'
<1>1. /\ model' \in [Manager -> Name] /\ entry' \in [Manager -> Name] /\ EntryNamesModel'
      /\ \A q \in Manager : entry'[q] \in {None, entry[q]}
  BY CleanUpAgrees DEF Agreed
<1>2. LeftFits'
  BY <1>1 DEF Agreed, LeftFits
<1> QED
  BY <1>1, <1>2 DEF Agreed, Typed

LEMMA AgreedStep ==
    ASSUME Agreed, [Next]_vars
    PROVE  Agreed'
<1> USE DEF Agreed
<1>1. ASSUME NEW m \in Manager, NEW x \in Models[m], Ask(m, x) PROVE Agreed'
  <2>1. asked' = [asked EXCEPT ![m] = x] /\ x \in Name
    BY <1>1 DEF Ask, Name
  <2>2. CASE model[m] \in {None, x}
    <3>1. /\ pc' = [pc EXCEPT ![m] = IF proc[m] = "alive" THEN "ready" ELSE "checking"]
          /\ UNCHANGED <<entry, model>>
      BY <1>1, <2>2 DEF Ask, At
    <3>2. entry[m] # None => entry[m] = x
      BY <2>2 DEF EntryNamesModel
    <3> QED
      BY <2>1, <3>1, <3>2 DEF Typed, EntryNamesModel, LeftFits
  <2>3. CASE model[m] \notin {None, x}
    <3>1. pc' = [pc EXCEPT ![m] = "checking"] /\ CleanUp({m})
      BY <1>1, <2>3 DEF Ask, At
    <3>2. /\ model' \in [Manager -> Name] /\ entry' \in [Manager -> Name] /\ EntryNamesModel'
          /\ \A q \in Manager : entry'[q] \in {None, entry[q]} /\ (q \in {m} => entry'[q] = None)
      BY <3>1, CleanUpAgrees
    <3>3. LeftFits'
      BY <2>1, <3>1, <3>2 DEF LeftFits, Typed
    <3> QED
      BY <2>1, <3>1, <3>2, <3>3 DEF Typed
  <2> QED
    BY <2>2, <2>3
<1>2. ASSUME NEW m \in Manager, Check(m) PROVE Agreed'
  <2>1. CASE pc' = [pc EXCEPT ![m] = "evicting"] /\ UNCHANGED <<entry, model, asked>>
    BY <1>2, <2>1 DEF Check, Typed, EntryNamesModel, LeftFits
  <2>2. CASE pc' = [pc EXCEPT ![m] = "idle"] /\ CleanUp({m}) /\ UNCHANGED asked
    BY <2>2, CleanUpStep DEF Typed
  <2> QED
    BY <1>2, <2>1, <2>2 DEF Check, At
<1>3. ASSUME NEW m \in Manager, Evict(m) PROVE Agreed'
  BY <1>3, CleanUpStep DEF Evict, Typed
<1>4. ASSUME NEW m \in Manager, Spawn(m) PROVE Agreed'
  BY <1>4 DEF Spawn, At, Typed, EntryNamesModel, LeftFits
<1>5. ASSUME NEW m \in Manager, Started(m) PROVE Agreed'
  <2>1. /\ pc[m] = "starting" /\ pc' = [pc EXCEPT ![m] = "ready"]
        /\ model' = [model EXCEPT ![m] = asked[m]] /\ UNCHANGED asked
    BY <1>5 DEF Started, At
  <2>2. CASE entry[m] = None
    <3>1. entry' = [entry EXCEPT ![m] = asked[m]]
      BY <1>5, <2>2 DEF Started, Register
    <3> QED
      BY <2>1, <3>1 DEF Typed, EntryNamesModel, LeftFits
  <2>3. CASE entry[m] # None
    <3>1. UNCHANGED entry /\ entry[m] = asked[m]
      BY <1>5, <2>1, <2>3 DEF Started, LeftFits
    <3> QED
      BY <2>1, <3>1 DEF Typed, EntryNamesModel, LeftFits
  <2> QED
    BY <2>2, <2>3
<1>6. ASSUME NEW m \in Manager, StartFails(m) PROVE Agreed'
  <2>1. pc' = [pc EXCEPT ![m] = "idle"] /\ CleanUp({m}) /\ UNCHANGED asked
    BY <1>6 DEF StartFails, At
  <2> QED
    BY <2>1, CleanUpStep DEF Typed
<1>7. ASSUME NEW m \in Manager, Execute(m) PROVE Agreed'
  <2>1. pc' = [pc EXCEPT ![m] = "running"] /\ UNCHANGED <<asked, model, entry>>
    BY <1>7 DEF Execute, At
  <2> QED
    BY <2>1 DEF Typed, EntryNamesModel, LeftFits
<1>8. ASSUME NEW m \in Manager, EndRun(m) PROVE Agreed'
  <2>1. pc' = [pc EXCEPT ![m] = "idle"] /\ UNCHANGED asked
    BY <1>8 DEF EndRun, At
  <2>2. CASE CleanUp({m})
    BY <2>1, <2>2, CleanUpStep DEF Typed
  <2>3. CASE UNCHANGED <<entry, model>>
    BY <2>1, <2>3 DEF Typed, EntryNamesModel, LeftFits
  <2> QED
    BY <1>8, <2>2, <2>3 DEF EndRun
<1>9. ASSUME NEW m \in Manager, Crash(m) PROVE Agreed'
  BY <1>9 DEF Crash, Typed, EntryNamesModel, LeftFits
<1>10. CASE UNCHANGED vars
  BY <1>10 DEF vars, Typed, EntryNamesModel, LeftFits
<1> QED
  BY <1>1, <1>2, <1>3, <1>4, <1>5, <1>6, <1>7, <1>8, <1>9, <1>10 DEF Next

(* An entry of the registry names the model its manager last loaded, whoever      *)
(* evicts, restarts or loses a process meanwhile (register_process_async,         *)
(* _cleanup_process).                                                             *)
THEOREM RegistryNamesModel == Spec => []EntryNamesModel
<1>1. Init => Agreed
  BY DEF Init, Agreed, Typed, EntryNamesModel, LeftFits, Name
<1>2. Agreed /\ [Next]_vars => Agreed'
  BY AgreedStep
<1>3. Agreed => EntryNamesModel
  BY DEF Agreed
<1> QED
  BY <1>1, <1>2, <1>3, PTL DEF Spec

-----------------------------------------------------------------------------
(* The order of accesses holds the processes that are registered, each once, and  *)
(* registry, handles and runs fit together.                                       *)

Registered == {m \in Manager : entry[m] # None}

Access ==
    /\ lru \in Seq(Manager) /\ IsInjective(lru)
    /\ ToSet(lru) = Registered /\ active \subseteq Registered

Handles ==
    \A m \in Manager :
      /\ proc[m] = "alive" => entry[m] # None
      /\ proc[m] = "starting" => pc[m] = "starting"
      /\ pc[m] \in {"checking", "evicting"} => proc[m] \in {"none", "dead"}
      /\ ~Crashes /\ entry[m] # None => proc[m] = "alive"
      /\ pc[m] # "idle" => asked[m] \in Models[m]

Shape ==
    /\ scenario \in Scenario
    /\ proc \in [Manager -> {"none", "starting", "alive", "dead"}]
    /\ list \in [Manager -> Seq(Manager)]
    /\ Access /\ Handles

LEMMA RegisteredFinite ==
    /\ IsFiniteSet(Registered) /\ Cardinality(Registered) \in Nat
    /\ \A S \in SUBSET Registered :
         IsFiniteSet(S) /\ Cardinality(S) \in Nat /\ Cardinality(S) <= Cardinality(Registered)
<1>1. Registered \in SUBSET Manager
  BY DEF Registered
<1>2. IsFiniteSet(Registered)
  BY <1>1, ResourceAssumption, FS_Subset
<1> QED
  BY <1>2, FS_CardinalityType, FS_Subset

LEMMA AccessLength == Access => Len(lru) = Cardinality(Registered)
BY InjectiveLength DEF Access

(* What a check that succeeds has found.                                          *)
LEMMA CheckedList ==
    ASSUME Shape, NEW need, CheckMemory(need).sufficient
    PROVE  LET evict == CheckMemory(need).evict
           IN  /\ evict \in Seq(Manager) /\ IsInjective(evict) /\ ToSet(evict) \subseteq Registered
               /\ Len(evict) >= OverLimit
               /\ Available + RegisteredMemory(ToSet(evict)) >= WithHeadroom(need)
<1> DEFINE counts == {n \in OverLimit .. Len(IdleByAge) : Enough(n, need)}
           evict == CheckMemory(need).evict
<1>1. counts # {} /\ evict = SubSeq(IdleByAge, 1, Min(counts))
  BY DEF CheckMemory
<1>2. /\ IdleByAge \in Seq(Manager) /\ IsInjective(IdleByAge) /\ ToSet(IdleByAge) \subseteq Registered
      /\ Len(IdleByAge) \in Nat
  BY WithoutLeaves, LenProperties DEF IdleByAge, Shape, Access
<1>3. OverLimit \in Nat
  BY LenProperties DEF OverLimit, Shape, Access, Scenario, MaxActive
<1>4. counts \subseteq Nat
  BY <1>2, <1>3
<1> DEFINE n == Min(counts)
<1>5. n \in counts
  BY <1>1, <1>4, LeastIsMin
<1>6. n \in 0 .. Len(IdleByAge) /\ n >= OverLimit /\ Enough(n, need)
  BY <1>2, <1>3, <1>5
<1> HIDE DEF n, counts
<1>7. evict = SubSeq(IdleByAge, 1, n)
  BY <1>1 DEF n
<1> HIDE DEF evict
<1>8. /\ evict \in Seq(Manager) /\ IsInjective(evict) /\ ToSet(evict) \subseteq Registered
      /\ Len(evict) = n
  BY <1>2, <1>6, <1>7, InjectivePrefix
<1> QED
  BY <1>6, <1>7, <1>8 DEF Enough, evict

(* The processes of ms are gone from everywhere, and the others as they were.     *)
LEMMA CleanUpEffect ==
    ASSUME Typed, Shape, NEW ms, CleanUp(ms)
    PROVE  /\ \A m \in Manager : /\ entry'[m] = IF m \in ms THEN None ELSE entry[m]
                                 /\ model'[m] = IF m \in ms THEN None ELSE model[m]
                                 /\ proc'[m] = IF m \in ms THEN "none" ELSE proc[m]
           /\ proc' \in [Manager -> {"none", "starting", "alive", "dead"}]
           /\ Registered' = Registered \ ms
           /\ Access'
<1>1. \A m \in Manager : /\ entry'[m] = IF m \in ms THEN None ELSE entry[m]
                         /\ model'[m] = IF m \in ms THEN None ELSE model[m]
                         /\ proc'[m] = IF m \in ms THEN "none" ELSE proc[m]
  BY DEF CleanUp
<1>2. proc' \in [Manager -> {"none", "starting", "alive", "dead"}]
  BY DEF CleanUp, Shape
<1>3. Registered' = Registered \ ms
  BY <1>1 DEF Registered
<1>4. /\ lru' \in Seq(Manager) /\ IsInjective(lru') /\ ToSet(lru') = ToSet(lru) \ ms
  BY WithoutLeaves DEF CleanUp, Shape, Access
<1>5. active' = active \ ms
  BY DEF CleanUp
<1>6. Access'
  BY <1>3, <1>4, <1>5 DEF Shape, Access
<1> QED
  BY <1>1, <1>2, <1>3, <1>6

LEMMA TouchedEffect ==
    ASSUME Access, NEW m \in Registered, lru' = Touched(m), UNCHANGED entry, active' \subseteq Registered
    PROVE  Access'
<1> DEFINE s == Without(lru, {m})
<1>1. s \in Seq(Manager) /\ IsInjective(s) /\ ToSet(s) = Registered \ {m}
  BY WithoutLeaves DEF Access
<1>2. lru' = Append(s, m) /\ m \in Manager
  BY DEF Touched, Registered
<1> HIDE DEF s
<1>3. lru' \in Seq(Manager) /\ IsInjective(lru') /\ ToSet(lru') = ToSet(s) \cup {m}
  BY <1>1, <1>2, InjectiveAppend
<1>4. Registered' = Registered
  BY DEF Registered
<1> QED
  BY <1>1, <1>3, <1>4 DEF Access

(* A step that moves only m, and leaves it where its handle fits its run.         *)
LEMMA HandlesKept ==
    ASSUME Typed, Shape, NEW m \in Manager, UNCHANGED scenario, Access',
           proc' \in [Manager -> {"none", "starting", "alive", "dead"}],
           list' \in [Manager -> Seq(Manager)],
           \A q \in Manager : q # m => pc'[q] = pc[q] /\ asked'[q] = asked[q],
           \A q \in Manager : q # m =>
             \/ entry'[q] = entry[q] /\ proc'[q] = proc[q]
             \/ entry'[q] = None /\ proc'[q] = "none",
           /\ proc'[m] = "alive" => entry'[m] # None
           /\ proc'[m] = "starting" => pc'[m] = "starting"
           /\ pc'[m] \in {"checking", "evicting"} => proc'[m] \in {"none", "dead"}
           /\ ~Crashes /\ entry'[m] # None => proc'[m] = "alive"
           /\ pc'[m] # "idle" => asked'[m] \in Models[m]
    PROVE  Shape'
<1>1. Handles'
  BY DEF Shape, Handles, Crashes
<1> QED
  BY <1>1 DEF Shape

(* A step of m that cleans up after it.                                           *)
LEMMA CleanedHandles ==
    ASSUME Typed, Shape, NEW m \in Manager, UNCHANGED <<scenario, list>>, CleanUp({m}),
           \A q \in Manager : q # m => pc'[q] = pc[q] /\ asked'[q] = asked[q],
           pc'[m] \in {"idle", "checking"}, pc'[m] # "idle" => asked'[m] \in Models[m]
    PROVE  Shape'
<1>1. /\ entry'[m] = None /\ proc'[m] = "none"
      /\ proc' \in [Manager -> {"none", "starting", "alive", "dead"}] /\ Access'
      /\ \A q \in Manager : q # m => entry'[q] = entry[q] /\ proc'[q] = proc[q]
  BY CleanUpEffect
<1>2. list' \in [Manager -> Seq(Manager)]
  BY DEF Shape
<1> QED
  BY <1>1, <1>2, HandlesKept

LEMMA ShapeStep ==
    ASSUME Agreed, Shape, Next
    PROVE  Shape'
<1> USE DEF Agreed
<1>0. /\ pc \in [Manager -> {"idle", "checking", "evicting", "starting", "ready", "running"}]
      /\ proc \in [Manager -> {"none", "starting", "alive", "dead"}]
      /\ list \in [Manager -> Seq(Manager)] /\ Access /\ Handles
      /\ asked \in [Manager -> Name] /\ entry \in [Manager -> Name]
  BY DEF Typed, Shape
<1>1. ASSUME NEW m \in Manager, NEW x \in Models[m], Ask(m, x) PROVE Shape'
  <2>1. /\ pc[m] = "idle" /\ asked' = [asked EXCEPT ![m] = x] /\ asked'[m] = x
        /\ UNCHANGED <<scenario, list>>
    BY <1>0, <1>1 DEF Ask, MayAsk
  <2>2. CASE model[m] \in {None, x}
    <3>1. /\ pc' = [pc EXCEPT ![m] = IF proc[m] = "alive" THEN "ready" ELSE "checking"]
          /\ UNCHANGED <<entry, proc, active, lru>>
      BY <1>1, <2>2 DEF Ask, At
    <3>2. Access'
      BY <1>0, <3>1 DEF Access, Registered
    <3>3. proc[m] # "alive" => proc[m] \in {"none", "dead"}
      BY <1>0, <2>1 DEF Handles
    <3> QED
      BY <1>0, <2>1, <3>1, <3>2, <3>3, HandlesKept DEF Handles
  <2>3. CASE model[m] \notin {None, x}
    <3>1. pc' = [pc EXCEPT ![m] = "checking"] /\ CleanUp({m})
      BY <1>1, <2>3 DEF Ask, At
    <3> QED
      BY <1>0, <2>1, <3>1, CleanedHandles
  <2> QED
    BY <2>2, <2>3
<1>2. ASSUME NEW m \in Manager, Check(m) PROVE Shape'
  <2> DEFINE result == CheckMemory(Memory[asked[m]])
  <2>1. pc[m] = "checking" /\ UNCHANGED <<scenario, asked>>
    BY <1>2 DEF Check
  <2>2. CASE result.sufficient
    <3>1. /\ pc' = [pc EXCEPT ![m] = "evicting"] /\ list' = [list EXCEPT ![m] = result.evict]
          /\ UNCHANGED <<entry, proc, active, lru>>
      BY <1>2, <2>2 DEF Check, At
    <3>2. result.evict \in Seq(Manager)
      BY <1>0, <2>2, CheckedList
    <3>3. Access'
      BY <1>0, <3>1 DEF Access, Registered
    <3>4. list' \in [Manager -> Seq(Manager)]
      BY <1>0, <3>1, <3>2
    <3> QED
      BY <1>0, <2>1, <3>1, <3>3, <3>4, HandlesKept DEF Handles
  <2>3. CASE ~result.sufficient
    <3>1. pc' = [pc EXCEPT ![m] = "idle"] /\ CleanUp({m}) /\ UNCHANGED list
      BY <1>2, <2>3 DEF Check, At
    <3> QED
      BY <1>0, <2>1, <3>1, CleanedHandles
  <2> QED
    BY <2>2, <2>3
<1>3. ASSUME NEW m \in Manager, Evict(m) PROVE Shape'
  <2>1. /\ pc[m] = "evicting" /\ list[m] # <<>> /\ CleanUp({Head(list[m])})
        /\ list' = [list EXCEPT ![m] = Tail(list[m])] /\ UNCHANGED <<scenario, pc, asked>>
    BY <1>3 DEF Evict
  <2>2. list' \in [Manager -> Seq(Manager)]
    BY <1>0, <2>1, HeadTailProperties
  <2>3. /\ \A q \in Manager : \/ entry'[q] = entry[q] /\ proc'[q] = proc[q]
                              \/ entry'[q] = None /\ proc'[q] = "none"
        /\ Access' /\ proc' \in [Manager -> {"none", "starting", "alive", "dead"}]
    BY <2>1, CleanUpEffect
  <2> QED
    BY <1>0, <2>1, <2>2, <2>3, HandlesKept DEF Handles
<1>4. ASSUME NEW m \in Manager, Spawn(m) PROVE Shape'
  <2>1. /\ pc[m] = "evicting" /\ pc' = [pc EXCEPT ![m] = "starting"]
        /\ proc' = [proc EXCEPT ![m] = "starting"] /\ UNCHANGED <<scenario, list, asked, entry, active, lru>>
    BY <1>4 DEF Spawn, At
  <2>2. Access'
    BY <1>0, <2>1 DEF Access, Registered
  <2>3. proc[m] # "alive"
    BY <1>0, <2>1 DEF Handles
  <2> QED
    BY <1>0, <2>1, <2>2, <2>3, HandlesKept DEF Handles
<1>5. ASSUME NEW m \in Manager, Started(m) PROVE Shape'
  <2>1. /\ pc' = [pc EXCEPT ![m] = "ready"] /\ proc' = [proc EXCEPT ![m] = "alive"]
        /\ UNCHANGED <<scenario, asked, list>> /\ asked[m] \in Models[m]
    BY <1>0, <1>5 DEF Started, At, Handles
  <2>2. CASE entry[m] = None
    <3>1. entry' = [entry EXCEPT ![m] = asked[m]] /\ lru' = Append(lru, m) /\ UNCHANGED active
      BY <1>5, <2>2 DEF Started, Register
    <3>2. asked[m] # None
      BY <1>0, <1>5, ResourceAssumption DEF Started, Handles
    <3>3. Registered' = Registered \cup {m} /\ m \notin Registered
      BY <1>0, <2>2, <3>1, <3>2 DEF Registered
    <3>4. lru' \in Seq(Manager) /\ IsInjective(lru') /\ ToSet(lru') = ToSet(lru) \cup {m}
      BY <1>0, <3>1, <3>3, InjectiveAppend DEF Access
    <3>5. Access'
      BY <1>0, <3>1, <3>3, <3>4 DEF Access
    <3>6. /\ entry'[m] # None /\ proc'[m] = "alive" /\ pc'[m] = "ready"
          /\ \A q \in Manager : q # m => entry'[q] = entry[q] /\ proc'[q] = proc[q] /\ pc'[q] = pc[q]
      BY <1>0, <2>1, <3>1, <3>2
    <3> QED
      BY <1>0, <2>1, <3>5, <3>6, HandlesKept
  <2>3. CASE entry[m] # None
    <3>1. UNCHANGED <<entry, active, lru>>
      BY <1>5, <2>3 DEF Started
    <3>2. Access'
      BY <1>0, <3>1 DEF Access, Registered
    <3> QED
      BY <1>0, <2>1, <2>3, <3>1, <3>2, HandlesKept
  <2> QED
    BY <2>2, <2>3
<1>6. ASSUME NEW m \in Manager, StartFails(m) PROVE Shape'
  <2>1. pc' = [pc EXCEPT ![m] = "idle"] /\ CleanUp({m}) /\ UNCHANGED <<scenario, list, asked>>
    BY <1>6 DEF StartFails, At
  <2> QED
    BY <1>0, <2>1, CleanedHandles
<1>7. ASSUME NEW m \in Manager, Execute(m) PROVE Shape'
  <2>1. /\ pc[m] = "ready" /\ pc' = [pc EXCEPT ![m] = "running"]
        /\ UNCHANGED <<scenario, list, asked, proc, entry>>
    BY <1>7 DEF Execute, At
  <2>2. Access'
    <3>1. CASE m \in Marks /\ entry[m] # None
      <4>1. active' = active \cup {m} /\ lru' = Touched(m) /\ m \in Registered
        BY <1>7, <3>1 DEF Execute, Registered
      <4> QED
        BY <1>0, <2>1, <4>1, TouchedEffect DEF Access
    <3>2. CASE ~(m \in Marks /\ entry[m] # None)
      <4>1. UNCHANGED <<active, lru>>
        BY <1>7, <3>2 DEF Execute
      <4> QED
        BY <1>0, <2>1, <4>1 DEF Access, Registered
    <3> QED
      BY <3>1, <3>2
  <2> QED
    BY <1>0, <2>1, <2>2, HandlesKept DEF Handles
<1>8. ASSUME NEW m \in Manager, EndRun(m) PROVE Shape'
  <2>1. pc[m] = "running" /\ pc' = [pc EXCEPT ![m] = "idle"] /\ UNCHANGED <<scenario, list, asked>>
    BY <1>8 DEF EndRun, At
  <2>2. CASE proc[m] # "alive"
    <3>1. CleanUp({m})
      BY <1>8, <2>2 DEF EndRun
    <3> QED
      BY <1>0, <2>1, <3>1, CleanedHandles
  <2>3. CASE proc[m] = "alive"
    <3>1. /\ active' = active \ {m} /\ lru' = (IF m \in active THEN Touched(m) ELSE lru)
          /\ UNCHANGED <<entry, proc, model>>
      BY <1>8, <2>3 DEF EndRun
    <3>2. Access'
      <4>1. CASE m \in active
        BY <1>0, <3>1, <4>1, TouchedEffect DEF Access
      <4>2. CASE m \notin active
        BY <1>0, <3>1, <4>2 DEF Access, Registered
      <4> QED
        BY <4>1, <4>2
    <3> QED
      BY <1>0, <2>1, <2>3, <3>1, <3>2, HandlesKept DEF Handles
  <2> QED
    BY <2>2, <2>3
<1>9. ASSUME NEW m \in Manager, Crash(m) PROVE Shape'
  <2>1. /\ Crashes /\ proc' = [proc EXCEPT ![m] = "dead"]
        /\ UNCHANGED <<scenario, pc, list, asked, entry, active, lru>>
    BY <1>9 DEF Crash
  <2>2. Access'
    BY <1>0, <2>1 DEF Access, Registered
  <2> QED
    BY <1>0, <2>1, <2>2, HandlesKept DEF Handles
<1> QED
  BY <1>1, <1>2, <1>3, <1>4, <1>5, <1>6, <1>7, <1>8, <1>9 DEF Next

-----------------------------------------------------------------------------
(* What a check promises. With one run at a time nobody comes between the check    *)
(* and the start: the processes on the list stay registered until it is their     *)
(* turn, those that are not leave room for one more, and what is available grows  *)
(* by what the list shrinks.                                                      *)

Single == \A m, q \in Manager : pc[m] # "idle" /\ pc[q] # "idle" => m = q

Room ==
    /\ Cardinality(Registered) <= MaxActive
    /\ \A m \in Manager :
         /\ pc[m] = "starting" => Cardinality(Registered) < MaxActive
         /\ pc[m] = "evicting" => /\ IsInjective(list[m]) /\ ToSet(list[m]) \subseteq Registered
                                  /\ Cardinality(Registered \ ToSet(list[m])) < MaxActive

Freed ==
    \A m \in Manager :
      pc[m] = "evicting" => Available + RegisteredMemory(ToSet(list[m])) >= WithHeadroom(Memory[asked[m]])

Kept ==
    /\ Agreed /\ Shape
    /\ Adhoc => Single /\ Room /\ (~Crashes => Freed)

(* Only the run that is let in moves.                                             *)
Moves(m) ==
    \/ \E x \in Models[m] : Ask(m, x)
    \/ Check(m) \/ Evict(m) \/ Spawn(m) \/ Started(m) \/ StartFails(m) \/ Execute(m) \/ EndRun(m)

LEMMA OthersIdle ==
    ASSUME Typed, Single, Adhoc, NEW m \in Manager, Moves(m)
    PROVE  /\ \A q \in Manager : q # m => pc'[q] = "idle"
           /\ Single'
<1>1. \A q \in Manager : q # m => pc[q] = "idle"
  BY DEF Single, Moves, Ask, MayAsk, Check, Evict, Spawn, Started, StartFails, Execute, EndRun
<1>2. \A q \in Manager : q # m => pc'[q] = pc[q]
  BY DEF Typed, Moves, Ask, Check, Evict, Spawn, Started, StartFails, Execute, EndRun, At
<1> QED
  BY <1>1, <1>2 DEF Single

LEMMA MaxActiveType == Shape => MaxActive \in Nat \ {0}
BY DEF Shape, Scenario, MaxActive

(* Nothing is promised once fewer are registered and nobody is about to start.     *)
LEMMA RoomKept ==
    ASSUME Shape, Room, NEW m \in Manager, UNCHANGED scenario,
           Registered' \subseteq Registered, \A q \in Manager : q # m => pc'[q] = "idle",
           pc'[m] \notin {"evicting", "starting"}
    PROVE  Room'
<1>1. Cardinality(Registered') <= Cardinality(Registered) /\ Cardinality(Registered') \in Nat
      /\ Cardinality(Registered) \in Nat
  BY RegisteredFinite
<1>2. MaxActive' = MaxActive /\ MaxActive \in Nat
  BY MaxActiveType DEF MaxActive
<1>3. Cardinality(Registered) <= MaxActive
  BY DEF Room
<1>4. Cardinality(Registered') <= MaxActive'
  BY <1>1, <1>2, <1>3
<1>5. \A q \in Manager : pc'[q] \notin {"evicting", "starting"}
  OBVIOUS
<1> QED
  BY <1>4, <1>5 DEF Room

LEMMA RoomStep ==
    ASSUME Agreed, Shape, Single, Room, Adhoc, NEW m \in Manager, Moves(m)
    PROVE  Room'
<1>0. /\ \A q \in Manager : q # m => pc'[q] = "idle"
      /\ pc \in [Manager -> {"idle", "checking", "evicting", "starting", "ready", "running"}]
      /\ list \in [Manager -> Seq(Manager)] /\ Typed
      /\ MaxActive \in Nat
  BY OthersIdle, MaxActiveType DEF Agreed, Typed, Shape
<1>c. /\ IsFiniteSet(Registered) /\ Cardinality(Registered) \in Nat
      /\ \A S \in SUBSET Registered :
           IsFiniteSet(S) /\ Cardinality(S) \in Nat /\ Cardinality(S) <= Cardinality(Registered)
  BY RegisteredFinite
<1>1. ASSUME NEW x \in Models[m], Ask(m, x) PROVE Room'
  <2>1. UNCHANGED scenario /\ pc'[m] \in {"ready", "checking"}
    BY <1>0, <1>1 DEF Ask, At
  <2>2. UNCHANGED entry \/ CleanUp({m})
    BY <1>1 DEF Ask
  <2>3. Registered' \subseteq Registered
    BY <1>0, <2>2, CleanUpEffect DEF Registered
  <2> QED
    BY <1>0, <2>1, <2>3, RoomKept
<1>2. CASE Check(m)
  <2> DEFINE need == Memory[asked[m]]
             evict == CheckMemory(need).evict
  <2>1. CASE CheckMemory(need).sufficient
    <3>1. /\ pc'[m] = "evicting" /\ list'[m] = evict /\ UNCHANGED <<scenario, entry>>
      BY <1>0, <1>2, <2>1 DEF Check, At
    <3>2. /\ evict \in Seq(Manager) /\ IsInjective(evict) /\ ToSet(evict) \subseteq Registered
          /\ Len(evict) >= OverLimit
      BY <2>1, CheckedList
    <3> HIDE DEF evict
    <3>3. Cardinality(ToSet(evict)) = Len(evict) /\ IsFiniteSet(ToSet(evict))
      BY <3>2, InjectiveLength
    <3>4. Cardinality(Registered \ ToSet(evict)) = Cardinality(Registered) - Cardinality(ToSet(evict))
      <4>1. Registered \cap ToSet(evict) = ToSet(evict)
        BY <3>2
      <4>2. Cardinality(Registered \ ToSet(evict)) = Cardinality(Registered) - Cardinality(Registered \cap ToSet(evict))
        BY <1>c, FS_Difference
      <4> QED
        BY <4>1, <4>2
    <3>5. OverLimit = IF Cardinality(Registered) >= MaxActive THEN Cardinality(Registered) - MaxActive + 1 ELSE 0
      BY AccessLength DEF OverLimit, Shape
    <3>6. Len(evict) \in Nat
      BY <3>2, LenProperties
    <3>7. Cardinality(Registered) - Len(evict) < MaxActive
      BY <1>0, <1>c, <3>2, <3>5, <3>6
    <3>8. Registered' = Registered /\ MaxActive' = MaxActive
      BY <3>1 DEF Registered, MaxActive
    <3> QED
      BY <1>0, <3>1, <3>2, <3>3, <3>4, <3>7, <3>8 DEF Room
  <2>2. CASE ~CheckMemory(need).sufficient
    <3>1. UNCHANGED scenario /\ pc'[m] = "idle" /\ CleanUp({m})
      BY <1>0, <1>2, <2>2 DEF Check, At
    <3> QED
      BY <1>0, <3>1, CleanUpEffect, RoomKept
  <2> QED
    BY <2>1, <2>2
<1>3. CASE Evict(m)
  <2> DEFINE h == Head(list[m])
  <2>1. /\ pc[m] = "evicting" /\ list[m] # <<>> /\ CleanUp({h})
        /\ list'[m] = Tail(list[m]) /\ UNCHANGED <<scenario, pc>>
    BY <1>0, <1>3 DEF Evict
  <2>2. /\ IsInjective(list[m]) /\ ToSet(list[m]) \subseteq Registered
        /\ Cardinality(Registered \ ToSet(list[m])) < MaxActive
    BY <2>1 DEF Room
  <2>3. /\ h \in ToSet(list[m]) /\ IsInjective(Tail(list[m]))
        /\ ToSet(Tail(list[m])) = ToSet(list[m]) \ {h}
    BY <1>0, <2>1, <2>2, InjectiveTail
  <2>4. Registered' = Registered \ {h}
    BY <1>0, <2>1, CleanUpEffect
  <2>5. Registered' \ ToSet(list'[m]) = Registered \ ToSet(list[m]) /\ ToSet(list'[m]) \subseteq Registered'
    BY <2>1, <2>2, <2>3, <2>4
  <2>6. Cardinality(Registered') <= MaxActive'
    <3>1. Registered \ {h} \in SUBSET Registered /\ MaxActive' = MaxActive
      BY <2>1 DEF MaxActive
    <3>2. Cardinality(Registered \ {h}) \in Nat /\ Cardinality(Registered \ {h}) <= Cardinality(Registered)
      BY <1>c, <3>1
    <3>3. Cardinality(Registered) <= MaxActive
      BY DEF Room
    <3> QED
      BY <1>0, <1>c, <2>4, <3>1, <3>2, <3>3
  <2> QED
    BY <1>0, <2>1, <2>2, <2>3, <2>5, <2>6 DEF Room, MaxActive
<1>4. CASE Spawn(m)
  <2>1. /\ pc[m] = "evicting" /\ list[m] = <<>> /\ pc'[m] = "starting" /\ UNCHANGED <<scenario, entry>>
    BY <1>0, <1>4 DEF Spawn, At
  <2>2. Registered \ ToSet(list[m]) = Registered
    BY <2>1 DEF ToSet
  <2>3. Cardinality(Registered) < MaxActive /\ Registered' = Registered /\ MaxActive' = MaxActive
    BY <2>1, <2>2 DEF Room, Registered, MaxActive
  <2> QED
    BY <1>0, <1>c, <2>1, <2>3 DEF Room
<1>5. CASE Started(m)
  <2>1. /\ pc[m] = "starting" /\ pc'[m] = "ready" /\ UNCHANGED scenario
        /\ entry' = [entry EXCEPT ![m] = asked[m]] \/ UNCHANGED entry
    BY <1>0, <1>5 DEF Started, At, Register
  <2>2. Registered' \in SUBSET (Registered \cup {m})
    BY <1>0, <2>1 DEF Registered, Typed
  <2>3. IsFiniteSet(Registered \cup {m}) /\ Cardinality(Registered \cup {m}) \in Nat
        /\ Cardinality(Registered \cup {m}) <= Cardinality(Registered) + 1
    BY <1>c, FS_AddElement, FS_CardinalityType
  <2>4. Cardinality(Registered') <= Cardinality(Registered \cup {m}) /\ Cardinality(Registered') \in Nat
    BY <2>2, <2>3, FS_Subset, FS_CardinalityType
  <2>5. Cardinality(Registered) < MaxActive /\ MaxActive' = MaxActive
    BY <2>1 DEF Room, MaxActive
  <2>6. Cardinality(Registered') <= MaxActive'
    BY <1>0, <1>c, <2>3, <2>4, <2>5
  <2>7. \A q \in Manager : pc'[q] \notin {"evicting", "starting"}
    BY <1>0, <2>1
  <2> QED
    BY <2>6, <2>7 DEF Room
<1>6. CASE StartFails(m)
  <2>1. UNCHANGED scenario /\ pc'[m] = "idle" /\ CleanUp({m})
    BY <1>0, <1>6 DEF StartFails, At
  <2> QED
    BY <1>0, <2>1, CleanUpEffect, RoomKept
<1>7. CASE Execute(m)
  <2>1. UNCHANGED <<scenario, entry>> /\ pc'[m] = "running"
    BY <1>0, <1>7 DEF Execute, At
  <2>2. Registered' = Registered
    BY <2>1 DEF Registered
  <2> QED
    BY <1>0, <2>1, <2>2, RoomKept
<1>8. CASE EndRun(m)
  <2>1. UNCHANGED scenario /\ pc'[m] = "idle" /\ (CleanUp({m}) \/ UNCHANGED entry)
    BY <1>0, <1>8 DEF EndRun, At
  <2>2. Registered' \subseteq Registered
    BY <1>0, <2>1, CleanUpEffect DEF Registered
  <2> QED
    BY <1>0, <2>1, <2>2, RoomKept
<1> QED
  BY <1>1, <1>2, <1>3, <1>4, <1>5, <1>6, <1>7, <1>8 DEF Moves

(* What the processes that are up take, and what is registered for each.          *)
Takes == [m \in Manager |-> IF proc[m] = "alive" THEN Size(model[m]) ELSE 0]
Holds == [m \in Manager |-> Size(entry[m])]

LEMMA Amounts ==
    ASSUME Typed
    PROVE  /\ Available = Total - SumFunctionOnSet(Takes, Manager)
           /\ \A S : RegisteredMemory(S) = SumFunctionOnSet(Holds, S)
           /\ Takes \in [Manager -> Nat] /\ Holds \in [Manager -> Nat]
           /\ \A S \in SUBSET Manager : IsFiniteSet(S) /\ SumFunctionOnSet(Takes, S) \in Nat
                                        /\ SumFunctionOnSet(Holds, S) \in Nat
<1>1. \A x \in Name : Size(x) \in Nat
  BY ResourceAssumption DEF Name, Size
<1>2. Takes \in [Manager -> Nat] /\ Holds \in [Manager -> Nat]
  BY <1>1 DEF Takes, Holds, Typed
<1>3. \A S \in SUBSET Manager : IsFiniteSet(S)
  BY ResourceAssumption, FS_Subset
<1>4. \A S \in SUBSET Manager : SumFunctionOnSet(Takes, S) \in Nat /\ SumFunctionOnSet(Holds, S) \in Nat
  BY <1>2, <1>3, SumType
<1>5. Available = Total - SumFunctionOnSet(Takes, Manager)
  BY DEF Available, Takes
<1>6. \A S : RegisteredMemory(S) = SumFunctionOnSet(Holds, S)
  BY DEF RegisteredMemory, Holds
<1> QED
  BY <1>2, <1>3, <1>4, <1>5, <1>6

(* An evicted process gives back just what it was listed for.                     *)
LEMMA EvictFrees ==
    ASSUME Agreed, Agreed', Shape, NEW h \in Registered, proc[h] = "alive", CleanUp({h}),
           NEW L \in SUBSET Manager, h \in L
    PROVE  Available' + RegisteredMemory(L \ {h})' = Available + RegisteredMemory(L)
<1>1. Typed /\ Typed' /\ h \in Manager /\ model[h] = entry[h]
  BY DEF Agreed, EntryNamesModel, Registered
<1>2. /\ Takes[h] = Size(model[h]) /\ Holds[h] = Size(entry[h]) /\ Takes'[h] = 0
      /\ \A m \in Manager \ {h} : Takes'[m] = Takes[m] /\ Holds'[m] = Holds[m]
  BY <1>1, CleanUpEffect DEF Takes, Holds
<1>3. /\ Takes \in [Manager -> Nat] /\ Takes' \in [Manager -> Nat] /\ Holds \in [Manager -> Nat]
      /\ IsFiniteSet(Manager \ {h}) /\ IsFiniteSet(L \ {h})
      /\ Available = Total - SumFunctionOnSet(Takes, Manager)
      /\ Available' = Total - SumFunctionOnSet(Takes', Manager)
      /\ RegisteredMemory(L) = SumFunctionOnSet(Holds, L)
      /\ RegisteredMemory(L \ {h})' = SumFunctionOnSet(Holds', L \ {h})
  <2>1. \A x \in Name : Size(x) \in Nat
    BY ResourceAssumption DEF Name, Size
  <2>2. Takes' \in [Manager -> Nat]
    BY <1>1, <2>1 DEF Takes, Typed
  <2>3. Available' = Total - SumFunctionOnSet(Takes', Manager) /\ Takes' \in [Manager -> Nat]
    BY <2>2 DEF Available, Takes
  <2>4. RegisteredMemory(L \ {h})' = SumFunctionOnSet(Holds', L \ {h})
    BY DEF RegisteredMemory, Holds
  <2> QED
    BY <1>1, <2>3, <2>4, Amounts
<1>4. SumFunctionOnSet(Takes, Manager) = SumFunctionOnSet(Takes, Manager \ {h}) + Takes[h]
  BY <1>1, <1>3, ResourceAssumption, SumRemove
<1>5. SumFunctionOnSet(Takes', Manager) = SumFunctionOnSet(Takes', Manager \ {h}) + Takes'[h]
  BY <1>1, <1>3, ResourceAssumption, SumRemove
<1>6. SumFunctionOnSet(Takes', Manager \ {h}) = SumFunctionOnSet(Takes, Manager \ {h})
  BY <1>2, <1>3, SumAgrees
<1>7. SumFunctionOnSet(Holds, L) = SumFunctionOnSet(Holds, L \ {h}) + Holds[h]
  BY <1>3, ResourceAssumption, SumRemove
<1>8. SumFunctionOnSet(Holds', L \ {h}) = SumFunctionOnSet(Holds, L \ {h})
  BY <1>2, <1>3, SumAgrees
<1>9. /\ SumFunctionOnSet(Takes, Manager \ {h}) \in Nat /\ SumFunctionOnSet(Holds, L \ {h}) \in Nat
      /\ Takes[h] \in Nat /\ Takes[h] = Holds[h] /\ Total \in Nat
  BY <1>1, <1>2, <1>3, Amounts, ResourceAssumption
<1> QED
  BY <1>2, <1>3, <1>4, <1>5, <1>6, <1>7, <1>8, <1>9

LEMMA FreedStep ==
    ASSUME Agreed, Agreed', Shape, Single, Room, Freed, Adhoc, ~Crashes, NEW m \in Manager, Moves(m)
    PROVE  Freed'
<1>0. /\ \A q \in Manager : q # m => pc'[q] = "idle"
      /\ pc \in [Manager -> {"idle", "checking", "evicting", "starting", "ready", "running"}]
      /\ list \in [Manager -> Seq(Manager)]
  BY OthersIdle DEF Agreed, Typed, Shape
<1>1. CASE pc'[m] # "evicting"
  BY <1>0, <1>1 DEF Freed
<1>2. CASE Check(m)
  <2> DEFINE need == Memory[asked[m]]
             evict == CheckMemory(need).evict
  <2>1. CASE CheckMemory(need).sufficient
    <3>1. list'[m] = evict /\ UNCHANGED <<asked, entry, proc, model>>
      BY <1>0, <1>2, <2>1 DEF Check
    <3>2. Available + RegisteredMemory(ToSet(evict)) >= WithHeadroom(need)
      BY <2>1, CheckedList
    <3> HIDE DEF evict
    <3>3. Available' = Available /\ RegisteredMemory(ToSet(list[m]))' = RegisteredMemory(ToSet(evict))
      BY <3>1 DEF Available, RegisteredMemory
    <3>4. (Available + RegisteredMemory(ToSet(list[m])) >= WithHeadroom(Memory[asked[m]]))'
      BY <3>1, <3>2, <3>3
    <3> QED
      BY <1>0, <3>4 DEF Freed
  <2>2. CASE ~CheckMemory(need).sufficient
    BY <1>0, <1>1, <1>2, <2>2 DEF Check, At
  <2> QED
    BY <2>1, <2>2
<1>3. CASE Evict(m)
  <2>a. PICK h : h = Head(list[m])
    OBVIOUS
  <2>b. PICK L : L = ToSet(list[m])
    OBVIOUS
  <2>1. /\ pc[m] = "evicting" /\ list[m] # <<>> /\ CleanUp({h})
        /\ list'[m] = Tail(list[m]) /\ UNCHANGED asked
    BY <1>0, <1>3, <2>a DEF Evict
  <2>2. IsInjective(list[m]) /\ L \subseteq Registered
    BY <2>b, <2>1 DEF Room
  <2>3. h \in L /\ ToSet(Tail(list[m])) = L \ {h}
    BY <1>0, <2>a, <2>b, <2>1, <2>2, InjectiveTail
  <2>4. h \in Registered /\ proc[h] = "alive" /\ L \in SUBSET Manager
    BY <2>2, <2>3 DEF Shape, Handles, Registered
  <2>5. Available + RegisteredMemory(L) >= WithHeadroom(Memory[asked[m]])
    BY <2>b, <2>1 DEF Freed
  <2>6. Available' + RegisteredMemory(L \ {h})' = Available + RegisteredMemory(L)
    BY <2>1, <2>3, <2>4, EvictFrees
  <2>7. RegisteredMemory(ToSet(list[m]))' = RegisteredMemory(L \ {h})'
    BY <2>1, <2>3 DEF RegisteredMemory
  <2>8. (Available + RegisteredMemory(ToSet(list[m])) >= WithHeadroom(Memory[asked[m]]))'
    BY <2>1, <2>5, <2>6, <2>7
  <2> QED
    BY <1>0, <2>8 DEF Freed
<1>4. CASE ~Check(m) /\ ~Evict(m)
  <2>1. pc'[m] # "evicting"
    BY <1>0, <1>4 DEF Moves, Ask, Spawn, Started, StartFails, Execute, EndRun, At
  <2> QED
    BY <1>1, <2>1
<1> QED
  BY <1>1, <1>2, <1>3, <1>4

LEMMA KeptStep ==
    ASSUME Kept, [Next]_vars
    PROVE  Kept'
<1>1. Agreed' /\ Agreed /\ Shape
  BY AgreedStep DEF Kept
<1>2. ASSUME NEW m \in Manager, Moves(m) PROVE Kept'
  <2>1. Next /\ UNCHANGED scenario
    BY <1>2 DEF Moves, Next, Ask, Check, Evict, Spawn, Started, StartFails, Execute, EndRun
  <2>2. Shape'
    BY <1>1, <2>1, ShapeStep
  <2>3. Adhoc' = Adhoc /\ Crashes' = Crashes
    BY <2>1 DEF Adhoc, Crashes
  <2>4. Adhoc => Single' /\ Room'
    BY <1>1, <1>2, OthersIdle, RoomStep DEF Kept, Agreed
  <2>5. Adhoc /\ ~Crashes => Freed'
    BY <1>1, <1>2, FreedStep DEF Kept
  <2> QED
    BY <1>1, <2>2, <2>3, <2>4, <2>5 DEF Kept
<1>3. ASSUME NEW m \in Manager, Crash(m) PROVE Kept'
  <2>1. /\ Crashes /\ UNCHANGED <<scenario, pc, asked, list, model, entry, active, lru>> /\ Next
    BY <1>3 DEF Crash, Next
  <2>2. Shape'
    BY <1>1, <2>1, ShapeStep
  <2>3. Adhoc' = Adhoc /\ Crashes' = Crashes
    BY <2>1 DEF Adhoc, Crashes
  <2>4. Single => Single'
    BY <2>1 DEF Single
  <2>5. Room => Room'
    BY <2>1 DEF Room, Registered, MaxActive
  <2> QED
    BY <1>1, <2>1, <2>2, <2>3, <2>4, <2>5 DEF Kept
<1>4. CASE UNCHANGED vars
  <2> USE <1>4 DEF vars
  <2>1. Shape'
    BY <1>1 DEF Shape, Access, Registered, Handles, Crashes
  <2>2. Adhoc' = Adhoc /\ Crashes' = Crashes
    BY DEF Adhoc, Crashes
  <2>3. (Single => Single') /\ (Room => Room')
    BY DEF Single, Room, Registered, MaxActive
  <2>4. Freed => Freed'
    BY DEF Freed, Available, RegisteredMemory
  <2> QED
    BY <1>1, <2>1, <2>2, <2>3, <2>4 DEF Kept
<1> QED
  BY <1>2, <1>3, <1>4 DEF Next, Moves

(* Who is up is registered, or is the one that starts.                             *)
LEMMA LimitKept ==
    ASSUME Shape, Single, Room
    PROVE  WithinLimit
<1> DEFINE up == {m \in Manager : proc[m] \in {"starting", "alive"}}
<1>1. /\ IsFiniteSet(Registered) /\ Cardinality(Registered) \in Nat /\ MaxActive \in Nat
  BY RegisteredFinite, MaxActiveType
<1>2. CASE \E m \in Manager : proc[m] = "starting"
  <2>1. PICK m \in Manager : proc[m] = "starting"
    BY <1>2
  <2>2. pc[m] = "starting" /\ Cardinality(Registered) < MaxActive
    BY <2>1 DEF Shape, Handles, Room
  <2>3. up \in SUBSET (Registered \cup {m})
    BY <2>2 DEF Shape, Handles, Single, Registered
  <2>4. IsFiniteSet(Registered \cup {m}) /\ Cardinality(Registered \cup {m}) \in Nat
        /\ Cardinality(Registered \cup {m}) <= Cardinality(Registered) + 1
    BY <1>1, FS_AddElement, FS_CardinalityType
  <2> HIDE DEF up
  <2>5. Cardinality(up) <= Cardinality(Registered \cup {m}) /\ Cardinality(up) \in Nat
    BY <2>3, <2>4, FS_Subset, FS_CardinalityType
  <2>6. Cardinality(up) <= MaxActive
    BY <1>1, <2>2, <2>4, <2>5
  <2> QED
    BY <2>6 DEF WithinLimit, up
<1>3. CASE ~\E m \in Manager : proc[m] = "starting"
  <2>1. up \in SUBSET Registered
    BY <1>3 DEF Shape, Handles, Registered
  <2> HIDE DEF up
  <2>2. Cardinality(up) <= Cardinality(Registered) /\ Cardinality(up) \in Nat
    BY <2>1, RegisteredFinite
  <2>3. Cardinality(Registered) <= MaxActive
    BY DEF Room
  <2>4. Cardinality(up) <= MaxActive
    BY <1>1, <2>2, <2>3
  <2> QED
    BY <2>4 DEF WithinLimit, up
<1> QED
  BY <1>2, <1>3

LEMMA MemoryKept ==
    ASSUME Typed, Freed
    PROVE  MemoryIsThere
<1> SUFFICES ASSUME NEW m \in Manager, pc[m] = "evicting", list[m] = <<>>
             PROVE  Available >= WithHeadroom(Memory[asked[m]])
  BY DEF MemoryIsThere
<1>1. Available + RegisteredMemory(ToSet(list[m])) >= WithHeadroom(Memory[asked[m]])
  BY DEF Freed
<1>2. ToSet(list[m]) = {}
  BY DEF ToSet
<1>3. RegisteredMemory({}) = 0
  BY Amounts, SumEmpty
<1>4. Available + 0 = Available
  <2>1. Available = Total - SumFunctionOnSet(Takes, Manager) /\ SumFunctionOnSet(Takes, Manager) \in Nat
    BY Amounts
  <2> QED
    BY <2>1, ResourceAssumption
<1> QED
  BY <1>1, <1>2, <1>3, <1>4

(* With one run at a time no more processes are up than MAX_ACTIVE_MODELS, and if *)
(* none dies by itself, the memory that check_memory_availability counted on is    *)
(* there when the list of its evictions is worked off.                             *)
THEOREM PromiseHolds == Spec => []PromiseKept
<1>1. Init => Kept
  <2> SUFFICES ASSUME Init PROVE Kept
    OBVIOUS
  <2>1. Agreed
    BY DEF Init, Agreed, Typed, EntryNamesModel, LeftFits, Name
  <2>2. Registered = {}
    BY DEF Init, Registered
  <2>3. Access
    <3>1. lru = <<>> /\ active = {}
      BY DEF Init
    <3>2. ToSet(<<>>) = {} /\ IsInjective(<<>>)
      BY DEF ToSet, IsInjective
    <3> QED
      BY <2>2, <3>1, <3>2 DEF Access
  <2>4. Shape
    BY <2>3, ResourceAssumption DEF Init, Shape, Handles
  <2>5. Single /\ Freed
    BY DEF Init, Single, Freed
  <2>6. Room
    BY <2>2, <2>4, MaxActiveType, FS_EmptySet DEF Init, Room
  <2> QED
    BY <2>1, <2>4, <2>5, <2>6 DEF Kept
<1>2. Kept /\ [Next]_vars => Kept'
  BY KeptStep
<1>3. Kept => PromiseKept
  BY LimitKept, MemoryKept DEF Kept, Agreed, PromiseKept
<1> QED
  BY <1>1, <1>2, <1>3, PTL DEF Spec
====
