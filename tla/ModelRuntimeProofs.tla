------------------------- MODULE ModelRuntimeProofs -------------------------
(***************************************************************************)
(* Proofs about a model's runtime, for any jobs, sessions and capacity,    *)
(* and whatever the environment does: crashes, failed loads, drains,       *)
(* cancellations, post-turn work and a stop, forced or not.                *)
(*                                                                         *)
(* In three parts: the queue, what the runtime promises its jobs and       *)
(* sessions, and recovery, activation and shutdown.                        *)
(***************************************************************************)
EXTENDS ModelRuntime, FiniteSetTheorems, SequenceTheorems, TLAPS

(***************************************************************************)
(* What the operations of the queue do to the jobs in it, for lanes of any *)
(* length: nothing is lost, repeated or taken from a busy session.         *)
(***************************************************************************)

\* No lane holds a job twice.
NoRepeats(lane) == \A m, n \in DOMAIN lane : lane[m] = lane[n] => m = n

-----------------------------------------------------------------------------
\* A set of positions has a smallest one.
LEMMA MinOfPositions ==
    ASSUME NEW S \in SUBSET Nat, S # {}
    PROVE  Min(S) \in S /\ \A i \in S : Min(S) <= i
<1> DEFINE less == {ss \in Nat \X Nat : ss[1] < ss[2]}
<1>1. IsWellFoundedOn(less, Nat)
  BY NatLessThanWellFounded DEF OpToRel
<1> HIDE DEF less
<1>2. PICK x \in S : \A y \in S : ~(<<y, x>> \in less)
  BY <1>1, WFMin
<1>3. ASSUME NEW y \in S PROVE x <= y
  <2>1. y \in Nat /\ x \in Nat
    OBVIOUS
  <2>2. y < x => <<y, x>> \in less
    BY <2>1 DEF less
  <2>3. QED
    BY <1>2, <2>1, <2>2
<1>4. QED
  BY <1>3 DEF Min

\* The positions kept by Erase and those of its result correspond one to one.
LEMMA ErasePositions ==
    ASSUME NEW Elem, NEW lane \in Seq(Elem), NEW gone
    PROVE  /\ Cardinality(DOMAIN lane \ gone) \in Nat
           /\ \E at \in Bijection(1..Cardinality(DOMAIN lane \ gone),
                                  DOMAIN lane \ gone) :
                \A n \in 1..Cardinality(DOMAIN lane \ gone) :
                    Erase(lane, gone)[n] = lane[at[n]]
           /\ Erase(lane, gone) \in [1..Cardinality(DOMAIN lane \ gone) -> Elem]
<1> DEFINE kept == DOMAIN lane \ gone
           UpTo(i) == {k \in kept : k <= i}
           N == Cardinality(kept)
           rank == [i \in kept |-> Cardinality(UpTo(i))]
           at == [n \in 1..N |-> CHOOSE i \in kept : Cardinality(UpTo(i)) = n]
<1>1. IsFiniteSet(kept) /\ N \in Nat /\ kept \subseteq Nat
  <2>1. DOMAIN lane = 1..Len(lane) /\ Len(lane) \in Nat
    BY LenProperties
  <2>2. IsFiniteSet(1..Len(lane))
    BY <2>1, FS_Interval
  <2>3. kept \in SUBSET (1..Len(lane))
    BY <2>1
  <2>4. IsFiniteSet(kept)
    BY <2>2, <2>3, FS_Subset
  <2>5. QED
    BY <2>1, <2>3, <2>4, FS_CardinalityType
<1>2. ASSUME NEW i \in kept
      PROVE  /\ UpTo(i) \in SUBSET kept
             /\ IsFiniteSet(UpTo(i))
             /\ Cardinality(UpTo(i)) \in 1..N
  <2>1. UpTo(i) \in SUBSET kept /\ i \in UpTo(i)
    BY <1>1
  <2>2. IsFiniteSet(UpTo(i)) /\ Cardinality(UpTo(i)) <= N
    BY <1>1, <2>1, FS_Subset
  <2>3. Cardinality(UpTo(i)) \in Nat /\ Cardinality(UpTo(i)) # 0
    BY <2>1, <2>2, FS_CardinalityType, FS_EmptySet
  <2>4. QED
    BY <1>1, <2>1, <2>2, <2>3
<1>3. ASSUME NEW i \in kept, NEW k \in kept, i < k
      PROVE  Cardinality(UpTo(i)) # Cardinality(UpTo(k))
  <2>1. UpTo(i) \in SUBSET UpTo(k) /\ k \notin UpTo(i) /\ k \in UpTo(k)
    BY <1>1, <1>3
  <2>2. UpTo(i) # UpTo(k)
    BY <2>1
  <2>3. QED
    BY <1>2, <2>1, <2>2, FS_Subset
<1>4. rank \in Injection(kept, 1..N)
  <2>1. rank \in [kept -> 1..N]
    BY <1>2
  <2>2. ASSUME NEW i \in kept, NEW k \in kept, rank[i] = rank[k] PROVE i = k
    BY <1>1, <1>3, <2>2
  <2>3. QED
    BY <2>1, <2>2 DEF Injection, IsInjective
<1>5. rank \in Surjection(kept, 1..N)
  <2>1. IsFiniteSet(1..N) /\ Cardinality(1..N) = N
    BY <1>1, FS_Interval
  <2>2. QED
    BY <1>4, <2>1, FS_Injection
<1>6. \A n \in 1..N : at[n] \in kept /\ rank[at[n]] = n
  <2>1. ASSUME NEW n \in 1..N PROVE \E i \in kept : Cardinality(UpTo(i)) = n
    BY <1>5 DEF Surjection
  <2>2. QED
    BY <2>1
<1>7. \A i \in kept : at[rank[i]] = i
  <2> TAKE i \in kept
  <2>1. rank[i] \in 1..N
    BY <1>2
  <2>2. at[rank[i]] \in kept /\ rank[at[rank[i]]] = rank[i]
    BY <1>6, <2>1
  <2>3. QED
    BY <1>4, <2>2 DEF Injection, IsInjective
<1>8. at \in Bijection(1..N, kept)
  <2>1. at \in [1..N -> kept]
    BY <1>6
  <2>2. \A m, n \in 1..N : at[m] = at[n] => m = n
    BY <1>6
  <2>3. \A i \in kept : \E n \in 1..N : at[n] = i
    BY <1>2, <1>7
  <2>4. QED
    BY <2>1, <2>2, <2>3 DEF Bijection, Injection, Surjection, IsInjective
<1>9. /\ Erase(lane, gone) = [n \in 1..N |-> lane[at[n]]]
      /\ \A n \in 1..N : Erase(lane, gone)[n] = lane[at[n]]
  BY DEF Erase
<1>10. Erase(lane, gone) \in [1..N -> Elem]
  <2>1. \A i \in kept : lane[i] \in Elem
    BY ElementOfSeq, LenProperties
  <2>2. \A n \in 1..N : lane[at[n]] \in Elem
    BY <1>6, <2>1
  <2> HIDE DEF at, N
  <2>3. QED
    BY <1>9, <2>2
<1>11. QED
  BY <1>1, <1>8, <1>9, <1>10

\* What Erase leaves: the jobs at the other positions, each as often as it was.
LEMMA EraseKeeps ==
    ASSUME NEW Elem, NEW lane \in Seq(Elem), NEW gone
    PROVE  /\ Erase(lane, gone) \in Seq(Elem)
           /\ ToSet(Erase(lane, gone)) = {lane[i] : i \in DOMAIN lane \ gone}
           /\ NoRepeats(lane) => NoRepeats(Erase(lane, gone))
<1> DEFINE kept == DOMAIN lane \ gone
           N == Cardinality(kept)
<1>1. PICK at \in Bijection(1..N, kept) :
         \A n \in 1..N : Erase(lane, gone)[n] = lane[at[n]]
  BY ErasePositions
<1>2. N \in Nat /\ Erase(lane, gone) \in [1..N -> Elem]
  BY ErasePositions
<1>3. /\ at \in [1..N -> kept]
      /\ \A m, n \in 1..N : at[m] = at[n] => m = n
      /\ \A i \in kept : \E n \in 1..N : at[n] = i
  BY DEF Bijection, Injection, Surjection, IsInjective
<1>4. \A i \in DOMAIN lane : lane[i] \in Elem
  BY ElementOfSeq, LenProperties
<1> HIDE DEF N, kept
<1>5. kept \subseteq DOMAIN lane /\ kept = DOMAIN lane \ gone
  BY DEF kept
<1>7. Erase(lane, gone) \in Seq(Elem)
  BY <1>2, SeqDef
<1>8. ToSet(Erase(lane, gone)) = {lane[i] : i \in kept}
  BY <1>1, <1>2, <1>3 DEF ToSet
<1>9. NoRepeats(lane) => NoRepeats(Erase(lane, gone))
  BY <1>1, <1>2, <1>3, <1>5 DEF NoRepeats
<1>10. QED
  BY <1>5, <1>7, <1>8, <1>9

-----------------------------------------------------------------------------
\* What the three lanes of a queue look like: a job is in the lane of its priority,
\* once.
WellFormed(queue) ==
    /\ queue \in [Lane -> Seq(Job)]
    /\ \A l \in Lane : /\ NoRepeats(queue[l])
                       /\ \A j \in ToSet(queue[l]) : LaneOf[j] = l

LEMMA LaneRanks == \A l \in Lane : \E p \in 1..3 : LaneOrder[p] = l
BY DEF Lane, Range, LaneOrder

LEMMA LaneOrderLen == Len(LaneOrder) = 3 /\ DOMAIN LaneOrder = 1..3
                        /\ \A p \in 1..3 : LaneOrder[p] \in Lane
BY DEF Lane, Range, LaneOrder

\* The queued jobs, lane by lane.
LEMMA QueuedAt ==
    ASSUME NEW queue, WellFormed(queue)
    PROVE  /\ Queued(queue) \subseteq Job
           /\ \A l \in Lane : \A j :
                 j \in ToSet(queue[l]) <=> j \in Queued(queue) /\ LaneOf[j] = l
<1>1. \A l \in Lane : ToSet(queue[l]) \subseteq Job
  BY DEF WellFormed, ToSet
<1>2. QED
  BY <1>1 DEF WellFormed, Queued

\* Erasing positions from every lane keeps the lanes well-formed and the other jobs.
LEMMA EraseLanes ==
    ASSUME NEW queue, WellFormed(queue), NEW after, NEW gone,
           after = [l \in Lane |-> Erase(queue[l], gone[l])]
    PROVE  /\ WellFormed(after)
           /\ Queued(after) \subseteq Queued(queue)
           /\ \A l \in Lane : \A i \in DOMAIN queue[l] :
                queue[l][i] \in Queued(after) <=> i \notin gone[l]
<1>1. ASSUME NEW l \in Lane
      PROVE  /\ queue[l] \in Seq(Job)
             /\ after[l] \in Seq(Job)
             /\ NoRepeats(after[l])
             /\ ToSet(after[l]) = {queue[l][i] : i \in DOMAIN queue[l] \ gone[l]}
  BY EraseKeeps DEF WellFormed
<1>2. after \in [Lane -> Seq(Job)]
  BY <1>1
<1>3. \A l \in Lane : ToSet(after[l]) \subseteq ToSet(queue[l])
  <2> TAKE l \in Lane
  <2>1. ToSet(queue[l]) = {queue[l][i] : i \in DOMAIN queue[l]}
    BY DEF ToSet
  <2>2. QED
    BY <1>1, <2>1
<1>4. WellFormed(after)
  BY <1>1, <1>2, <1>3 DEF WellFormed
<1>5. Queued(after) \subseteq Queued(queue)
  BY <1>3 DEF Queued
<1>6. ASSUME NEW l \in Lane, NEW i \in DOMAIN queue[l]
      PROVE  queue[l][i] \in Queued(after) <=> i \notin gone[l]
  <2>1. queue[l][i] \in ToSet(queue[l])
    BY DEF ToSet
  <2>2. LaneOf[queue[l][i]] = l
    BY <2>1 DEF WellFormed
  <2>3. queue[l][i] \in Queued(after) <=> queue[l][i] \in ToSet(after[l])
    BY <1>4, <2>2, QueuedAt
  <2>4. queue[l][i] \in ToSet(after[l]) <=> i \notin gone[l]
    BY <1>1 DEF WellFormed, NoRepeats
  <2>5. QED
    BY <2>3, <2>4
<1>7. QED
  BY <1>4, <1>5, <1>6

-----------------------------------------------------------------------------
\* push adds the job to the queue, behind those of its lane; a job that is queued
\* is never pushed again.
LEMMA PushAdds ==
    ASSUME NEW queue, WellFormed(queue), NEW j \in Job, j \notin Queued(queue)
    PROVE  /\ WellFormed(Push(queue, j))
           /\ Queued(Push(queue, j)) = Queued(queue) \cup {j}
<1> DEFINE own == LaneOf[j]
           after == Push(queue, j)
<1>1. own \in Lane
  BY QueueAssumption
<1>2. /\ queue[own] \in Seq(Job)
      /\ j \notin ToSet(queue[own])
  BY <1>1 DEF WellFormed, Queued
<1>3. /\ after \in [Lane -> Seq(Job)]
      /\ after[own] = Append(queue[own], j)
      /\ \A l \in Lane \ {own} : after[l] = queue[l]
  BY <1>1, <1>2, AppendProperties DEF WellFormed, Push
<1> DEFINE len == Len(queue[own])
<1>4. /\ len \in Nat
      /\ DOMAIN queue[own] = 1..len
      /\ DOMAIN after[own] = 1..(len + 1)
      /\ after[own][len + 1] = j
      /\ \A n \in 1..len : after[own][n] = queue[own][n]
  BY <1>2, <1>3, AppendProperties, LenProperties
<1> HIDE DEF own, after, len
<1>5. ToSet(after[own]) = ToSet(queue[own]) \cup {j}
  <2>1. ToSet(after[own]) \subseteq ToSet(queue[own]) \cup {j}
    <3> SUFFICES ASSUME NEW n \in 1..(len + 1)
                 PROVE  after[own][n] \in ToSet(queue[own]) \cup {j}
      BY <1>4 DEF ToSet
    <3>1. CASE n \in 1..len
      BY <1>4, <3>1 DEF ToSet
    <3>2. CASE n = len + 1
      BY <1>4, <3>2
    <3>3. QED
      BY <1>4, <3>1, <3>2
  <2>2. j \in ToSet(after[own])
    BY <1>4 DEF ToSet
  <2>3. ASSUME NEW n \in 1..len PROVE queue[own][n] \in ToSet(after[own])
    <3>1. n \in 1..(len + 1)
      BY <1>4
    <3>2. QED
      BY <1>4, <3>1 DEF ToSet
  <2>4. ToSet(queue[own]) \subseteq ToSet(after[own])
    BY <1>4, <2>3 DEF ToSet
  <2>5. QED
    BY <2>1, <2>2, <2>4
<1>6. NoRepeats(after[own])
  <2>1. \A n \in 1..len : queue[own][n] # j
    BY <1>2, <1>4 DEF ToSet
  <2>2. NoRepeats(queue[own])
    BY <1>1 DEF WellFormed
  <2>3. QED
    BY <1>4, <2>1, <2>2 DEF NoRepeats
<1>7. WellFormed(after)
  <2> SUFFICES ASSUME NEW l \in Lane
               PROVE  /\ NoRepeats(after[l])
                      /\ \A k \in ToSet(after[l]) : LaneOf[k] = l
    BY <1>3 DEF WellFormed
  <2>1. NoRepeats(queue[l]) /\ \A k \in ToSet(queue[l]) : LaneOf[k] = l
    BY DEF WellFormed
  <2>2. LaneOf[j] = own
    BY DEF own
  <2>3. CASE l = own
    BY <1>5, <1>6, <2>1, <2>2, <2>3
  <2>4. CASE l # own
    BY <1>3, <2>1, <2>4
  <2>5. QED
    BY <2>3, <2>4
<1>8. Queued(after) = Queued(queue) \cup {j}
  <2>1. \A l \in Lane : ToSet(after[l]) =
                            IF l = own THEN ToSet(queue[l]) \cup {j} ELSE ToSet(queue[l])
    BY <1>3, <1>5
  <2>2. QED
    BY <1>1, <2>1 DEF Queued
<1>9. QED
  BY <1>7, <1>8 DEF after

\* cancel and expireOlderThan take exactly the jobs they are after.
LEMMA RemoveTakes ==
    ASSUME NEW queue, WellFormed(queue), NEW gone
    PROVE  /\ WellFormed(RemoveJobs(queue, gone))
           /\ Queued(RemoveJobs(queue, gone)) = Queued(queue) \ gone
<1> DEFINE at == [l \in Lane |-> {i \in DOMAIN queue[l] : queue[l][i] \in gone}]
           after == RemoveJobs(queue, gone)
<1>1. after = [l \in Lane |-> Erase(queue[l], at[l])]
  BY DEF RemoveJobs
<1>2. /\ WellFormed(after)
      /\ Queued(after) \subseteq Queued(queue)
      /\ \A l \in Lane : \A i \in DOMAIN queue[l] :
            queue[l][i] \in Queued(after) <=> i \notin at[l]
  <2> HIDE DEF after, at
  <2>1. QED
    BY <1>1, EraseLanes
<1>3. ASSUME NEW j \in Queued(queue) PROVE j \in Queued(after) <=> j \notin gone
  <2>1. PICK l \in Lane : \E i \in DOMAIN queue[l] : queue[l][i] = j
    BY DEF Queued, ToSet
  <2>2. PICK i \in DOMAIN queue[l] : queue[l][i] = j
    BY <2>1
  <2>3. j \in Queued(after) <=> i \notin at[l]
    BY <1>2, <2>2
  <2>4. QED
    BY <2>2, <2>3
<1>4. QED
  BY <1>2, <1>3

\* The job popIf returns: the first eligible one of the first lane that has one.
LEMMA PopIfFirst ==
    ASSUME NEW queue, WellFormed(queue), NEW dropped, NEW busy,
           PopIfJob(queue, dropped, busy) # NoJob
    PROVE  \E p \in 1..3 : \E i \in DOMAIN queue[LaneOrder[p]] :
              /\ p = Min(PopRank(queue, dropped, busy))
              /\ PopRank(queue, dropped, busy) # {}
              /\ i = Min(Eligible(queue[LaneOrder[p]], dropped, busy))
              /\ queue[LaneOrder[p]][i] = PopIfJob(queue, dropped, busy)
              /\ queue[LaneOrder[p]][i] \notin dropped \cup busy
              /\ \A q \in 1..3 : q < p =>
                    \A n \in DOMAIN queue[LaneOrder[q]] :
                        queue[LaneOrder[q]][n] \in dropped \cup busy
              /\ \A n \in DOMAIN queue[LaneOrder[p]] :
                    n < i => queue[LaneOrder[p]][n] \in dropped \cup busy
<1> DEFINE rank == PopRank(queue, dropped, busy)
           p == Min(rank)
           ready(q) == Eligible(queue[LaneOrder[q]], dropped, busy)
           i == Min(ready(p))
<1>1. rank # {} /\ rank \in SUBSET Nat /\ rank \subseteq 1..3
  BY LaneOrderLen DEF PopIfJob, PopRank
<1>2. p \in rank /\ \A q \in rank : p <= q
  BY <1>1, MinOfPositions
<1>3. \A q \in 1..3 : /\ queue[LaneOrder[q]] \in Seq(Job)
                      /\ DOMAIN queue[LaneOrder[q]] = 1..Len(queue[LaneOrder[q]])
                      /\ Len(queue[LaneOrder[q]]) \in Nat
  BY LaneOrderLen, LenProperties DEF WellFormed
<1>4. \A q \in 1..3 : /\ ready(q) \in SUBSET Nat
                      /\ ready(q) \subseteq DOMAIN queue[LaneOrder[q]]
                      /\ q \in rank <=> ready(q) # {}
  BY <1>3, LaneOrderLen DEF Eligible, PopRank
<1>5. i \in ready(p) /\ \A n \in ready(p) : i <= n
  BY <1>1, <1>2, <1>4, MinOfPositions
<1>6. queue[LaneOrder[p]][i] = PopIfJob(queue, dropped, busy)
  BY <1>1 DEF PopIfJob
<1>7. \A q \in 1..3 : \A n \in DOMAIN queue[LaneOrder[q]] :
         n \in ready(q) <=> queue[LaneOrder[q]][n] \notin dropped \cup busy
  BY <1>3 DEF Eligible
<1> HIDE DEF rank, p, ready, i
<1>8. p \in 1..3 /\ i \in DOMAIN queue[LaneOrder[p]]
  BY <1>1, <1>2, <1>4, <1>5
<1>9. \A q \in 1..3 : q < p => \A n \in DOMAIN queue[LaneOrder[q]] :
                                  queue[LaneOrder[q]][n] \in dropped \cup busy
  BY <1>2, <1>4, <1>7, <1>8
<1>10. \A n \in DOMAIN queue[LaneOrder[p]] :
          n < i => queue[LaneOrder[p]][n] \in dropped \cup busy
  BY <1>3, <1>5, <1>7, <1>8
<1>11. QED
  BY <1>1, <1>5, <1>6, <1>7, <1>8, <1>9, <1>10 DEF rank, p, ready, i

\* popIf never returns a job that is not queued, is cancelled, or is of a busy
\* session.
THEOREM PopIfReturnsQueued ==
    ASSUME NEW queue, WellFormed(queue), NEW dropped, NEW busy,
           PopIfJob(queue, dropped, busy) # NoJob
    PROVE  /\ PopIfJob(queue, dropped, busy) \in Queued(queue)
           /\ PopIfJob(queue, dropped, busy) \notin dropped \cup busy
<1>1. PICK p \in 1..3 : \E i \in DOMAIN queue[LaneOrder[p]] :
         /\ queue[LaneOrder[p]][i] = PopIfJob(queue, dropped, busy)
         /\ queue[LaneOrder[p]][i] \notin dropped \cup busy
  BY PopIfFirst
<1>2. LaneOrder[p] \in Lane
  BY LaneOrderLen
<1>3. PopIfJob(queue, dropped, busy) \in ToSet(queue[LaneOrder[p]])
  BY <1>1 DEF ToSet
<1>4. QED
  BY <1>1, <1>2, <1>3 DEF Queued

\* popIf loses no job but the one it returns and cancelled ones, and puts none back.
THEOREM PopIfKeepsOthers ==
    ASSUME NEW queue, WellFormed(queue), NEW dropped, NEW busy,
           NEW job, job = PopIfJob(queue, dropped, busy),
           NEW after, after = PopIfLanes(queue, dropped, busy)
    PROVE  /\ WellFormed(after)
           /\ Queued(after) \subseteq Queued(queue) \ {job}
           /\ Queued(queue) \ (dropped \cup {job}) \subseteq Queued(after)
<1> DEFINE rankOf(l) == CHOOSE p \in DOMAIN LaneOrder : LaneOrder[p] = l
           scanned(l) == Scanned(queue, dropped, busy, rankOf(l))
           at == [l \in Lane |->
                    {i \in scanned(l) : queue[l][i] \in dropped \cup {job}}]
<1>1. after = [l \in Lane |-> Erase(queue[l], at[l])]
  BY DEF PopIfLanes
<1>2. \A l \in Lane : rankOf(l) \in 1..3 /\ LaneOrder[rankOf(l)] = l
  BY LaneRanks, LaneOrderLen
<1>3. /\ WellFormed(after)
      /\ Queued(after) \subseteq Queued(queue)
      /\ \A l \in Lane : \A i \in DOMAIN queue[l] :
            queue[l][i] \in Queued(after) <=> i \notin at[l]
  <2> HIDE DEF at
  <2>1. QED
    BY <1>1, EraseLanes
<1>4. ASSUME NEW k \in Queued(queue), k \notin dropped \cup {job}
      PROVE  k \in Queued(after)
  <2>1. PICK l \in Lane : \E i \in DOMAIN queue[l] : queue[l][i] = k
    BY DEF Queued, ToSet
  <2>2. PICK i \in DOMAIN queue[l] : queue[l][i] = k
    BY <2>1
  <2>3. i \notin at[l]
    BY <1>4, <2>2
  <2>4. QED
    BY <1>3, <2>2, <2>3
<1>5. ASSUME job \in Queued(after) PROVE FALSE
  <2>1. job # NoJob
    BY <1>3, <1>5, QueuedAt, QueueAssumption
  <2>2. PICK p \in 1..3 : \E i \in DOMAIN queue[LaneOrder[p]] :
           /\ p = Min(PopRank(queue, dropped, busy))
           /\ i = Min(Eligible(queue[LaneOrder[p]], dropped, busy))
           /\ queue[LaneOrder[p]][i] = job
    BY <2>1, PopIfFirst
  <2>3. PICK i \in DOMAIN queue[LaneOrder[p]] :
           /\ p = Min(PopRank(queue, dropped, busy))
           /\ i = Min(Eligible(queue[LaneOrder[p]], dropped, busy))
           /\ queue[LaneOrder[p]][i] = job
    BY <2>2
  <2>4. LaneOrder[p] \in Lane /\ rankOf(LaneOrder[p]) = p
    <3>1. \A q, r \in 1..3 : LaneOrder[q] = LaneOrder[r] => q = r
      BY DEF LaneOrder
    <3>2. QED
      BY <1>2, <3>1, LaneOrderLen
  <2>5. i \in Nat
    BY <2>4, LenProperties DEF WellFormed
  <2>6. i \in Scanned(queue, dropped, busy, p)
    BY <2>3, <2>5 DEF Scanned
  <2>7. i \in at[LaneOrder[p]]
    BY <2>3, <2>4, <2>6
  <2>8. QED
    BY <1>3, <1>5, <2>3, <2>4, <2>7
<1>6. QED
  BY <1>3, <1>4, <1>5

\* The queue is served in order: what is ahead of the job popIf returns, in a higher
\* lane or earlier in its own, is cancelled or of a busy session.
THEOREM PopIfInOrder ==
    ASSUME NEW queue, WellFormed(queue), NEW dropped, NEW busy,
           PopIfJob(queue, dropped, busy) # NoJob,
           NEW k, Ahead(queue, k, PopIfJob(queue, dropped, busy))
    PROVE  k \in dropped \cup busy
<1> DEFINE job == PopIfJob(queue, dropped, busy)
<1>1. PICK p \in 1..3 : \E i \in DOMAIN queue[LaneOrder[p]] :
         /\ queue[LaneOrder[p]][i] = job
         /\ \A q \in 1..3 : q < p =>
               \A n \in DOMAIN queue[LaneOrder[q]] :
                   queue[LaneOrder[q]][n] \in dropped \cup busy
         /\ \A n \in DOMAIN queue[LaneOrder[p]] :
               n < i => queue[LaneOrder[p]][n] \in dropped \cup busy
  BY PopIfFirst
<1>2. PICK i \in DOMAIN queue[LaneOrder[p]] :
         /\ queue[LaneOrder[p]][i] = job
         /\ \A n \in DOMAIN queue[LaneOrder[p]] :
               n < i => queue[LaneOrder[p]][n] \in dropped \cup busy
  BY <1>1
<1>3. PICK r, q \in 1..3 :
         \E m \in DOMAIN queue[LaneOrder[r]], n \in DOMAIN queue[LaneOrder[q]] :
            /\ queue[LaneOrder[r]][m] = k
            /\ queue[LaneOrder[q]][n] = job
            /\ r < q \/ (r = q /\ m < n)
  BY LaneOrderLen DEF Ahead
<1>4. PICK m \in DOMAIN queue[LaneOrder[r]], n \in DOMAIN queue[LaneOrder[q]] :
            /\ queue[LaneOrder[r]][m] = k
            /\ queue[LaneOrder[q]][n] = job
            /\ r < q \/ (r = q /\ m < n)
  BY <1>3
<1>5. /\ LaneOrder[p] \in Lane /\ LaneOrder[q] \in Lane
      /\ LaneOrder[p] = LaneOrder[q] => p = q
  BY LaneOrderLen DEF LaneOrder
<1>6. LaneOf[job] = LaneOrder[p] /\ LaneOf[job] = LaneOrder[q]
  BY <1>2, <1>4, <1>5 DEF WellFormed, ToSet
<1>7. p = q /\ i = n
  BY <1>2, <1>4, <1>5, <1>6 DEF WellFormed, NoRepeats
<1>8. QED
  BY <1>1, <1>2, <1>4, <1>7

(***************************************************************************)
(* The jobs and sessions of a runtime.                                     *)
(***************************************************************************)

\* The queue: only a job that has left it is cancelled, so popIf erases nothing but
\* what it returns.
QueueInv ==
    /\ WellFormed(lanes)
    /\ NoSilentDrop
    /\ \A j \in cancelled : j \in Job /\ jobs[j].pc \notin {"new", "queued"}

RunningInFlight ==
    \A j \in Job : j \in rt.running_jobs <=> jobs[j].pc \in InFlight

SessionInv ==
    /\ OneJobPerSession
    /\ rt.active_sessions = {SessionOf[j] : j \in rt.running_jobs}

\* The executor leaves its loop only when no job runs, and retries a load once.
ExecutorInv ==
    /\ executor.pc = "acquire" => executor.attempt \in {0, 1}
    /\ executor.purpose = "exit" =>
          executor.pc \in {"reclaim", "reclaiming", "unloaded", "released",
                           "failQueued", "exitLast", "ended"}
    /\ executor.purpose = "exit"
          \/ executor.pc \in {"joinPostTurn", "exitLast", "ended"}
       => rt.running_jobs = {}

\* Where a job is once it has been answered.
Answering == {"resetting", "ending", "endingEarly", "done"} \cup Finishing

\* A forced stop sets the cancelled flags of running jobs without telling anybody;
\* otherwise a cancelled job has been answered.
AnsweredInv ==
    /\ stopper \in {"none", "join", "joinForce"} => ~rt.force_stop
    /\ \/ rt.force_stop
       \/ \A j \in Job : j \in cancelled \/ jobs[j].pc \in Answering
                            => answered[j] # {}

\* Every job and every piece of post-turn work needs a handle of the worker, and a
\* session has one of either: the runtime never has more sessions under way than
\* the backend has handles.
CapacityBound ==
    Cardinality(rt.active_sessions \cup rt.post_turn_sessions) <= rt.max_concurrent

HandleInv ==
    /\ IsFiniteSet(rt.running_jobs)
    /\ IsFiniteSet(rt.post_turn_sessions)
    /\ CapacityBound

\* The inductive invariant.
Inv ==
    /\ TypeOK /\ QueueInv /\ RunningInFlight /\ SessionInv /\ ExecutorInv
    /\ LoadOrDrain /\ AnsweredInv /\ HandleInv

-----------------------------------------------------------------------------
LEMMA NoneCancelled ==
    ASSUME QueueInv
    PROVE  Queued(lanes) \subseteq Job /\ Queued(lanes) \cap cancelled = {}
<1>1. Queued(lanes) \subseteq Job
  BY QueuedAt DEF QueueInv
<1>2. ASSUME NEW j \in Queued(lanes), j \in cancelled PROVE FALSE
  BY <1>1, <1>2, Zenon DEF QueueInv, NoSilentDrop
<1>3. QED
  BY <1>1, <1>2

\* What the admission of a job does, to the queue and to the runtime.
LEMMA AdmitJobEffect ==
    ASSUME QueueInv, AdmitJob
    PROVE  \E j \in Job :
              /\ j \in Queued(lanes)
              /\ WellFormed(lanes')
              /\ Queued(lanes') = Queued(lanes) \ {j}
              /\ SessionOf[j] \notin rt.active_sessions \cup rt.post_turn_sessions
              /\ jobs' = [jobs EXCEPT ![j].pc = "admitted"]
              /\ rt' = [rt EXCEPT !.running_jobs = @ \cup {j},
                                  !.active_sessions = @ \cup {SessionOf[j]},
                                  !.state = "Running"]
<1>1. PICK j \in Job :
         /\ j = PopIfJob(lanes, cancelled, SessionBusy)
         /\ lanes' = PopIfLanes(lanes, cancelled, SessionBusy)
         /\ jobs' = [jobs EXCEPT ![j].pc = "admitted"]
         /\ rt' = [rt EXCEPT !.running_jobs = @ \cup {j},
                             !.active_sessions = @ \cup {SessionOf[j]},
                             !.state = "Running"]
  BY DEF AdmitJob, SetJob
<1>2. j # NoJob
  BY QueueAssumption
<1>3. j \in Queued(lanes) /\ j \notin SessionBusy
  BY <1>1, <1>2, PopIfReturnsQueued DEF QueueInv
<1>4. /\ WellFormed(lanes')
      /\ Queued(lanes') \subseteq Queued(lanes) \ {j}
      /\ Queued(lanes) \ (cancelled \cup {j}) \subseteq Queued(lanes')
  BY <1>1, PopIfKeepsOthers DEF QueueInv
<1>5. Queued(lanes') = Queued(lanes) \ {j}
  BY <1>4, NoneCancelled
<1>6. QED
  BY <1>1, <1>3, <1>4, <1>5 DEF SessionBusy

\* An admission that finds no job leaves the queue as it is.
LEMMA EndAdmissionEffect ==
    ASSUME QueueInv, EndAdmission
    PROVE  WellFormed(lanes') /\ Queued(lanes') = Queued(lanes)
<1>1. CASE lanes' = lanes
  BY <1>1 DEF QueueInv
<1>2. CASE /\ NoJob = PopIfJob(lanes, cancelled, SessionBusy)
           /\ lanes' = PopIfLanes(lanes, cancelled, SessionBusy)
  <2>1. /\ WellFormed(lanes')
        /\ Queued(lanes') \subseteq Queued(lanes) \ {NoJob}
        /\ Queued(lanes) \ (cancelled \cup {NoJob}) \subseteq Queued(lanes')
    BY <1>2, PopIfKeepsOthers DEF QueueInv
  <2>2. NoJob \notin Queued(lanes)
    BY NoneCancelled, QueueAssumption
  <2>3. QED
    BY <2>1, <2>2, NoneCancelled
<1>3. QED
  BY <1>1, <1>2 DEF EndAdmission

LEMMA EmptyQueue == WellFormed(EmptyLanes) /\ Queued(EmptyLanes) = {}
<1>1. \A l \in Lane : EmptyLanes[l] = <<>>
  BY DEF EmptyLanes
<1>2. EmptyLanes \in [Lane -> Seq(Job)]
  BY EmptySeq DEF EmptyLanes
<1>3. ToSet(<<>>) = {} /\ NoRepeats(<<>>)
  BY DEF ToSet, NoRepeats
<1>4. QED
  BY <1>1, <1>2, <1>3 DEF WellFormed, Queued

\* What the end of a job does to the runtime, at either exit of runJobEntry.
LEMMA LeaveEffect ==
    ASSUME TypeOK, NEW j \in Job, EndJob(j) \/ EndEarlyCancelled(j)
    PROVE  /\ jobs[j].pc \in {"ending", "endingEarly"}
           /\ rt' \in RuntimeRecord
           /\ rt'.running_jobs = rt.running_jobs \ {j}
           /\ rt'.active_sessions = rt.active_sessions \ {SessionOf[j]}
           /\ rt'.post_turn_sessions = rt.post_turn_sessions
           /\ rt'.max_concurrent = rt.max_concurrent
           /\ rt'.force_stop = rt.force_stop
           /\ rt'.activation_requested = rt.activation_requested
           /\ rt'.drain_mode = rt.drain_mode
           /\ rt'.stop_requested = rt.stop_requested
           /\ \E b \in BOOLEAN :
                jobs' = [jobs EXCEPT ![j] = [pc |-> "finished", recover |-> b]]
<1> DEFINE Left(r) ==
             /\ r \in RuntimeRecord
             /\ r.running_jobs = rt.running_jobs \ {j}
             /\ r.active_sessions = rt.active_sessions \ {SessionOf[j]}
             /\ r.post_turn_sessions = rt.post_turn_sessions
             /\ r.max_concurrent = rt.max_concurrent
             /\ r.force_stop = rt.force_stop
             /\ r.activation_requested = rt.activation_requested
             /\ r.drain_mode = rt.drain_mode
             /\ r.stop_requested = rt.stop_requested
<1>1. Left(WithoutJob(j))
  BY DEF WithoutJob, RuntimeRecord, TypeOK
<1>2. Left([WithoutJob(j) EXCEPT
              !.backend_healthy = FALSE,
              !.recovery_in_progress = TRUE,
              !.state = IF rt.stop_requested THEN @ ELSE "Evicting"])
  BY <1>1 DEF RuntimeRecord, State
<1>3. \E r, b : Left(r) /\ LastJobOut(j, r, b)
  <2> HIDE DEF Left
  <2>1. QED
    BY <1>1, <1>2 DEF EndJob, EndEarlyCancelled
<1>4. ASSUME NEW r, NEW b, Left(r), LastJobOut(j, r, b)
      PROVE  /\ Left(rt')
             /\ \E c \in BOOLEAN :
                  jobs' = [jobs EXCEPT ![j] = [pc |-> "finished", recover |-> c]]
  <2>1. rt' \in {r, [r EXCEPT !.recovery_in_progress = FALSE],
                 [r EXCEPT !.state = "Draining"], [r EXCEPT !.state = "Idle"]}
    BY <1>4 DEF LastJobOut, DrainedOrIdle
  <2>2. Left(rt')
    BY <1>4, <2>1 DEF RuntimeRecord, State
  <2>3. StartsRecovery(r) \in BOOLEAN
    BY <1>4 DEF StartsRecovery
  <2>4. QED
    BY <1>4, <2>2, <2>3 DEF LastJobOut
<1>5. jobs[j].pc \in {"ending", "endingEarly"}
  BY DEF EndJob, EndEarlyCancelled
<1>6. QED
  BY <1>3, <1>4, <1>5

-----------------------------------------------------------------------------
\* A job's thread moves that job only, and neither back into the queue nor to and fro.
LEMMA JobThreadEffect ==
    ASSUME TypeOK, NEW j \in Job, JobThread(j)
    PROVE  /\ UNCHANGED <<lanes, unnotified, cancelled, stopper>>
           /\ jobs[j].pc \in InFlight \cup Finishing
           /\ jobs' = [jobs EXCEPT ![j] = jobs'[j]]
           /\ jobs'[j].pc \in InFlight \cup Finishing \cup {"done"}
           /\ jobs'[j] \in JobRecord
<1>1. CASE StartJob(j)
  <2>1. \/ jobs' = [jobs EXCEPT ![j].pc = "endingEarly"]
        \/ jobs' = [jobs EXCEPT ![j] = [pc |-> "threw", recover |-> TRUE]]
        \/ jobs' = [jobs EXCEPT ![j].pc = "executing"]
    BY <1>1 DEF StartJob, SetJob
  <2>2. /\ UNCHANGED <<lanes, unnotified, cancelled, stopper>>
        /\ jobs[j].pc = "admitted"
    BY <1>1 DEF StartJob, JobFrame
  <2>3. /\ jobs \in [Job -> JobRecord]
        /\ jobs[j].recover \in BOOLEAN
    BY DEF TypeOK, JobRecord
  <2>4. /\ jobs' = [jobs EXCEPT ![j] = jobs'[j]]
        /\ jobs'[j].pc \in {"endingEarly", "threw", "executing"}
    BY <2>1, <2>3 DEF JobRecord
  <2>5. jobs'[j] \in JobRecord
    <3>1. /\ [jobs[j] EXCEPT !.pc = "endingEarly"] \in JobRecord
          /\ [jobs[j] EXCEPT !.pc = "executing"] \in JobRecord
          /\ [pc |-> "threw", recover |-> TRUE] \in JobRecord
      BY <2>3 DEF JobRecord, InFlight
    <3>2. QED
      BY <2>1, <2>3, <3>1
  <2>6. QED
    BY <2>2, <2>4, <2>5 DEF InFlight
<1>2. CASE ExecuteThrows(j)
  <2>1. \/ jobs' = [jobs EXCEPT ![j].pc = "ending"]
        \/ \E recover \in BOOLEAN :
              jobs' = [jobs EXCEPT ![j] = [pc |-> "threw", recover |-> recover]]
    BY <1>2 DEF ExecuteThrows, SetJob
  <2>2. QED
    BY <1>2, <2>1 DEF ExecuteThrows, JobFrame, TypeOK, JobRecord, InFlight
<1>3. CASE EndJob(j) \/ EndEarlyCancelled(j)
  <2>1. UNCHANGED <<lanes, unnotified, cancelled, stopper>>
    BY <1>3 DEF EndJob, EndEarlyCancelled, JobFrame
  <2>2. /\ jobs[j].pc \in {"ending", "endingEarly"}
        /\ \E b \in BOOLEAN :
              jobs' = [jobs EXCEPT ![j] = [pc |-> "finished", recover |-> b]]
    BY <1>3, LeaveEffect
  <2>3. QED
    BY <2>1, <2>2 DEF TypeOK, InFlight, Finishing, JobRecord
<1>4. CASE ExecuteReturns(j)
  BY <1>4 DEF ExecuteReturns, Answer, SetJob, JobFrame, InFlight, Finishing,
         TypeOK, JobRecord
<1>5. CASE BeginPostTurn(j)
  BY <1>5 DEF BeginPostTurn, SetJob, JobFrame, InFlight, Finishing, TypeOK,
         JobRecord
<1>6. CASE CompleteJob(j)
  BY <1>6 DEF CompleteJob, Answer, SetJob, JobFrame, InFlight, Finishing, TypeOK,
         JobRecord
<1>7. CASE SessionReady(j)
  BY <1>7 DEF SessionReady, SetJob, JobFrame, InFlight, Finishing, TypeOK,
         JobRecord
<1>8. CASE CatchError(j)
  BY <1>8 DEF CatchError, SetJob, JobFrame, InFlight, Finishing, TypeOK, JobRecord
<1>9. CASE NotifyError(j)
  BY <1>9 DEF NotifyError, Answer, SetJob, JobFrame, InFlight, Finishing, TypeOK,
         JobRecord
<1>10. CASE InvalidateCancelWatchdog(j)
  BY <1>10 DEF InvalidateCancelWatchdog, Notify, Woken, Finishing, InFlight,
         TypeOK, JobRecord
<1>11. CASE RecoverBegin(j)
  BY <1>11 DEF RecoverBegin, SetJob, JobFrame, Finishing, InFlight, TypeOK,
         JobRecord
<1>12. CASE RecoverUnload(j)
  BY <1>12 DEF RecoverUnload, SetJob, JobFrame, Finishing, InFlight, TypeOK,
         JobRecord
<1>13. CASE RecoverEndReclaim(j)
  BY <1>13 DEF RecoverEndReclaim, SetJob, JobFrame, Finishing, InFlight, TypeOK,
         JobRecord
<1>14. CASE RecoverEnd(j)
  BY <1>14 DEF RecoverEnd, SetJob, JobFrame, Finishing, Notify, Woken, InFlight,
         TypeOK, JobRecord
<1>15. QED
  BY <1>1, <1>2, <1>3, <1>4, <1>5, <1>6, <1>7, <1>8, <1>9, <1>10, <1>11, <1>12,
     <1>13, <1>14 DEF JobThread

\* No step leaves both a load and a drain pending.
LEMMA LoadOrDrainStep == TypeOK /\ LoadOrDrain /\ [Next]_vars => LoadOrDrain'
<1> SUFFICES ASSUME TypeOK, LoadOrDrain, [Next]_vars PROVE LoadOrDrain'
  OBVIOUS
<1>1. ASSUME NEW j \in Job, EndEarlyCancelled(j) \/ EndJob(j) PROVE LoadOrDrain'
  BY <1>1, LeaveEffect DEF LoadOrDrain
<1>2. CASE \/ ExecutorBlocks \/ ExecutorSleeps \/ TakeStop \/ TakeActivation
           \/ TakeDrain \/ TakeReload \/ ExecutorSpins \/ TakeJobs
           \/ AdmitJob \/ EndAdmission
  BY <1>2 DEF LoadOrDrain, TypeOK, RuntimeRecord, ExecutorBlocks, ExecutorSleeps,
         TakeStop, TakeActivation, TakeDrain, TakeReload, ExecutorSpins, TakeJobs,
         AdmitJob, EndAdmission, Go, Loop, AtWait
<1>3. CASE \/ BeginLoad \/ LoadSucceeds \/ LoadFails \/ AcquireGranted
           \/ AcquireThrows \/ FailQueued
  BY <1>3 DEF LoadOrDrain, TypeOK, RuntimeRecord, BeginLoad, LoadSucceeds,
         LoadFails, AcquireGranted, AcquireThrows, FailQueued, Loop, Go, AtWait
<1>4. CASE \/ BeginReclaim \/ UnloadBackend \/ EndReclaim \/ AfterReclaim
  BY <1>4 DEF LoadOrDrain, TypeOK, RuntimeRecord, BeginReclaim, UnloadBackend,
         EndReclaim, AfterReclaim, Go, Loop, AtWait
<1>5. CASE \/ StopPostTurnWorker \/ JoinPostTurnWorker \/ ExecutorEnds
  BY <1>5 DEF LoadOrDrain, TypeOK, RuntimeRecord, StopPostTurnWorker,
         JoinPostTurnWorker, ExecutorEnds, Go
<1>6. CASE \/ TakePostTurn \/ FinishPostTurn
  BY <1>6 DEF LoadOrDrain, TypeOK, RuntimeRecord, TakePostTurn, FinishPostTurn,
         Notify, Woken, DrainedOrIdle
<1>7. ASSUME NEW force \in BOOLEAN,
             \/ Grant \/ Activate \/ ActivateResident \/ RequestDrain
             \/ ExpireStaleQueuedJobs \/ Stop \/ StopCancelWatchdog(force)
      PROVE  LoadOrDrain'
  BY <1>7 DEF LoadOrDrain, TypeOK, RuntimeRecord, Grant, Activate,
         ActivateResident, RequestDrain, ExpireStaleQueuedJobs, Stop,
         StopCancelWatchdog, Activated, Undrained, Notify, Woken, PendingReleased
<1>8. ASSUME NEW j \in Job,
             \/ Enqueue(j) \/ EnqueueNotify(j) \/ CancelQueued(j)
             \/ CancelRunning(j)
      PROVE  LoadOrDrain'
  BY <1>8 DEF LoadOrDrain, TypeOK, RuntimeRecord, Enqueue, EnqueueNotify,
         CancelQueued, CancelRunning, Notify, Woken
<1>9. ASSUME NEW j \in Job,
             \/ StartJob(j) \/ ExecuteReturns(j) \/ ExecuteThrows(j)
             \/ BeginPostTurn(j) \/ CompleteJob(j) \/ SessionReady(j)
             \/ CatchError(j) \/ NotifyError(j) \/ InvalidateCancelWatchdog(j)
             \/ RecoverBegin(j) \/ RecoverUnload(j) \/ RecoverEndReclaim(j)
             \/ RecoverEnd(j)
      PROVE  LoadOrDrain'
  BY <1>9 DEF LoadOrDrain, TypeOK, RuntimeRecord, StartJob, ExecuteReturns,
         ExecuteThrows, BeginPostTurn, CompleteJob, SessionReady, CatchError,
         NotifyError, InvalidateCancelWatchdog, RecoverBegin, RecoverUnload,
         RecoverEndReclaim, RecoverEnd, JobFrame, Notify, Woken
<1>10. ASSUME NEW j \in Job,
             \/ ArmCancelWatchdog(j) \/ WatchdogFires(j) \/ SendAbort(j)
             \/ ForceKillActiveWorker(j) \/ MarkBackendKilled(j)
      PROVE  LoadOrDrain'
  BY <1>10 DEF LoadOrDrain, TypeOK, RuntimeRecord, ArmCancelWatchdog,
         WatchdogFires, SendAbort, ForceKillActiveWorker, MarkBackendKilled,
         WatchdogFrame
<1>11. CASE WorkerDies
  BY <1>11 DEF LoadOrDrain, TypeOK, RuntimeRecord, WorkerDies
<1>12. CASE UNCHANGED vars
  BY <1>12 DEF LoadOrDrain, TypeOK, RuntimeRecord, vars
<1>13. QED
  BY <1>1, <1>2, <1>3, <1>4, <1>5, <1>6, <1>7, <1>8, <1>9, <1>10, <1>11, <1>12 DEF
     Next, Executor, Deciding, Loading, Reclaiming, Exiting, PostTurn, Pool,
     Client, JobThread, Watchdog

\* A runtime record stays one when its state is set.
LEMMA StateSet ==
    ASSUME NEW r \in RuntimeRecord, NEW s \in State
    PROVE  [r EXCEPT !.state = s] \in RuntimeRecord
BY DEF RuntimeRecord

\* A step that only wakes the executor up, and starts no job, moves it nowhere.
LEMMA ExecutorKept ==
    ASSUME TypeOK, ExecutorInv,
           executor' \in {executor, Woken(executor)},
           rt'.running_jobs = rt.running_jobs
    PROVE  ExecutorInv'
<1>1. CASE executor' = executor
  BY <1>1 DEF ExecutorInv
<1>2. CASE executor' = Woken(executor) /\ executor.pc = "sleeping"
  <2>1. executor'.pc = "test" /\ executor'.purpose = executor.purpose
    BY <1>2 DEF Woken, TypeOK, ExecutorRecord
  <2>2. executor.purpose # "exit"
    BY <1>2 DEF ExecutorInv
  <2>3. QED
    BY <2>1, <2>2 DEF ExecutorInv
<1>3. CASE executor' = Woken(executor) /\ executor.pc # "sleeping"
  BY <1>3 DEF ExecutorInv, Woken
<1>4. QED
  BY <1>1, <1>2, <1>3

\* Once the executor is on its way out, or retries, it is where it should be.
LEMMA ExecutorStep ==
    TypeOK /\ QueueInv /\ ExecutorInv /\ [Next]_vars
       => ExecutorInv'
<1> SUFFICES ASSUME TypeOK, QueueInv, ExecutorInv, [Next]_vars PROVE ExecutorInv'
  OBVIOUS
<1>1. CASE AdmitJob
  BY <1>1 DEF AdmitJob, ExecutorInv
<1>2. CASE StopPostTurnWorker
  BY <1>2 DEF StopPostTurnWorker, JobsAreOver, Go, ExecutorInv, TypeOK,
              ExecutorRecord, RuntimeRecord
<1>3. CASE AfterReclaim
  BY <1>3 DEF AfterReclaim, MayRetry, MaxLoadAttempts, Go, Loop, AtWait, ExecutorInv,
              TypeOK, ExecutorRecord, RuntimeRecord
<1>4. ASSUME NEW j \in Job, EndEarlyCancelled(j) \/ EndJob(j) PROVE ExecutorInv'
  BY <1>4, LeaveEffect DEF EndEarlyCancelled, EndJob, ExecutorInv
<1>5. CASE ExecutorBlocks
  BY <1>5 DEF ExecutorInv, TypeOK, ExecutorRecord, Decides, RuntimeRecord,
         ExecutorBlocks, Go
<1>6. CASE ExecutorSleeps
  BY <1>6 DEF ExecutorInv, TypeOK, ExecutorRecord, Decides, RuntimeRecord,
         ExecutorSleeps, Go
<1>7. CASE TakeStop
  BY <1>7 DEF ExecutorInv, TypeOK, ExecutorRecord, Decides, RuntimeRecord,
         TakeStop, Go
<1>8. CASE TakeActivation
  BY <1>8 DEF ExecutorInv, TypeOK, ExecutorRecord, Decides, RuntimeRecord,
         TakeActivation
<1>9. CASE TakeDrain
  BY <1>9 DEF ExecutorInv, TypeOK, ExecutorRecord, Decides, RuntimeRecord,
         TakeDrain
<1>10. CASE TakeReload
  BY <1>10 DEF ExecutorInv, TypeOK, ExecutorRecord, Decides, RuntimeRecord,
         TakeReload
<1>11. CASE ExecutorSpins
  BY <1>11 DEF ExecutorInv, TypeOK, ExecutorRecord, Decides, RuntimeRecord,
         ExecutorSpins
<1>12. CASE TakeJobs
  BY <1>12 DEF ExecutorInv, TypeOK, ExecutorRecord, Decides, RuntimeRecord,
         TakeJobs, Go
<1>13. CASE EndAdmission
  BY <1>13 DEF ExecutorInv, TypeOK, ExecutorRecord, Decides, RuntimeRecord,
         EndAdmission, Loop, AtWait
<1>14. CASE BeginLoad
  BY <1>14 DEF ExecutorInv, TypeOK, ExecutorRecord, RuntimeRecord, BeginLoad,
         Loop, Go, AtWait
<1>15. CASE LoadSucceeds
  BY <1>15 DEF ExecutorInv, TypeOK, ExecutorRecord, RuntimeRecord, LoadSucceeds,
         Loop, AtWait
<1>16. CASE LoadFails
  BY <1>16 DEF ExecutorInv, TypeOK, ExecutorRecord, RuntimeRecord, LoadFails
<1>17. CASE AcquireGranted
  BY <1>17 DEF ExecutorInv, TypeOK, ExecutorRecord, RuntimeRecord, AcquireGranted
<1>18. CASE AcquireThrows
  BY <1>18 DEF ExecutorInv, TypeOK, ExecutorRecord, RuntimeRecord, AcquireThrows,
         Go, Loop, AtWait
<1>19. CASE FailQueued
  BY <1>19 DEF ExecutorInv, TypeOK, ExecutorRecord, RuntimeRecord, FailQueued, Go,
         Loop, AtWait
<1>20. CASE JoinPostTurnWorker
  BY <1>20 DEF ExecutorInv, TypeOK, ExecutorRecord, RuntimeRecord,
         JoinPostTurnWorker
<1>21. CASE ExecutorEnds
  BY <1>21 DEF ExecutorInv, TypeOK, ExecutorRecord, RuntimeRecord, ExecutorEnds,
         Go
<1>22. CASE \/ TakePostTurn \/ FinishPostTurn
  <2>1. executor' \in {executor, Woken(executor)}
    BY <1>22 DEF TakePostTurn, FinishPostTurn, Notify
  <2>2. rt'.running_jobs = rt.running_jobs
    BY <1>22 DEF TakePostTurn, FinishPostTurn, TypeOK, RuntimeRecord
  <2>3. QED
    BY <2>1, <2>2, ExecutorKept
<1>23. ASSUME NEW j \in Job,
             \/ Enqueue(j) \/ EnqueueNotify(j) \/ CancelQueued(j)
             \/ CancelRunning(j)
      PROVE  ExecutorInv'
  BY <1>23 DEF ExecutorInv, TypeOK, ExecutorRecord, RuntimeRecord, Enqueue,
         EnqueueNotify, CancelQueued, CancelRunning, Notify, Woken
<1>24. ASSUME NEW j \in Job,
             \/ ArmCancelWatchdog(j) \/ WatchdogFires(j) \/ SendAbort(j)
             \/ ForceKillActiveWorker(j) \/ MarkBackendKilled(j)
      PROVE  ExecutorInv'
  BY <1>24 DEF ExecutorInv, TypeOK, ExecutorRecord, RuntimeRecord,
         ArmCancelWatchdog, WatchdogFires, SendAbort, ForceKillActiveWorker,
         MarkBackendKilled, WatchdogFrame
<1>25. CASE WorkerDies
  BY <1>25 DEF ExecutorInv, TypeOK, ExecutorRecord, RuntimeRecord, WorkerDies
<1>26. CASE Grant
  BY <1>26 DEF ExecutorInv, TypeOK, ExecutorRecord, RuntimeRecord, Grant
<1>27. CASE Activate
  <2>1. executor' \in {executor, Woken(executor)}
    BY <1>27 DEF Activate, Notify
  <2>2. rt'.running_jobs = rt.running_jobs
    BY <1>27 DEF Activate, Activated, Undrained, TypeOK, RuntimeRecord
  <2>3. QED
    BY <2>1, <2>2, ExecutorKept
<1>28. CASE ActivateResident
  <2>1. executor' \in {executor, Woken(executor)}
    BY <1>28 DEF ActivateResident, Notify
  <2>2. rt'.running_jobs = rt.running_jobs
    BY <1>28 DEF ActivateResident, Undrained, TypeOK, RuntimeRecord
  <2>3. QED
    BY <2>1, <2>2, ExecutorKept
<1>29. CASE RequestDrain
  <2>1. executor' \in {executor, Woken(executor)}
    BY <1>29 DEF RequestDrain, Notify
  <2>2. rt'.running_jobs = rt.running_jobs
    BY <1>29 DEF RequestDrain, TypeOK, RuntimeRecord
  <2>3. QED
    BY <2>1, <2>2, ExecutorKept
<1>30. CASE ExpireStaleQueuedJobs
  BY <1>30 DEF ExecutorInv, TypeOK, ExecutorRecord, RuntimeRecord,
         ExpireStaleQueuedJobs
<1>31. CASE Stop
  <2>1. executor' \in {executor, Woken(executor)}
    BY <1>31 DEF Stop, Notify
  <2>2. rt'.running_jobs = rt.running_jobs
    BY <1>31 DEF Stop, PendingReleased, TypeOK, RuntimeRecord
  <2>3. QED
    BY <2>1, <2>2, ExecutorKept
<1>32. ASSUME NEW force \in BOOLEAN,
             StopCancelWatchdog(force)
      PROVE  ExecutorInv'
  BY <1>32 DEF ExecutorInv, TypeOK, ExecutorRecord, RuntimeRecord,
         StopCancelWatchdog
<1>33. CASE \/ BeginReclaim \/ UnloadBackend \/ EndReclaim
  BY <1>33 DEF ExecutorInv, TypeOK, ExecutorRecord, RuntimeRecord, BeginReclaim,
         UnloadBackend, EndReclaim, Go
<1>34. ASSUME NEW j \in Job,
             \/ StartJob(j) \/ ExecuteReturns(j) \/ ExecuteThrows(j)
             \/ BeginPostTurn(j)
      PROVE  ExecutorInv'
  BY <1>34 DEF ExecutorInv, TypeOK, ExecutorRecord, RuntimeRecord, StartJob,
         ExecuteReturns, ExecuteThrows, BeginPostTurn, JobFrame
<1>35. ASSUME NEW j \in Job,
             \/ CompleteJob(j) \/ SessionReady(j) \/ CatchError(j)
             \/ NotifyError(j)
      PROVE  ExecutorInv'
  BY <1>35 DEF ExecutorInv, TypeOK, ExecutorRecord, RuntimeRecord, CompleteJob,
         SessionReady, CatchError, NotifyError, JobFrame
<1>36. ASSUME NEW j \in Job,
             InvalidateCancelWatchdog(j)
      PROVE  ExecutorInv'
  BY <1>36 DEF ExecutorInv, TypeOK, ExecutorRecord, RuntimeRecord,
         InvalidateCancelWatchdog, Notify, Woken
<1>37. ASSUME NEW j \in Job,
             \/ RecoverBegin(j) \/ RecoverUnload(j) \/ RecoverEndReclaim(j)
      PROVE  ExecutorInv'
  BY <1>37 DEF ExecutorInv, TypeOK, ExecutorRecord, RuntimeRecord, RecoverBegin,
         RecoverUnload, RecoverEndReclaim, JobFrame
<1>38. ASSUME NEW j \in Job,
             RecoverEnd(j)
      PROVE  ExecutorInv'
  BY <1>38 DEF ExecutorInv, TypeOK, ExecutorRecord, RuntimeRecord, RecoverEnd,
         JobFrame, Notify, Woken
<1>39. CASE UNCHANGED vars
  BY <1>39 DEF ExecutorInv, TypeOK, ExecutorRecord, vars
<1>40. QED
  BY <1>1, <1>2, <1>3, <1>4, <1>5, <1>6, <1>7, <1>8, <1>9, <1>10, <1>11, <1>12,
     <1>13, <1>14, <1>15, <1>16, <1>17, <1>18, <1>19, <1>20, <1>21, <1>22, <1>23,
     <1>24, <1>25, <1>26, <1>27, <1>28, <1>29, <1>30, <1>31, <1>32, <1>33, <1>34,
     <1>35, <1>36, <1>37, <1>38, <1>39 DEF Next, Executor, Deciding, Loading,
     Reclaiming, Exiting, PostTurn, Pool, Client, JobThread, Watchdog

\* Jobs that leave the queue answered are no running ones.
LEMMA QueuedDone ==
    ASSUME TypeOK, QueueInv, RunningInFlight,
           NEW gone \in SUBSET Queued(lanes), UNCHANGED rt,
           jobs' = [j \in Job |-> IF j \in gone
                                 THEN [jobs[j] EXCEPT !.pc = "done"] ELSE jobs[j]]
    PROVE  RunningInFlight'
BY DEF QueueInv, NoSilentDrop, RunningInFlight, TypeOK, JobRecord, InFlight

\* running_jobs_ is exactly the jobs between admission and the section that ends them.
LEMMA RunningStep ==
    TypeOK /\ QueueInv /\ ExecutorInv /\ RunningInFlight /\ [Next]_vars
       => RunningInFlight'
<1> SUFFICES ASSUME TypeOK, QueueInv, ExecutorInv, RunningInFlight, [Next]_vars
             PROVE  RunningInFlight'
  OBVIOUS
<1>1. CASE AdmitJob
  <2>1. PICK j \in Job :
           /\ jobs' = [jobs EXCEPT ![j].pc = "admitted"]
           /\ rt' = [rt EXCEPT !.running_jobs = @ \cup {j},
                               !.active_sessions = @ \cup {SessionOf[j]},
                               !.state = "Running"]
    BY <1>1, AdmitJobEffect
  <2>2. rt'.running_jobs = rt.running_jobs \cup {j}
    BY <2>1 DEF TypeOK, RuntimeRecord
  <2>3. \A k \in Job : jobs'[k].pc = IF k = j THEN "admitted" ELSE jobs[k].pc
    BY <2>1 DEF TypeOK, JobRecord
  <2>4. QED
    BY <2>2, <2>3 DEF RunningInFlight, InFlight
<1>2. CASE ExecutorEnds
  BY <1>2 DEF ExecutorEnds, ExecutorInv, RunningInFlight, TypeOK, RuntimeRecord
<1>3. CASE FailQueued
  BY <1>3, QueuedDone DEF FailQueued
<1>4. CASE ExpireStaleQueuedJobs
  BY <1>4, QueuedDone DEF ExpireStaleQueuedJobs
<1>5. ASSUME NEW j \in Job, CancelQueued(j) PROVE RunningInFlight'
  BY <1>5 DEF CancelQueued, SetJob, QueueInv, NoSilentDrop, RunningInFlight, TypeOK,
              JobRecord, InFlight
<1>6. ASSUME NEW j \in Job, EndEarlyCancelled(j) \/ EndJob(j)
      PROVE  RunningInFlight'
  BY <1>6, LeaveEffect DEF RunningInFlight, TypeOK, JobRecord, InFlight
<1>7. ASSUME NEW j \in Job, StartJob(j) PROVE RunningInFlight'
  <2>1. /\ UNCHANGED rt
        /\ jobs[j].pc \in InFlight
        /\ jobs' = [jobs EXCEPT ![j] = jobs'[j]]
        /\ jobs'[j].pc \in InFlight
    BY <1>7 DEF StartJob, SetJob, InFlight, TypeOK, JobRecord
  <2>2. QED
    BY <2>1 DEF RunningInFlight, TypeOK
<1>8. CASE \/ ExecutorBlocks \/ ExecutorSleeps \/ TakeStop \/ TakeActivation
           \/ TakeDrain \/ TakeReload \/ ExecutorSpins \/ TakeJobs
           \/ EndAdmission
  BY <1>8 DEF RunningInFlight, TypeOK, RuntimeRecord, JobRecord, InFlight,
         Finishing, ExecutorBlocks, ExecutorSleeps, TakeStop, TakeActivation,
         TakeDrain, TakeReload, ExecutorSpins, TakeJobs, EndAdmission, Go, Loop,
         AtWait
<1>9. CASE \/ BeginLoad \/ LoadSucceeds \/ LoadFails \/ AcquireGranted
           \/ AcquireThrows
  BY <1>9 DEF RunningInFlight, TypeOK, RuntimeRecord, JobRecord, InFlight,
         Finishing, BeginLoad, LoadSucceeds, LoadFails, AcquireGranted,
         AcquireThrows, Loop, Go, AtWait
<1>10. CASE \/ BeginReclaim \/ UnloadBackend \/ EndReclaim \/ AfterReclaim
  BY <1>10 DEF RunningInFlight, TypeOK, RuntimeRecord, JobRecord, InFlight,
         Finishing, BeginReclaim, UnloadBackend, EndReclaim, AfterReclaim, Go,
         Loop, AtWait
<1>11. CASE \/ StopPostTurnWorker \/ JoinPostTurnWorker
  BY <1>11 DEF RunningInFlight, TypeOK, RuntimeRecord, JobRecord, InFlight,
         Finishing, StopPostTurnWorker, JoinPostTurnWorker, Go
<1>12. CASE \/ TakePostTurn \/ FinishPostTurn
  BY <1>12 DEF RunningInFlight, TypeOK, RuntimeRecord, JobRecord, InFlight,
         Finishing, TakePostTurn, FinishPostTurn, Notify, Woken, DrainedOrIdle
<1>13. ASSUME NEW force \in BOOLEAN,
             \/ Grant \/ Activate \/ ActivateResident \/ RequestDrain \/ Stop
             \/ StopCancelWatchdog(force)
      PROVE  RunningInFlight'
  BY <1>13 DEF RunningInFlight, TypeOK, RuntimeRecord, JobRecord, InFlight,
         Finishing, Grant, Activate, ActivateResident, RequestDrain, Stop,
         StopCancelWatchdog, Activated, Undrained, Notify, Woken, PendingReleased
<1>14. ASSUME NEW j \in Job,
             \/ Enqueue(j) \/ EnqueueNotify(j) \/ CancelRunning(j)
      PROVE  RunningInFlight'
  BY <1>14 DEF RunningInFlight, TypeOK, RuntimeRecord, JobRecord, InFlight,
         Finishing, Enqueue, EnqueueNotify, CancelRunning, SetJob, Notify, Woken
<1>15. ASSUME NEW j \in Job,
             \/ ArmCancelWatchdog(j) \/ WatchdogFires(j) \/ SendAbort(j)
             \/ ForceKillActiveWorker(j) \/ MarkBackendKilled(j)
      PROVE  RunningInFlight'
  BY <1>15 DEF RunningInFlight, TypeOK, RuntimeRecord, JobRecord, InFlight,
         Finishing, ArmCancelWatchdog, WatchdogFires, SendAbort,
         ForceKillActiveWorker, MarkBackendKilled, WatchdogFrame
<1>16. CASE WorkerDies
  BY <1>16 DEF RunningInFlight, TypeOK, RuntimeRecord, JobRecord, InFlight,
         Finishing, WorkerDies
<1>17. ASSUME NEW j \in Job,
             ExecuteReturns(j)
      PROVE  RunningInFlight'
  BY <1>17 DEF RunningInFlight, TypeOK, RuntimeRecord, JobRecord, InFlight,
         Finishing, ExecuteReturns, SetJob, JobFrame
<1>18. ASSUME NEW j \in Job,
             ExecuteThrows(j)
      PROVE  RunningInFlight'
  BY <1>18 DEF RunningInFlight, TypeOK, RuntimeRecord, JobRecord, InFlight,
         Finishing, ExecuteThrows, SetJob, JobFrame
<1>19. ASSUME NEW j \in Job,
             BeginPostTurn(j)
      PROVE  RunningInFlight'
  BY <1>19 DEF RunningInFlight, TypeOK, RuntimeRecord, JobRecord, InFlight,
         Finishing, BeginPostTurn, SetJob, JobFrame
<1>20. ASSUME NEW j \in Job,
             CompleteJob(j)
      PROVE  RunningInFlight'
  BY <1>20 DEF RunningInFlight, TypeOK, RuntimeRecord, JobRecord, InFlight,
         Finishing, CompleteJob, SetJob, JobFrame
<1>21. ASSUME NEW j \in Job,
             SessionReady(j)
      PROVE  RunningInFlight'
  BY <1>21 DEF RunningInFlight, TypeOK, RuntimeRecord, JobRecord, InFlight,
         Finishing, SessionReady, SetJob, JobFrame
<1>22. ASSUME NEW j \in Job,
             CatchError(j)
      PROVE  RunningInFlight'
  BY <1>22 DEF RunningInFlight, TypeOK, RuntimeRecord, JobRecord, InFlight,
         Finishing, CatchError, SetJob, JobFrame
<1>23. ASSUME NEW j \in Job,
             NotifyError(j)
      PROVE  RunningInFlight'
  BY <1>23 DEF RunningInFlight, TypeOK, RuntimeRecord, JobRecord, InFlight,
         Finishing, NotifyError, SetJob, JobFrame
<1>24. ASSUME NEW j \in Job,
             InvalidateCancelWatchdog(j)
      PROVE  RunningInFlight'
  BY <1>24 DEF RunningInFlight, TypeOK, RuntimeRecord, JobRecord, InFlight,
         Finishing, InvalidateCancelWatchdog, Notify, Woken
<1>25. ASSUME NEW j \in Job,
             RecoverBegin(j)
      PROVE  RunningInFlight'
  BY <1>25 DEF RunningInFlight, TypeOK, RuntimeRecord, JobRecord, InFlight,
         Finishing, RecoverBegin, SetJob, JobFrame
<1>26. ASSUME NEW j \in Job,
             RecoverUnload(j)
      PROVE  RunningInFlight'
  BY <1>26 DEF RunningInFlight, TypeOK, RuntimeRecord, JobRecord, InFlight,
         Finishing, RecoverUnload, SetJob, JobFrame
<1>27. ASSUME NEW j \in Job,
             RecoverEndReclaim(j)
      PROVE  RunningInFlight'
  BY <1>27 DEF RunningInFlight, TypeOK, RuntimeRecord, JobRecord, InFlight,
         Finishing, RecoverEndReclaim, SetJob, JobFrame
<1>28. ASSUME NEW j \in Job,
             RecoverEnd(j)
      PROVE  RunningInFlight'
  BY <1>28 DEF RunningInFlight, TypeOK, RuntimeRecord, JobRecord, InFlight,
         Finishing, RecoverEnd, SetJob, JobFrame, Notify, Woken
<1>29. CASE UNCHANGED vars
  BY <1>29 DEF RunningInFlight, TypeOK, RuntimeRecord, JobRecord, InFlight,
         Finishing, vars
<1>30. QED
  BY <1>1, <1>2, <1>3, <1>4, <1>5, <1>6, <1>7, <1>8, <1>9, <1>10, <1>11, <1>12,
     <1>13, <1>14, <1>15, <1>16, <1>17, <1>18, <1>19, <1>20, <1>21, <1>22, <1>23,
     <1>24, <1>25, <1>26, <1>27, <1>28, <1>29 DEF Next, Executor, Deciding,
     Loading, Reclaiming, Exiting, PostTurn, Pool, Client, JobThread, Watchdog

\* A session has one running job at most, and active_sessions_ are the sessions of
\* the running jobs.
LEMMA SessionStep ==
    TypeOK /\ QueueInv /\ RunningInFlight /\ SessionInv /\ [Next]_vars
       => SessionInv'
<1> SUFFICES ASSUME TypeOK, QueueInv, RunningInFlight, SessionInv, [Next]_vars
             PROVE  SessionInv'
  OBVIOUS
<1>1. CASE AdmitJob
  <2>1. PICK j \in Job :
           /\ SessionOf[j] \notin rt.active_sessions \cup rt.post_turn_sessions
           /\ rt' = [rt EXCEPT !.running_jobs = @ \cup {j},
                               !.active_sessions = @ \cup {SessionOf[j]},
                               !.state = "Running"]
    BY <1>1, AdmitJobEffect
  <2>2. /\ rt'.running_jobs = rt.running_jobs \cup {j}
        /\ rt'.active_sessions = rt.active_sessions \cup {SessionOf[j]}
    BY <2>1 DEF TypeOK, RuntimeRecord
  <2>3. QED
    BY <2>1, <2>2 DEF SessionInv, OneJobPerSession
<1>2. CASE ExecutorEnds
  <2>1. rt'.running_jobs = {} /\ rt'.active_sessions = {}
    BY <1>2 DEF ExecutorEnds, TypeOK, RuntimeRecord
  <2>2. QED
    BY <2>1 DEF SessionInv, OneJobPerSession
<1>3. ASSUME NEW j \in Job, EndEarlyCancelled(j) \/ EndJob(j) PROVE SessionInv'
  <2>1. /\ rt'.running_jobs = rt.running_jobs \ {j}
        /\ rt'.active_sessions = rt.active_sessions \ {SessionOf[j]}
        /\ j \in rt.running_jobs
    BY <1>3, LeaveEffect DEF RunningInFlight, InFlight
  <2>2. QED
    BY <2>1 DEF SessionInv, OneJobPerSession
<1>4. CASE \/ ExecutorBlocks \/ ExecutorSleeps \/ TakeStop \/ TakeActivation
           \/ TakeDrain \/ TakeReload \/ ExecutorSpins \/ TakeJobs
           \/ EndAdmission
  BY <1>4 DEF SessionInv, OneJobPerSession, TypeOK, RuntimeRecord, ExecutorBlocks,
         ExecutorSleeps, TakeStop, TakeActivation, TakeDrain, TakeReload,
         ExecutorSpins, TakeJobs, EndAdmission, Go, Loop, AtWait
<1>5. CASE \/ BeginLoad \/ LoadSucceeds \/ LoadFails \/ AcquireGranted
           \/ AcquireThrows \/ FailQueued
  BY <1>5 DEF SessionInv, OneJobPerSession, TypeOK, RuntimeRecord, BeginLoad,
         LoadSucceeds, LoadFails, AcquireGranted, AcquireThrows, FailQueued, Loop,
         Go, AtWait
<1>6. CASE \/ BeginReclaim \/ UnloadBackend \/ EndReclaim \/ AfterReclaim
  BY <1>6 DEF SessionInv, OneJobPerSession, TypeOK, RuntimeRecord, BeginReclaim,
         UnloadBackend, EndReclaim, AfterReclaim, Go, Loop, AtWait
<1>7. CASE \/ StopPostTurnWorker \/ JoinPostTurnWorker
  BY <1>7 DEF SessionInv, OneJobPerSession, TypeOK, RuntimeRecord,
         StopPostTurnWorker, JoinPostTurnWorker, Go
<1>8. CASE \/ TakePostTurn \/ FinishPostTurn
  BY <1>8 DEF SessionInv, OneJobPerSession, TypeOK, RuntimeRecord, TakePostTurn,
         FinishPostTurn, Notify, Woken, DrainedOrIdle
<1>9. ASSUME NEW force \in BOOLEAN,
             \/ Grant \/ Activate \/ ActivateResident \/ RequestDrain
             \/ ExpireStaleQueuedJobs \/ Stop \/ StopCancelWatchdog(force)
      PROVE  SessionInv'
  BY <1>9 DEF SessionInv, OneJobPerSession, TypeOK, RuntimeRecord, Grant,
         Activate, ActivateResident, RequestDrain, ExpireStaleQueuedJobs, Stop,
         StopCancelWatchdog, Activated, Undrained, Notify, Woken, PendingReleased
<1>10. ASSUME NEW j \in Job,
             \/ Enqueue(j) \/ EnqueueNotify(j) \/ CancelQueued(j)
             \/ CancelRunning(j)
      PROVE  SessionInv'
  BY <1>10 DEF SessionInv, OneJobPerSession, TypeOK, RuntimeRecord, Enqueue,
         EnqueueNotify, CancelQueued, CancelRunning, Notify, Woken
<1>11. ASSUME NEW j \in Job,
             \/ StartJob(j) \/ ExecuteReturns(j) \/ ExecuteThrows(j)
             \/ BeginPostTurn(j) \/ CompleteJob(j) \/ SessionReady(j)
             \/ CatchError(j) \/ NotifyError(j) \/ InvalidateCancelWatchdog(j)
             \/ RecoverBegin(j) \/ RecoverUnload(j) \/ RecoverEndReclaim(j)
             \/ RecoverEnd(j)
      PROVE  SessionInv'
  BY <1>11 DEF SessionInv, OneJobPerSession, TypeOK, RuntimeRecord, StartJob,
         ExecuteReturns, ExecuteThrows, BeginPostTurn, CompleteJob, SessionReady,
         CatchError, NotifyError, InvalidateCancelWatchdog, RecoverBegin,
         RecoverUnload, RecoverEndReclaim, RecoverEnd, JobFrame, Notify, Woken
<1>12. ASSUME NEW j \in Job,
             \/ ArmCancelWatchdog(j) \/ WatchdogFires(j) \/ SendAbort(j)
             \/ ForceKillActiveWorker(j) \/ MarkBackendKilled(j)
      PROVE  SessionInv'
  BY <1>12 DEF SessionInv, OneJobPerSession, TypeOK, RuntimeRecord,
         ArmCancelWatchdog, WatchdogFires, SendAbort, ForceKillActiveWorker,
         MarkBackendKilled, WatchdogFrame
<1>13. CASE WorkerDies
  BY <1>13 DEF SessionInv, OneJobPerSession, TypeOK, RuntimeRecord, WorkerDies
<1>14. CASE UNCHANGED vars
  BY <1>14 DEF SessionInv, OneJobPerSession, TypeOK, RuntimeRecord, vars
<1>15. QED
  BY <1>1, <1>2, <1>3, <1>4, <1>5, <1>6, <1>7, <1>8, <1>9, <1>10, <1>11, <1>12,
     <1>13, <1>14 DEF Next, Executor, Deciding, Loading, Reclaiming, Exiting,
     PostTurn, Pool, Client, JobThread, Watchdog

\* Jobs answered and taken out of the queue together leave it as it should be.
LEMMA QueuedRemoved ==
    ASSUME TypeOK, QueueInv,
           NEW gone \in SUBSET Queued(lanes), UNCHANGED cancelled,
           WellFormed(lanes'), Queued(lanes') = Queued(lanes) \ gone,
           jobs' = [j \in Job |-> IF j \in gone
                                 THEN [jobs[j] EXCEPT !.pc = "done"] ELSE jobs[j]]
    PROVE  QueueInv'
<1>1. \A j \in Job : jobs'[j].pc = IF j \in gone THEN "done" ELSE jobs[j].pc
  BY DEF TypeOK, JobRecord
<1>2. QED
  BY <1>1, NoneCancelled DEF QueueInv, NoSilentDrop

\* The queue holds the queued jobs, each once and in the lane of its priority, and
\* none of them is cancelled.
LEMMA QueueStep == TypeOK /\ QueueInv /\ RunningInFlight /\ [Next]_vars => QueueInv'
<1> SUFFICES ASSUME TypeOK, QueueInv, RunningInFlight, [Next]_vars PROVE QueueInv'
  OBVIOUS
<1>1. CASE AdmitJob
  <2>1. PICK j \in Job :
           /\ j \in Queued(lanes)
           /\ WellFormed(lanes')
           /\ Queued(lanes') = Queued(lanes) \ {j}
           /\ jobs' = [jobs EXCEPT ![j].pc = "admitted"]
    BY <1>1, AdmitJobEffect
  <2>2. \A k \in Job : jobs'[k].pc = IF k = j THEN "admitted" ELSE jobs[k].pc
    BY <2>1 DEF TypeOK, JobRecord
  <2>3. UNCHANGED cancelled
    BY <1>1 DEF AdmitJob
  <2>4. QED
    BY <2>1, <2>2, <2>3 DEF QueueInv, NoSilentDrop
<1>2. CASE EndAdmission
  <2>1. WellFormed(lanes') /\ Queued(lanes') = Queued(lanes)
    BY <1>2, EndAdmissionEffect
  <2>2. UNCHANGED <<jobs, cancelled>>
    BY <1>2 DEF EndAdmission
  <2>3. QED
    BY <2>1, <2>2 DEF QueueInv, NoSilentDrop
<1>3. CASE FailQueued
  <2>1. WellFormed(lanes') /\ Queued(lanes') = Queued(lanes) \ Queued(lanes)
    BY <1>3, EmptyQueue DEF FailQueued
  <2>2. QED
    BY <1>3, <2>1, QueuedRemoved DEF FailQueued
<1>4. CASE ExpireStaleQueuedJobs
  <2>1. PICK expired \in SUBSET Queued(lanes) :
           /\ lanes' = RemoveJobs(lanes, expired)
           /\ jobs' = [j \in Job |-> IF j \in expired
                                     THEN [jobs[j] EXCEPT !.pc = "done"] ELSE jobs[j]]
           /\ UNCHANGED cancelled
    BY <1>4 DEF ExpireStaleQueuedJobs
  <2>2. WellFormed(lanes') /\ Queued(lanes') = Queued(lanes) \ expired
    BY <2>1, RemoveTakes DEF QueueInv
  <2>3. QED
    BY <2>1, <2>2, QueuedRemoved
<1>5. CASE Stop
  <2>1. UNCHANGED <<lanes, jobs>> /\ cancelled' \subseteq cancelled \cup rt.running_jobs
    BY <1>5 DEF Stop
  <2>2. \A j \in rt.running_jobs : j \in Job /\ jobs[j].pc \notin {"new", "queued"}
    BY DEF RunningInFlight, InFlight, TypeOK, RuntimeRecord
  <2>3. QED
    BY <2>1, <2>2 DEF QueueInv, NoSilentDrop
<1>6. ASSUME NEW j \in Job, Enqueue(j) PROVE QueueInv'
  <2>1. /\ jobs[j].pc = "new"
        /\ lanes' = Push(lanes, j)
        /\ jobs' = [jobs EXCEPT ![j].pc = "queued"]
        /\ UNCHANGED cancelled
    BY <1>6 DEF Enqueue, SetJob
  <2>2. WellFormed(lanes') /\ Queued(lanes') = Queued(lanes) \cup {j}
    BY <2>1, PushAdds DEF QueueInv, NoSilentDrop
  <2>3. \A k \in Job : jobs'[k].pc = IF k = j THEN "queued" ELSE jobs[k].pc
    BY <2>1 DEF TypeOK, JobRecord
  <2>4. QED
    BY <2>1, <2>2, <2>3 DEF QueueInv, NoSilentDrop
<1>7. ASSUME NEW j \in Job, CancelQueued(j) PROVE QueueInv'
  <2>1. /\ lanes' = RemoveJobs(lanes, {j})
        /\ jobs' = [jobs EXCEPT ![j].pc = "done"]
        /\ cancelled' = cancelled \cup {j}
    BY <1>7 DEF CancelQueued, SetJob
  <2>2. WellFormed(lanes') /\ Queued(lanes') = Queued(lanes) \ {j}
    BY <2>1, RemoveTakes DEF QueueInv
  <2>3. \A k \in Job : jobs'[k].pc = IF k = j THEN "done" ELSE jobs[k].pc
    BY <2>1 DEF TypeOK, JobRecord
  <2>4. NoSilentDrop'
    BY <2>2, <2>3 DEF QueueInv, NoSilentDrop
  <2>5. QED
    BY <2>1, <2>2, <2>3, <2>4 DEF QueueInv
<1>8. ASSUME NEW j \in Job, CancelRunning(j) PROVE QueueInv'
  BY <1>8 DEF CancelRunning, Running, RunningInFlight, InFlight, QueueInv, NoSilentDrop
<1>9. ASSUME NEW j \in Job, JobThread(j) PROVE QueueInv'
  <2>1. /\ UNCHANGED <<lanes, cancelled>>
        /\ jobs[j].pc \notin {"new", "queued"} /\ jobs'[j].pc \notin {"new", "queued"}
        /\ \A k \in Job \ {j} : jobs'[k] = jobs[k]
    BY <1>9, JobThreadEffect DEF InFlight, Finishing, TypeOK
  <2>2. QED
    BY <2>1 DEF QueueInv, NoSilentDrop
<1>10. CASE \/ ExecutorBlocks \/ ExecutorSleeps \/ TakeStop \/ TakeActivation
            \/ TakeDrain \/ TakeReload \/ ExecutorSpins \/ TakeJobs
  BY <1>10 DEF QueueInv, NoSilentDrop, TypeOK, JobRecord, Finishing,
         ExecutorBlocks, ExecutorSleeps, TakeStop, TakeActivation, TakeDrain,
         TakeReload, ExecutorSpins, TakeJobs, Go
<1>11. CASE \/ BeginLoad \/ LoadSucceeds \/ LoadFails \/ AcquireGranted
            \/ AcquireThrows
  BY <1>11 DEF QueueInv, NoSilentDrop, TypeOK, JobRecord, Finishing, BeginLoad,
         LoadSucceeds, LoadFails, AcquireGranted, AcquireThrows, Loop, Go, AtWait
<1>12. CASE \/ BeginReclaim \/ UnloadBackend \/ EndReclaim \/ AfterReclaim
  BY <1>12 DEF QueueInv, NoSilentDrop, TypeOK, JobRecord, Finishing, BeginReclaim,
         UnloadBackend, EndReclaim, AfterReclaim, Go, Loop, AtWait
<1>13. CASE \/ StopPostTurnWorker \/ JoinPostTurnWorker \/ ExecutorEnds
  BY <1>13 DEF QueueInv, NoSilentDrop, TypeOK, JobRecord, Finishing,
         StopPostTurnWorker, JoinPostTurnWorker, ExecutorEnds, Go
<1>14. CASE \/ TakePostTurn \/ FinishPostTurn
  BY <1>14 DEF QueueInv, NoSilentDrop, TypeOK, JobRecord, Finishing, TakePostTurn,
         FinishPostTurn, Notify, Woken, DrainedOrIdle
<1>15. ASSUME NEW force \in BOOLEAN,
             \/ Grant \/ Activate \/ ActivateResident \/ RequestDrain
             \/ StopCancelWatchdog(force)
      PROVE  QueueInv'
  BY <1>15 DEF QueueInv, NoSilentDrop, TypeOK, JobRecord, Finishing, Grant,
         Activate, ActivateResident, RequestDrain, StopCancelWatchdog, Activated,
         Undrained, Notify, Woken
<1>16. ASSUME NEW j \in Job,
             EnqueueNotify(j)
      PROVE  QueueInv'
  BY <1>16 DEF QueueInv, NoSilentDrop, TypeOK, JobRecord, Finishing,
         EnqueueNotify, Notify, Woken
<1>17. ASSUME NEW j \in Job,
             \/ ArmCancelWatchdog(j) \/ WatchdogFires(j) \/ SendAbort(j)
             \/ ForceKillActiveWorker(j) \/ MarkBackendKilled(j)
      PROVE  QueueInv'
  BY <1>17 DEF QueueInv, NoSilentDrop, TypeOK, JobRecord, Finishing,
         ArmCancelWatchdog, WatchdogFires, SendAbort, ForceKillActiveWorker,
         MarkBackendKilled, WatchdogFrame
<1>18. CASE WorkerDies
  BY <1>18 DEF QueueInv, NoSilentDrop, TypeOK, JobRecord, Finishing, WorkerDies
<1>19. CASE UNCHANGED vars
  BY <1>19 DEF QueueInv, NoSilentDrop, TypeOK, JobRecord, vars
<1>20. QED
  BY <1>1, <1>2, <1>3, <1>4, <1>5, <1>6, <1>7, <1>8, <1>9, <1>10, <1>11, <1>12,
     <1>13, <1>14, <1>15, <1>16, <1>17, <1>18, <1>19 DEF Next, Executor, Deciding,
     Loading, Reclaiming, Exiting, PostTurn, Pool, Client, JobThread, Watchdog

LEMMA ActiveSessions ==
    ASSUME TypeOK, SessionInv, IsFiniteSet(rt.running_jobs)
    PROVE  /\ IsFiniteSet(rt.active_sessions)
           /\ Cardinality(rt.active_sessions) \in Nat
           /\ Cardinality(rt.running_jobs) \in Nat
           /\ Cardinality(rt.active_sessions) <= Cardinality(rt.running_jobs)
<1> DEFINE session == [j \in rt.running_jobs |-> SessionOf[j]]
<1>1. session \in Surjection(rt.running_jobs, rt.active_sessions)
  <2>1. session \in [rt.running_jobs -> rt.active_sessions]
    BY DEF SessionInv
  <2>2. \A s \in rt.active_sessions : \E j \in rt.running_jobs : session[j] = s
    BY DEF SessionInv
  <2>3. QED
    BY <2>1, <2>2 DEF Surjection
<1>2. QED
  BY <1>1, FS_Surjection, FS_CardinalityType

\* Sessions and handles: what takes nothing up keeps the bound.
LEMMA HandlesKept ==
    ASSUME TypeOK, SessionInv, HandleInv,
           rt'.running_jobs \subseteq rt.running_jobs,
           rt'.post_turn_sessions \subseteq
              rt.active_sessions \cup rt.post_turn_sessions,
           rt'.active_sessions \subseteq rt.active_sessions,
           rt'.max_concurrent \in Nat, rt'.max_concurrent >= rt.max_concurrent
    PROVE  HandleInv'
<1> DEFINE held == rt.active_sessions \cup rt.post_turn_sessions
<1>1. IsFiniteSet(rt.active_sessions)
  BY ActiveSessions DEF HandleInv
<1>2. IsFiniteSet(held) /\ Cardinality(held) \in Nat
  BY <1>1, FS_Union, FS_CardinalityType DEF HandleInv
<1>3. IsFiniteSet(rt'.running_jobs) /\ IsFiniteSet(rt'.post_turn_sessions)
  BY <1>2, FS_Subset DEF HandleInv
<1>4. (rt'.active_sessions \cup rt'.post_turn_sessions) \in SUBSET held
  OBVIOUS
<1>5. /\ Cardinality(rt'.active_sessions \cup rt'.post_turn_sessions) \in Nat
      /\ Cardinality(rt'.active_sessions \cup rt'.post_turn_sessions)
            <= Cardinality(held)
  BY <1>2, <1>4, FS_Subset, FS_CardinalityType
<1>6. rt.max_concurrent \in Nat
  BY RuntimeAssumption DEF TypeOK, RuntimeRecord
<1>7. QED
  BY <1>2, <1>3, <1>5, <1>6 DEF HandleInv, CapacityBound

\* The executor admits a job only while there is a handle for it.
LEMMA HandlesAdmit ==
    ASSUME TypeOK, QueueInv, SessionInv, HandleInv, AdmitJob
    PROVE  HandleInv'
<1> DEFINE running == rt.running_jobs
           active == rt.active_sessions
           pending == rt.post_turn_sessions
<1>1. PICK j \in Job :
         rt' = [rt EXCEPT !.running_jobs = @ \cup {j},
                          !.active_sessions = @ \cup {SessionOf[j]},
                          !.state = "Running"]
  BY AdmitJobEffect
<1>2. /\ rt'.running_jobs = running \cup {j}
      /\ rt'.active_sessions = active \cup {SessionOf[j]}
      /\ rt'.post_turn_sessions = pending
      /\ rt'.max_concurrent = rt.max_concurrent
  BY <1>1 DEF TypeOK, RuntimeRecord
<1>3. /\ IsFiniteSet(running) /\ IsFiniteSet(pending)
      /\ Cardinality(running) \in Nat /\ Cardinality(pending) \in Nat
  BY FS_CardinalityType DEF HandleInv
<1>4. /\ IsFiniteSet(active)
      /\ Cardinality(active) \in Nat /\ Cardinality(active) <= Cardinality(running)
  BY <1>3, ActiveSessions
<1>5. /\ IsFiniteSet(active \cup {SessionOf[j]})
      /\ Cardinality(active \cup {SessionOf[j]}) \in Nat
      /\ Cardinality(active \cup {SessionOf[j]}) <= Cardinality(active) + 1
  <2>1. Cardinality(active \cup {SessionOf[j]}) =
           IF SessionOf[j] \in active THEN Cardinality(active)
           ELSE Cardinality(active) + 1
    BY <1>4, FS_AddElement
  <2>2. IsFiniteSet(active \cup {SessionOf[j]})
    BY <1>4, FS_AddElement
  <2>3. QED
    BY <1>4, <2>1, <2>2
<1>6. Cardinality((active \cup {SessionOf[j]}) \cup pending)
         <= Cardinality(active \cup {SessionOf[j]}) + Cardinality(pending)
  <2>1. IsFiniteSet((active \cup {SessionOf[j]}) \cap pending)
    BY <1>3, FS_Subset
  <2>2. Cardinality((active \cup {SessionOf[j]}) \cap pending) \in Nat
    BY <2>1, FS_CardinalityType
  <2>3. Cardinality((active \cup {SessionOf[j]}) \cup pending) =
           Cardinality(active \cup {SessionOf[j]}) + Cardinality(pending)
             - Cardinality((active \cup {SessionOf[j]}) \cap pending)
    BY <1>3, <1>5, FS_Union
  <2>4. QED
    BY <1>3, <1>5, <2>2, <2>3
<1>7. IsFiniteSet(running \cup {j})
  BY <1>3, FS_AddElement
<1>8. rt.max_concurrent - Cardinality(running) - Cardinality(pending) > 0
      /\ rt.max_concurrent \in Nat
  BY RuntimeAssumption DEF AdmitJob, Capacity, TypeOK, RuntimeRecord
<1>9. IsFiniteSet((active \cup {SessionOf[j]}) \cup pending)
         /\ Cardinality((active \cup {SessionOf[j]}) \cup pending) \in Nat
  BY <1>3, <1>5, FS_Union, FS_CardinalityType
<1>10. QED
  BY <1>2, <1>3, <1>4, <1>5, <1>6, <1>7, <1>8, <1>9 DEF HandleInv, CapacityBound

\* The sessions under way never outnumber the handles.
LEMMA HandleStep ==
    TypeOK /\ QueueInv /\ RunningInFlight /\ SessionInv /\ HandleInv /\ [Next]_vars
       => HandleInv'
<1> SUFFICES ASSUME TypeOK, QueueInv, RunningInFlight, SessionInv, HandleInv, [Next]_vars
             PROVE  HandleInv'
  OBVIOUS
<1>1. CASE AdmitJob
  BY <1>1, HandlesAdmit
<1>2. CASE LoadSucceeds
  <2>1. /\ rt'.running_jobs = rt.running_jobs
        /\ rt'.active_sessions = rt.active_sessions
        /\ rt'.post_turn_sessions = rt.post_turn_sessions
        /\ rt'.max_concurrent \in {rt.max_concurrent, MaxConcurrent}
        /\ rt.max_concurrent \in {1, MaxConcurrent}
    BY <1>2 DEF LoadSucceeds, TypeOK, RuntimeRecord
  <2>2. rt'.max_concurrent \in Nat /\ rt'.max_concurrent >= rt.max_concurrent
    BY <2>1, RuntimeAssumption
  <2>3. QED
    BY <2>1, <2>2, HandlesKept
<1>3. CASE StopPostTurnWorker \/ ExecutorEnds \/ FinishPostTurn
  <2>1. /\ rt'.running_jobs \subseteq rt.running_jobs
        /\ rt'.active_sessions \subseteq rt.active_sessions
        /\ rt'.post_turn_sessions \subseteq rt.post_turn_sessions
        /\ rt'.max_concurrent = rt.max_concurrent
    <3>1. CASE StopPostTurnWorker
      BY <3>1 DEF StopPostTurnWorker, TypeOK, RuntimeRecord
    <3>2. CASE ExecutorEnds
      BY <3>2 DEF ExecutorEnds, TypeOK, RuntimeRecord
    <3>3. CASE FinishPostTurn
      BY <3>3 DEF FinishPostTurn, TypeOK, RuntimeRecord
    <3>4. QED
      BY <1>3, <3>1, <3>2, <3>3
  <2>2. rt.max_concurrent \in Nat
    BY RuntimeAssumption DEF TypeOK, RuntimeRecord
  <2>3. QED
    BY <2>1, <2>2, HandlesKept
<1>4. ASSUME NEW j \in Job, BeginPostTurn(j) PROVE HandleInv'
  <2>1. SessionOf[j] \in rt.active_sessions
    BY <1>4 DEF BeginPostTurn, RunningInFlight, InFlight, SessionInv
  <2>2. /\ rt'.running_jobs = rt.running_jobs
        /\ rt'.active_sessions = rt.active_sessions
        /\ rt'.post_turn_sessions \subseteq rt.post_turn_sessions \cup {SessionOf[j]}
        /\ rt'.max_concurrent = rt.max_concurrent
    BY <1>4 DEF BeginPostTurn, TypeOK, RuntimeRecord
  <2>3. rt.max_concurrent \in Nat
    BY RuntimeAssumption DEF TypeOK, RuntimeRecord
  <2>4. QED
    BY <2>1, <2>2, <2>3, HandlesKept
<1>5. ASSUME NEW j \in Job, EndEarlyCancelled(j) \/ EndJob(j) PROVE HandleInv'
  <2>1. rt.max_concurrent \in Nat
    BY RuntimeAssumption DEF TypeOK, RuntimeRecord
  <2>2. QED
    BY <1>5, <2>1, LeaveEffect, HandlesKept
<1>6. CASE \/ ExecutorBlocks \/ ExecutorSleeps \/ TakeStop \/ TakeActivation
           \/ TakeDrain \/ TakeReload \/ ExecutorSpins \/ TakeJobs
           \/ EndAdmission
  BY <1>6 DEF HandleInv, CapacityBound, TypeOK, RuntimeRecord, ExecutorBlocks,
         ExecutorSleeps, TakeStop, TakeActivation, TakeDrain, TakeReload,
         ExecutorSpins, TakeJobs, EndAdmission, Go, Loop, AtWait
<1>7. CASE \/ BeginLoad \/ LoadFails \/ AcquireGranted \/ AcquireThrows
           \/ FailQueued
  BY <1>7 DEF HandleInv, CapacityBound, TypeOK, RuntimeRecord, BeginLoad,
         LoadFails, AcquireGranted, AcquireThrows, FailQueued, Loop, Go, AtWait
<1>8. CASE \/ BeginReclaim \/ UnloadBackend \/ EndReclaim \/ AfterReclaim
  BY <1>8 DEF HandleInv, CapacityBound, TypeOK, RuntimeRecord, BeginReclaim,
         UnloadBackend, EndReclaim, AfterReclaim, Go, Loop, AtWait
<1>9. CASE JoinPostTurnWorker
  BY <1>9 DEF HandleInv, CapacityBound, TypeOK, RuntimeRecord, JoinPostTurnWorker
<1>10. CASE TakePostTurn
  BY <1>10 DEF HandleInv, CapacityBound, TypeOK, RuntimeRecord, TakePostTurn
<1>11. ASSUME NEW force \in BOOLEAN,
             \/ Grant \/ Activate \/ ActivateResident \/ RequestDrain
             \/ ExpireStaleQueuedJobs \/ Stop \/ StopCancelWatchdog(force)
      PROVE  HandleInv'
  BY <1>11 DEF HandleInv, CapacityBound, TypeOK, RuntimeRecord, Grant, Activate,
         ActivateResident, RequestDrain, ExpireStaleQueuedJobs, Stop,
         StopCancelWatchdog, Activated, Undrained, Notify, Woken, PendingReleased
<1>12. ASSUME NEW j \in Job,
             \/ Enqueue(j) \/ EnqueueNotify(j) \/ CancelQueued(j)
             \/ CancelRunning(j)
      PROVE  HandleInv'
  BY <1>12 DEF HandleInv, CapacityBound, TypeOK, RuntimeRecord, Enqueue,
         EnqueueNotify, CancelQueued, CancelRunning, Notify, Woken
<1>13. ASSUME NEW j \in Job,
             \/ StartJob(j) \/ ExecuteReturns(j) \/ ExecuteThrows(j)
             \/ CompleteJob(j) \/ SessionReady(j) \/ CatchError(j)
             \/ NotifyError(j) \/ InvalidateCancelWatchdog(j)
             \/ RecoverBegin(j) \/ RecoverUnload(j) \/ RecoverEndReclaim(j)
             \/ RecoverEnd(j)
      PROVE  HandleInv'
  BY <1>13 DEF HandleInv, CapacityBound, TypeOK, RuntimeRecord, StartJob,
         ExecuteReturns, ExecuteThrows, CompleteJob, SessionReady, CatchError,
         NotifyError, InvalidateCancelWatchdog, RecoverBegin, RecoverUnload,
         RecoverEndReclaim, RecoverEnd, JobFrame, Notify, Woken
<1>14. ASSUME NEW j \in Job,
             \/ ArmCancelWatchdog(j) \/ WatchdogFires(j) \/ SendAbort(j)
             \/ ForceKillActiveWorker(j) \/ MarkBackendKilled(j)
      PROVE  HandleInv'
  BY <1>14 DEF HandleInv, CapacityBound, TypeOK, RuntimeRecord, ArmCancelWatchdog,
         WatchdogFires, SendAbort, ForceKillActiveWorker, MarkBackendKilled,
         WatchdogFrame
<1>15. CASE WorkerDies
  BY <1>15 DEF HandleInv, CapacityBound, TypeOK, RuntimeRecord, WorkerDies
<1>16. CASE UNCHANGED vars
  BY <1>16 DEF HandleInv, CapacityBound, TypeOK, RuntimeRecord, vars
<1>17. QED
  BY <1>1, <1>2, <1>3, <1>4, <1>5, <1>6, <1>7, <1>8, <1>9, <1>10, <1>11, <1>12,
     <1>13, <1>14, <1>15, <1>16 DEF Next, Executor, Deciding, Loading, Reclaiming,
     Exiting, PostTurn, Pool, Client, JobThread, Watchdog

\* A job's thread that moves its job to where it must have been answered, answers it.
LEMMA AnsweredMove ==
    ASSUME TypeOK, AnsweredInv, NEW j \in Job, JobThread(j),
           rt'.force_stop = rt.force_stop,
           \A k \in Job \ {j} : answered'[k] = answered[k],
           j \in cancelled \/ jobs'[j].pc \in Answering
               => rt.force_stop \/ answered'[j] # {}
    PROVE  AnsweredInv'
<1>1. /\ UNCHANGED <<cancelled, stopper>>
      /\ \A k \in Job \ {j} : jobs'[k] = jobs[k]
  BY JobThreadEffect DEF TypeOK
<1>2. QED
  BY <1>1 DEF AnsweredInv

\* A job is answered before it leaves, and before its cancelled flag is seen, unless a
\* forced stop sets the flag.
LEMMA AnsweredStep ==
    TypeOK /\ QueueInv /\ RunningInFlight /\ AnsweredInv /\ [Next]_vars
       => AnsweredInv'
<1> SUFFICES ASSUME TypeOK, QueueInv, RunningInFlight, AnsweredInv, [Next]_vars
             PROVE  AnsweredInv'
  OBVIOUS
<1>1. CASE BeginLoad
  <2>1. rt'.force_stop = rt.force_stop
    BY <1>1 DEF BeginLoad, TypeOK, RuntimeRecord
  <2>2. UNCHANGED <<jobs, cancelled, answered, stopper>>
    BY <1>1 DEF BeginLoad
  <2>3. QED
    BY <2>1, <2>2 DEF AnsweredInv
<1>2. CASE AfterReclaim
  <2>1. rt'.force_stop = rt.force_stop
    BY <1>2 DEF AfterReclaim, TypeOK, RuntimeRecord
  <2>2. UNCHANGED <<jobs, cancelled, answered, stopper>>
    BY <1>2 DEF AfterReclaim
  <2>3. QED
    BY <2>1, <2>2 DEF AnsweredInv
<1>3. CASE Activate
  <2>1. rt'.force_stop = rt.force_stop
    BY <1>3 DEF Activate, Activated, Undrained, TypeOK, RuntimeRecord
  <2>2. UNCHANGED <<jobs, cancelled, answered, stopper>>
    BY <1>3 DEF Activate
  <2>3. QED
    BY <2>1, <2>2 DEF AnsweredInv
<1>4. CASE ActivateResident
  <2>1. rt'.force_stop = rt.force_stop
    BY <1>4 DEF ActivateResident, Undrained, TypeOK, RuntimeRecord
  <2>2. UNCHANGED <<jobs, cancelled, answered, stopper>>
    BY <1>4 DEF ActivateResident
  <2>3. QED
    BY <2>1, <2>2 DEF AnsweredInv
<1>5. CASE RequestDrain
  <2>1. rt'.force_stop = rt.force_stop
    BY <1>5 DEF RequestDrain, TypeOK, RuntimeRecord
  <2>2. UNCHANGED <<jobs, cancelled, answered, stopper>>
    BY <1>5 DEF RequestDrain
  <2>3. QED
    BY <2>1, <2>2 DEF AnsweredInv
<1>6. ASSUME NEW force \in BOOLEAN, StopCancelWatchdog(force) PROVE AnsweredInv'
  <2>1. stopper = "none" /\ UNCHANGED <<rt, jobs, cancelled, answered>>
    BY <1>6 DEF StopCancelWatchdog
  <2>2. QED
    BY <2>1 DEF AnsweredInv
<1>7. CASE ExpireStaleQueuedJobs
  <2>1. PICK expired \in SUBSET Queued(lanes) :
           /\ answered' = [j \in Job |-> IF j \in expired
                                         THEN answered[j] \cup {"error"} ELSE answered[j]]
           /\ jobs' = [j \in Job |-> IF j \in expired
                                     THEN [jobs[j] EXCEPT !.pc = "done"] ELSE jobs[j]]
           /\ UNCHANGED <<rt, cancelled, stopper>>
    BY <1>7 DEF ExpireStaleQueuedJobs, Answer
  <2>2. \A j \in Job : /\ j \in expired => answered'[j] # {}
                       /\ j \notin expired => answered'[j] = answered[j]
                                              /\ jobs'[j] = jobs[j]
    BY <2>1
  <2>3. QED
    BY <2>1, <2>2 DEF AnsweredInv
<1>8. CASE Stop
  <2>1. /\ rt'.force_stop = (stopper = "joinForce")
        /\ stopper' = "stopping"
        /\ UNCHANGED <<jobs, answered>>
        /\ stopper # "joinForce" => UNCHANGED cancelled
        /\ ~rt.force_stop
    BY <1>8 DEF Stop, TypeOK, RuntimeRecord, AnsweredInv
  <2>2. QED
    BY <2>1 DEF AnsweredInv
<1>9. ASSUME NEW j \in Job, ExecuteReturns(j) PROVE AnsweredInv'
  <2>1. CASE j \in cancelled
    <3>1. /\ answered' = [k \in Job |-> IF k \in {j} THEN answered[k] \cup {"cancelled"}
                                       ELSE answered[k]]
          /\ UNCHANGED rt
      BY <1>9, <2>1 DEF ExecuteReturns, Answer
    <3>2. QED
      BY <1>9, <3>1, AnsweredMove DEF JobThread
  <2>2. CASE j \notin cancelled
    <3>1. /\ UNCHANGED <<answered, rt>>
          /\ jobs' = [jobs EXCEPT ![j].pc = "responded"]
      BY <1>9, <2>2 DEF ExecuteReturns, SetJob
    <3>2. jobs'[j].pc \notin Answering
      BY <3>1 DEF TypeOK, JobRecord, Answering, Finishing
    <3>3. QED
      BY <1>9, <2>2, <3>1, <3>2, AnsweredMove DEF JobThread
  <2>3. QED
    BY <2>1, <2>2
<1>10. ASSUME NEW j \in Job, BeginPostTurn(j) PROVE AnsweredInv'
  <2>1. /\ UNCHANGED answered
        /\ jobs' = [jobs EXCEPT ![j].pc = "completing"]
    BY <1>10 DEF BeginPostTurn, SetJob
  <2>2. rt'.force_stop = rt.force_stop
    BY <1>10 DEF BeginPostTurn, TypeOK, RuntimeRecord
  <2>3. jobs'[j].pc \notin Answering
    BY <2>1 DEF TypeOK, JobRecord, Answering, Finishing
  <2>4. QED
    BY <1>10, <2>1, <2>2, <2>3, AnsweredMove DEF JobThread, AnsweredInv
<1>11. ASSUME NEW j \in Job, ExecuteThrows(j) PROVE AnsweredInv'
  <2>1. CASE j \in cancelled
    <3>1. /\ answered' = [k \in Job |-> IF k \in {j} THEN answered[k] \cup {"cancelled"}
                                       ELSE answered[k]]
          /\ UNCHANGED rt
      BY <1>11, <2>1 DEF ExecuteThrows, Answer
    <3>2. QED
      BY <1>11, <3>1, AnsweredMove DEF JobThread
  <2>2. CASE j \notin cancelled
    <3>1. /\ UNCHANGED <<answered, rt>>
          /\ \E recover :
                jobs' = [jobs EXCEPT ![j] = [pc |-> "threw", recover |-> recover]]
      BY <1>11, <2>2 DEF ExecuteThrows
    <3>2. jobs'[j].pc \notin Answering
      BY <3>1 DEF TypeOK, Answering, Finishing
    <3>3. QED
      BY <1>11, <2>2, <3>1, <3>2, AnsweredMove DEF JobThread
  <2>3. QED
    BY <2>1, <2>2
<1>12. ASSUME NEW j \in Job, EndEarlyCancelled(j) \/ EndJob(j) PROVE AnsweredInv'
  <2>1. UNCHANGED answered /\ jobs[j].pc \in Answering
    BY <1>12 DEF EndEarlyCancelled, EndJob, Answering
  <2>2. rt'.force_stop = rt.force_stop
    BY <1>12, LeaveEffect
  <2>3. QED
    BY <1>12, <2>1, <2>2, AnsweredMove DEF JobThread, AnsweredInv
<1>13. CASE \/ BeginReclaim \/ UnloadBackend \/ EndReclaim
  BY <1>13 DEF AnsweredInv, Answering, Finishing, InFlight, TypeOK, JobRecord,
         RuntimeRecord, BeginReclaim, UnloadBackend, EndReclaim, Go
<1>14. CASE \/ StopPostTurnWorker \/ JoinPostTurnWorker \/ ExecutorEnds
  <2>1. UNCHANGED <<jobs, cancelled, answered>> /\ stopper' \in {stopper, "joined"}
    BY <1>14 DEF StopPostTurnWorker, JoinPostTurnWorker, ExecutorEnds
  <2>2. rt'.force_stop = rt.force_stop
    <3>1. CASE StopPostTurnWorker
      BY <3>1 DEF StopPostTurnWorker, TypeOK, RuntimeRecord
    <3>2. CASE JoinPostTurnWorker
      BY <3>2 DEF JoinPostTurnWorker, TypeOK, RuntimeRecord
    <3>3. CASE ExecutorEnds
      BY <3>3 DEF ExecutorEnds, TypeOK, RuntimeRecord
    <3>4. QED
      BY <1>14, <3>1, <3>2, <3>3
  <2>3. QED
    BY <2>1, <2>2 DEF AnsweredInv
<1>15. CASE \/ TakePostTurn \/ FinishPostTurn
  BY <1>15 DEF AnsweredInv, Answering, Finishing, InFlight, TypeOK, JobRecord,
         RuntimeRecord, TakePostTurn, FinishPostTurn, Notify, Woken, DrainedOrIdle
<1>16. CASE Grant
  BY <1>16 DEF AnsweredInv, Answering, Finishing, InFlight, TypeOK, JobRecord,
         RuntimeRecord, Grant
<1>17. ASSUME NEW j \in Job,
             \/ ArmCancelWatchdog(j) \/ WatchdogFires(j) \/ SendAbort(j)
             \/ ForceKillActiveWorker(j) \/ MarkBackendKilled(j)
      PROVE  AnsweredInv'
  BY <1>17 DEF AnsweredInv, Answering, Finishing, InFlight, TypeOK, JobRecord,
         RuntimeRecord, ArmCancelWatchdog, WatchdogFires, SendAbort,
         ForceKillActiveWorker, MarkBackendKilled, WatchdogFrame
<1>18. CASE WorkerDies
  BY <1>18 DEF AnsweredInv, Answering, Finishing, InFlight, TypeOK, JobRecord,
         RuntimeRecord, WorkerDies
<1>19. CASE ExecutorBlocks
  BY <1>19 DEF AnsweredInv, Answering, Finishing, InFlight, TypeOK, JobRecord,
         RuntimeRecord, ExecutorBlocks, Go
<1>20. CASE ExecutorSleeps
  BY <1>20 DEF AnsweredInv, Answering, Finishing, InFlight, TypeOK, JobRecord,
         RuntimeRecord, ExecutorSleeps, Go
<1>21. CASE TakeStop
  BY <1>21 DEF AnsweredInv, Answering, Finishing, InFlight, TypeOK, JobRecord,
         RuntimeRecord, TakeStop, Go
<1>22. CASE TakeActivation
  BY <1>22 DEF AnsweredInv, Answering, Finishing, InFlight, TypeOK, JobRecord,
         RuntimeRecord, TakeActivation
<1>23. CASE TakeDrain
  BY <1>23 DEF AnsweredInv, Answering, Finishing, InFlight, TypeOK, JobRecord,
         RuntimeRecord, TakeDrain
<1>24. CASE TakeReload
  BY <1>24 DEF AnsweredInv, Answering, Finishing, InFlight, TypeOK, JobRecord,
         RuntimeRecord, TakeReload
<1>25. CASE ExecutorSpins
  BY <1>25 DEF AnsweredInv, Answering, Finishing, InFlight, TypeOK, JobRecord,
         RuntimeRecord, ExecutorSpins
<1>26. CASE TakeJobs
  BY <1>26 DEF AnsweredInv, Answering, Finishing, InFlight, TypeOK, JobRecord,
         RuntimeRecord, TakeJobs, Go
<1>27. CASE AdmitJob
  BY <1>27 DEF AnsweredInv, Answering, Finishing, InFlight, TypeOK, JobRecord,
         RuntimeRecord, AdmitJob, SetJob
<1>28. CASE EndAdmission
  BY <1>28 DEF AnsweredInv, Answering, Finishing, InFlight, TypeOK, JobRecord,
         RuntimeRecord, EndAdmission, Loop, AtWait
<1>29. CASE LoadSucceeds
  BY <1>29 DEF AnsweredInv, Answering, Finishing, InFlight, TypeOK, JobRecord,
         RuntimeRecord, LoadSucceeds, Loop, AtWait
<1>30. CASE LoadFails
  BY <1>30 DEF AnsweredInv, Answering, Finishing, InFlight, TypeOK, JobRecord,
         RuntimeRecord, LoadFails
<1>31. CASE AcquireGranted
  BY <1>31 DEF AnsweredInv, Answering, Finishing, InFlight, TypeOK, JobRecord,
         RuntimeRecord, AcquireGranted
<1>32. CASE AcquireThrows
  BY <1>32 DEF AnsweredInv, Answering, Finishing, InFlight, TypeOK, JobRecord,
         RuntimeRecord, AcquireThrows, Go, Loop, AtWait
<1>33. CASE FailQueued
  BY <1>33 DEF AnsweredInv, Answering, Finishing, InFlight, TypeOK, JobRecord,
         RuntimeRecord, QueueInv, NoSilentDrop, FailQueued, Answer, Go, Loop,
         AtWait
<1>34. ASSUME NEW j \in Job,
             Enqueue(j)
      PROVE  AnsweredInv'
  BY <1>34 DEF AnsweredInv, Answering, Finishing, InFlight, TypeOK, JobRecord,
         RuntimeRecord, Enqueue, SetJob
<1>35. ASSUME NEW j \in Job,
             EnqueueNotify(j)
      PROVE  AnsweredInv'
  BY <1>35 DEF AnsweredInv, Answering, Finishing, InFlight, TypeOK, JobRecord,
         RuntimeRecord, EnqueueNotify, Notify, Woken
<1>36. ASSUME NEW j \in Job,
             CancelQueued(j)
      PROVE  AnsweredInv'
  BY <1>36 DEF AnsweredInv, Answering, Finishing, InFlight, TypeOK, JobRecord,
         RuntimeRecord, QueueInv, NoSilentDrop, CancelQueued, Answer, SetJob
<1>37. ASSUME NEW j \in Job,
             CancelRunning(j)
      PROVE  AnsweredInv'
  BY <1>37 DEF AnsweredInv, Answering, Finishing, InFlight, TypeOK, JobRecord,
         RuntimeRecord, RunningInFlight, Running, CancelRunning, Answer
<1>38. ASSUME NEW j \in Job,
             StartJob(j)
      PROVE  AnsweredInv'
  BY <1>38 DEF AnsweredInv, Answering, Finishing, InFlight, TypeOK, JobRecord,
         RuntimeRecord, StartJob, Answer, SetJob, JobFrame
<1>39. ASSUME NEW j \in Job,
             CompleteJob(j)
      PROVE  AnsweredInv'
  BY <1>39 DEF AnsweredInv, Answering, Finishing, InFlight, TypeOK, JobRecord,
         RuntimeRecord, CompleteJob, Answer, SetJob, JobFrame
<1>40. ASSUME NEW j \in Job,
             SessionReady(j)
      PROVE  AnsweredInv'
  BY <1>40 DEF AnsweredInv, Answering, Finishing, InFlight, TypeOK, JobRecord,
         RuntimeRecord, SessionReady, SetJob, JobFrame
<1>41. ASSUME NEW j \in Job,
             CatchError(j)
      PROVE  AnsweredInv'
  BY <1>41 DEF AnsweredInv, Answering, Finishing, InFlight, TypeOK, JobRecord,
         RuntimeRecord, CatchError, SetJob, JobFrame
<1>42. ASSUME NEW j \in Job,
             NotifyError(j)
      PROVE  AnsweredInv'
  BY <1>42 DEF AnsweredInv, Answering, Finishing, InFlight, TypeOK, JobRecord,
         RuntimeRecord, NotifyError, Answer, SetJob, JobFrame
<1>43. ASSUME NEW j \in Job,
             InvalidateCancelWatchdog(j)
      PROVE  AnsweredInv'
  BY <1>43 DEF AnsweredInv, Answering, Finishing, InFlight, TypeOK, JobRecord,
         RuntimeRecord, InvalidateCancelWatchdog, Notify, Woken
<1>44. ASSUME NEW j \in Job,
             RecoverBegin(j)
      PROVE  AnsweredInv'
  BY <1>44 DEF AnsweredInv, Answering, Finishing, InFlight, TypeOK, JobRecord,
         RuntimeRecord, RecoverBegin, SetJob, JobFrame
<1>45. ASSUME NEW j \in Job,
             RecoverUnload(j)
      PROVE  AnsweredInv'
  BY <1>45 DEF AnsweredInv, Answering, Finishing, InFlight, TypeOK, JobRecord,
         RuntimeRecord, RecoverUnload, SetJob, JobFrame
<1>46. ASSUME NEW j \in Job,
             RecoverEndReclaim(j)
      PROVE  AnsweredInv'
  BY <1>46 DEF AnsweredInv, Answering, Finishing, InFlight, TypeOK, JobRecord,
         RuntimeRecord, RecoverEndReclaim, SetJob, JobFrame
<1>47. ASSUME NEW j \in Job,
             RecoverEnd(j)
      PROVE  AnsweredInv'
  BY <1>47 DEF AnsweredInv, Answering, Finishing, InFlight, TypeOK, JobRecord,
         RuntimeRecord, RecoverEnd, SetJob, JobFrame, Notify, Woken
<1>48. CASE UNCHANGED vars
  BY <1>48 DEF AnsweredInv, Answering, Finishing, InFlight, TypeOK, JobRecord,
         RuntimeRecord, vars
<1>49. QED
  BY <1>1, <1>2, <1>3, <1>4, <1>5, <1>6, <1>7, <1>8, <1>9, <1>10, <1>11, <1>12,
     <1>13, <1>14, <1>15, <1>16, <1>17, <1>18, <1>19, <1>20, <1>21, <1>22, <1>23,
     <1>24, <1>25, <1>26, <1>27, <1>28, <1>29, <1>30, <1>31, <1>32, <1>33, <1>34,
     <1>35, <1>36, <1>37, <1>38, <1>39, <1>40, <1>41, <1>42, <1>43, <1>44, <1>45,
     <1>46, <1>47, <1>48 DEF Next, Executor, Deciding, Loading, Reclaiming,
     Exiting, PostTurn, Pool, Client, JobThread, Watchdog

\* Only AdmitJob adds to running_jobs_.
LEMMA OnlyAdmissionStarts ==
    TypeOK /\ [Next]_vars
       => AdmitJob \/ rt'.running_jobs \subseteq rt.running_jobs
<1> SUFFICES ASSUME TypeOK, [Next]_vars
             PROVE  AdmitJob \/ rt'.running_jobs \subseteq rt.running_jobs
  OBVIOUS
<1>1. CASE AdmitJob
  BY <1>1
<1>2. ASSUME NEW j \in Job, EndEarlyCancelled(j) \/ EndJob(j)
      PROVE  rt'.running_jobs \subseteq rt.running_jobs
  BY <1>2, LeaveEffect
<1>3. CASE \/ ExecutorBlocks \/ ExecutorSleeps \/ TakeStop \/ TakeActivation
           \/ TakeDrain \/ TakeReload \/ ExecutorSpins \/ TakeJobs
           \/ EndAdmission
  BY <1>3 DEF TypeOK, RuntimeRecord, ExecutorBlocks, ExecutorSleeps, TakeStop,
         TakeActivation, TakeDrain, TakeReload, ExecutorSpins, TakeJobs,
         EndAdmission, Go, Loop, AtWait
<1>4. CASE \/ BeginLoad \/ LoadSucceeds \/ LoadFails \/ AcquireGranted
           \/ AcquireThrows \/ FailQueued
  BY <1>4 DEF TypeOK, RuntimeRecord, BeginLoad, LoadSucceeds, LoadFails,
         AcquireGranted, AcquireThrows, FailQueued, Loop, Go, AtWait
<1>5. CASE \/ BeginReclaim \/ UnloadBackend \/ EndReclaim \/ AfterReclaim
  BY <1>5 DEF TypeOK, RuntimeRecord, BeginReclaim, UnloadBackend, EndReclaim,
         AfterReclaim, Go, Loop, AtWait
<1>6. CASE \/ StopPostTurnWorker \/ JoinPostTurnWorker \/ ExecutorEnds
  BY <1>6 DEF TypeOK, RuntimeRecord, StopPostTurnWorker, JoinPostTurnWorker,
         ExecutorEnds, Go
<1>7. CASE \/ TakePostTurn \/ FinishPostTurn
  BY <1>7 DEF TypeOK, RuntimeRecord, TakePostTurn, FinishPostTurn, Notify, Woken,
         DrainedOrIdle
<1>8. ASSUME NEW force \in BOOLEAN,
             \/ Grant \/ Activate \/ ActivateResident \/ RequestDrain
             \/ ExpireStaleQueuedJobs \/ Stop \/ StopCancelWatchdog(force)
      PROVE  AdmitJob \/ rt'.running_jobs \subseteq rt.running_jobs
  BY <1>8 DEF TypeOK, RuntimeRecord, Grant, Activate, ActivateResident,
         RequestDrain, ExpireStaleQueuedJobs, Stop, StopCancelWatchdog, Activated,
         Undrained, Notify, Woken, PendingReleased
<1>9. ASSUME NEW j \in Job,
             \/ Enqueue(j) \/ EnqueueNotify(j) \/ CancelQueued(j)
             \/ CancelRunning(j)
      PROVE  AdmitJob \/ rt'.running_jobs \subseteq rt.running_jobs
  BY <1>9 DEF TypeOK, RuntimeRecord, Enqueue, EnqueueNotify, CancelQueued,
         CancelRunning, Notify, Woken
<1>10. ASSUME NEW j \in Job,
             \/ StartJob(j) \/ ExecuteReturns(j) \/ ExecuteThrows(j)
             \/ BeginPostTurn(j) \/ CompleteJob(j) \/ SessionReady(j)
             \/ CatchError(j) \/ NotifyError(j) \/ InvalidateCancelWatchdog(j)
             \/ RecoverBegin(j) \/ RecoverUnload(j) \/ RecoverEndReclaim(j)
             \/ RecoverEnd(j)
      PROVE  AdmitJob \/ rt'.running_jobs \subseteq rt.running_jobs
  BY <1>10 DEF TypeOK, RuntimeRecord, StartJob, ExecuteReturns, ExecuteThrows,
         BeginPostTurn, CompleteJob, SessionReady, CatchError, NotifyError,
         InvalidateCancelWatchdog, RecoverBegin, RecoverUnload, RecoverEndReclaim,
         RecoverEnd, JobFrame, Notify, Woken
<1>11. ASSUME NEW j \in Job,
             \/ ArmCancelWatchdog(j) \/ WatchdogFires(j) \/ SendAbort(j)
             \/ ForceKillActiveWorker(j) \/ MarkBackendKilled(j)
      PROVE  AdmitJob \/ rt'.running_jobs \subseteq rt.running_jobs
  BY <1>11 DEF TypeOK, RuntimeRecord, ArmCancelWatchdog, WatchdogFires, SendAbort,
         ForceKillActiveWorker, MarkBackendKilled, WatchdogFrame
<1>12. CASE WorkerDies
  BY <1>12 DEF TypeOK, RuntimeRecord, WorkerDies
<1>13. CASE UNCHANGED vars
  BY <1>13 DEF TypeOK, RuntimeRecord, vars
<1>14. QED
  BY <1>1, <1>2, <1>3, <1>4, <1>5, <1>6, <1>7, <1>8, <1>9, <1>10, <1>11, <1>12,
     <1>13 DEF Next, Executor, Deciding, Loading, Reclaiming, Exiting, PostTurn,
     Pool, Client, JobThread, Watchdog

\* Every step keeps the types.
LEMMA TypeStep ==
    TypeOK /\ QueueInv /\ ExecutorInv /\ WellFormed(lanes') /\ [Next]_vars
       => TypeOK'
<1> SUFFICES ASSUME TypeOK, QueueInv, ExecutorInv, WellFormed(lanes'), [Next]_vars
             PROVE  TypeOK'
  OBVIOUS
<1>1. CASE TakeActivation
  <2>1. rt' \in RuntimeRecord
    BY <1>1 DEF TakeActivation, TypeOK, RuntimeRecord, State
  <2>2. executor' \in ExecutorRecord
    BY <1>1 DEF TakeActivation, TypeOK, ExecutorRecord
  <2>3. QED
    BY <1>1, <2>1, <2>2 DEF TakeActivation, TypeOK
<1>2. CASE TakeDrain
  <2>1. rt' \in RuntimeRecord
    BY <1>2 DEF TakeDrain, TypeOK, RuntimeRecord, State
  <2>2. executor' \in ExecutorRecord
    BY <1>2 DEF TakeDrain, TypeOK, ExecutorRecord
  <2>3. QED
    BY <1>2, <2>1, <2>2 DEF TakeDrain, TypeOK
<1>3. CASE TakeReload
  <2>1. rt' \in RuntimeRecord
    BY <1>3 DEF TakeReload, TypeOK, RuntimeRecord, State
  <2>2. executor' \in ExecutorRecord
    BY <1>3 DEF TakeReload, TypeOK, ExecutorRecord
  <2>3. QED
    BY <1>3, <2>1, <2>2 DEF TakeReload, TypeOK
<1>4. CASE BeginLoad
  <2>1. rt' \in RuntimeRecord
    <3>1. \E s \in State : rt' = [rt EXCEPT !.state = s] \/ rt' = rt
      BY <1>4 DEF BeginLoad, TypeOK, RuntimeRecord, State
    <3>2. QED
      BY <3>1, StateSet DEF TypeOK
  <2>2. executor' \in ExecutorRecord
    BY <1>4 DEF BeginLoad, TypeOK, ExecutorRecord, Go, Loop, AtWait
  <2>3. QED
    BY <1>4, <2>1, <2>2 DEF BeginLoad, TypeOK
<1>5. CASE LoadSucceeds
  <2>1. rt' \in RuntimeRecord
    BY <1>5 DEF LoadSucceeds, TypeOK, RuntimeRecord, State
  <2>2. executor' \in ExecutorRecord
    BY <1>5 DEF LoadSucceeds, TypeOK, ExecutorRecord, Loop, AtWait
  <2>3. QED
    BY <1>5, <2>1, <2>2 DEF LoadSucceeds, TypeOK
<1>6. CASE LoadFails
  <2>1. rt' \in RuntimeRecord
    BY <1>6 DEF LoadFails, TypeOK, RuntimeRecord, State
  <2>2. executor' \in ExecutorRecord
    BY <1>6 DEF LoadFails, TypeOK, ExecutorRecord
  <2>3. QED
    BY <1>6, <2>1, <2>2 DEF LoadFails, TypeOK
<1>7. CASE FailQueued
  <2>1. executor' \in ExecutorRecord
    BY <1>7 DEF FailQueued, TypeOK, ExecutorRecord, Go, Loop, AtWait
  <2>2. jobs' \in [Job -> JobRecord]
    BY <1>7 DEF FailQueued, TypeOK, JobRecord
  <2>3. answered' \in [Job -> SUBSET Outcome]
    BY <1>7 DEF FailQueued, TypeOK, Outcome, Answer
  <2>4. QED
    BY <1>7, <2>1, <2>2, <2>3 DEF FailQueued, TypeOK, WellFormed
<1>8. CASE AfterReclaim
  <2>1. rt' \in RuntimeRecord
    <3>1. CASE executor.purpose = "unload"
      BY <1>8, <3>1 DEF AfterReclaim, TypeOK, RuntimeRecord, State
    <3>2. CASE executor.purpose # "unload"
      <4>1. \E s \in State : rt' = [rt EXCEPT !.state = s] \/ rt' = rt
        BY <1>8, <3>2 DEF AfterReclaim, TypeOK, RuntimeRecord, State
      <4>2. QED
        BY <4>1, StateSet DEF TypeOK
    <3>3. QED
      BY <3>1, <3>2
  <2>2. executor' \in ExecutorRecord
    BY <1>8 DEF AfterReclaim, TypeOK, ExecutorRecord, Go, Loop, AtWait
  <2>3. QED
    BY <1>8, <2>1, <2>2 DEF AfterReclaim, TypeOK
<1>9. CASE JoinPostTurnWorker
  <2>1. rt' \in RuntimeRecord
    BY <1>9 DEF JoinPostTurnWorker, TypeOK, RuntimeRecord, State
  <2>2. executor' \in ExecutorRecord
    BY <1>9 DEF JoinPostTurnWorker, TypeOK, ExecutorRecord
  <2>3. QED
    BY <1>9, <2>1, <2>2 DEF JoinPostTurnWorker, TypeOK
<1>10. CASE ExecutorEnds
  <2>1. rt' \in RuntimeRecord
    BY <1>10 DEF ExecutorEnds, TypeOK, RuntimeRecord, State
  <2>2. executor' \in ExecutorRecord
    BY <1>10 DEF ExecutorEnds, TypeOK, ExecutorRecord, Go
  <2>3. QED
    BY <1>10, <2>1, <2>2 DEF ExecutorEnds, TypeOK
<1>11. CASE FinishPostTurn
  <2>1. rt' \in RuntimeRecord
    BY <1>11 DEF FinishPostTurn, TypeOK, RuntimeRecord, State, DrainedOrIdle
  <2>2. executor' \in ExecutorRecord
    BY <1>11 DEF FinishPostTurn, TypeOK, ExecutorRecord, Notify, Woken
  <2>3. post_turn' \in PostTurnRecord
    BY <1>11 DEF FinishPostTurn, TypeOK, PostTurnRecord
  <2>4. QED
    BY <1>11, <2>1, <2>2, <2>3 DEF FinishPostTurn, TypeOK
<1>12. CASE Activate
  <2>1. rt' \in RuntimeRecord
    <3>1. CASE rt' = Activated(rt)
      BY <3>1 DEF TypeOK, RuntimeRecord, State, Activated
    <3>2. CASE rt' = Undrained(rt)
      BY <3>2 DEF TypeOK, RuntimeRecord, State, Undrained
    <3>3. QED
      BY <1>12, <3>1, <3>2 DEF Activate, TypeOK
  <2>2. executor' \in ExecutorRecord
    BY <1>12 DEF Activate, TypeOK, ExecutorRecord, Notify, Woken
  <2>3. QED
    BY <1>12, <2>1, <2>2 DEF Activate, TypeOK
<1>13. CASE ActivateResident
  <2>1. rt' \in RuntimeRecord
    BY <1>13 DEF ActivateResident, TypeOK, RuntimeRecord, State, Undrained
  <2>2. executor' \in ExecutorRecord
    BY <1>13 DEF ActivateResident, TypeOK, ExecutorRecord, Notify, Woken
  <2>3. QED
    BY <1>13, <2>1, <2>2 DEF ActivateResident, TypeOK
<1>14. CASE ExpireStaleQueuedJobs
  <2>1. jobs' \in [Job -> JobRecord]
    BY <1>14 DEF ExpireStaleQueuedJobs, TypeOK, JobRecord
  <2>2. answered' \in [Job -> SUBSET Outcome]
    BY <1>14 DEF ExpireStaleQueuedJobs, TypeOK, Outcome, Answer
  <2>3. QED
    BY <1>14, <2>1, <2>2 DEF ExpireStaleQueuedJobs, TypeOK, WellFormed
<1>15. ASSUME NEW j \in Job, CancelQueued(j) PROVE TypeOK'
  <2>1. jobs' \in [Job -> JobRecord]
    BY <1>15 DEF CancelQueued, TypeOK, JobRecord, SetJob
  <2>2. answered' \in [Job -> SUBSET Outcome]
    BY <1>15 DEF CancelQueued, TypeOK, Outcome, Answer
  <2>3. QED
    BY <1>15, <2>1, <2>2 DEF CancelQueued, TypeOK, WellFormed
<1>16. ASSUME NEW j \in Job, CancelRunning(j) PROVE TypeOK'
  <2>1. watchdog' \in [Job -> WatchdogPC]
    BY <1>16 DEF CancelRunning, TypeOK, WatchdogPC
  <2>2. answered' \in [Job -> SUBSET Outcome]
    BY <1>16 DEF CancelRunning, TypeOK, Outcome, Answer
  <2>3. QED
    BY <1>16, <2>1, <2>2 DEF CancelRunning, TypeOK
<1>17. ASSUME NEW j \in Job, MarkBackendKilled(j) PROVE TypeOK'
  <2>1. rt' \in RuntimeRecord
    BY <1>17 DEF MarkBackendKilled, TypeOK, RuntimeRecord, State
  <2>2. watchdog' \in [Job -> WatchdogPC]
    BY <1>17 DEF MarkBackendKilled, TypeOK, WatchdogPC
  <2>3. QED
    BY <1>17, <2>1, <2>2 DEF MarkBackendKilled, TypeOK, WatchdogFrame
<1>18. CASE AdmitJob
  <2>1. PICK j \in Job :
           /\ jobs' = [jobs EXCEPT ![j].pc = "admitted"]
           /\ rt' = [rt EXCEPT !.running_jobs = @ \cup {j},
                               !.active_sessions = @ \cup {SessionOf[j]},
                               !.state = "Running"]
    BY <1>18, AdmitJobEffect
  <2>2. rt \in RuntimeRecord /\ SessionOf[j] \in Session
    BY RuntimeAssumption DEF TypeOK
  <2>3. rt' \in RuntimeRecord
    BY <2>1, <2>2 DEF RuntimeRecord, State
  <2>4. jobs' \in [Job -> JobRecord]
    BY <2>1 DEF TypeOK, JobRecord, InFlight
  <2>5. QED
    BY <1>18, <2>3, <2>4 DEF AdmitJob, TypeOK, WellFormed
<1>19. CASE RequestDrain
  <2>1. rt' \in {[rt EXCEPT !.activation_requested = FALSE],
                 [rt EXCEPT !.activation_requested = FALSE, !.drain_mode = TRUE],
                 [rt EXCEPT !.activation_requested = FALSE, !.drain_mode = TRUE,
                            !.state = "Draining"]}
    BY <1>19 DEF RequestDrain, TypeOK, RuntimeRecord
  <2>2. rt' \in RuntimeRecord
    <3>1. CASE rt' = [rt EXCEPT !.activation_requested = FALSE]
      BY <3>1 DEF TypeOK, RuntimeRecord, State
    <3>2. CASE rt' = [rt EXCEPT !.activation_requested = FALSE,
                                !.drain_mode = TRUE]
      BY <3>2 DEF TypeOK, RuntimeRecord, State
    <3>3. CASE rt' = [rt EXCEPT !.activation_requested = FALSE,
                                !.drain_mode = TRUE, !.state = "Draining"]
      BY <3>3 DEF TypeOK, RuntimeRecord, State
    <3>4. QED
      BY <2>1, <3>1, <3>2, <3>3
  <2>3. executor' \in ExecutorRecord
    BY <1>19 DEF RequestDrain, Notify, Woken, TypeOK, ExecutorRecord
  <2>4. QED
    BY <1>19, <2>2, <2>3 DEF RequestDrain, TypeOK
<1>20. CASE TakePostTurn
  <2>1. Head(post_turn.queue) \in Session /\ Tail(post_turn.queue) \in Seq(Session)
    BY <1>20, HeadTailProperties DEF TakePostTurn, TypeOK, PostTurnRecord
  <2>2. post_turn' \in PostTurnRecord
    BY <1>20, <2>1 DEF TakePostTurn, TypeOK, PostTurnRecord
  <2>3. QED
    BY <1>20, <2>2 DEF TakePostTurn, TypeOK
<1>21. CASE StopPostTurnWorker
  <2>1. rt' \in RuntimeRecord
    BY <1>21 DEF StopPostTurnWorker, TypeOK, RuntimeRecord, State
  <2>2. executor' \in ExecutorRecord
    BY <1>21 DEF StopPostTurnWorker, TypeOK, ExecutorRecord, Go
  <2>3. post_turn' \in PostTurnRecord
    BY <1>21, EmptySeq DEF StopPostTurnWorker, TypeOK, PostTurnRecord
  <2>4. QED
    BY <1>21, <2>1, <2>2, <2>3 DEF StopPostTurnWorker, TypeOK
<1>22. CASE AcquireGranted
  <2>1. executor.attempt + 1 \in {1, 2}
    BY <1>22 DEF AcquireGranted, ExecutorInv
  <2>2. executor' \in ExecutorRecord
    BY <1>22, <2>1 DEF AcquireGranted, TypeOK, ExecutorRecord
  <2>3. QED
    BY <1>22, <2>2 DEF AcquireGranted, TypeOK
<1>23. CASE Stop
  <2>1. worker' \in {worker, "dead"} /\ cancelled' \in SUBSET Job
    BY <1>23 DEF Stop, TypeOK, RuntimeRecord
  <2>2. rt' \in RuntimeRecord
    BY <1>23 DEF Stop, TypeOK, RuntimeRecord, State
  <2>3. executor' \in ExecutorRecord
    BY <1>23 DEF Stop, TypeOK, ExecutorRecord, Notify, Woken
  <2>4. QED
    BY <1>23, <2>1, <2>2, <2>3 DEF Stop, TypeOK, PendingReleased
<1>24. ASSUME NEW j \in Job,
             \/ StartJob(j) \/ ExecuteReturns(j) \/ ExecuteThrows(j)
             \/ CompleteJob(j) \/ SessionReady(j) \/ CatchError(j)
             \/ NotifyError(j) \/ RecoverBegin(j) \/ RecoverUnload(j)
             \/ RecoverEndReclaim(j)
      PROVE  TypeOK'
  <2>1. jobs' \in [Job -> JobRecord]
    BY <1>24, JobThreadEffect DEF JobThread, TypeOK
  <2>2. \/ UNCHANGED answered
        \/ \E outcome \in Outcome : Answer({j}, outcome)
    BY <1>24 DEF StartJob, ExecuteReturns, ExecuteThrows, CompleteJob,
           SessionReady, CatchError, NotifyError, RecoverBegin, RecoverUnload,
           RecoverEndReclaim, Outcome
  <2>3. answered' \in [Job -> SUBSET Outcome]
    BY <2>2 DEF Answer, TypeOK
  <2>4. QED
    BY <1>24, <2>1, <2>3 DEF StartJob, ExecuteReturns, ExecuteThrows,
           CompleteJob, SessionReady, CatchError, NotifyError, RecoverBegin,
           RecoverUnload, RecoverEndReclaim, JobFrame, TypeOK
<1>25. ASSUME NEW j \in Job, BeginPostTurn(j) PROVE TypeOK'
  <2>1. jobs' \in [Job -> JobRecord]
    BY <1>25, JobThreadEffect DEF JobThread, TypeOK
  <2>2. \/ UNCHANGED <<rt, post_turn>>
        \/ /\ rt' = [rt EXCEPT !.post_turn_sessions = @ \cup {SessionOf[j]}]
           /\ post_turn' = [post_turn EXCEPT !.queue = Append(@, SessionOf[j])]
    BY <1>25 DEF BeginPostTurn
  <2>3. SessionOf[j] \in Session /\ rt \in RuntimeRecord /\ post_turn \in PostTurnRecord
    BY RuntimeAssumption DEF TypeOK
  <2>4. rt' \in RuntimeRecord
    BY <2>2, <2>3 DEF RuntimeRecord
  <2>5. Append(post_turn.queue, SessionOf[j]) \in Seq(Session)
    BY <2>3, AppendProperties DEF PostTurnRecord
  <2>6. post_turn' \in PostTurnRecord
    BY <2>2, <2>3, <2>5 DEF PostTurnRecord
  <2>7. QED
    BY <1>25, <2>1, <2>4, <2>6 DEF BeginPostTurn, JobFrame, TypeOK
<1>26. ASSUME NEW j \in Job, EndEarlyCancelled(j) \/ EndJob(j) PROVE TypeOK'
  <2>1. jobs' \in [Job -> JobRecord]
    BY <1>26, JobThreadEffect DEF JobThread, TypeOK
  <2>2. rt' \in RuntimeRecord
    BY <1>26, LeaveEffect
  <2>3. QED
    BY <1>26, <2>1, <2>2 DEF EndEarlyCancelled, EndJob, JobFrame, TypeOK
<1>27. ASSUME NEW j \in Job, RecoverEnd(j) PROVE TypeOK'
  <2>1. rt' \in RuntimeRecord
    BY <1>27 DEF RecoverEnd, TypeOK, RuntimeRecord, State
  <2>2. executor' \in ExecutorRecord
    BY <1>27 DEF RecoverEnd, TypeOK, ExecutorRecord, Notify, Woken
  <2>3. jobs' \in [Job -> JobRecord]
    BY <1>27, JobThreadEffect DEF JobThread, TypeOK
  <2>4. QED
    BY <1>27, <2>1, <2>2, <2>3 DEF RecoverEnd, TypeOK, JobFrame
<1>28. ASSUME NEW j \in Job, InvalidateCancelWatchdog(j) PROVE TypeOK'
  <2>1. executor' \in ExecutorRecord
    BY <1>28 DEF InvalidateCancelWatchdog, TypeOK, ExecutorRecord, Notify, Woken
  <2>2. jobs' \in [Job -> JobRecord]
    BY <1>28, JobThreadEffect DEF JobThread, TypeOK
  <2>3. watchdog' \in [Job -> WatchdogPC]
    BY <1>28 DEF InvalidateCancelWatchdog, TypeOK, WatchdogPC
  <2>4. QED
    BY <1>28, <2>1, <2>2, <2>3 DEF InvalidateCancelWatchdog, TypeOK
<1>29. CASE \/ ExecutorBlocks \/ ExecutorSleeps \/ TakeStop \/ TakeJobs
  BY <1>29 DEF TypeOK, ExecutorRecord, ExecutorBlocks, ExecutorSleeps, TakeStop,
         TakeJobs, Go
<1>30. CASE \/ EndAdmission \/ AcquireThrows \/ BeginReclaim \/ UnloadBackend
  BY <1>30 DEF TypeOK, ExecutorRecord, EndAdmission, AcquireThrows, BeginReclaim,
         UnloadBackend, Loop, AtWait, WellFormed, Go
<1>31. CASE EndReclaim
  BY <1>31 DEF TypeOK, ExecutorRecord, EndReclaim, Go
<1>32. CASE ExecutorSpins
  BY <1>32 DEF TypeOK, RuntimeRecord, State, ExecutorSpins
<1>33. CASE \/ Grant \/ WorkerDies
  BY <1>33 DEF TypeOK, Grant, WorkerDies
<1>34. ASSUME NEW force \in BOOLEAN,
             StopCancelWatchdog(force)
      PROVE  TypeOK'
  BY <1>34 DEF TypeOK, WatchdogPC, StopCancelWatchdog
<1>35. ASSUME NEW j \in Job,
             Enqueue(j)
      PROVE  TypeOK'
  BY <1>35 DEF TypeOK, JobRecord, Enqueue, SetJob, WellFormed
<1>36. ASSUME NEW j \in Job,
             EnqueueNotify(j)
      PROVE  TypeOK'
  <2>1. executor' \in ExecutorRecord
    BY <1>36 DEF TypeOK, ExecutorRecord, EnqueueNotify, Notify, Woken
  <2>2. QED
    BY <1>36, <2>1 DEF TypeOK, EnqueueNotify
<1>37. ASSUME NEW j \in Job,
             \/ ArmCancelWatchdog(j) \/ WatchdogFires(j) \/ SendAbort(j)
             \/ ForceKillActiveWorker(j)
      PROVE  TypeOK'
  BY <1>37 DEF TypeOK, WatchdogPC, ArmCancelWatchdog, WatchdogFires, SendAbort,
         ForceKillActiveWorker, WatchdogFrame
<1>38. CASE UNCHANGED vars
  BY <1>38 DEF TypeOK, vars
<1>39. QED
  BY <1>1, <1>2, <1>3, <1>4, <1>5, <1>6, <1>7, <1>8, <1>9, <1>10, <1>11, <1>12,
     <1>13, <1>14, <1>15, <1>16, <1>17, <1>18, <1>19, <1>20, <1>21, <1>22, <1>23,
     <1>24, <1>25, <1>26, <1>27, <1>28, <1>29, <1>30, <1>31, <1>32, <1>33, <1>34,
     <1>35, <1>36, <1>37, <1>38 DEF Next, Executor, Deciding, Loading, Reclaiming,
     Exiting, PostTurn, Pool, Client, JobThread, Watchdog

\* The runtime starts empty.
LEMMA InitInv == Init => Inv
<1> SUFFICES ASSUME Init PROVE Inv
  OBVIOUS
<1>1. MaxConcurrent >= 1
  BY RuntimeAssumption
<1>2. TypeOK
  <2>1. rt \in RuntimeRecord
    BY DEF Init, RuntimeRecord, State
  <2>2. executor \in ExecutorRecord
    BY DEF Init, ExecutorRecord, AtWait
  <2>3. post_turn \in PostTurnRecord
    BY EmptySeq DEF Init, PostTurnRecord
  <2>4. jobs \in [Job -> JobRecord] /\ watchdog \in [Job -> WatchdogPC]
    BY DEF Init, JobRecord, WatchdogPC
  <2>5. lanes \in [Lane -> Seq(Job)] /\ answered \in [Job -> SUBSET Outcome]
    BY EmptyQueue DEF Init, WellFormed
  <2>6. QED
    BY <2>1, <2>2, <2>3, <2>4, <2>5 DEF Init, TypeOK
<1>3. QueueInv
  BY EmptyQueue DEF Init, QueueInv, NoSilentDrop
<1>4. RunningInFlight
  BY DEF Init, RunningInFlight, InFlight
<1>5. SessionInv
  BY DEF Init, SessionInv, OneJobPerSession
<1>6. ExecutorInv
  BY DEF Init, ExecutorInv, AtWait
<1>7. LoadOrDrain
  BY DEF Init, LoadOrDrain
<1>8. AnsweredInv
  BY DEF Init, AnsweredInv, Answering, Finishing
<1>9. HandleInv
  BY FS_EmptySet DEF Init, HandleInv, CapacityBound
<1>10. QED
  BY <1>2, <1>3, <1>4, <1>5, <1>6, <1>7, <1>8, <1>9 DEF Inv

LEMMA Invariance == Spec => []Inv
<1>1. Init => Inv
  BY InitInv
<1>2. Inv /\ [Next]_vars => Inv'
  <2> SUFFICES ASSUME Inv, [Next]_vars PROVE Inv'
    OBVIOUS
  <2>1. QueueInv'
    BY QueueStep DEF Inv
  <2>2. TypeOK'
    BY <2>1, TypeStep DEF Inv, QueueInv
  <2>3. RunningInFlight' /\ SessionInv' /\ ExecutorInv'
    BY RunningStep, SessionStep, ExecutorStep DEF Inv
  <2>4. LoadOrDrain' /\ AnsweredInv' /\ HandleInv'
    BY LoadOrDrainStep, AnsweredStep, HandleStep DEF Inv
  <2>5. QED
    BY <2>1, <2>2, <2>3, <2>4 DEF Inv
<1>3. QED
  BY <1>1, <1>2, PTL DEF Spec

-----------------------------------------------------------------------------
\* The types of every field of the runtime, its executor, its jobs' threads, its
\* watchdogs and its post-turn worker.
THEOREM TypeCorrect == Spec => []TypeOK
BY Invariance, PTL DEF Inv

\* A conversation is served one turn at a time: two jobs of one session never run
\* together, however they are spread over the lanes (SessionBusy in executorLoop).
THEOREM SessionsExclusive == Spec => []OneJobPerSession
<1>1. Inv => OneJobPerSession
  BY DEF Inv, SessionInv
<1>2. QED
  BY <1>1, Invariance, PTL

\* Jobs and post-turn work under way belong to at most as many sessions as the
\* backend has handles (session_capacity in executorLoop).
THEOREM HandlesSuffice == Spec => []CapacityBound
<1>1. Inv => CapacityBound
  BY DEF Inv, HandleInv
<1>2. QED
  BY <1>1, Invariance, PTL

\* popIf erases cancelled jobs without telling anybody, and never finds one: cancel
\* removes the job from the queue, or finds it running.
THEOREM NothingDropped == Spec => []NoSilentDrop
<1>1. Inv => NoSilentDrop
  BY DEF Inv, QueueInv
<1>2. QED
  BY <1>1, Invariance, PTL

\* activate, requestDrain and the executor never leave a load and a drain pending
\* together.
THEOREM NotLoadAndDrain == Spec => []LoadOrDrain
BY Invariance, PTL DEF Inv

\* Every job that has left got a terminal callback, unless a forced stop cut it off.
THEOREM Answered == Spec => [](rt.force_stop \/ AnsweredWhenDone)
<1>1. Inv => rt.force_stop \/ AnsweredWhenDone
  BY DEF Inv, AnsweredInv, AnsweredWhenDone, Answering
<1>2. QED
  BY <1>1, Invariance, PTL

\* A job overtakes another, of a higher lane or ahead in its own, only while that
\* one's session has a job or post-turn work under way (popIf's eligible).
THEOREM OvertakingJustified == Spec => OvertakesOnlyBusy
<1> DEFINE Overtakes ==
             \A j \in rt'.running_jobs \ rt.running_jobs, k \in Queued(lanes) :
                 Ahead(lanes, k, j) =>
                     SessionOf[k] \in rt.active_sessions \cup rt.post_turn_sessions
<1>1. Inv /\ [Next]_vars => [Overtakes]_vars
  <2> SUFFICES ASSUME Inv, [Next]_vars PROVE Overtakes
    OBVIOUS
  <2>1. CASE AdmitJob
    <3>1. PICK j \in Job :
             /\ j = PopIfJob(lanes, cancelled, SessionBusy)
             /\ rt' = [rt EXCEPT !.running_jobs = @ \cup {j},
                                 !.active_sessions = @ \cup {SessionOf[j]},
                                 !.state = "Running"]
      BY <2>1 DEF AdmitJob
    <3>2. rt'.running_jobs \subseteq rt.running_jobs \cup {j}
      BY <3>1 DEF Inv, TypeOK, RuntimeRecord
    <3>3. \A k \in Queued(lanes) :
             Ahead(lanes, k, j) => k \in cancelled \cup SessionBusy
      BY <3>1, PopIfInOrder, QueueAssumption DEF Inv, QueueInv
    <3>4. \A k \in Queued(lanes) : k \notin cancelled
      BY NoneCancelled DEF Inv
    <3>5. QED
      BY <3>2, <3>3, <3>4 DEF SessionBusy
  <2>2. CASE rt'.running_jobs \subseteq rt.running_jobs
    BY <2>2
  <2>3. QED
    BY <2>1, <2>2, OnlyAdmissionStarts DEF Inv
<1>2. QED
  BY <1>1, Invariance, PTL DEF Spec, OvertakesOnlyBusy

(***************************************************************************)
(* Recovery, activation, shutdown and reserved sessions.                   *)
(*                                                                         *)
(* All but SessionStaysReserved assume that no job leaves post-turn work:  *)
(* with it finishPostTurn sets the state of a runtime that recovers, and   *)
(* every one of them is false.                                             *)
(***************************************************************************)

\* The jobs whose thread takes the backend down, or is about to.
Recovering ==
    {j \in Job : \/ jobs[j].pc \in {"recover", "reclaiming", "unloaded", "released"}
                 \/ jobs[j].pc = "finished" /\ jobs[j].recover}

\* Where the executor is when it does not load, reclaim or leave.
AtRest == {"test", "blocking", "sleeping", "admitting", "exitWait"}

NoPostTurn == post_turn.queue = <<>> /\ post_turn.work = NoSession

OneRecovers ==
    \A j \in Recovering :
        rt.recovery_in_progress /\ rt.running_jobs = {} /\ Recovering = {j}

EvictingToRecover ==
    rt.recovery_in_progress /\ ~rt.stop_requested => rt.state = "Evicting"

ExecutorAlone ==
    executor.pc \notin AtRest => rt.running_jobs = {} /\ ~rt.recovery_in_progress

NoneRunsIn ==
    rt.state \in {"NotResident", "Failed", "Loading", "Idle", "Stopped"}
        => rt.running_jobs = {}

AdmitsIn ==
    executor.pc = "admitting"
        => rt.state \in {"Idle", "Running"} /\ ~rt.stop_requested

\* A recovery has the runtime to itself: no job runs, and the executor is at rest.
RecoveryInv ==
    /\ NoPostTurn /\ OneRecovers /\ EvictingToRecover /\ ExecutorAlone
    /\ NoneRunsIn /\ AdmitsIn

-----------------------------------------------------------------------------
\* Steps that leave alone what the invariant speaks of.
LEMMA RecoveryKept ==
    ASSUME RecoveryInv,
           rt'.state = rt.state,
           rt'.running_jobs = rt.running_jobs,
           rt'.recovery_in_progress = rt.recovery_in_progress,
           rt'.stop_requested = rt.stop_requested,
           UNCHANGED post_turn,
           Recovering' \subseteq Recovering,
           \/ executor'.pc = executor.pc
           \/ executor'.pc \in AtRest \ {"admitting"}
           \/ executor.pc \notin AtRest /\ executor'.pc # "admitting"
    PROVE  RecoveryInv'
<1>1. NoPostTurn' /\ EvictingToRecover' /\ NoneRunsIn'
  BY DEF RecoveryInv, NoPostTurn, EvictingToRecover, NoneRunsIn
<1>2. OneRecovers'
  BY DEF RecoveryInv, OneRecovers
<1>3. ExecutorAlone' /\ AdmitsIn'
  BY DEF RecoveryInv, ExecutorAlone, AdmitsIn, AtRest
<1>4. QED
  BY <1>1, <1>2, <1>3 DEF RecoveryInv

LEMMA RecoveryExecutorKept ==
    ASSUME TypeOK, RecoveryInv,
           \/ ExecutorBlocks \/ ExecutorSleeps \/ TakeStop \/ ExecutorSpins
           \/ EndAdmission \/ AcquireGranted \/ AcquireThrows \/ FailQueued
           \/ BeginReclaim \/ UnloadBackend \/ EndReclaim
    PROVE  RecoveryInv'
<1>1. CASE \/ ExecutorBlocks \/ ExecutorSleeps \/ TakeStop \/ EndAdmission
           \/ AcquireGranted \/ AcquireThrows \/ BeginReclaim \/ UnloadBackend
           \/ EndReclaim
  <2>1. UNCHANGED <<rt, post_turn, jobs>>
    BY <1>1 DEF ExecutorBlocks, ExecutorSleeps, TakeStop, EndAdmission,
           AcquireGranted, AcquireThrows, BeginReclaim, UnloadBackend, EndReclaim
  <2>2. Recovering' = Recovering
    BY <2>1 DEF Recovering
  <2>3. \/ executor'.pc \in {"blocking", "sleeping", "exitWait", "test"}
        \/ /\ executor.pc \in {"acquire", "reclaim", "reclaiming", "unloaded"}
           /\ executor'.pc \in {"test", "failQueued", "load", "reclaiming",
                                "unloaded", "released"}
    <3>1. executor \in ExecutorRecord
      BY DEF TypeOK
    <3>2. CASE ExecutorBlocks \/ ExecutorSleeps \/ TakeStop \/ EndAdmission
      BY <3>1, <3>2 DEF ExecutorBlocks, ExecutorSleeps, TakeStop, EndAdmission,
             Go, Loop, AtWait, ExecutorRecord
    <3>3. CASE BeginReclaim \/ UnloadBackend \/ EndReclaim
      BY <3>1, <3>3 DEF BeginReclaim, UnloadBackend, EndReclaim, Go,
             ExecutorRecord
    <3>4. CASE AcquireThrows
      BY <3>1, <3>4 DEF AcquireThrows, Go, Loop, AtWait, ExecutorRecord
    <3>5. CASE AcquireGranted
      BY <3>1, <3>5 DEF AcquireGranted, ExecutorRecord
    <3>6. QED
      BY <1>1, <3>2, <3>3, <3>4, <3>5
  <2>4. QED
    BY <2>1, <2>2, <2>3, RecoveryKept DEF AtRest
<1>2. CASE ExecutorSpins
  <2>1. UNCHANGED <<post_turn, jobs, executor>>
    BY <1>2 DEF ExecutorSpins
  <2>2. /\ rt'.state = rt.state /\ rt'.running_jobs = rt.running_jobs
        /\ rt'.recovery_in_progress = rt.recovery_in_progress
        /\ rt'.stop_requested = rt.stop_requested
    BY <1>2 DEF ExecutorSpins, TypeOK, RuntimeRecord
  <2>3. Recovering' = Recovering
    BY <2>1 DEF Recovering
  <2>4. QED
    BY <2>1, <2>2, <2>3, RecoveryKept
<1>3. CASE FailQueued
  <2>1. UNCHANGED <<rt, post_turn>>
    BY <1>3 DEF FailQueued
  <2>2. \A j \in Job : jobs'[j] = jobs[j] \/ jobs'[j].pc = "done"
    BY <1>3 DEF FailQueued, TypeOK, JobRecord
  <2>3. Recovering' \subseteq Recovering
    BY <2>2 DEF Recovering
  <2>4. \/ executor'.pc \in AtRest \ {"admitting"}
        \/ executor.pc \notin AtRest /\ executor'.pc # "admitting"
    BY <1>3 DEF FailQueued, Go, Loop, AtWait, AtRest, TypeOK, ExecutorRecord
  <2>5. QED
    BY <2>1, <2>3, <2>4, RecoveryKept
<1>4. QED
  BY <1>1, <1>2, <1>3

\* cv_.notify_one() takes the executor from one resting place to another.
LEMMA NotifyRests ==
    ASSUME TypeOK, Notify
    PROVE  executor'.pc = executor.pc \/ executor'.pc \in AtRest \ {"admitting"}
BY DEF Notify, Woken, AtRest, TypeOK, ExecutorRecord

LEMMA RecoveryClientKept ==
    ASSUME TypeOK, RecoveryInv,
           \/ Grant \/ ExpireStaleQueuedJobs \/ WorkerDies
           \/ \E force \in BOOLEAN : StopCancelWatchdog(force)
           \/ \E j \in Job : Client(j)
    PROVE  RecoveryInv'
<1>1. UNCHANGED <<rt, post_turn>>
  BY DEF Grant, ExpireStaleQueuedJobs, WorkerDies, StopCancelWatchdog, Client,
         Enqueue, EnqueueNotify, CancelQueued, CancelRunning
<1>2. \A j \in Job : jobs'[j] = jobs[j] \/ jobs'[j].pc \in {"queued", "done"}
  <2>1. CASE UNCHANGED jobs
    BY <2>1
  <2>2. CASE ExpireStaleQueuedJobs
    BY <2>2 DEF ExpireStaleQueuedJobs, TypeOK, JobRecord
  <2>3. ASSUME NEW j \in Job, NEW where \in {"queued", "done"}, SetJob(j, where)
        PROVE  \A k \in Job : jobs'[k] = jobs[k]
                                 \/ jobs'[k].pc \in {"queued", "done"}
    BY <2>3 DEF SetJob, TypeOK, JobRecord
  <2>4. QED
    BY <2>1, <2>2, <2>3 DEF Grant, WorkerDies, StopCancelWatchdog, Client, Enqueue,
           EnqueueNotify, CancelQueued, CancelRunning
<1>3. Recovering' \subseteq Recovering
  BY <1>2 DEF Recovering
<1>4. executor' = executor \/ Notify
  BY DEF Grant, ExpireStaleQueuedJobs, WorkerDies, StopCancelWatchdog, Client,
         Enqueue, EnqueueNotify, CancelQueued, CancelRunning
<1>5. QED
  BY <1>1, <1>3, <1>4, NotifyRests, RecoveryKept

LEMMA RecoveryWatchdogKept ==
    ASSUME TypeOK, RecoveryInv, NEW j \in Job, Watchdog(j)
    PROVE  RecoveryInv'
<1>1. UNCHANGED <<post_turn, jobs, executor>>
  BY DEF Watchdog, ArmCancelWatchdog, WatchdogFires, SendAbort,
         ForceKillActiveWorker, MarkBackendKilled, WatchdogFrame
<1>2. rt' = rt \/ rt' = [rt EXCEPT !.backend_healthy = FALSE]
  BY DEF Watchdog, ArmCancelWatchdog, WatchdogFires, SendAbort,
         ForceKillActiveWorker, MarkBackendKilled
<1>3. /\ rt'.state = rt.state /\ rt'.running_jobs = rt.running_jobs
      /\ rt'.recovery_in_progress = rt.recovery_in_progress
      /\ rt'.stop_requested = rt.stop_requested
  BY <1>2 DEF TypeOK, RuntimeRecord
<1>4. Recovering' = Recovering
  BY <1>1 DEF Recovering
<1>5. QED
  BY <1>1, <1>3, <1>4, RecoveryKept

\* The threads of the jobs, up to the critical section that ends a job, and in the
\* recovery up to the one that ends it.
LEMMA RecoveryThreadKept ==
    ASSUME PostTurnJobs = {}, TypeOK, RecoveryInv, NEW j \in Job, JobThread(j),
           ~EndJob(j), ~EndEarlyCancelled(j), ~RecoverEnd(j)
    PROVE  RecoveryInv'
<1>1. jobs' = [jobs EXCEPT ![j] = jobs'[j]]
  BY JobThreadEffect
<1>2. ASSUME jobs'[j].pc \notin {"finished", "recover", "reclaiming", "unloaded",
                                 "released"}
             \/ j \in Recovering
      PROVE  Recovering' \subseteq Recovering
  BY <1>1, <1>2 DEF Recovering, TypeOK
<1>3. CASE BeginPostTurn(j)
  <2>1. UNCHANGED <<rt, post_turn, executor>>
    BY <1>3 DEF BeginPostTurn
  <2>2. jobs'[j].pc = "completing"
    BY <1>3 DEF BeginPostTurn, SetJob, TypeOK, JobRecord
  <2>3. QED
    BY <1>2, <2>1, <2>2, RecoveryKept
<1>4. CASE InvalidateCancelWatchdog(j)
  <2>1. UNCHANGED <<rt, post_turn>> /\ (executor' = executor \/ Notify)
    BY <1>4 DEF InvalidateCancelWatchdog
  <2>2. jobs'[j].pc = "done" \/ j \in Recovering
    BY <1>4 DEF InvalidateCancelWatchdog, Recovering, TypeOK
  <2>3. QED
    BY <1>2, <2>1, <2>2, NotifyRests, RecoveryKept
<1>5. CASE RecoverBegin(j) \/ RecoverUnload(j) \/ RecoverEndReclaim(j)
  <2>1. UNCHANGED <<rt, post_turn, executor>>
    BY <1>5 DEF RecoverBegin, RecoverUnload, RecoverEndReclaim
  <2>2. j \in Recovering
    BY <1>5 DEF RecoverBegin, RecoverUnload, RecoverEndReclaim, Recovering
  <2>3. QED
    BY <1>2, <2>1, <2>2, RecoveryKept
<1>6. CASE \/ StartJob(j) \/ ExecuteReturns(j) \/ ExecuteThrows(j)
           \/ CompleteJob(j) \/ SessionReady(j) \/ CatchError(j)
           \/ NotifyError(j)
  <2>1. UNCHANGED <<rt, post_turn, executor>>
    BY <1>6 DEF StartJob, ExecuteReturns, ExecuteThrows, CompleteJob,
           SessionReady, CatchError, NotifyError
  <2>2. \/ \E where \in InFlight : SetJob(j, where)
        \/ \E b \in BOOLEAN :
              jobs' = [jobs EXCEPT ![j] = [pc |-> "threw", recover |-> b]]
    BY <1>6 DEF StartJob, ExecuteReturns, ExecuteThrows, CompleteJob,
           SessionReady, CatchError, NotifyError, InFlight
  <2>3. jobs'[j].pc \in InFlight
    BY <2>2 DEF SetJob, TypeOK, JobRecord, InFlight
  <2>4. QED
    BY <1>2, <2>1, <2>3, RecoveryKept DEF InFlight
<1>7. QED
  BY <1>3, <1>4, <1>5, <1>6 DEF JobThread

\* The end of a job: it was running, so no recovery had started and the executor
\* was at rest.  If it is the last one and the backend failed, it recovers.
LEMMA RecoveryAtEnd ==
    ASSUME TypeOK, RunningInFlight, RecoveryInv, NEW j \in Job,
           EndJob(j) \/ EndEarlyCancelled(j)
    PROVE  RecoveryInv'
<1>1. j \in rt.running_jobs
  BY LeaveEffect DEF RunningInFlight, InFlight
<1>2. Recovering = {}
  BY <1>1 DEF RecoveryInv, OneRecovers
<1>3. /\ UNCHANGED <<executor, post_turn>>
      /\ executor.pc \in AtRest \ {"admitting"}
  BY <1>1 DEF RecoveryInv, ExecutorAlone, EndJob, EndEarlyCancelled, MutexFree
<1> DEFINE Left(r) ==
             /\ r \in RuntimeRecord
             /\ r.running_jobs = rt.running_jobs \ {j}
             /\ r.stop_requested = rt.stop_requested
             /\ r.recovery_in_progress /\ ~r.stop_requested
                  => r.state = "Evicting"
             /\ r.state \in {rt.state, "Evicting"}
<1>4. Left(WithoutJob(j))
  BY DEF WithoutJob, RuntimeRecord, TypeOK, RecoveryInv, EvictingToRecover
<1>5. Left([WithoutJob(j) EXCEPT
              !.backend_healthy = FALSE,
              !.recovery_in_progress = TRUE,
              !.state = IF rt.stop_requested THEN @ ELSE "Evicting"])
  BY <1>4 DEF RuntimeRecord, State
<1>6. \E r, b : Left(r) /\ LastJobOut(j, r, b)
  <2> HIDE DEF Left
  <2>1. QED
    BY <1>4, <1>5 DEF EndJob, EndEarlyCancelled
<1>7. PICK r, b : Left(r) /\ LastJobOut(j, r, b)
  BY <1>6
<1>8. \/ /\ rt' = [r EXCEPT !.recovery_in_progress = FALSE]
         /\ GivesUpRecovery(r)
      \/ /\ Settles(r)
         /\ rt' = [r EXCEPT !.state = "Draining"]
             \/ rt' = [r EXCEPT !.state = "Idle"]
      \/ rt' = r /\ ~GivesUpRecovery(r)
  BY <1>7 DEF LastJobOut, DrainedOrIdle
<1>9. /\ rt'.running_jobs = rt.running_jobs \ {j}
      /\ rt'.stop_requested = rt.stop_requested
      /\ rt'.recovery_in_progress /\ ~rt'.stop_requested => rt'.state = "Evicting"
      /\ \/ rt'.state \in {rt.state, "Evicting", "Draining"}
         \/ rt'.running_jobs = {}
      /\ StartsRecovery(r) => rt'.recovery_in_progress /\ rt'.running_jobs = {}
  BY <1>7, <1>8 DEF RuntimeRecord, GivesUpRecovery, Settles, StartsRecovery
<1>10. Recovering' \subseteq {j} /\ (j \in Recovering' => StartsRecovery(r))
  <2>1. jobs' = [jobs EXCEPT ![j] =
                   [pc |-> "finished", recover |-> StartsRecovery(r)]]
    BY <1>7 DEF LastJobOut
  <2>2. QED
    BY <1>2, <2>1 DEF Recovering, TypeOK
<1>11. NoPostTurn' /\ ExecutorAlone' /\ AdmitsIn'
  BY <1>3 DEF RecoveryInv, NoPostTurn, ExecutorAlone, AdmitsIn
<1>12. OneRecovers'
  BY <1>9, <1>10 DEF OneRecovers
<1>13. EvictingToRecover' /\ NoneRunsIn'
  BY <1>1, <1>9 DEF RecoveryInv, EvictingToRecover, NoneRunsIn
<1>14. QED
  BY <1>11, <1>12, <1>13 DEF RecoveryInv

\* The end of the recovery.
LEMMA RecoveryAtRecoverEnd ==
    ASSUME TypeOK, RecoveryInv, NEW j \in Job, RecoverEnd(j)
    PROVE  RecoveryInv'
<1>1. j \in Recovering
  BY DEF RecoverEnd, Recovering
<1>2. rt.running_jobs = {} /\ rt.recovery_in_progress /\ Recovering = {j}
  BY <1>1 DEF RecoveryInv, OneRecovers
<1>3. Recovering' = {}
  BY <1>2 DEF RecoverEnd, SetJob, Recovering, TypeOK, JobRecord
<1>4. rt'.running_jobs = {} /\ ~rt'.recovery_in_progress
  BY <1>2 DEF RecoverEnd, TypeOK, RuntimeRecord
<1>5. UNCHANGED post_turn /\ executor'.pc # "admitting"
  BY NotifyRests DEF RecoverEnd, MutexFree
<1>6. QED
  BY <1>3, <1>4, <1>5 DEF RecoveryInv, NoPostTurn, OneRecovers, EvictingToRecover,
         ExecutorAlone, NoneRunsIn, AdmitsIn

\* Steps taken, or begun, while nobody else has business with the runtime.
LEMMA RecoveryAlone ==
    ASSUME RecoveryInv,
           rt.running_jobs = {}, ~rt.recovery_in_progress,
           rt'.running_jobs = {}, ~rt'.recovery_in_progress,
           NoPostTurn', UNCHANGED jobs, executor'.pc # "admitting"
    PROVE  RecoveryInv'
<1>1. Recovering = {} /\ Recovering' = Recovering
  BY DEF RecoveryInv, OneRecovers, Recovering
<1>2. QED
  BY <1>1 DEF RecoveryInv, OneRecovers, EvictingToRecover, ExecutorAlone,
         NoneRunsIn, AdmitsIn

\* Steps that give the state another name.
LEMMA RecoveryRelabelled ==
    ASSUME RecoveryInv,
           rt'.running_jobs = rt.running_jobs,
           rt'.recovery_in_progress = rt.recovery_in_progress,
           EvictingToRecover',
           \/ rt'.state = rt.state
           \/ rt'.state \in {"Running", "Draining"}
           \/ rt.running_jobs = {},
           UNCHANGED <<jobs, post_turn>>,
           executor' = executor \/ executor'.pc \in AtRest,
           executor'.pc # "admitting"
    PROVE  RecoveryInv'
<1>1. Recovering' = Recovering
  BY DEF Recovering
<1>2. NoneRunsIn'
  BY DEF RecoveryInv, NoneRunsIn
<1>3. OneRecovers' /\ NoPostTurn'
  BY <1>1 DEF RecoveryInv, OneRecovers, NoPostTurn
<1>4. ExecutorAlone' /\ AdmitsIn'
  BY DEF RecoveryInv, ExecutorAlone, AdmitsIn
<1>5. QED
  BY <1>2, <1>3, <1>4 DEF RecoveryInv

LEMMA RecoveryAtDecision ==
    ASSUME TypeOK, RecoveryInv,
           TakeActivation \/ TakeDrain \/ TakeReload
    PROVE  RecoveryInv'
<1>1. ~rt.stop_requested /\ rt.state \in {"Loading", "Idle", "Draining"}
  BY DEF TakeActivation, TakeDrain, TakeReload, MustLoad, CanDrain, MustReload
<1>2. rt.running_jobs = {} /\ ~rt.recovery_in_progress
  BY <1>1 DEF TakeActivation, TakeDrain, TakeReload, MustLoad, CanDrain,
         MustReload, RecoveryInv, EvictingToRecover, NoneRunsIn
<1>3. /\ rt'.running_jobs = rt.running_jobs
      /\ rt'.recovery_in_progress = rt.recovery_in_progress
  BY DEF TakeActivation, TakeDrain, TakeReload, TypeOK, RuntimeRecord
<1>4. executor'.pc # "admitting"
  BY DEF TakeActivation, TakeDrain, TakeReload, TypeOK, ExecutorRecord
<1>5. UNCHANGED <<jobs, post_turn>>
  BY DEF TakeActivation, TakeDrain, TakeReload
<1>6. QED
  BY <1>2, <1>3, <1>4, <1>5, RecoveryAlone DEF RecoveryInv, NoPostTurn

LEMMA RecoveryAtLoadOrReclaim ==
    ASSUME TypeOK, RecoveryInv,
           \/ BeginLoad \/ LoadSucceeds \/ LoadFails \/ AfterReclaim
           \/ StopPostTurnWorker \/ JoinPostTurnWorker \/ ExecutorEnds
    PROVE  RecoveryInv'
<1>1. executor.pc \notin AtRest \/ JobsAreOver
  BY DEF BeginLoad, LoadSucceeds, LoadFails, AfterReclaim, StopPostTurnWorker,
         JoinPostTurnWorker, ExecutorEnds, AtRest
<1>2. rt.running_jobs = {} /\ ~rt.recovery_in_progress
  BY <1>1 DEF RecoveryInv, ExecutorAlone, JobsAreOver
<1>3. /\ rt'.running_jobs \in {rt.running_jobs, {}}
      /\ rt'.recovery_in_progress = rt.recovery_in_progress
  <2>1. rt \in RuntimeRecord
    BY DEF TypeOK
  <2>2. CASE BeginLoad \/ LoadSucceeds \/ LoadFails
    BY <2>1, <2>2 DEF BeginLoad, LoadSucceeds, LoadFails, RuntimeRecord
  <2>3. CASE AfterReclaim
    BY <2>1, <2>3 DEF AfterReclaim, RuntimeRecord
  <2>4. CASE StopPostTurnWorker \/ JoinPostTurnWorker \/ ExecutorEnds
    BY <2>1, <2>4 DEF StopPostTurnWorker, JoinPostTurnWorker, ExecutorEnds,
           RuntimeRecord
  <2>5. QED
    BY <2>2, <2>3, <2>4
<1>4. executor'.pc # "admitting"
  <2>1. executor \in ExecutorRecord
    BY DEF TypeOK
  <2>2. CASE Loop
    BY <2>2 DEF Loop, AtWait
  <2>3. ASSUME NEW where, Go(where), where # "admitting"
        PROVE  executor'.pc # "admitting"
    BY <2>1, <2>3 DEF Go, ExecutorRecord
  <2>4. CASE LoadFails \/ JoinPostTurnWorker
    BY <2>1, <2>4 DEF LoadFails, JoinPostTurnWorker, ExecutorRecord
  <2>5. QED
    BY <2>2, <2>3, <2>4 DEF BeginLoad, LoadSucceeds, AfterReclaim,
           StopPostTurnWorker, ExecutorEnds
<1>5. UNCHANGED jobs
  BY DEF BeginLoad, LoadSucceeds, LoadFails, AfterReclaim, StopPostTurnWorker,
         JoinPostTurnWorker, ExecutorEnds
<1>6. NoPostTurn'
  <2>1. NoPostTurn
    BY DEF RecoveryInv
  <2>2. CASE StopPostTurnWorker
    BY <2>1, <2>2 DEF StopPostTurnWorker, NoPostTurn, TypeOK, PostTurnRecord
  <2>3. CASE UNCHANGED post_turn
    BY <2>1, <2>3 DEF NoPostTurn
  <2>4. QED
    BY <2>2, <2>3 DEF BeginLoad, LoadSucceeds, LoadFails, AfterReclaim,
           JoinPostTurnWorker, ExecutorEnds
<1>7. QED
  BY <1>2, <1>3, <1>4, <1>5, <1>6, RecoveryAlone

LEMMA RecoveryAtAdmission ==
    ASSUME TypeOK, QueueInv, RecoveryInv, TakeJobs \/ AdmitJob
    PROVE  RecoveryInv'
<1>1. CASE TakeJobs
  <2>1. UNCHANGED <<rt, jobs, post_turn>>
    BY <1>1 DEF TakeJobs
  <2>2. executor.pc = "test" /\ executor'.pc = "admitting"
    BY <1>1 DEF TakeJobs, Decides, Go, TypeOK, ExecutorRecord
  <2>3. rt.state \in {"Idle", "Running"} /\ ~rt.stop_requested
    BY <1>1 DEF TakeJobs, CanDispatch
  <2>4. Recovering' = Recovering
    BY <2>1 DEF Recovering
  <2>5. QED
    BY <2>1, <2>2, <2>3, <2>4 DEF RecoveryInv, NoPostTurn, OneRecovers,
           EvictingToRecover, ExecutorAlone, NoneRunsIn, AdmitsIn, AtRest
<1>2. CASE AdmitJob
  <2>1. /\ executor.pc = "admitting"
        /\ UNCHANGED <<executor, post_turn>>
    BY <1>2 DEF AdmitJob
  <2>2. ~rt.recovery_in_progress /\ ~rt.stop_requested /\ Recovering = {}
    BY <2>1 DEF RecoveryInv, AdmitsIn, EvictingToRecover, OneRecovers
  <2>3. PICK j \in Job :
           /\ jobs' = [jobs EXCEPT ![j].pc = "admitted"]
           /\ rt' = [rt EXCEPT !.running_jobs = @ \cup {j},
                               !.active_sessions = @ \cup {SessionOf[j]},
                               !.state = "Running"]
    BY <1>2, AdmitJobEffect
  <2>4. rt'.state = "Running" /\ ~rt'.recovery_in_progress /\ ~rt'.stop_requested
    BY <2>2, <2>3 DEF TypeOK, RuntimeRecord
  <2>5. Recovering' = {}
    BY <2>2, <2>3 DEF Recovering, TypeOK, JobRecord
  <2>6. QED
    BY <2>1, <2>4, <2>5 DEF RecoveryInv, NoPostTurn, OneRecovers,
           EvictingToRecover, ExecutorAlone, NoneRunsIn, AdmitsIn, AtRest
<1>3. QED
  BY <1>1, <1>2

LEMMA RecoveryAtPool ==
    ASSUME TypeOK, RecoveryInv,
           Activate \/ ActivateResident \/ RequestDrain \/ Stop
    PROVE  RecoveryInv'
<1>1. UNCHANGED <<jobs, post_turn>> /\ (executor' = executor \/ Notify)
  BY DEF Activate, ActivateResident, RequestDrain, Stop
<1>2. MutexFree
  BY DEF Activate, ActivateResident, RequestDrain, Stop
<1>3. /\ executor' = executor \/ executor'.pc \in AtRest
      /\ executor'.pc # "admitting"
  <2>1. CASE executor' = executor
    BY <1>2, <2>1 DEF MutexFree
  <2>2. CASE Notify /\ executor.pc = "sleeping"
    BY <2>2 DEF Notify, Woken, TypeOK, ExecutorRecord, AtRest
  <2>3. CASE Notify /\ executor.pc # "sleeping"
    BY <1>2, <2>3 DEF Notify, Woken, MutexFree
  <2>4. QED
    BY <1>1, <2>1, <2>2, <2>3
<1>4. ASSUME rt'.running_jobs = rt.running_jobs,
             rt'.recovery_in_progress = rt.recovery_in_progress,
             EvictingToRecover',
             \/ rt'.state = rt.state
             \/ rt'.state \in {"Running", "Draining"}
             \/ rt.running_jobs = {}
      PROVE  RecoveryInv'
  BY <1>1, <1>3, <1>4, RecoveryRelabelled
<1>5. CASE rt' = rt
  BY <1>4, <1>5 DEF RecoveryInv, EvictingToRecover
<1>6. CASE ~rt.stop_requested /\ rt.state # "Evicting" /\ rt' = Undrained(rt)
  <2>1. ~rt.recovery_in_progress
    BY <1>6 DEF RecoveryInv, EvictingToRecover
  <2>2. QED
    BY <1>4, <1>6, <2>1 DEF Undrained, TypeOK, RuntimeRecord, EvictingToRecover
<1>7. CASE /\ ~rt.stop_requested /\ rt.state \in {"NotResident", "Failed"}
           /\ rt' = Activated(rt)
  <2>1. ~rt.recovery_in_progress /\ rt.running_jobs = {}
    BY <1>7 DEF RecoveryInv, EvictingToRecover, NoneRunsIn
  <2>2. QED
    BY <1>4, <1>7, <2>1 DEF Activated, TypeOK, RuntimeRecord, EvictingToRecover
<1>8. CASE RequestDrain
  <2>1. rt'.running_jobs = rt.running_jobs
        /\ rt'.recovery_in_progress = rt.recovery_in_progress
        /\ rt'.stop_requested = rt.stop_requested
        /\ \/ rt'.state = rt.state
           \/ rt.state = "Running" /\ rt'.state = "Draining"
    BY <1>8 DEF RequestDrain, TypeOK, RuntimeRecord
  <2>2. QED
    BY <1>4, <2>1 DEF RecoveryInv, EvictingToRecover
<1>9. CASE Stop
  <2>1. rt'.running_jobs = rt.running_jobs /\ rt'.state = rt.state
        /\ rt'.recovery_in_progress = rt.recovery_in_progress
        /\ rt'.stop_requested
    BY <1>9 DEF Stop, TypeOK, RuntimeRecord
  <2>2. QED
    BY <1>4, <2>1 DEF EvictingToRecover
<1>10. QED
  BY <1>5, <1>6, <1>7, <1>8, <1>9 DEF Activate, ActivateResident

\* Without post-turn work, no step disturbs a recovery.
LEMMA RecoveryStep ==
    ASSUME PostTurnJobs = {}, TypeOK, QueueInv, RunningInFlight, RecoveryInv,
           [Next]_vars
    PROVE  RecoveryInv'
<1>1. CASE Executor
  BY <1>1, RecoveryExecutorKept, RecoveryAtDecision, RecoveryAtAdmission,
     RecoveryAtLoadOrReclaim DEF Executor, Deciding, Loading, Reclaiming, Exiting
<1>2. CASE PostTurn
  BY <1>2 DEF PostTurn, TakePostTurn, FinishPostTurn, RecoveryInv, NoPostTurn
<1>3. CASE Pool \/ WorkerDies
  BY <1>3, RecoveryClientKept, RecoveryAtPool DEF Pool
<1>4. ASSUME NEW j \in Job, Client(j) \/ JobThread(j) \/ Watchdog(j)
      PROVE  RecoveryInv'
  BY <1>4, RecoveryClientKept, RecoveryThreadKept, RecoveryAtEnd,
     RecoveryAtRecoverEnd, RecoveryWatchdogKept
<1>5. CASE UNCHANGED vars
  <2>1. UNCHANGED <<rt, jobs, executor, post_turn>>
    BY <1>5 DEF vars
  <2>2. Recovering' = Recovering
    BY <2>1 DEF Recovering
  <2>3. QED
    BY <2>1, <2>2, RecoveryKept
<1>6. QED
  BY <1>1, <1>2, <1>3, <1>4, <1>5 DEF Next

-----------------------------------------------------------------------------
\* While the executor loads or reclaims the state says so, and no other load may
\* be asked for.
BusyExecutor ==
    executor.pc \in {"load", "loading", "acquire", "reclaim", "reclaiming",
                     "unloaded", "released"}
        => \/ rt.stop_requested
           \/ rt.state \in {"Loading", "Evicting"} /\ ~rt.activation_requested

\* A stop takes back the activation, and its thread has no reservation on its way.
StopOrder ==
    /\ rt.stop_requested => ~rt.activation_requested
    /\ rt.stop_requested => stopper \in {"stopping", "joined"}
    /\ stopper # "none" => reservation # "pool"

\* Only a stop takes the executor out of its loop.
ExitsOnStop ==
    executor.pc \in {"exitWait", "joinPostTurn", "exitLast", "ended"}
        \/ executor.purpose = "exit"
    => rt.stop_requested

\* Past the unload of the exit nothing is loaded, reserved, and, past failQueued,
\* queued any more.
LeavesNothing ==
    /\ executor.purpose = "exit"
          /\ executor.pc \in {"unloaded", "released", "failQueued"}
         => worker = "none" /\ reservation = "none"
    /\ executor.pc \in {"exitLast", "ended"}
         => worker = "none" /\ reservation = "none"
    /\ executor.pc \in {"exitLast", "ended"} => Queued(lanes) = {}

\* The pending activation, the executor and the stop.
StopInv ==
    /\ ActivationBacked /\ BusyExecutor /\ StopOrder /\ ExitsOnStop
    /\ LeavesNothing

-----------------------------------------------------------------------------
\* Steps that leave alone what the invariant speaks of.
LEMMA StopKept ==
    ASSUME StopInv,
           rt'.state = rt.state,
           rt'.activation_requested = rt.activation_requested,
           rt'.stop_requested = rt.stop_requested,
           reservation' = reservation, stopper' = stopper,
           worker' = worker \/ worker # "none" \/ worker' = "none",
           \/ Queued(lanes') \subseteq Queued(lanes)
           \/ stopper = "none",
           \/ /\ executor'.pc = executor.pc
              /\ executor'.purpose = executor.purpose
           \/ /\ executor'.pc \in {"test", "blocking", "sleeping", "admitting"}
              /\ executor'.purpose # "exit" \/ rt.stop_requested
    PROVE  StopInv'
<1>1. ActivationBacked' /\ StopOrder'
  BY DEF StopInv, ActivationBacked, StopOrder
<1>2. BusyExecutor'
  BY DEF StopInv, BusyExecutor
<1>3. ExitsOnStop'
  BY DEF StopInv, ExitsOnStop
<1>4. CASE executor'.pc \in {"test", "blocking", "sleeping", "admitting"}
  BY <1>1, <1>2, <1>3, <1>4 DEF StopInv, LeavesNothing
<1>5. CASE executor'.pc = executor.pc /\ executor'.purpose = executor.purpose
  <2>1. executor.pc \in {"exitLast", "ended"} => stopper # "none"
    BY DEF StopInv, ExitsOnStop, StopOrder
  <2>2. LeavesNothing'
    BY <1>5, <2>1 DEF StopInv, LeavesNothing
  <2>3. QED
    BY <1>1, <1>2, <1>3, <2>2 DEF StopInv
<1>6. QED
  BY <1>4, <1>5

LEMMA GoEffect ==
    ASSUME TypeOK, NEW where, Go(where)
    PROVE  executor'.pc = where /\ executor'.purpose = executor.purpose
BY DEF Go, TypeOK, ExecutorRecord

LEMMA NotifyEffect ==
    ASSUME TypeOK, Notify
    PROVE  /\ executor'.purpose = executor.purpose
           /\ \/ executor'.pc = executor.pc
              \/ executor.pc = "sleeping" /\ executor'.pc = "test"
BY DEF Notify, Woken, TypeOK, ExecutorRecord

\* The executor deciding, the threads of clients and watchdogs, and the worker.
LEMMA StopExecutorKept ==
    ASSUME TypeOK, QueueInv, StopInv,
           \/ ExecutorBlocks \/ ExecutorSleeps \/ ExecutorSpins \/ TakeJobs
           \/ EndAdmission
    PROVE  StopInv'
<1>1. /\ rt'.state = rt.state
      /\ rt'.activation_requested = rt.activation_requested
      /\ rt'.stop_requested = rt.stop_requested
  BY DEF ExecutorBlocks, ExecutorSleeps, ExecutorSpins, TakeJobs, EndAdmission,
         TypeOK, RuntimeRecord
<1>2. UNCHANGED <<reservation, stopper, worker>>
  BY DEF ExecutorBlocks, ExecutorSleeps, ExecutorSpins, TakeJobs, EndAdmission
<1>3. Queued(lanes') \subseteq Queued(lanes)
  BY EndAdmissionEffect DEF ExecutorBlocks, ExecutorSleeps, ExecutorSpins,
         TakeJobs, EndAdmission
<1>4. \/ executor' = executor
      \/ /\ executor'.pc \in {"test", "blocking", "sleeping", "admitting"}
         /\ executor'.purpose \in {executor.purpose, "none"}
  BY GoEffect DEF ExecutorBlocks, ExecutorSleeps, ExecutorSpins, TakeJobs,
         EndAdmission, Loop, AtWait
<1>5. executor.purpose = "exit" => rt.stop_requested
  BY DEF StopInv, ExitsOnStop
<1>6. QED
  BY <1>1, <1>2, <1>3, <1>4, <1>5, StopKept

LEMMA StopClientKept ==
    ASSUME TypeOK, QueueInv, StopInv,
           \/ ExpireStaleQueuedJobs \/ WorkerDies \/ TakePostTurn
           \/ \E j \in Job : Client(j) \/ Watchdog(j)
    PROVE  StopInv'
<1>1. rt' = rt \/ rt' = [rt EXCEPT !.backend_healthy = FALSE]
  BY DEF ExpireStaleQueuedJobs, WorkerDies, TakePostTurn, Client, Enqueue,
         EnqueueNotify, CancelQueued, CancelRunning, Watchdog, ArmCancelWatchdog,
         WatchdogFires, SendAbort, ForceKillActiveWorker, MarkBackendKilled
<1>2. /\ rt'.state = rt.state
      /\ rt'.activation_requested = rt.activation_requested
      /\ rt'.stop_requested = rt.stop_requested
  BY <1>1 DEF TypeOK, RuntimeRecord
<1>3. UNCHANGED <<reservation, stopper>>
  BY DEF ExpireStaleQueuedJobs, WorkerDies, TakePostTurn, Client, Enqueue,
         EnqueueNotify, CancelQueued, CancelRunning, Watchdog, ArmCancelWatchdog,
         WatchdogFires, SendAbort, ForceKillActiveWorker, MarkBackendKilled,
         WatchdogFrame
<1>4. worker' = worker \/ worker = "up"
  BY DEF ExpireStaleQueuedJobs, WorkerDies, TakePostTurn, Client, Enqueue,
         EnqueueNotify, CancelQueued, CancelRunning, Watchdog, ArmCancelWatchdog,
         WatchdogFires, SendAbort, ForceKillActiveWorker, MarkBackendKilled
<1>5. Queued(lanes') \subseteq Queued(lanes) \/ stopper = "none"
  <2>1. ASSUME NEW j \in Job, CancelQueued(j)
        PROVE  Queued(lanes') \subseteq Queued(lanes)
    BY <2>1, RemoveTakes DEF CancelQueued, QueueInv
  <2>2. QED
    BY <2>1 DEF ExpireStaleQueuedJobs, WorkerDies, TakePostTurn, Client, Enqueue,
           EnqueueNotify, CancelRunning, Watchdog, ArmCancelWatchdog,
           WatchdogFires, SendAbort, ForceKillActiveWorker, MarkBackendKilled,
           WatchdogFrame
<1>6. executor' = executor \/ Notify
  BY DEF ExpireStaleQueuedJobs, WorkerDies, TakePostTurn, Client, Enqueue,
         EnqueueNotify, CancelQueued, CancelRunning, Watchdog, ArmCancelWatchdog,
         WatchdogFires, SendAbort, ForceKillActiveWorker, MarkBackendKilled,
         WatchdogFrame
<1>7. executor.purpose = "exit" => rt.stop_requested
  BY DEF StopInv, ExitsOnStop
<1>8. QED
  BY <1>2, <1>3, <1>4, <1>5, <1>6, <1>7, NotifyEffect, StopKept

\* The threads of the jobs, where they leave the state alone.
LEMMA StopThreadKept ==
    ASSUME PostTurnJobs = {}, TypeOK, StopInv, NEW j \in Job, JobThread(j),
           ~EndJob(j), ~EndEarlyCancelled(j), ~RecoverEnd(j)
    PROVE  StopInv'
<1>1. UNCHANGED <<rt, reservation, stopper, lanes>>
  BY DEF JobThread, StartJob, ExecuteReturns, ExecuteThrows, BeginPostTurn,
         CompleteJob, SessionReady, CatchError, NotifyError,
         InvalidateCancelWatchdog, RecoverBegin, RecoverUnload, RecoverEndReclaim,
         JobFrame
<1>2. worker' = worker \/ worker' = "none"
  BY DEF JobThread, StartJob, ExecuteReturns, ExecuteThrows, BeginPostTurn,
         CompleteJob, SessionReady, CatchError, NotifyError,
         InvalidateCancelWatchdog, RecoverBegin, RecoverUnload, RecoverEndReclaim
<1>3. executor' = executor \/ Notify
  BY DEF JobThread, StartJob, ExecuteReturns, ExecuteThrows, BeginPostTurn,
         CompleteJob, SessionReady, CatchError, NotifyError,
         InvalidateCancelWatchdog, RecoverBegin, RecoverUnload, RecoverEndReclaim
<1>4. executor.purpose = "exit" => rt.stop_requested
  BY DEF StopInv, ExitsOnStop
<1>5. QED
  BY <1>1, <1>2, <1>3, <1>4, NotifyEffect, StopKept

\* A job that ends was running: the runtime was resident, with nothing pending.
LEMMA StopAtEnd ==
    ASSUME TypeOK, RunningInFlight, RecoveryInv, StopInv, NEW j \in Job,
           EndJob(j) \/ EndEarlyCancelled(j)
    PROVE  StopInv'
<1>1. j \in rt.running_jobs
  BY LeaveEffect DEF RunningInFlight, InFlight
<1>2. executor.pc \in AtRest /\ ~rt.activation_requested /\ reservation # "pending"
  BY <1>1 DEF RecoveryInv, ExecutorAlone, NoneRunsIn, StopInv, ActivationBacked
<1>3. UNCHANGED <<executor, worker, reservation, stopper, lanes>>
  BY DEF EndJob, EndEarlyCancelled, JobFrame
<1>4. /\ rt'.activation_requested = rt.activation_requested
      /\ rt'.stop_requested = rt.stop_requested
  BY LeaveEffect
<1>5. ActivationBacked' /\ BusyExecutor' /\ StopOrder' /\ ExitsOnStop'
  BY <1>2, <1>3, <1>4 DEF StopInv, ActivationBacked, BusyExecutor, StopOrder,
     ExitsOnStop, AtRest
<1>6. LeavesNothing'
  BY <1>3 DEF StopInv, LeavesNothing
<1>7. QED
  BY <1>5, <1>6 DEF StopInv

LEMMA StopAtRecoverEnd ==
    ASSUME TypeOK, RecoveryInv, StopInv, NEW j \in Job, RecoverEnd(j)
    PROVE  StopInv'
<1>1. j \in Recovering
  BY DEF RecoverEnd, Recovering
<1>2. rt.recovery_in_progress
  BY <1>1 DEF RecoveryInv, OneRecovers
<1>3. executor.pc \in AtRest /\ ~rt.activation_requested /\ reservation # "pending"
  BY <1>2 DEF RecoveryInv, ExecutorAlone, EvictingToRecover, StopInv,
     ActivationBacked, StopOrder
<1>4. UNCHANGED <<worker, reservation, stopper, lanes>> /\ Notify
  BY DEF RecoverEnd, JobFrame
<1>5. executor'.pc \in AtRest /\ executor'.purpose = executor.purpose
      /\ (executor'.pc = "exitWait" => executor.pc = "exitWait")
  BY <1>3, <1>4, NotifyEffect DEF AtRest
<1>6. /\ rt'.activation_requested = rt.activation_requested
      /\ rt'.stop_requested = rt.stop_requested
  BY DEF RecoverEnd, TypeOK, RuntimeRecord
<1>7. ActivationBacked' /\ BusyExecutor' /\ StopOrder' /\ ExitsOnStop'
  BY <1>3, <1>4, <1>5, <1>6 DEF StopInv, ActivationBacked, BusyExecutor,
     StopOrder, ExitsOnStop, AtRest
<1>8. LeavesNothing'
  BY <1>5 DEF LeavesNothing, AtRest
<1>9. QED
  BY <1>7, <1>8 DEF StopInv

LEMMA StopAtDecision ==
    ASSUME TypeOK, StopInv,
           TakeStop \/ TakeActivation \/ TakeDrain \/ TakeReload
    PROVE  StopInv'
<1>1. UNCHANGED <<worker, lanes, stopper>> /\ executor.pc = "test"
  BY DEF TakeStop, TakeActivation, TakeDrain, TakeReload, Decides
<1>2. CASE TakeStop
  <2>1. UNCHANGED <<rt, reservation>> /\ rt.stop_requested
    BY <1>2 DEF TakeStop
  <2>2. executor'.pc = "exitWait"
    BY <1>2, GoEffect DEF TakeStop
  <2>3. QED
    BY <1>1, <2>1, <2>2 DEF StopInv, ActivationBacked, BusyExecutor, StopOrder,
       ExitsOnStop, LeavesNothing
<1>3. CASE TakeActivation
  <2>1. /\ ~rt.stop_requested /\ rt.activation_requested /\ rt.state = "Loading"
        /\ reservation' = "executor"
    BY <1>3 DEF TakeActivation, MustLoad, StopInv, ActivationBacked
  <2>2. /\ rt'.state = "Loading" /\ ~rt'.activation_requested
        /\ ~rt'.stop_requested
    BY <1>3, <2>1 DEF TakeActivation, TypeOK, RuntimeRecord
  <2>3. executor'.pc = "load" /\ executor'.purpose = executor.purpose
    BY <1>3 DEF TakeActivation, TypeOK, ExecutorRecord
  <2>4. QED
    BY <1>1, <2>1, <2>2, <2>3 DEF StopInv, ActivationBacked, BusyExecutor,
       StopOrder, ExitsOnStop, LeavesNothing
<1>4. CASE TakeDrain \/ TakeReload
  <2>1. /\ ~rt.stop_requested /\ rt.state \in {"Idle", "Draining"}
        /\ UNCHANGED reservation
    BY <1>4 DEF TakeDrain, TakeReload, CanDrain, MustReload
  <2>2. ~rt.activation_requested /\ reservation # "pending"
    BY <2>1 DEF StopInv, ActivationBacked
  <2>3. /\ rt'.state = "Evicting" /\ ~rt'.activation_requested
        /\ ~rt'.stop_requested
    BY <1>4, <2>1, <2>2 DEF TakeDrain, TakeReload, TypeOK, RuntimeRecord
  <2>4. executor'.pc = "reclaim" /\ executor'.purpose # "exit"
    BY <1>4 DEF TakeDrain, TakeReload, TypeOK, ExecutorRecord
  <2>5. QED
    BY <1>1, <2>1, <2>2, <2>3, <2>4 DEF StopInv, ActivationBacked, BusyExecutor,
       StopOrder, ExitsOnStop, LeavesNothing
<1>5. QED
  BY <1>2, <1>3, <1>4

LEMMA StopAtAdmission ==
    ASSUME TypeOK, QueueInv, RecoveryInv, StopInv, AdmitJob
    PROVE  StopInv'
<1>1. /\ executor.pc = "admitting"
      /\ UNCHANGED <<executor, worker, reservation, stopper>>
  BY DEF AdmitJob
<1>2. ~rt.activation_requested /\ reservation # "pending"
  BY <1>1 DEF RecoveryInv, AdmitsIn, StopInv, ActivationBacked
<1>3. /\ rt'.activation_requested = rt.activation_requested
      /\ rt'.stop_requested = rt.stop_requested
  BY DEF AdmitJob, TypeOK, RuntimeRecord
<1>4. QED
  BY <1>1, <1>2, <1>3 DEF StopInv, ActivationBacked, BusyExecutor, StopOrder,
     ExitsOnStop, LeavesNothing

\* While it loads or reclaims, the executor need not fear a pending activation.
LEMMA NothingPending ==
    ASSUME StopInv,
           executor.pc \in {"load", "loading", "acquire", "reclaim", "reclaiming",
                            "unloaded", "released"}
    PROVE  ~rt.activation_requested /\ reservation # "pending"
BY DEF StopInv, BusyExecutor, StopOrder, ActivationBacked

LEMMA StopAtLoad ==
    ASSUME TypeOK, StopInv,
           BeginLoad \/ LoadSucceeds \/ LoadFails \/ AcquireGranted
           \/ AcquireThrows
    PROVE  StopInv'
<1>1. /\ executor.pc \in {"load", "loading", "acquire"}
      /\ UNCHANGED <<lanes, stopper>>
      /\ reservation' \in {reservation, "none", "executor"}
  BY DEF BeginLoad, LoadSucceeds, LoadFails, AcquireGranted, AcquireThrows
<1>2. ~rt.activation_requested /\ reservation # "pending"
  BY <1>1, NothingPending
<1>3. /\ rt'.activation_requested = rt.activation_requested
      /\ rt'.stop_requested = rt.stop_requested
  <2>1. rt \in RuntimeRecord
    BY DEF TypeOK
  <2>2. CASE BeginLoad \/ LoadFails
    BY <2>1, <2>2 DEF BeginLoad, LoadFails, RuntimeRecord
  <2>3. CASE LoadSucceeds \/ AcquireGranted \/ AcquireThrows
    BY <2>1, <2>3 DEF LoadSucceeds, AcquireGranted, AcquireThrows, RuntimeRecord
  <2>4. QED
    BY <2>2, <2>3
<1>4. ActivationBacked' /\ StopOrder'
  BY <1>1, <1>2, <1>3 DEF StopInv, ActivationBacked, StopOrder
<1>5. \/ executor'.pc = "test" /\ executor'.purpose = "none"
      \/ /\ executor'.pc \in {"failQueued", "loading", "reclaim", "load"}
         /\ executor'.purpose \in {executor.purpose, "loadFailed"}
         /\ executor'.pc = "failQueued" => ~rt.stop_requested
  <2>1. CASE BeginLoad \/ LoadSucceeds \/ AcquireThrows
    BY <2>1, GoEffect DEF BeginLoad, LoadSucceeds, AcquireThrows, Loop, AtWait
  <2>2. CASE LoadFails \/ AcquireGranted
    BY <2>2 DEF LoadFails, AcquireGranted, TypeOK, ExecutorRecord
  <2>3. QED
    BY <2>1, <2>2
<1>6. executor'.pc \in {"loading", "reclaim", "load"}
         => rt.stop_requested \/ rt'.state \in {"Loading", "Evicting"}
  <2>1. rt.stop_requested \/ rt.state \in {"Loading", "Evicting"}
    BY <1>1 DEF StopInv, BusyExecutor
  <2>2. CASE BeginLoad
    BY <2>1, <2>2, GoEffect DEF BeginLoad, Loop, AtWait, TypeOK, RuntimeRecord
  <2>3. CASE LoadSucceeds
    BY <2>3 DEF LoadSucceeds, Loop, AtWait
  <2>4. CASE LoadFails
    BY <2>1, <2>4 DEF LoadFails, TypeOK, RuntimeRecord
  <2>5. CASE AcquireGranted \/ AcquireThrows
    BY <2>1, <2>5 DEF AcquireGranted, AcquireThrows
  <2>6. QED
    BY <2>2, <2>3, <2>4, <2>5
<1>7. BusyExecutor'
  BY <1>2, <1>3, <1>5, <1>6 DEF BusyExecutor
<1>8. ExitsOnStop' /\ LeavesNothing'
  BY <1>3, <1>5 DEF StopInv, ExitsOnStop, LeavesNothing
<1>9. QED
  BY <1>4, <1>7, <1>8 DEF StopInv

LEMMA StopAtReclaim ==
    ASSUME TypeOK, StopInv,
           BeginReclaim \/ UnloadBackend \/ EndReclaim \/ AfterReclaim
    PROVE  StopInv'
<1>1. /\ executor.pc \in {"reclaim", "reclaiming", "unloaded", "released"}
      /\ UNCHANGED <<lanes, stopper>>
      /\ reservation' \in {reservation, "none"}
  BY DEF BeginReclaim, UnloadBackend, EndReclaim, AfterReclaim
<1>2. ~rt.activation_requested /\ reservation # "pending"
  BY <1>1, NothingPending
<1>3. /\ rt'.activation_requested = rt.activation_requested
      /\ rt'.stop_requested = rt.stop_requested
  BY DEF BeginReclaim, UnloadBackend, EndReclaim, AfterReclaim, TypeOK,
     RuntimeRecord
<1>4. ActivationBacked' /\ StopOrder'
  BY <1>1, <1>2, <1>3 DEF StopInv, ActivationBacked, StopOrder
<1>5. executor.purpose = "exit" => rt.stop_requested
  BY DEF StopInv, ExitsOnStop
<1>6. CASE BeginReclaim \/ UnloadBackend \/ EndReclaim
  <2>1. /\ executor'.pc \in {"reclaiming", "unloaded", "released"}
        /\ executor'.purpose = executor.purpose
        /\ UNCHANGED rt
    BY <1>6, GoEffect DEF BeginReclaim, UnloadBackend, EndReclaim
  <2>2. executor'.pc # "reclaiming" =>
           \/ worker' = "none" /\ reservation' = "none"
           \/ executor.pc = "unloaded" /\ UNCHANGED <<worker, reservation>>
    BY <1>6, GoEffect DEF BeginReclaim, UnloadBackend, EndReclaim
  <2>3. LeavesNothing'
    BY <2>1, <2>2 DEF StopInv, LeavesNothing
  <2>4. BusyExecutor' /\ ExitsOnStop'
    BY <1>1, <1>5, <2>1 DEF StopInv, BusyExecutor, ExitsOnStop
  <2>5. QED
    BY <1>4, <2>3, <2>4 DEF StopInv
<1>7. CASE AfterReclaim
  <2>1. executor.pc = "released" /\ UNCHANGED <<worker, reservation>>
    BY <1>7 DEF AfterReclaim
  <2>2. \/ executor'.pc = "test" /\ executor'.purpose = "none"
        \/ /\ executor'.pc = "acquire" /\ executor.purpose = "loadFailed"
           /\ executor'.purpose = executor.purpose /\ UNCHANGED rt
        \/ /\ executor'.pc = "failQueued"
           /\ executor'.purpose = executor.purpose
    BY <1>7, GoEffect DEF AfterReclaim, Loop, AtWait
  <2>3. BusyExecutor'
    BY <2>1, <2>2 DEF StopInv, BusyExecutor
  <2>4. ExitsOnStop' /\ LeavesNothing'
    BY <1>3, <1>5, <2>1, <2>2 DEF StopInv, ExitsOnStop, LeavesNothing
  <2>5. QED
    BY <1>4, <2>3, <2>4 DEF StopInv
<1>8. QED
  BY <1>6, <1>7

LEMMA StopAtExit ==
    ASSUME TypeOK, RecoveryInv, StopInv,
           FailQueued \/ StopPostTurnWorker \/ JoinPostTurnWorker \/ ExecutorEnds
    PROVE  StopInv'
<1>1. CASE FailQueued
  <2>1. /\ executor.pc = "failQueued" /\ lanes' = EmptyLanes
        /\ UNCHANGED <<rt, worker, reservation, stopper>>
    BY <1>1 DEF FailQueued
  <2>2. \/ executor'.pc = "test" /\ executor'.purpose = "none"
        \/ executor'.pc = "exitLast" /\ executor'.purpose = executor.purpose
             /\ executor.purpose = "exit"
    BY <1>1, GoEffect DEF FailQueued, Loop, AtWait
  <2>3. Queued(lanes') = {}
    BY <2>1, EmptyQueue
  <2>4. ActivationBacked' /\ StopOrder'
    BY <2>1 DEF StopInv, ActivationBacked, StopOrder
  <2>5. BusyExecutor' /\ ExitsOnStop'
    BY <2>1, <2>2 DEF StopInv, BusyExecutor, ExitsOnStop
  <2>6. executor.purpose = "exit" => worker' = "none" /\ reservation' = "none"
    BY <2>1 DEF StopInv, LeavesNothing
  <2>7. LeavesNothing'
    BY <2>2, <2>3, <2>6 DEF LeavesNothing
  <2>8. QED
    BY <2>4, <2>5, <2>7 DEF StopInv
<1>2. CASE StopPostTurnWorker \/ JoinPostTurnWorker \/ ExecutorEnds
  <2>1. /\ executor.pc \in {"exitWait", "joinPostTurn", "exitLast"}
        /\ UNCHANGED <<worker, reservation, lanes>>
    BY <1>2 DEF StopPostTurnWorker, JoinPostTurnWorker, ExecutorEnds
  <2>2. rt.stop_requested /\ ~rt.activation_requested /\ reservation # "pending"
    BY <2>1 DEF StopInv, ExitsOnStop, StopOrder, ActivationBacked
  <2>3. /\ rt'.activation_requested = rt.activation_requested
        /\ rt'.stop_requested = rt.stop_requested
    BY <1>2 DEF StopPostTurnWorker, JoinPostTurnWorker, ExecutorEnds, TypeOK,
       RuntimeRecord
  <2>4. stopper' = stopper \/ (stopper' = "joined" /\ stopper # "none")
    BY <1>2, <2>2 DEF StopPostTurnWorker, JoinPostTurnWorker, ExecutorEnds,
       StopInv, StopOrder
  <2>5. \/ executor'.pc \in {"joinPostTurn", "reclaim"}
        \/ executor.pc = "exitLast" /\ executor'.pc = "ended"
    BY <1>2, GoEffect DEF StopPostTurnWorker, JoinPostTurnWorker, ExecutorEnds,
       TypeOK, ExecutorRecord
  <2>6. ActivationBacked' /\ BusyExecutor' /\ StopOrder' /\ ExitsOnStop'
    BY <2>1, <2>2, <2>3, <2>4 DEF StopInv, ActivationBacked, BusyExecutor,
       StopOrder, ExitsOnStop
  <2>7. LeavesNothing'
    BY <2>1, <2>5 DEF StopInv, LeavesNothing
  <2>8. QED
    BY <2>6, <2>7 DEF StopInv
<1>3. QED
  BY <1>1, <1>2

\* The pool hands over a reservation, drains and stops.
LEMMA StopAtPool ==
    ASSUME TypeOK, StopInv,
           \/ Grant \/ Activate \/ ActivateResident \/ RequestDrain \/ Stop
           \/ \E force \in BOOLEAN : StopCancelWatchdog(force)
    PROVE  StopInv'
<1>1. UNCHANGED lanes /\ (executor' = executor \/ Notify)
  BY DEF Grant, Activate, ActivateResident, RequestDrain, Stop,
     StopCancelWatchdog
<1>2. /\ executor'.purpose = executor.purpose
      /\ \/ executor'.pc = executor.pc
         \/ executor.pc = "sleeping" /\ executor'.pc = "test"
  BY <1>1, NotifyEffect
<1>3. worker' = worker \/ worker # "none"
  BY DEF Grant, Activate, ActivateResident, RequestDrain, Stop,
     StopCancelWatchdog
<1>4. ASSUME rt'.stop_requested = rt.stop_requested,
             \/ reservation' = "none"
             \/ reservation' = reservation
             \/ ~rt.stop_requested,
             ActivationBacked', BusyExecutor', StopOrder'
      PROVE  StopInv'
  <2>1. ExitsOnStop'
    BY <1>2, <1>4 DEF StopInv, ExitsOnStop
  <2>2. LeavesNothing'
    BY <1>1, <1>2, <1>3, <1>4 DEF StopInv, LeavesNothing, ExitsOnStop
  <2>3. QED
    BY <1>4, <2>1, <2>2 DEF StopInv
<1>5. CASE Grant \/ \E force \in BOOLEAN : StopCancelWatchdog(force)
  <2>1. UNCHANGED <<rt, executor>>
    BY <1>5 DEF Grant, StopCancelWatchdog
  <2>2. \/ /\ reservation = "none" /\ reservation' = "pool"
           /\ stopper = "none" /\ UNCHANGED stopper
        \/ /\ UNCHANGED reservation /\ reservation # "pool"
           /\ stopper = "none"
    BY <1>5 DEF Grant, StopCancelWatchdog
  <2>3. ~rt.stop_requested
    BY <2>2 DEF StopInv, StopOrder
  <2>4. ActivationBacked' /\ BusyExecutor' /\ StopOrder'
    BY <2>1, <2>2, <2>3 DEF StopInv, ActivationBacked, BusyExecutor, StopOrder
  <2>5. QED
    BY <1>4, <2>1, <2>3, <2>4
<1>6. CASE Activate /\ rt' = Activated(rt)
  <2>1. /\ reservation = "pool" /\ UNCHANGED stopper
    BY <1>6 DEF Activate
  <2>2. stopper = "none" /\ ~rt.stop_requested
    BY <2>1 DEF StopInv, StopOrder
  <2>3. /\ rt'.state = "Loading" /\ rt'.activation_requested
        /\ rt'.stop_requested = rt.stop_requested
    BY <1>6, <2>2 DEF Activated, TypeOK, RuntimeRecord
  <2>4. CASE rt.state \in {"NotResident", "Failed"} /\ reservation' = "pending"
    <3>1. executor'.pc \notin {"load", "loading", "acquire", "reclaim",
                               "reclaiming", "unloaded", "released"}
      BY <1>2, <2>2, <2>4 DEF StopInv, BusyExecutor
    <3>2. BusyExecutor'
      BY <3>1 DEF BusyExecutor
    <3>3. ActivationBacked'
      BY <2>3, <2>4 DEF ActivationBacked
    <3>4. StopOrder'
      BY <2>1, <2>2, <2>3 DEF StopOrder
    <3>5. QED
      BY <1>4, <2>2, <2>3, <3>2, <3>3, <3>4
  <2>5. CASE rt' = rt \/ rt' = Undrained(rt)
    <3>1. ~rt.activation_requested
      BY <2>1 DEF StopInv, ActivationBacked
    <3>2. QED
      BY <2>3, <2>5, <3>1 DEF Undrained, TypeOK, RuntimeRecord
  <2>6. QED
    BY <1>6, <2>4, <2>5 DEF Activate
<1>7. CASE /\ rt' \in {rt, Undrained(rt)} /\ UNCHANGED stopper
           /\ \/ reservation = "pool" /\ reservation' = "none"
              \/ UNCHANGED reservation
  <2>1. /\ rt'.activation_requested = rt.activation_requested
        /\ rt'.stop_requested = rt.stop_requested
        /\ rt'.state = rt.state \/ rt.state = "Draining"
    BY <1>7 DEF Undrained, TypeOK, RuntimeRecord
  <2>2. ActivationBacked' /\ BusyExecutor' /\ StopOrder'
    BY <1>2, <1>7, <2>1 DEF StopInv, ActivationBacked, BusyExecutor, StopOrder
  <2>3. QED
    BY <1>4, <1>7, <2>1, <2>2
<1>8. CASE RequestDrain
  <2>1. rt.state # "Loading" /\ UNCHANGED <<reservation, stopper>>
    BY <1>8 DEF RequestDrain, DrainIgnored
  <2>2. ~rt.activation_requested /\ reservation # "pending"
    BY <2>1 DEF StopInv, ActivationBacked
  <2>3. /\ ~rt'.activation_requested
        /\ rt'.stop_requested = rt.stop_requested
        /\ rt'.state = rt.state \/ rt.state = "Running"
    BY <1>8 DEF RequestDrain, TypeOK, RuntimeRecord
  <2>4. ActivationBacked' /\ BusyExecutor' /\ StopOrder'
    BY <1>2, <2>1, <2>2, <2>3 DEF StopInv, ActivationBacked, BusyExecutor,
       StopOrder
  <2>5. QED
    BY <1>4, <2>1, <2>3, <2>4
<1>9. CASE Stop
  <2>1. /\ stopper # "none" /\ stopper' = "stopping"
        /\ reservation' \in {reservation, "none"} /\ reservation' # "pending"
    BY <1>9 DEF Stop, PendingReleased
  <2>2. rt'.stop_requested /\ ~rt'.activation_requested
    BY <1>9 DEF Stop, TypeOK, RuntimeRecord
  <2>3. ActivationBacked' /\ BusyExecutor' /\ StopOrder' /\ ExitsOnStop'
    BY <2>1, <2>2 DEF StopInv, ActivationBacked, BusyExecutor, StopOrder,
       ExitsOnStop
  <2>4. LeavesNothing'
    BY <1>1, <1>2, <1>3, <2>1 DEF StopInv, LeavesNothing
  <2>5. QED
    BY <2>3, <2>4 DEF StopInv
<1>10. QED
  BY <1>5, <1>6, <1>7, <1>8, <1>9 DEF Activate, ActivateResident

LEMMA StopStep ==
    ASSUME PostTurnJobs = {}, TypeOK, QueueInv, RunningInFlight, RecoveryInv,
           StopInv, [Next]_vars
    PROVE  StopInv'
<1>1. CASE Executor
  BY <1>1, StopExecutorKept, StopAtDecision, StopAtAdmission, StopAtLoad,
     StopAtReclaim, StopAtExit DEF Executor, Deciding, Loading, Reclaiming,
     Exiting
<1>2. CASE PostTurn
  BY <1>2, StopClientKept DEF PostTurn, FinishPostTurn, RecoveryInv, NoPostTurn
<1>3. CASE Pool \/ WorkerDies
  BY <1>3, StopClientKept, StopAtPool DEF Pool
<1>4. ASSUME NEW j \in Job, Client(j) \/ JobThread(j) \/ Watchdog(j)
      PROVE  StopInv'
  BY <1>4, StopClientKept, StopThreadKept, StopAtEnd, StopAtRecoverEnd
<1>5. CASE UNCHANGED vars
  BY <1>5, StopKept DEF vars
<1>6. QED
  BY <1>1, <1>2, <1>3, <1>4, <1>5 DEF Next

-----------------------------------------------------------------------------
LEMMA OnlyUnloads ==
    ASSUME [Next]_vars, worker = "up", worker' = "none"
    PROVE  UnloadBackend \/ \E j \in Job : RecoverUnload(j)
<1>1. CASE Executor
  BY <1>1 DEF Executor, Deciding, Loading, Reclaiming, Exiting, ExecutorBlocks,
     ExecutorSleeps, TakeStop, TakeActivation, TakeDrain, TakeReload,
     ExecutorSpins, TakeJobs, AdmitJob, EndAdmission, BeginLoad, LoadSucceeds,
     LoadFails, AcquireGranted, AcquireThrows, FailQueued, BeginReclaim,
     EndReclaim, AfterReclaim, StopPostTurnWorker, JoinPostTurnWorker,
     ExecutorEnds
<1>2. CASE PostTurn \/ Pool \/ WorkerDies
  BY <1>2 DEF PostTurn, TakePostTurn, FinishPostTurn, Pool, Grant, Activate,
     ActivateResident, RequestDrain, ExpireStaleQueuedJobs, Stop,
     StopCancelWatchdog, WorkerDies
<1>3. ASSUME NEW j \in Job, Client(j) \/ Watchdog(j)
      PROVE  FALSE
  BY <1>3 DEF Client, Enqueue, EnqueueNotify, CancelQueued, CancelRunning,
     Watchdog, ArmCancelWatchdog, WatchdogFires, SendAbort,
     ForceKillActiveWorker, MarkBackendKilled
<1>4. ASSUME NEW j \in Job, JobThread(j) PROVE RecoverUnload(j)
  BY <1>4 DEF JobThread, StartJob, ExecuteReturns, ExecuteThrows, BeginPostTurn,
     CompleteJob, SessionReady, CatchError, NotifyError, EndEarlyCancelled,
     EndJob, InvalidateCancelWatchdog, RecoverBegin, RecoverEndReclaim,
     RecoverEnd
<1>5. CASE UNCHANGED vars
  BY <1>5 DEF vars
<1>6. QED
  BY <1>1, <1>2, <1>3, <1>4, <1>5 DEF Next

LEMMA RecoveryInit == Init => RecoveryInv /\ StopInv
<1> SUFFICES ASSUME Init PROVE RecoveryInv /\ StopInv
  OBVIOUS
<1>1. RecoveryInv
  BY DEF Init, RecoveryInv, NoPostTurn, OneRecovers, Recovering,
     EvictingToRecover, ExecutorAlone, NoneRunsIn, AdmitsIn, AtWait, AtRest
<1>2. StopInv
  BY DEF Init, StopInv, ActivationBacked, BusyExecutor, StopOrder, ExitsOnStop,
     LeavesNothing, AtWait
<1>3. QED
  BY <1>1, <1>2

LEMMA RecoveryInvariance ==
    ASSUME PostTurnJobs = {}
    PROVE  Spec => [](Inv /\ RecoveryInv /\ StopInv)
<1>1. RecoveryInv /\ StopInv /\ Inv /\ [Next]_vars => RecoveryInv' /\ StopInv'
  BY RecoveryStep, StopStep DEF Inv
<1>2. QED
  BY <1>1, RecoveryInit, Invariance, PTL DEF Spec

\* An activation is pending exactly as long as the reservation that pays for it
\* waits to be taken (activate, requestDrain, stop and the executor).
THEOREM ActivationIsBacked ==
    ASSUME PostTurnJobs = {}
    PROVE  Spec => []ActivationBacked
<1>1. StopInv => ActivationBacked
  BY DEF StopInv
<1>2. QED
  BY <1>1, RecoveryInvariance, PTL

\* Between the failure of a job and the end of the recovery the runtime admits
\* nothing, whichever of its jobs ends last (the two exits of runJobEntry).
THEOREM RecoveryIsQuiet ==
    ASSUME PostTurnJobs = {}
    PROVE  Spec => []RecoveryQuiet
<1>1. RecoveryInv => RecoveryQuiet
  BY DEF RecoveryInv, EvictingToRecover, RecoveryQuiet
<1>2. QED
  BY <1>1, RecoveryInvariance, PTL

\* One thread at a time takes the backend down: the executor for a drain, a reload,
\* a failed load or the exit, or the last job for a recovery.
THEOREM ReclaimsAlone ==
    ASSUME PostTurnJobs = {}
    PROVE  Spec => []SingleReclaim
<1>1. ASSUME RecoveryInv PROVE SingleReclaim
  <2> DEFINE taking == {j \in Job : jobs[j].pc \in {"recover", "reclaiming",
                                                    "unloaded", "released"}}
  <2>1. taking \subseteq Recovering
    BY DEF Recovering
  <2>2. CASE taking = {}
    BY <2>2, FS_EmptySet DEF SingleReclaim
  <2>3. CASE taking # {}
    <3>1. PICK j \in Job : taking = {j}
      BY <1>1, <2>1, <2>3 DEF RecoveryInv, OneRecovers
    <3>2. Cardinality(taking) = 1
      BY <3>1, FS_Singleton
    <3>3. executor.pc \in AtRest
      BY <1>1, <2>1, <3>1 DEF RecoveryInv, OneRecovers, ExecutorAlone
    <3>4. QED
      BY <3>2, <3>3 DEF SingleReclaim, AtRest
  <2>4. QED
    BY <2>2, <2>3
<1>2. QED
  BY <1>1, RecoveryInvariance, PTL

\* Whoever unloads the worker, no request is using it ("Recovery is deferred until
\* every other admitted request has finished", handleJobFailure).
THEOREM UnloadsIdleWorker ==
    ASSUME PostTurnJobs = {}
    PROVE  Spec => NoUnloadUnderJob
<1> DEFINE Unused == worker = "up" /\ worker' = "none" =>
                        \A j \in Job : jobs[j].pc \notin UsesWorker
<1>1. Inv /\ RecoveryInv /\ [Next]_vars => [Unused]_vars
  <2> SUFFICES ASSUME Inv, RecoveryInv, [Next]_vars, worker = "up", worker' = "none"
               PROVE  \A j \in Job : jobs[j].pc \notin UsesWorker
    OBVIOUS
  <2>1. UnloadBackend \/ \E j \in Job : RecoverUnload(j)
    BY OnlyUnloads
  <2>2. executor.pc \notin AtRest \/ \E j \in Job : j \in Recovering
    BY <2>1 DEF UnloadBackend, RecoverUnload, AtRest, Recovering
  <2>3. rt.running_jobs = {}
    BY <2>2 DEF RecoveryInv, ExecutorAlone, OneRecovers
  <2>4. QED
    BY <2>3 DEF Inv, RunningInFlight, UsesWorker, InFlight
<1>2. QED
  BY <1>1, RecoveryInvariance, PTL DEF Spec, NoUnloadUnderJob

\* When the executor has ended nothing is left: no worker, no reservation, nothing
\* queued, running or recovering.
THEOREM StoppedLeavesNothing ==
    ASSUME PostTurnJobs = {}
    PROVE  Spec => []StopLeavesNothing
<1>1. ASSUME Inv, RecoveryInv, StopInv PROVE StopLeavesNothing
  <2> SUFFICES ASSUME executor.pc = "ended" PROVE StopLeavesNothing
    BY DEF StopLeavesNothing
  <2>1. worker = "none" /\ reservation = "none" /\ Queued(lanes) = {}
    BY <1>1 DEF StopInv, LeavesNothing
  <2>2. IsEmpty(lanes)
    BY <2>1 DEF IsEmpty
  <2>3. rt.running_jobs = {} /\ ~rt.recovery_in_progress
    BY <1>1 DEF RecoveryInv, ExecutorAlone, AtRest
  <2>4. Recovering = {}
    BY <1>1, <2>3 DEF RecoveryInv, OneRecovers
  <2>5. \A j \in Job : jobs[j].pc \notin InFlight \cup {"queued"}
    BY <1>1, <2>1, <2>3 DEF Inv, RunningInFlight, QueueInv, NoSilentDrop
  <2>6. QED
    BY <1>1, <2>1, <2>2, <2>4, <2>5 DEF StopLeavesNothing, RecoveryInv, NoPostTurn,
       Recovering
<1>2. QED
  BY <1>1, RecoveryInvariance, PTL

-----------------------------------------------------------------------------
(* Post-turn work and the session it belongs to, with or without recoveries. *)

\* Where a job that has left post-turn work behind may be.
AfterPostTurn == {"completing", "resetting", "threw", "erroring", "ending"}

LEMMA ReservedKept ==
    ASSUME SessionReserved, RunningInFlight',
           rt'.running_jobs \subseteq rt.running_jobs,
           rt'.post_turn_sessions \subseteq rt.post_turn_sessions,
           rt'.running_jobs \subseteq Job,
           \A j \in Job : \/ jobs'[j].pc = jobs[j].pc
                          \/ jobs'[j].pc \in {"queued", "done"}
    PROVE  SessionReserved'
BY DEF SessionReserved, RunningInFlight, InFlight

\* Executor steps other than an admission start no post-turn work, and touch only
\* jobs that are in the queue.
LEMMA ReservedExecutor ==
    ASSUME TypeOK, Executor, ~AdmitJob
    PROVE  /\ rt'.post_turn_sessions \subseteq rt.post_turn_sessions
           /\ \A j \in Job : jobs'[j].pc \in {jobs[j].pc, "done"}
<1>1. CASE Deciding
  <2>1. UNCHANGED jobs
    BY <1>1 DEF Deciding, ExecutorBlocks, ExecutorSleeps, TakeStop,
           TakeActivation, TakeDrain, TakeReload, ExecutorSpins, TakeJobs,
           EndAdmission
  <2>2. \/ UNCHANGED rt
        \/ rt' = [rt EXCEPT !.activation_requested = FALSE]
        \/ rt' = [rt EXCEPT !.drain_mode = FALSE, !.state = "Evicting"]
        \/ rt' = [rt EXCEPT !.backend_healthy = FALSE, !.state = "Evicting"]
        \/ rt' = [rt EXCEPT !.drain_mode = @ /\ rt.state \in ResidentState]
    BY <1>1 DEF Deciding, ExecutorBlocks, ExecutorSleeps, TakeStop,
           TakeActivation, TakeDrain, TakeReload, ExecutorSpins, TakeJobs,
           EndAdmission
  <2>3. rt'.post_turn_sessions = rt.post_turn_sessions
    BY <2>2 DEF TypeOK, RuntimeRecord
  <2>4. QED
    BY <2>1, <2>3
<1>2. CASE BeginLoad \/ AcquireGranted \/ AcquireThrows
  BY <1>2 DEF BeginLoad, AcquireGranted, AcquireThrows, TypeOK, RuntimeRecord
<1>3. CASE LoadSucceeds \/ LoadFails
  BY <1>3 DEF LoadSucceeds, LoadFails, TypeOK, RuntimeRecord
<1>4. CASE FailQueued
  BY <1>4 DEF FailQueued, TypeOK, JobRecord
<1>5. CASE Reclaiming
  <2>1. UNCHANGED jobs
    BY <1>5 DEF Reclaiming, BeginReclaim, UnloadBackend, EndReclaim, AfterReclaim
  <2>2. UNCHANGED rt \/ AfterReclaim
    BY <1>5 DEF Reclaiming, BeginReclaim, UnloadBackend, EndReclaim
  <2>3. AfterReclaim => rt'.post_turn_sessions = rt.post_turn_sessions
    BY DEF AfterReclaim, TypeOK, RuntimeRecord
  <2>4. QED
    BY <2>1, <2>2, <2>3
<1>6. CASE Exiting
  <2>1. UNCHANGED jobs
    BY <1>6 DEF Exiting, StopPostTurnWorker, JoinPostTurnWorker, ExecutorEnds
  <2>2. ASSUME StopPostTurnWorker
        PROVE  rt'.post_turn_sessions \subseteq rt.post_turn_sessions
    BY <2>2 DEF StopPostTurnWorker, TypeOK, RuntimeRecord
  <2>3. ASSUME JoinPostTurnWorker
        PROVE  rt'.post_turn_sessions = rt.post_turn_sessions
    BY <2>3 DEF JoinPostTurnWorker, TypeOK, RuntimeRecord
  <2>4. ASSUME ExecutorEnds
        PROVE  rt'.post_turn_sessions = {}
    BY <2>4 DEF ExecutorEnds, TypeOK, RuntimeRecord
  <2>5. QED
    BY <1>6, <2>1, <2>2, <2>3, <2>4 DEF Exiting
<1>7. QED
  BY <1>1, <1>2, <1>3, <1>4, <1>5, <1>6 DEF Executor, Loading

LEMMA ReservedOthers ==
    ASSUME TypeOK,
           \/ PostTurn \/ Pool \/ WorkerDies \/ UNCHANGED vars
           \/ \E j \in Job : Client(j) \/ Watchdog(j)
    PROVE  /\ rt'.post_turn_sessions \subseteq rt.post_turn_sessions
           /\ \A j \in Job : jobs'[j].pc \in {jobs[j].pc, "queued", "done"}
<1>1. CASE PostTurn
  BY <1>1 DEF PostTurn, TakePostTurn, FinishPostTurn, TypeOK, RuntimeRecord
<1>2. CASE ExpireStaleQueuedJobs
  BY <1>2 DEF ExpireStaleQueuedJobs, TypeOK, JobRecord
<1>3. CASE Activate \/ ActivateResident
  <2>1. UNCHANGED jobs /\ rt' \in {rt, Activated(rt), Undrained(rt)}
    BY <1>3 DEF Activate, ActivateResident
  <2>2. QED
    BY <2>1 DEF Activated, Undrained, TypeOK, RuntimeRecord
<1>4. CASE Grant \/ RequestDrain \/ Stop
           \/ \E force \in BOOLEAN : StopCancelWatchdog(force)
  BY <1>4 DEF Grant, RequestDrain, Stop, StopCancelWatchdog, TypeOK, RuntimeRecord
<1>5. CASE WorkerDies \/ UNCHANGED vars
  BY <1>5 DEF WorkerDies, vars
<1>6. ASSUME NEW j \in Job, Client(j)
      PROVE  /\ UNCHANGED rt
             /\ UNCHANGED jobs \/ \E where \in {"queued", "done"} : SetJob(j, where)
  BY <1>6 DEF Client, Enqueue, EnqueueNotify, CancelQueued, CancelRunning
<1>7. ASSUME NEW j \in Job, NEW where \in {"queued", "done"}, SetJob(j, where)
      PROVE  \A k \in Job : jobs'[k].pc \in {jobs[k].pc, "queued", "done"}
  BY <1>7 DEF SetJob, TypeOK, JobRecord
<1>8. ASSUME NEW j \in Job, Watchdog(j)
      PROVE  UNCHANGED jobs /\ rt' \in {rt, [rt EXCEPT !.backend_healthy = FALSE]}
  BY <1>8 DEF Watchdog, ArmCancelWatchdog, WatchdogFires, SendAbort,
     ForceKillActiveWorker, MarkBackendKilled, WatchdogFrame
<1>9. CASE \E j \in Job : Client(j)
  BY <1>6, <1>7, <1>9
<1>10. CASE \E j \in Job : Watchdog(j)
  BY <1>8, <1>10 DEF TypeOK, RuntimeRecord
<1>11. QED
  BY <1>1, <1>2, <1>3, <1>4, <1>5, <1>9, <1>10 DEF Pool

LEMMA SessionReservedStep ==
    ASSUME TypeOK, QueueInv, RunningInFlight, SessionInv, SessionReserved,
           RunningInFlight', TypeOK', [Next]_vars
    PROVE  SessionReserved'
<1>1. rt'.running_jobs \subseteq Job
  BY DEF TypeOK, RuntimeRecord
<1>2. CASE AdmitJob
  <2>1. PICK j \in Job :
           /\ SessionOf[j] \notin rt.active_sessions \cup rt.post_turn_sessions
           /\ jobs' = [jobs EXCEPT ![j].pc = "admitted"]
           /\ rt' = [rt EXCEPT !.running_jobs = @ \cup {j},
                               !.active_sessions = @ \cup {SessionOf[j]},
                               !.state = "Running"]
    BY <1>2, AdmitJobEffect
  <2>2. /\ rt'.running_jobs = rt.running_jobs \cup {j}
        /\ rt'.post_turn_sessions = rt.post_turn_sessions
    BY <2>1 DEF TypeOK, RuntimeRecord
  <2>3. \A k \in Job : k # j => jobs'[k] = jobs[k]
    BY <2>1 DEF TypeOK
  <2>4. QED
    BY <1>1, <2>1, <2>2, <2>3 DEF SessionReserved
<1>3. ASSUME NEW j \in Job, JobThread(j) PROVE SessionReserved'
  <2>1. /\ \A k \in Job : k # j => jobs'[k] = jobs[k]
        /\ jobs[j].pc \in InFlight \cup Finishing
    BY <1>3, JobThreadEffect DEF TypeOK
  <2>2. CASE EndJob(j) \/ EndEarlyCancelled(j)
    <3>1. /\ rt'.running_jobs = rt.running_jobs \ {j}
          /\ rt'.post_turn_sessions = rt.post_turn_sessions
      BY <2>2, LeaveEffect
    <3>2. QED
      BY <1>1, <2>1, <3>1 DEF SessionReserved
  <2>3. CASE BeginPostTurn(j)
    <3>1. /\ j \in rt.running_jobs
          /\ rt'.running_jobs = rt.running_jobs
          /\ \/ rt'.post_turn_sessions = rt.post_turn_sessions
             \/ /\ j \in PostTurnJobs
                /\ rt'.post_turn_sessions = rt.post_turn_sessions \cup {SessionOf[j]}
      BY <2>3 DEF BeginPostTurn, RunningInFlight, InFlight, TypeOK, RuntimeRecord
    <3>2. jobs'[j].pc = "completing" /\ jobs[j].pc = "responded"
      BY <2>3 DEF BeginPostTurn, SetJob, TypeOK, JobRecord
    <3>3. SessionOf[j] \notin rt.post_turn_sessions
      BY <3>1, <3>2 DEF SessionReserved
    <3>4. \A k \in rt.running_jobs : k # j => SessionOf[k] # SessionOf[j]
      BY <3>1 DEF SessionInv, OneJobPerSession
    <3>5. QED
      BY <1>1, <2>1, <3>1, <3>2, <3>3, <3>4 DEF SessionReserved
  <2>4. CASE ~EndJob(j) /\ ~EndEarlyCancelled(j) /\ ~BeginPostTurn(j)
    <3>1. /\ rt'.running_jobs = rt.running_jobs
          /\ rt'.post_turn_sessions = rt.post_turn_sessions
      BY <1>3, <2>4 DEF JobThread, StartJob, ExecuteReturns, ExecuteThrows,
         CompleteJob, SessionReady, CatchError, NotifyError,
         InvalidateCancelWatchdog, RecoverBegin, RecoverUnload,
         RecoverEndReclaim, RecoverEnd, TypeOK, RuntimeRecord
    <3>2. jobs[j].pc \in AfterPostTurn
             => jobs'[j].pc \in AfterPostTurn \/ jobs'[j].pc \notin InFlight
      <4>1. CASE \/ InvalidateCancelWatchdog(j) \/ RecoverBegin(j)
                 \/ RecoverUnload(j) \/ RecoverEndReclaim(j) \/ RecoverEnd(j)
        BY <4>1 DEF InvalidateCancelWatchdog, RecoverBegin, RecoverUnload,
           RecoverEndReclaim, RecoverEnd, AfterPostTurn
      <4>2. CASE StartJob(j) \/ ExecuteReturns(j)
        BY <4>2 DEF StartJob, ExecuteReturns, AfterPostTurn
      <4>3. CASE \/ ExecuteThrows(j) \/ CompleteJob(j) \/ SessionReady(j)
                 \/ CatchError(j) \/ NotifyError(j)
        <5>1. \/ \E where \in AfterPostTurn : SetJob(j, where)
              \/ \E b \in BOOLEAN :
                    jobs' = [jobs EXCEPT ![j] = [pc |-> "threw", recover |-> b]]
          BY <4>3 DEF ExecuteThrows, CompleteJob, SessionReady, CatchError,
             NotifyError, AfterPostTurn
        <5>2. QED
          BY <5>1 DEF SetJob, AfterPostTurn, TypeOK, JobRecord
      <4>4. QED
        BY <1>3, <2>4, <4>1, <4>2, <4>3 DEF JobThread
    <3>3. j \in rt'.running_jobs => jobs'[j].pc \in InFlight
      BY DEF RunningInFlight
    <3>4. QED
      BY <1>1, <2>1, <3>1, <3>2, <3>3 DEF SessionReserved, AfterPostTurn
  <2>5. QED
    BY <1>3, <2>2, <2>3, <2>4
<1>4. CASE ~AdmitJob /\ ~\E j \in Job : JobThread(j)
  <2>1. /\ rt'.post_turn_sessions \subseteq rt.post_turn_sessions
        /\ \A j \in Job : \/ jobs'[j].pc = jobs[j].pc
                          \/ jobs'[j].pc \in {"queued", "done"}
    BY <1>4, ReservedExecutor, ReservedOthers DEF Next
  <2>2. rt'.running_jobs \subseteq rt.running_jobs
    BY <1>4, OnlyAdmissionStarts
  <2>3. QED
    BY <1>1, <2>1, <2>2, ReservedKept
<1>5. QED
  BY <1>2, <1>3, <1>4

\* Until its post-turn work is done a session is not served again: the only job of
\* it that runs is the one that left the work behind (beginPostTurn, SessionBusy).
THEOREM SessionStaysReserved == Spec => []SessionReserved
<1>1. Init => SessionReserved
  BY DEF Init, SessionReserved
<1>2. Inv /\ Inv' /\ SessionReserved /\ [Next]_vars => SessionReserved'
  BY SessionReservedStep DEF Inv
<1>3. QED
  BY <1>1, <1>2, Invariance, PTL DEF Spec

=============================================================================
