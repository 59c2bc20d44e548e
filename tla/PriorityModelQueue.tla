------------------------- MODULE PriorityModelQueue -------------------------
(***************************************************************************)
(* The queue of one model: qai-forge/src/scheduler/PriorityModelQueue.cpp. *)
(* Three FIFO lanes under one mutex, so every operation is atomic: here a  *)
(* queue is a value, lanes \in [Lane -> Seq(Job)], and each operation an   *)
(* operator on it.  The jobs' cancelled flags are the job's own, and are   *)
(* passed in as the set of the jobs whose flag is set.                     *)
(***************************************************************************)
EXTENDS Naturals, SequencesExt

CONSTANTS
    Job,        \* job ids
    LaneOf,     \* [Job -> Lane]: the priority a job is submitted with
    NoJob       \* the null GenerativeJobPtr

\* From the highest priority to the lowest.
LaneOrder == <<"control", "tool_continuation", "any_request">>

Lane == Range(LaneOrder)

ASSUME QueueAssumption == LaneOf \in [Job -> Lane] /\ NoJob \notin Job

EmptyLanes == [l \in Lane |-> <<>>]

Queued(lanes) == UNION {ToSet(lanes[l]) : l \in Lane}

IsEmpty(lanes) == Queued(lanes) = {}

Push(lanes, j) == [lanes EXCEPT ![LaneOf[j]] = Append(@, j)]

-----------------------------------------------------------------------------
(* Positions of a lane that popIf would return, and the lane popIf takes.   *)
Eligible(lane, cancelled, busy) ==
    {i \in 1..Len(lane) : lane[i] \notin cancelled \cup busy}

PopRank(lanes, cancelled, busy) ==
    {p \in 1..Len(LaneOrder) : Eligible(lanes[LaneOrder[p]], cancelled, busy) # {}}

\* Faulty: from the lowest lane that has one.
PopIfLowest(lanes, cancelled, busy) ==
    LET rank == PopRank(lanes, cancelled, busy)
    IN  IF rank = {} THEN NoJob
        ELSE LET lane == lanes[LaneOrder[Max(rank)]]
             IN  lane[Min(Eligible(lane, cancelled, busy))]

\* The predicate of popIf is "not in busy".
PopIfJob(lanes, cancelled, busy) ==
    IF PopRank(lanes, cancelled, busy) = {} THEN NoJob
    ELSE LET lane == lanes[LaneOrder[Min(PopRank(lanes, cancelled, busy))]]
         IN  lane[Min(Eligible(lane, cancelled, busy))]

\* What is left of a lane when these positions are erased from it, in order.  (Not
\* SelectSeq, because a proof has to look inside: the n-th job left is the one at
\* the position with n positions kept up to it.)
Erase(lane, gone) ==
    LET kept    == DOMAIN lane \ gone
        Rank(i) == Cardinality({k \in kept : k <= i})
    IN  [n \in 1..Cardinality(kept) |-> lane[CHOOSE i \in kept : Rank(i) = n]]

\* The positions popIf looks at: whole lanes until it finds a job, and the lane of
\* that job up to it.
Scanned(lanes, cancelled, busy, p) ==
    LET lane == lanes[LaneOrder[p]]
        rank == PopRank(lanes, cancelled, busy)
    IN  {i \in DOMAIN lane :
            rank = {} \/ p < Min(rank)
            \/ (p = Min(rank) /\ i <= Min(Eligible(lane, cancelled, busy)))}

\* popIf erases the job it returns and the cancelled jobs it meets on the way.
PopIfLanes(lanes, cancelled, busy) ==
    [l \in Lane |->
        LET p == CHOOSE p \in DOMAIN LaneOrder : LaneOrder[p] = l
        IN  Erase(lanes[l],
                  {i \in Scanned(lanes, cancelled, busy, p) :
                      lanes[l][i] \in cancelled
                                      \cup {PopIfJob(lanes, cancelled, busy)}})]

\* Erases these jobs wherever they are: cancel(job_id) and expireOlderThan(now).
RemoveJobs(lanes, gone) ==
    [l \in Lane |->
        Erase(lanes[l], {i \in DOMAIN lanes[l] : lanes[l][i] \in gone})]

-----------------------------------------------------------------------------
\* k is before j in the order the queue is scanned in: lane by lane, oldest first.
Ahead(lanes, k, j) ==
    \E p, q \in DOMAIN LaneOrder :
        \E m \in DOMAIN lanes[LaneOrder[p]], n \in DOMAIN lanes[LaneOrder[q]] :
            /\ lanes[LaneOrder[p]][m] = k
            /\ lanes[LaneOrder[q]][n] = j
            /\ p < q \/ (p = q /\ m < n)

=============================================================================
