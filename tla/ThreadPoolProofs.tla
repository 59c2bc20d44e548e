-------------------------- MODULE ThreadPoolProofs --------------------------
(***************************************************************************)
(* Proofs about the pool, for any tasks and any number of workers, when    *)
(* one thread does all the submitting, as the executor does to job_pool_.  *)
(* Then lock_notify_ is set exactly while a submit() whose push was        *)
(* accepted is under way, so nobody reads the flag of another submission.  *)
(***************************************************************************)
EXTENDS ThreadPool, SequenceTheorems, TLAPS

OneSubmitter == \A t, u \in Task : SubmitterOf[t] = SubmitterOf[u]

Accepted(t) == submission[t] \in {"accepted", "notify"}

OneAtATime == \A t, u \in Task : InSubmit(t) /\ InSubmit(u) => t = u

FlagIsOwn == lock_notify <=> \E t \in Task : Accepted(t)

NeverMoved ==
    \A t \in Task :
        /\ submission[t] \notin {"inlineMoved", "threw"}
        /\ submission[t] \in {"refused", "inlineOwn"} => stopped

AcceptedKept == \A t \in Task : Accepted(t) => Kept(t)

RunnersHaveTasks ==
    \A w \in Worker : worker[w] = "running" <=> running[w] # NoTask

\* The inductive invariant.
Inv == /\ TypeOK /\ OneAtATime /\ FlagIsOwn /\ NeverMoved
       /\ AcceptedKept /\ NoTaskDropped /\ RunnersHaveTasks

-----------------------------------------------------------------------------
\* The elements of a queue after a push and after a pop.
LEMMA PushedTasks ==
    ASSUME NEW s \in Seq(Task), NEW t \in Task
    PROVE  /\ Append(s, t) \in Seq(Task)
           /\ ToSet(s) \subseteq ToSet(Append(s, t))
           /\ t \in ToSet(Append(s, t))
<1>1. /\ Append(s, t) \in Seq(Task)
      /\ Len(Append(s, t)) = Len(s) + 1
      /\ \A i \in 1..Len(s) : Append(s, t)[i] = s[i]
      /\ Append(s, t)[Len(s) + 1] = t
  BY AppendProperties
<1>2. DOMAIN s = 1..Len(s) /\ DOMAIN Append(s, t) = 1..(Len(s) + 1)
      /\ Len(s) \in Nat
  BY <1>1, LenProperties
<1>3. QED
  BY <1>1, <1>2 DEF ToSet

LEMMA PoppedTasks ==
    ASSUME NEW s \in Seq(Task), s # <<>>
    PROVE  /\ Head(s) \in Task
           /\ Tail(s) \in Seq(Task)
           /\ ToSet(s) \subseteq ToSet(Tail(s)) \cup {Head(s)}
<1>1. /\ Head(s) \in Task
      /\ Tail(s) \in Seq(Task)
      /\ Len(Tail(s)) = Len(s) - 1
      /\ \A i \in 1..Len(Tail(s)) : Tail(s)[i] = s[i + 1]
  BY HeadTailProperties
<1>2. DOMAIN s = 1..Len(s) /\ DOMAIN Tail(s) = 1..Len(Tail(s))
      /\ Len(s) \in Nat /\ Head(s) = s[1]
  BY <1>1, LenProperties
<1>3. ASSUME NEW i \in 1..Len(s)
      PROVE  s[i] \in ToSet(Tail(s)) \cup {Head(s)}
  <2>1. CASE i = 1
    BY <2>1, <1>2
  <2>2. CASE i # 1
    <3>1. i - 1 \in 1..Len(Tail(s)) /\ s[i] = Tail(s)[i - 1]
      BY <2>2, <1>1, <1>2
    <3>2. QED
      BY <3>1, <1>2 DEF ToSet
  <2>3. QED
    BY <2>1, <2>2
<1>4. QED
  BY <1>1, <1>2, <1>3 DEF ToSet

-----------------------------------------------------------------------------
LEMMA InitInv == Init => Inv
<1> SUFFICES ASSUME Init PROVE Inv
  OBVIOUS
<1>1. TypeOK
  <2>1. PICK first \in Worker :
           worker = [w \in Worker |-> IF w = first THEN "testing" ELSE "absent"]
    BY DEF Init
  <2>2. worker \in [Worker -> WorkerPC]
    BY <2>1 DEF WorkerPC
  <2>3. submission \in [Task -> SubmitPC]
    BY DEF Init, SubmitPC
  <2>4. running \in [Worker -> Task \cup {NoTask}]
    BY DEF Init
  <2>5. tasks \in Seq(Task) /\ ran \in SUBSET Task
    BY EmptySeq DEF Init
  <2>6. QED
    BY <2>2, <2>3, <2>4, <2>5 DEF Init, TypeOK
<1>2. \A t \in Task : submission[t] = "new"
  BY DEF Init
<1>3. RunnersHaveTasks
  <2>1. \A w \in Worker : worker[w] \in {"testing", "absent"} /\ running[w] = NoTask
    BY DEF Init
  <2>2. QED
    BY <2>1 DEF RunnersHaveTasks
<1>4. FlagIsOwn
  BY <1>2 DEF Init, FlagIsOwn, Accepted
<1>5. OneAtATime /\ NeverMoved /\ AcceptedKept /\ NoTaskDropped
  BY <1>2 DEF OneAtATime, NeverMoved, AcceptedKept, NoTaskDropped, Accepted, InSubmit
<1>6. QED
  BY <1>1, <1>3, <1>4, <1>5 DEF Inv

\* Every step keeps the state well typed.
LEMMA TypeStep == TypeOK /\ RunnersHaveTasks /\ [Next]_vars => TypeOK'
<1> SUFFICES ASSUME TypeOK, RunnersHaveTasks, [Next]_vars PROVE TypeOK'
  OBVIOUS
<1> USE DEF TypeOK, SubmitPC, WorkerPC
<1>1. ASSUME NEW t \in Task, Push(t) PROVE TypeOK'
  <2>1. Append(tasks, t) \in Seq(Task)
    BY PushedTasks
  <2>2. QED
    BY <1>1, <2>1 DEF Push, Goes
<1>2. ASSUME NEW t \in Task, ReadFlag(t) PROVE TypeOK'
  BY <1>2 DEF ReadFlag, Goes
<1>3. ASSUME NEW t \in Task, ClearAndNotify(t) PROVE TypeOK'
  BY <1>3 DEF ClearAndNotify, Goes
<1>4. ASSUME NEW t \in Task, RunInline(t) PROVE TypeOK'
  BY <1>4 DEF RunInline, Goes
<1>5. ASSUME NEW w \in Worker, TakeTask(w) PROVE TypeOK'
  <2>1. tasks # <<>> => Head(tasks) \in Task /\ Tail(tasks) \in Seq(Task)
    BY PoppedTasks
  <2>2. QED
    BY <1>5, <2>1 DEF TakeTask
<1>6. ASSUME NEW w \in Worker, EndTask(w) PROVE TypeOK'
  <2>1. running[w] \in Task
    BY <1>6 DEF EndTask, RunnersHaveTasks
  <2>2. QED
    BY <1>6, <2>1 DEF EndTask
<1>7. ASSUME NEW w \in Worker, Grow(w) PROVE TypeOK'
  BY <1>7 DEF Grow
<1>8. ASSUME Shutdown PROVE TypeOK'
  BY <1>8 DEF Shutdown, Awake
<1>9. CASE UNCHANGED vars
  BY <1>9 DEF vars
<1>10. QED
  BY <1>1, <1>2, <1>3, <1>4, <1>5, <1>6, <1>7, <1>8, <1>9 DEF Next, Submit

\* Whatever happens, a task the pool has keeps its place or moves on.
LEMMA KeptStays ==
    ASSUME TypeOK, RunnersHaveTasks, [Next]_vars, NEW t \in Task, Kept(t)
    PROVE  Kept(t)'
<1> USE DEF TypeOK
<1>1. CASE UNCHANGED <<tasks, running>> /\ ran \subseteq ran'
  BY <1>1 DEF Kept
<1>2. ASSUME NEW u \in Task, Push(u) PROVE Kept(t)'
  BY <1>2, PushedTasks DEF Push, Kept
<1>3. ASSUME NEW u \in Task, RunInline(u) PROVE Kept(t)'
  BY <1>3, <1>1 DEF RunInline
<1>4. ASSUME NEW w \in Worker, TakeTask(w) PROVE Kept(t)'
  <2>1. CASE tasks = <<>>
    BY <1>4, <2>1, <1>1 DEF TakeTask
  <2>2. CASE tasks # <<>>
    <3>1. /\ running' = [running EXCEPT ![w] = Head(tasks)]
          /\ tasks' = Tail(tasks) /\ ran' = ran
          /\ running[w] = NoTask
      BY <1>4, <2>2 DEF TakeTask, RunnersHaveTasks
    <3>2. ToSet(tasks) \subseteq ToSet(tasks') \cup {running'[w]}
      BY <2>2, <3>1, PoppedTasks
    <3>3. \A x \in Worker : running[x] = t => running'[x] = t
      BY <3>1, PoolAssumption
    <3>4. QED
      BY <3>1, <3>2, <3>3 DEF Kept, Range
  <2>3. QED
    BY <2>1, <2>2
<1>5. ASSUME NEW w \in Worker, EndTask(w) PROVE Kept(t)'
  <2>1. \A x \in Worker : running[x] = t => running'[x] = t \/ t \in ran'
    BY <1>5 DEF EndTask
  <2>2. QED
    BY <1>5, <2>1 DEF EndTask, Kept, Range
<1>6. QED
  BY <1>1, <1>2, <1>3, <1>4, <1>5
     DEF Next, Submit, ReadFlag, ClearAndNotify, Grow, Shutdown, vars

\* A submission between push and return is the only one: the others have not
\* begun, or have ended.
LEMMA ProtocolStep ==
    ASSUME OneSubmitter, Inv, [Next]_vars
    PROVE  /\ OneAtATime' /\ FlagIsOwn' /\ NeverMoved'
           /\ AcceptedKept' /\ NoTaskDropped'
<1> DEFINE P == /\ OneAtATime' /\ FlagIsOwn' /\ NeverMoved'
                /\ AcceptedKept' /\ NoTaskDropped'
<1> USE DEF Inv, TypeOK
<1>1. CASE UNCHANGED <<submission, lock_notify>> /\ (stopped => stopped')
  <2>1. \A t \in Task : Kept(t) => Kept(t)'
    BY KeptStays
  <2>2. QED
    BY <1>1, <2>1
       DEF OneAtATime, FlagIsOwn, NeverMoved, AcceptedKept, NoTaskDropped,
           Accepted, InSubmit
<1>2. ASSUME NEW t \in Task, Push(t) PROVE P
  <2>1. \A u \in Task : u # t => submission'[u] = submission[u] /\ ~InSubmit(u)
    BY <1>2 DEF Push, Calls, Goes, OneSubmitter
  <2>2. \A u \in Task : Kept(u) => Kept(u)'
    BY KeptStays
  <2>3. CASE stopped
    <3>1. submission'[t] = "refused" /\ submission[t] = "new" /\ stopped'
          /\ lock_notify' = lock_notify
      BY <1>2, <2>3 DEF Push, Calls, Goes
    <3>2. QED
      BY <2>1, <2>2, <3>1
         DEF OneAtATime, FlagIsOwn, NeverMoved, AcceptedKept, NoTaskDropped,
             Accepted, InSubmit
  <2>4. CASE ~stopped
    <3>1. submission'[t] = "accepted" /\ lock_notify' = TRUE /\ stopped' = stopped
      BY <1>2, <2>4 DEF Push, Goes
    <3>2. Kept(t)'
      BY <1>2, <2>4, PushedTasks DEF Push, Kept
    <3>3. QED
      BY <2>1, <2>2, <3>1, <3>2
         DEF OneAtATime, FlagIsOwn, NeverMoved, AcceptedKept, NoTaskDropped,
             Accepted, InSubmit
  <2>5. QED
    BY <2>3, <2>4
<1>3. ASSUME NEW t \in Task, ReadFlag(t) \/ ClearAndNotify(t) \/ RunInline(t)
      PROVE P
  <2>1. InSubmit(t)
    BY <1>3 DEF InSubmit, ReadFlag, ClearAndNotify, RunInline
  <2>2. \A u \in Task : u # t => submission'[u] = submission[u] /\ ~InSubmit(u)
    BY <1>3, <2>1 DEF OneAtATime, ReadFlag, ClearAndNotify, RunInline, Goes
  <2>3. \A u \in Task : Kept(u) => Kept(u)'
    BY KeptStays
  <2>4. lock_notify <=> Accepted(t)
    BY <2>2 DEF FlagIsOwn, Accepted, InSubmit
  <2>5. CASE ReadFlag(t)
    <3>1. /\ Accepted(t)' <=> Accepted(t)
          /\ submission'[t] \in {"notify", "inlineOwn"}
          /\ submission'[t] = "inlineOwn" => submission[t] = "refused"
          /\ lock_notify' = lock_notify /\ stopped' = stopped
      BY <2>4, <2>5 DEF ReadFlag, Goes, Accepted
    <3>2. QED
      BY <2>2, <2>3, <2>4, <3>1
         DEF OneAtATime, FlagIsOwn, NeverMoved, AcceptedKept, NoTaskDropped,
             Accepted, InSubmit
  <2>6. CASE ClearAndNotify(t)
    <3>1. /\ submission[t] = "notify" /\ submission'[t] = "returned"
          /\ lock_notify' = FALSE /\ stopped' = stopped
      BY <2>6 DEF ClearAndNotify, Goes
    <3>2. QED
      BY <2>2, <2>3, <3>1
         DEF OneAtATime, FlagIsOwn, NeverMoved, AcceptedKept, NoTaskDropped,
             Accepted, InSubmit
  <2>7. CASE RunInline(t)
    <3>1. /\ submission[t] = "inlineOwn" /\ submission'[t] = "returned"
          /\ ran' = ran \cup {t}
          /\ lock_notify' = lock_notify /\ stopped' = stopped
      BY <2>7 DEF RunInline, Goes, NeverMoved
    <3>2. Kept(t)'
      BY <3>1 DEF Kept
    <3>3. QED
      BY <2>2, <2>3, <2>4, <3>1, <3>2
         DEF OneAtATime, FlagIsOwn, NeverMoved, AcceptedKept, NoTaskDropped,
             Accepted, InSubmit
  <2>8. QED
    BY <1>3, <2>5, <2>6, <2>7
<1>4. QED
  BY <1>1, <1>2, <1>3
     DEF Next, Submit, TakeTask, EndTask, Grow, Shutdown, vars

LEMMA RunnersStep ==
    TypeOK /\ RunnersHaveTasks /\ [Next]_vars => RunnersHaveTasks'
<1> SUFFICES ASSUME TypeOK, RunnersHaveTasks, [Next]_vars PROVE RunnersHaveTasks'
  OBVIOUS
<1> USE DEF TypeOK, RunnersHaveTasks
<1>1. ASSUME NEW w \in Worker, TakeTask(w) PROVE RunnersHaveTasks'
  <2>1. tasks # <<>> => Head(tasks) \in Task
    BY PoppedTasks
  <2>2. QED
    BY <1>1, <2>1, PoolAssumption DEF TakeTask
<1>2. ASSUME NEW w \in Worker, EndTask(w) PROVE RunnersHaveTasks'
  BY <1>2 DEF EndTask
<1>3. ASSUME NEW w \in Worker, Grow(w) PROVE RunnersHaveTasks'
  BY <1>3 DEF Grow
<1>4. ASSUME NEW t \in Task, ClearAndNotify(t) PROVE RunnersHaveTasks'
  BY <1>4 DEF ClearAndNotify
<1>5. CASE Shutdown
  BY <1>5 DEF Shutdown, Awake
<1>6. CASE UNCHANGED <<worker, running>>
  BY <1>6
<1>7. QED
  BY <1>1, <1>2, <1>3, <1>4, <1>5, <1>6
     DEF Next, Submit, Push, ReadFlag, RunInline, vars

-----------------------------------------------------------------------------
\* The pool's state is always well typed, and its workers' tasks match their
\* states, however many threads submit.
THEOREM TypeCorrect == Spec => [](TypeOK /\ RunnersHaveTasks)
<1>1. Init => TypeOK /\ RunnersHaveTasks
  BY InitInv DEF Inv
<1>2. TypeOK /\ RunnersHaveTasks /\ [Next]_vars => (TypeOK /\ RunnersHaveTasks)'
  BY TypeStep, RunnersStep
<1>3. QED
  BY <1>1, <1>2, PTL DEF Spec

\* With one submitter the inductive invariant holds.
THEOREM Invariance == ASSUME OneSubmitter PROVE Spec => []Inv
<1>1. Inv /\ [Next]_vars => Inv'
  BY ProtocolStep, TypeStep, RunnersStep DEF Inv
<1>2. QED
  BY InitInv, <1>1, PTL DEF Spec

\* submit() never loses a task, also while the pool is being shut down, as long as
\* only one thread submits.
THEOREM NothingDropped == ASSUME OneSubmitter PROVE Spec => []NoTaskDropped
<1>1. Inv => NoTaskDropped
  BY DEF Inv
<1>2. QED
  BY Invariance, <1>1, PTL

\* Nor does a pool that still works make its one submitter run a task inline.
THEOREM InlineCorrect == ASSUME OneSubmitter PROVE Spec => []InlineOnlyAfterShutdown
<1>1. Inv => InlineOnlyAfterShutdown
  BY DEF Inv, NeverMoved, InlineOnlyAfterShutdown
<1>2. QED
  BY Invariance, <1>1, PTL

=============================================================================
