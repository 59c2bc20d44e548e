----------------------------- MODULE ThreadPool -----------------------------
(***************************************************************************)
(* The grow-only thread pool of qai-forge/internal/qai_forge/utils/        *)
(* ThreadPool.h: job_pool_ of a ModelRuntime, which only the executor      *)
(* submits to, and reset_pool_ of an InferenceWorkerManager, which every   *)
(* job thread of the model submits to when its session is reset.           *)
(*                                                                         *)
(* submit() pushes under mutex_ and then reads and clears lock_notify_, a  *)
(* plain bool shared by all submitters, without it.  Those are accesses of *)
(* their own here, in any order the threads may run.                       *)
(***************************************************************************)
EXTENDS Naturals, SequencesExt

CONSTANTS
    Task,           \* the submissions
    SubmitterOf,    \* [Task -> thread]: a thread submits one task at a time
    Worker,         \* the worker threads the pool may grow to
    NoTask

ASSUME PoolAssumption == DOMAIN SubmitterOf = Task /\ NoTask \notin Task

VARIABLES
    tasks,          \* tasks_
    stopped,        \* stopped_
    lock_notify,    \* lock_notify_
    submission,     \* [Task -> where its submit() is]
    worker,         \* [Worker -> where it is]
    running,        \* [Worker -> the task it runs, or NoTask]
    ran             \* tasks that have been run to their end

vars == <<tasks, stopped, lock_notify, submission, worker, running, ran>>

\* "accepted" and "refused" submissions have left the mutex; "inline" ones found
\* the flag clear, and "threw" is std::bad_function_call: what they called was
\* moved into the queue before.
SubmitPC == {"new", "accepted", "refused", "notify", "inlineOwn", "inlineMoved",
             "returned", "threw"}

WorkerPC == {"absent", "testing", "sleeping", "running", "exited"}

Init ==
    /\ tasks = <<>>
    /\ stopped = FALSE
    /\ lock_notify = FALSE
    /\ submission = [t \in Task |-> "new"]
    /\ \E first \in Worker :
          worker = [w \in Worker |-> IF w = first THEN "testing" ELSE "absent"]
    /\ running = [w \in Worker |-> NoTask]
    /\ ran = {}

Goes(t, pc) == submission' = [submission EXCEPT ![t] = pc]

Awake(pc) == IF pc = "sleeping" THEN "testing" ELSE pc

-----------------------------------------------------------------------------
(* submit *)

InSubmit(t) == submission[t] \notin {"new", "returned", "threw"}

\* The thread of t is free to call submit.
Calls(t) ==
    /\ submission[t] = "new"
    /\ \A u \in Task : SubmitterOf[u] = SubmitterOf[t] => ~InSubmit(u)

\* Faulty: the flag is only set for a queue that was empty.
PushTellsFirst(t) ==
    /\ Calls(t)
    /\ IF stopped
       THEN Goes(t, "refused") /\ UNCHANGED <<tasks, lock_notify>>
       ELSE /\ Goes(t, "accepted")
            /\ tasks' = Append(tasks, t)
            /\ lock_notify' = (tasks = <<>>)
    /\ UNCHANGED <<stopped, worker, running, ran>>

\* The critical section.
Push(t) ==
    /\ Calls(t)
    /\ IF stopped
       THEN Goes(t, "refused") /\ UNCHANGED <<tasks, lock_notify>>
       ELSE /\ Goes(t, "accepted")
            /\ tasks' = Append(tasks, t)
            /\ lock_notify' = TRUE
    /\ UNCHANGED <<stopped, worker, running, ran>>

\* if (lock_notify_)
ReadFlag(t) ==
    /\ submission[t] \in {"accepted", "refused"}
    /\ Goes(t, IF lock_notify THEN "notify"
               ELSE IF submission[t] = "accepted" THEN "inlineMoved"
                    ELSE "inlineOwn")
    /\ UNCHANGED <<tasks, stopped, lock_notify, worker, running, ran>>

\* Faulty: the worker is not woken.
ClearFlag(t) ==
    /\ submission[t] = "notify"
    /\ lock_notify' = FALSE
    /\ Goes(t, "returned")
    /\ UNCHANGED <<tasks, stopped, worker, running, ran>>

\* lock_notify_ = false and cv_.notify_one(), which wakes one of the sleepers.
ClearAndNotify(t) ==
    /\ submission[t] = "notify"
    /\ lock_notify' = FALSE
    /\ \/ \E w \in Worker : /\ worker[w] = "sleeping"
                            /\ worker' = [worker EXCEPT ![w] = "testing"]
       \/ /\ \A w \in Worker : worker[w] # "sleeping"
          /\ UNCHANGED worker
    /\ Goes(t, "returned")
    /\ UNCHANGED <<tasks, stopped, running, ran>>

\* Faulty: the pool is stopped, so the task is forgotten.
Forget(t) ==
    /\ submission[t] \in {"inlineOwn", "inlineMoved"}
    /\ Goes(t, "returned")
    /\ UNCHANGED <<tasks, stopped, lock_notify, worker, running, ran>>

\* task()
RunInline(t) ==
    /\ \/ /\ submission[t] = "inlineOwn"
          /\ ran' = ran \cup {t}
          /\ Goes(t, "returned")
       \/ /\ submission[t] = "inlineMoved"
          /\ Goes(t, "threw")
          /\ UNCHANGED ran
    /\ UNCHANGED <<tasks, stopped, lock_notify, worker, running>>

-----------------------------------------------------------------------------
(* workerLoop *)

\* Faulty: a worker leaves as soon as the pool is stopped.
LeaveWhenStopped(w) ==
    /\ worker[w] = "testing"
    /\ IF stopped
       THEN /\ worker' = [worker EXCEPT ![w] = "exited"]
            /\ UNCHANGED <<tasks, running>>
       ELSE IF tasks # <<>>
       THEN /\ running' = [running EXCEPT ![w] = Head(tasks)]
            /\ tasks' = Tail(tasks)
            /\ worker' = [worker EXCEPT ![w] = "running"]
       ELSE /\ worker' = [worker EXCEPT ![w] = "sleeping"]
            /\ UNCHANGED <<tasks, running>>
    /\ UNCHANGED <<stopped, lock_notify, submission, ran>>

\* One round under mutex_: take a task, leave, or go to sleep.
TakeTask(w) ==
    /\ worker[w] = "testing"
    /\ IF tasks # <<>>
       THEN /\ running' = [running EXCEPT ![w] = Head(tasks)]
            /\ tasks' = Tail(tasks)
            /\ worker' = [worker EXCEPT ![w] = "running"]
       ELSE /\ worker' = [worker EXCEPT ![w] =
                             IF stopped THEN "exited" ELSE "sleeping"]
            /\ UNCHANGED <<tasks, running>>
    /\ UNCHANGED <<stopped, lock_notify, submission, ran>>

\* The task ends; what it throws is swallowed.
EndTask(w) ==
    /\ worker[w] = "running"
    /\ ran' = ran \cup {running[w]}
    /\ running' = [running EXCEPT ![w] = NoTask]
    /\ worker' = [worker EXCEPT ![w] = "testing"]
    /\ UNCHANGED <<tasks, stopped, lock_notify, submission>>

-----------------------------------------------------------------------------
\* resize adds a thread.
Grow(w) ==
    /\ ~stopped
    /\ worker[w] = "absent"
    /\ worker' = [worker EXCEPT ![w] = "testing"]
    /\ UNCHANGED <<tasks, stopped, lock_notify, submission, running, ran>>

\* shutdown: stopped_ and notify_all; the joins wait for the workers to exit.
Shutdown ==
    /\ ~stopped
    /\ stopped' = TRUE
    /\ worker' = [w \in Worker |-> Awake(worker[w])]
    /\ UNCHANGED <<tasks, lock_notify, submission, running, ran>>

Submit(t) == Push(t) \/ ReadFlag(t) \/ ClearAndNotify(t) \/ RunInline(t)

Next ==
    \/ Shutdown
    \/ \E t \in Task : Submit(t)
    \/ \E w \in Worker : TakeTask(w) \/ EndTask(w) \/ Grow(w)

Spec == Init /\ [][Next]_vars

\* Tasks end, a worker that is awake goes on, and so does a submit() begun.
\* Nobody has to submit, to grow the pool or to shut it down.
Fairness ==
    /\ \A w \in Worker : WF_vars(TakeTask(w)) /\ WF_vars(EndTask(w))
    /\ \A t \in Task : WF_vars(ReadFlag(t) \/ ClearAndNotify(t) \/ RunInline(t))

FairSpec == Spec /\ Fairness

-----------------------------------------------------------------------------
TypeOK ==
    /\ tasks \in Seq(Task)
    /\ stopped \in BOOLEAN
    /\ lock_notify \in BOOLEAN
    /\ submission \in [Task -> SubmitPC]
    /\ worker \in [Worker -> WorkerPC]
    /\ running \in [Worker -> Task \cup {NoTask}]
    /\ ran \in SUBSET Task

\* The task waits, runs or has run.
Kept(t) == t \in ToSet(tasks) \cup Range(running) \cup ran

\* A submit() that has returned has not lost its task: it waits, runs or has run,
\* also if the pool was shut down meanwhile ("run inline ... instead of being
\* silently dropped").
NoTaskDropped ==
    \A t \in Task : submission[t] = "returned" => Kept(t)

\* Only a pool that was shut down makes the caller run the task itself.
InlineOnlyAfterShutdown ==
    \A t \in Task : submission[t] \in {"inlineOwn", "inlineMoved"} => stopped

\* Every task submitted is run, by a worker that somebody woke for it.
EveryTaskRuns == \A t \in Task : submission[t] # "new" ~> t \in ran

\* shutdown() joins every worker, and not before the queue has been drained.
ShutdownDrains ==
    stopped ~> /\ tasks = <<>>
               /\ \A w \in Worker : worker[w] \in {"absent", "exited"}

=============================================================================
