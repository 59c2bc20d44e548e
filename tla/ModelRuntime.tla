---------------------------- MODULE ModelRuntime ----------------------------
(***************************************************************************)
(* One model's runtime: qai-forge/src/scheduler/ModelRuntime.cpp with its  *)
(* PostTurnWorker.  The threads are the executor, one pool thread per      *)
(* admitted job, the post-turn worker, one cancel watchdog per cancelled   *)
(* job, the threads that submit and cancel, and the pool that activates,   *)
(* drains and stops the runtime.  An action is one critical section of     *)
(* mutex_ with the calls that follow it up to the next point where another *)
(* thread can see a difference.                                            *)
(*                                                                         *)
(* The fields guarded by mutex_ are the record rt.  The queue has a mutex  *)
(* of its own, and so have the post-turn worker and the watchdogs.         *)
(***************************************************************************)
EXTENDS PriorityModelQueue, FiniteSets

CONSTANTS
    Session,
    SessionOf,          \* [Job -> Session]
    MaxConcurrent,      \* capabilities().max_concurrent of the loaded backend
    PostTurnJobs,       \* jobs whose orchestrator returns post-turn work
    CancelledJobs,      \* jobs a client may cancel
    StopModes,          \* the stop(force) calls the environment may make
    WorkerMayDie,       \* whether the worker process may crash
    LoadMayFail,        \* whether loadModel and placement may fail
    DrainsAllowed,      \* whether the pool may ask for a drain
    NoSession

ASSUME RuntimeAssumption ==
    /\ SessionOf \in [Job -> Session]
    /\ MaxConcurrent \in Nat \ {0}
    /\ PostTurnJobs \subseteq Job /\ CancelledJobs \subseteq Job
    /\ StopModes \subseteq BOOLEAN
    /\ {WorkerMayDie, LoadMayFail, DrainsAllowed} \subseteq BOOLEAN
    /\ NoSession \notin Session

VARIABLES
    rt,             \* what mutex_ guards
    lanes,          \* queue_
    reservation,    \* where this runtime's LoadReservation is
    worker,         \* the backend's worker process
    executor,       \* executorLoop
    jobs,           \* where each job is, and the thread that runs it
    unnotified,     \* submitters between queue_.push and cv_.notify_one
    cancelled,      \* jobs whose cancelled flag is set
    answered,       \* [Job -> terminal callbacks delivered]
    watchdog,       \* [Job -> the cancel watchdog thread]
    post_turn,      \* PostTurnWorker
    stopper         \* the thread in stop()

vars == <<rt, lanes, reservation, worker, executor, jobs, unnotified, cancelled,
          answered, watchdog, post_turn, stopper>>

State == {"NotResident", "Loading", "Idle", "Running", "Draining", "Evicting",
          "Failed", "Stopped"}

ResidentState == {"Loading", "Idle", "Running", "Draining", "Evicting"}

MaxLoadAttempts == 2

Outcome == {"complete", "error", "cancelled"}

\* Job threads between admission and the critical section that ends the job ...
InFlight == {"admitted", "executing", "responded", "completing", "resetting",
             "threw", "erroring", "ending", "endingEarly"}
\* ... and after it.
Finishing == {"finished", "recover", "reclaiming", "unloaded", "released"}

\* Where a job uses the worker process.
UsesWorker == {"executing", "responded", "completing", "resetting"}

AtWait == [pc |-> "test", purpose |-> "none", attempt |-> 0]

\* The executor keeps mutex_ while it decides to sleep and while it admits jobs.
MutexFree == executor.pc \notin {"blocking", "admitting"}

Running(j) == j \in rt.running_jobs

SetJob(j, where) == jobs' = [jobs EXCEPT ![j].pc = where]

\* cv_.notify_one(): the executor is the only waiter.  A wakeup nobody asked for
\* only evaluates the predicate once more; nothing may rely on one, and there are
\* none here.
Woken(x) == IF x.pc = "sleeping" THEN [x EXCEPT !.pc = "test"] ELSE x

Notify == executor' = Woken(executor)

Answer(S, outcome) ==
    answered' = [j \in Job |-> IF j \in S THEN answered[j] \cup {outcome}
                               ELSE answered[j]]

\* Reclaims of this runtime that hold up new reservations, and reservations of
\* this runtime that hold up its reclaims (ModelLoadCoordinator).
OwnReclaims ==
    (executor.pc \in {"reclaiming", "unloaded"})
    \/ \E j \in Job : jobs[j].pc \in {"reclaiming", "unloaded"}

Healthy == rt.backend_healthy /\ worker = "up"

-----------------------------------------------------------------------------
Init ==
    /\ rt = [state |-> "NotResident", activation_requested |-> FALSE,
             drain_mode |-> FALSE, backend_healthy |-> FALSE,
             max_concurrent |-> 1, running_jobs |-> {}, active_sessions |-> {},
             post_turn_sessions |-> {}, recovery_in_progress |-> FALSE,
             stop_requested |-> FALSE, force_stop |-> FALSE]
    /\ lanes = EmptyLanes
    /\ reservation = "none"
    /\ worker = "none"
    /\ executor = AtWait
    /\ jobs = [j \in Job |-> [pc |-> "new", recover |-> FALSE]]
    /\ unnotified = {}
    /\ cancelled = {}
    /\ answered = [j \in Job |-> {}]
    /\ watchdog = [j \in Job |-> "none"]
    /\ post_turn = [queue |-> <<>>, work |-> NoSession, stopping |-> FALSE]
    /\ stopper = "none"

-----------------------------------------------------------------------------
(* Submitting and cancelling. *)

\* enqueue: queue_.push and cv_.notify_one, neither under mutex_.
Enqueue(j) ==
    /\ jobs[j].pc = "new"
    /\ stopper = "none"
    /\ lanes' = Push(lanes, j)
    /\ SetJob(j, "queued")
    /\ unnotified' = unnotified \cup {j}
    /\ UNCHANGED <<rt, reservation, worker, executor, cancelled, answered,
                   watchdog, post_turn, stopper>>

EnqueueNotify(j) ==
    /\ j \in unnotified
    /\ unnotified' = unnotified \ {j}
    /\ Notify
    /\ UNCHANGED <<rt, lanes, reservation, worker, jobs, cancelled, answered,
                   watchdog, post_turn, stopper>>

\* Faulty: the flag is set and the job left for popIf to find.
FlagQueued(j) ==
    /\ j \in CancelledJobs \ cancelled
    /\ j \in Queued(lanes)
    /\ cancelled' = cancelled \cup {j}
    /\ Answer({j}, "cancelled")
    /\ UNCHANGED <<rt, lanes, reservation, worker, executor, jobs, unnotified,
                   watchdog, post_turn, stopper>>

\* cancel of a job still in the queue.
CancelQueued(j) ==
    /\ j \in CancelledJobs
    /\ j \in Queued(lanes)
    /\ lanes' = RemoveJobs(lanes, {j})
    /\ cancelled' = cancelled \cup {j}
    /\ Answer({j}, "cancelled")
    /\ SetJob(j, "done")
    /\ UNCHANGED <<rt, reservation, worker, executor, unnotified, watchdog,
                   post_turn, stopper>>

\* cancel of a running job, then on_cancelled once; the watchdog comes next.
CancelRunning(j) ==
    /\ MutexFree
    /\ j \in CancelledJobs \ cancelled
    /\ Running(j)
    /\ cancelled' = cancelled \cup {j}
    /\ Answer({j}, "cancelled")
    /\ watchdog' = [watchdog EXCEPT ![j] = "arming"]
    /\ UNCHANGED <<rt, lanes, reservation, worker, executor, jobs, unnotified,
                   post_turn, stopper>>

\* armCancelWatchdog, refused once stopCancelWatchdog has run.
ArmCancelWatchdog(j) ==
    /\ watchdog[j] = "arming"
    /\ watchdog' =
         [watchdog EXCEPT ![j] = IF stopper = "none" THEN "armed" ELSE "none"]
    /\ UNCHANGED <<rt, lanes, reservation, worker, executor, jobs, unnotified,
                   cancelled, answered, post_turn, stopper>>

\* expireStaleQueuedJobs: any of the queued jobs may be past its deadline.  When
\* all are, this is also the pool rejecting the model, failQueued from outside.
ExpireStaleQueuedJobs ==
    \E expired \in (SUBSET Queued(lanes)) \ {{}} :
        /\ stopper = "none"
        /\ lanes' = RemoveJobs(lanes, expired)
        /\ Answer(expired, "error")
        /\ jobs' = [j \in Job |-> IF j \in expired
                                  THEN [jobs[j] EXCEPT !.pc = "done"] ELSE jobs[j]]
        /\ UNCHANGED <<rt, reservation, worker, executor, unnotified, cancelled,
                       watchdog, post_turn, stopper>>

-----------------------------------------------------------------------------
(* The pool: a reservation is obtained under the pool's lock and handed over *)
(* later, so the runtime may have moved on when activate runs.               *)
Grant ==
    /\ reservation = "none"
    /\ stopper = "none"
    /\ ~OwnReclaims
    /\ rt.state \in {"NotResident", "Failed"}
    /\ ~IsEmpty(lanes)
    /\ reservation' = "pool"
    /\ UNCHANGED <<rt, lanes, worker, executor, jobs, unnotified, cancelled,
                   answered, watchdog, post_turn, stopper>>

Undrained(r) ==
    [r EXCEPT !.drain_mode = FALSE,
              !.state = IF @ # "Draining" THEN @
                        ELSE IF r.running_jobs = {} /\ r.post_turn_sessions = {}
                             THEN "Idle" ELSE "Running"]

\* Faulty: the drain asked for before stays pending.
ActivatedToDrain(r) ==
    [r EXCEPT !.activation_requested = TRUE, !.backend_healthy = FALSE,
              !.state = "Loading"]

Activated(r) ==
    [r EXCEPT !.activation_requested = TRUE, !.drain_mode = FALSE,
              !.backend_healthy = FALSE, !.state = "Loading"]

\* activate(reservation).
Activate ==
    /\ MutexFree
    /\ reservation = "pool"
    /\ \/ /\ ~rt.stop_requested
          /\ rt.state \in {"NotResident", "Failed"}
          /\ rt' = Activated(rt)
          /\ reservation' = "pending"
          /\ Notify
       \/ /\ ~rt.stop_requested
          /\ rt.state \in {"Loading", "Idle", "Running", "Draining"}
          /\ rt' = Undrained(rt)
          /\ reservation' = "none"
          /\ IF rt.state = "Draining" THEN Notify ELSE UNCHANGED executor
       \/ /\ rt.stop_requested \/ rt.state \in {"Evicting", "Stopped"}
          /\ reservation' = "none"
          /\ UNCHANGED <<rt, executor>>
    /\ UNCHANGED <<lanes, worker, jobs, unnotified, cancelled, answered,
                   watchdog, post_turn, stopper>>

\* activate() on a draining runtime, for a tool lease.
ActivateResident ==
    /\ MutexFree
    /\ ~rt.stop_requested
    /\ rt.state \in {"Loading", "Idle", "Running", "Draining"}
    /\ rt.drain_mode \/ rt.state = "Draining"
    /\ rt' = Undrained(rt)
    /\ IF rt.state = "Draining" THEN Notify ELSE UNCHANGED executor
    /\ UNCHANGED <<lanes, reservation, worker, jobs, unnotified, cancelled,
                   answered, watchdog, post_turn, stopper>>

\* Faulty: a load may be called off when its reservation is handed over.
DrainIgnoredWhenStopped == rt.state = "Stopped"

DrainIgnored == rt.state \in {"Loading", "Stopped"}

RequestDrain ==
    /\ DrainsAllowed
    /\ MutexFree
    /\ stopper = "none"
    /\ ~DrainIgnored
    /\ IF rt.state \in {"NotResident", "Failed"}
       THEN /\ rt' = [rt EXCEPT !.activation_requested = FALSE]
            /\ UNCHANGED executor
       ELSE /\ rt' = [rt EXCEPT !.activation_requested = FALSE,
                                !.drain_mode = TRUE,
                                !.state = IF @ = "Running" THEN "Draining" ELSE @]
            /\ Notify
    /\ UNCHANGED <<lanes, reservation, worker, jobs, unnotified, cancelled,
                   answered, watchdog, post_turn, stopper>>

\* stop(force): first stopCancelWatchdog joins the watchdog threads.  The pool
\* has joined its event thread before, so no reservation is on its way.
StopCancelWatchdog(force) ==
    /\ force \in StopModes
    /\ stopper = "none"
    /\ reservation # "pool"
    /\ stopper' = IF force THEN "joinForce" ELSE "join"
    /\ watchdog' = [j \in Job |-> IF watchdog[j] = "armed" THEN "none"
                                  ELSE watchdog[j]]
    /\ UNCHANGED <<rt, lanes, reservation, worker, executor, jobs, unnotified,
                   cancelled, answered, post_turn>>

\* Faulty: the pending reservation stays where it is.
PendingKept == reservation

PendingReleased == IF reservation = "pending" THEN "none" ELSE reservation

Stop ==
    /\ MutexFree
    /\ stopper \in {"join", "joinForce"}
    /\ \A j \in Job : watchdog[j] \in {"none", "arming"}
    /\ LET force == stopper = "joinForce"
       IN  /\ rt' = [rt EXCEPT !.stop_requested = TRUE, !.force_stop = force,
                               !.activation_requested = FALSE,
                               !.drain_mode = FALSE]
           /\ cancelled' = IF force THEN cancelled \cup rt.running_jobs
                           ELSE cancelled
           /\ worker' = IF force /\ worker = "up"
                           /\ (rt.running_jobs # {} \/ rt.post_turn_sessions # {})
                        THEN "dead" ELSE worker
    /\ reservation' = PendingReleased
    /\ stopper' = "stopping"
    /\ Notify
    /\ UNCHANGED <<lanes, jobs, unnotified, answered, watchdog, post_turn>>

-----------------------------------------------------------------------------
(* executorLoop: waiting and deciding. *)

Capacity(r) ==
    r.max_concurrent - Cardinality(r.running_jobs) - Cardinality(r.post_turn_sessions)

CanDrain ==
    /\ rt.drain_mode
    /\ rt.running_jobs = {}
    /\ rt.post_turn_sessions = {}
    /\ rt.state \in {"Idle", "Draining"}

CanDispatch == rt.state \in {"Idle", "Running"} /\ Capacity(rt) > 0

WaitPredicate ==
    \/ rt.stop_requested
    \/ rt.activation_requested
    \/ CanDrain
    \/ CanDispatch /\ ~IsEmpty(lanes)

MustLoad == rt.activation_requested /\ rt.state = "Loading"

MustReload == rt.state = "Idle" /\ ~IsEmpty(lanes) /\ ~Healthy

Go(where) == executor' = [executor EXCEPT !.pc = where]

\* Back to the top of the loop.
Loop == executor' = AtWait

\* The predicate is false; mutex_ is given up only by going to sleep, and the
\* notify of an enqueue that comes in between finds nobody waiting.
ExecutorBlocks ==
    /\ executor.pc = "test"
    /\ ~WaitPredicate
    /\ Go("blocking")
    /\ UNCHANGED <<rt, lanes, reservation, worker, jobs, unnotified, cancelled,
                   answered, watchdog, post_turn, stopper>>

ExecutorSleeps ==
    /\ executor.pc = "blocking"
    /\ Go("sleeping")
    /\ UNCHANGED <<rt, lanes, reservation, worker, jobs, unnotified, cancelled,
                   answered, watchdog, post_turn, stopper>>

Decides == executor.pc = "test" /\ WaitPredicate

TakeStop ==
    /\ Decides
    /\ rt.stop_requested
    /\ Go("exitWait")
    /\ UNCHANGED <<rt, lanes, reservation, worker, jobs, unnotified, cancelled,
                   answered, watchdog, post_turn, stopper>>

TakeActivation ==
    /\ Decides
    /\ ~rt.stop_requested
    /\ MustLoad
    /\ rt' = [rt EXCEPT !.activation_requested = FALSE]
    /\ reservation' = IF reservation = "pending" THEN "executor" ELSE reservation
    /\ executor' = [executor EXCEPT !.pc = "load", !.attempt = 1]
    /\ UNCHANGED <<lanes, worker, jobs, unnotified, cancelled, answered,
                   watchdog, post_turn, stopper>>

TakeDrain ==
    /\ Decides
    /\ ~rt.stop_requested /\ ~MustLoad
    /\ CanDrain
    /\ rt' = [rt EXCEPT !.drain_mode = FALSE, !.state = "Evicting"]
    /\ executor' = [executor EXCEPT !.pc = "reclaim", !.purpose = "unload"]
    /\ UNCHANGED <<lanes, reservation, worker, jobs, unnotified, cancelled,
                   answered, watchdog, post_turn, stopper>>

\* An idle backend found dead with work waiting.
TakeReload ==
    /\ Decides
    /\ ~rt.stop_requested /\ ~MustLoad /\ ~CanDrain
    /\ MustReload
    /\ rt' = [rt EXCEPT !.backend_healthy = FALSE, !.state = "Evicting"]
    /\ executor' = [executor EXCEPT !.pc = "reclaim", !.purpose = "reload"]
    /\ UNCHANGED <<lanes, reservation, worker, jobs, unnotified, cancelled,
                   answered, watchdog, post_turn, stopper>>

\* The predicate is true and no branch applies: the loop goes round at once.
ExecutorSpins ==
    /\ Decides
    /\ ~rt.stop_requested /\ ~MustLoad /\ ~CanDrain /\ ~CanDispatch
    /\ rt' = [rt EXCEPT !.drain_mode = @ /\ rt.state \in ResidentState]
    /\ UNCHANGED <<lanes, reservation, worker, executor, jobs, unnotified,
                   cancelled, answered, watchdog, post_turn, stopper>>

\* The admission loop, entered with capacity.  mutex_ is held throughout, but
\* jobs may still be pushed, cancelled and expired between two popIf.
TakeJobs ==
    /\ Decides
    /\ ~rt.stop_requested /\ ~MustLoad /\ ~CanDrain /\ ~MustReload
    /\ CanDispatch
    /\ Go("admitting")
    /\ UNCHANGED <<rt, lanes, reservation, worker, jobs, unnotified, cancelled,
                   answered, watchdog, post_turn, stopper>>

\* Faulty: only post-turn work, or only jobs, keep a session busy.
PostTurnBusy == {j \in Job : SessionOf[j] \in rt.post_turn_sessions}
JobBusy == {j \in Job : SessionOf[j] \in rt.active_sessions}

\* A session with a job or post-turn work outstanding is skipped.
SessionBusy ==
    {j \in Job : SessionOf[j] \in rt.active_sessions \cup rt.post_turn_sessions}

AdmitJob ==
    /\ executor.pc = "admitting"
    /\ Capacity(rt) > 0
    /\ \E j \in Job :
          /\ j = PopIfJob(lanes, cancelled, SessionBusy)
          /\ lanes' = PopIfLanes(lanes, cancelled, SessionBusy)
          /\ SetJob(j, "admitted")
          /\ rt' = [rt EXCEPT !.running_jobs = @ \cup {j},
                              !.active_sessions = @ \cup {SessionOf[j]},
                              !.state = "Running"]
    /\ UNCHANGED <<reservation, worker, executor, unnotified, cancelled, answered,
                   watchdog, post_turn, stopper>>

EndAdmission ==
    /\ executor.pc = "admitting"
    /\ \/ Capacity(rt) <= 0 /\ UNCHANGED lanes
       \/ /\ Capacity(rt) > 0
          /\ PopIfJob(lanes, cancelled, SessionBusy) = NoJob
          /\ lanes' = PopIfLanes(lanes, cancelled, SessionBusy)
    /\ Loop
    /\ UNCHANGED <<rt, reservation, worker, jobs, unnotified, cancelled, answered,
                   watchdog, post_turn, stopper>>

-----------------------------------------------------------------------------
(* executorLoop: loading.  failQueued pops and fails whatever is queued.    *)

\* The top of an attempt: the reservation may have got lost, or a stop may have
\* come.
BeginLoad ==
    /\ MutexFree
    /\ executor.pc = "load"
    /\ \/ /\ reservation # "executor"
          /\ rt' = [rt EXCEPT !.state = IF rt.stop_requested THEN @ ELSE "Failed"]
          /\ IF rt.stop_requested THEN Loop ELSE Go("failQueued")
          /\ UNCHANGED reservation
       \/ /\ reservation = "executor" /\ rt.stop_requested
          /\ reservation' = "none"
          /\ Loop
          /\ UNCHANGED rt
       \/ /\ reservation = "executor" /\ ~rt.stop_requested
          /\ rt' = [rt EXCEPT !.state =
                       IF executor.attempt > 1 THEN "Loading" ELSE @]
          /\ Go("loading")
          /\ UNCHANGED reservation
    /\ UNCHANGED <<lanes, worker, jobs, unnotified, cancelled, answered,
                   watchdog, post_turn, stopper>>

\* loadModel returned: the reservation is released, the capacity known.
LoadSucceeds ==
    /\ MutexFree
    /\ executor.pc = "loading"
    /\ worker' = "up"
    /\ reservation' = "none"
    /\ rt' = IF rt.stop_requested THEN rt
             ELSE [rt EXCEPT !.backend_healthy = TRUE, !.state = "Idle",
                             !.max_concurrent = MaxConcurrent]
    /\ Loop
    /\ UNCHANGED <<lanes, jobs, unnotified, cancelled, answered, watchdog,
                   post_turn, stopper>>

\* handle_load_failure up to its reclaim.
LoadFails ==
    /\ LoadMayFail
    /\ MutexFree
    /\ executor.pc = "loading"
    /\ rt' = [rt EXCEPT !.backend_healthy = FALSE,
                        !.state = IF rt.stop_requested THEN @ ELSE "Evicting"]
    /\ executor' = [executor EXCEPT !.pc = "reclaim", !.purpose = "loadFailed"]
    /\ UNCHANGED <<lanes, reservation, worker, jobs, unnotified, cancelled,
                   answered, watchdog, post_turn, stopper>>

\* The second attempt asks the coordinator itself, which grants or, when nothing
\* that could free memory is under way, throws; the catch block fails the queued
\* jobs and leaves the loop without touching state_.
AcquireGranted ==
    /\ executor.pc = "acquire"
    /\ reservation = "none"
    /\ ~OwnReclaims
    /\ ~rt.stop_requested
    /\ reservation' = "executor"
    /\ executor' = [executor EXCEPT !.pc = "load", !.attempt = @ + 1]
    /\ UNCHANGED <<rt, lanes, worker, jobs, unnotified, cancelled, answered,
                   watchdog, post_turn, stopper>>

AcquireThrows ==
    /\ executor.pc = "acquire"
    /\ ~OwnReclaims
    /\ reservation = "none"
    /\ IF rt.stop_requested THEN Loop ELSE Go("failQueued")
    /\ UNCHANGED <<rt, lanes, reservation, worker, jobs, unnotified, cancelled,
                   answered, watchdog, post_turn, stopper>>

\* Faulty: the queue is emptied and nobody told.
ClearQueued ==
    /\ executor.pc = "failQueued"
    /\ jobs' = [j \in Job |-> IF j \in Queued(lanes)
                              THEN [jobs[j] EXCEPT !.pc = "done"] ELSE jobs[j]]
    /\ lanes' = EmptyLanes
    /\ IF executor.purpose = "exit" THEN Go("exitLast") ELSE Loop
    /\ UNCHANGED <<rt, reservation, worker, unnotified, cancelled, answered,
                   watchdog, post_turn, stopper>>

FailQueued ==
    /\ executor.pc = "failQueued"
    /\ LET alive == Queued(lanes) \ cancelled
       IN  /\ Answer(alive, "error")
           /\ jobs' = [j \in Job |-> IF j \in Queued(lanes)
                                     THEN [jobs[j] EXCEPT !.pc = "done"]
                                     ELSE jobs[j]]
    /\ lanes' = EmptyLanes
    /\ IF executor.purpose = "exit" THEN Go("exitLast") ELSE Loop
    /\ UNCHANGED <<rt, reservation, worker, unnotified, cancelled, watchdog,
                   post_turn, stopper>>

-----------------------------------------------------------------------------
(* executorLoop: giving the backend's memory back, for a drain, for a dead   *)
(* backend, after a failed load, and on the way out.                         *)

BeginReclaim ==
    /\ executor.pc = "reclaim"
    /\ Go("reclaiming")
    /\ reservation' = IF executor.purpose = "loadFailed" THEN "none"
                      ELSE reservation
    /\ UNCHANGED <<rt, lanes, worker, jobs, unnotified, cancelled, answered,
                   watchdog, post_turn, stopper>>

\* beginReclaim returns once no load holds a reservation; then unloadBackend.
UnloadBackend ==
    /\ executor.pc = "reclaiming"
    /\ reservation = "none"
    /\ worker' = "none"
    /\ Go("unloaded")
    /\ UNCHANGED <<rt, lanes, reservation, jobs, unnotified, cancelled, answered,
                   watchdog, post_turn, stopper>>

EndReclaim ==
    /\ executor.pc = "unloaded"
    /\ Go("released")
    /\ UNCHANGED <<rt, lanes, reservation, worker, jobs, unnotified, cancelled,
                   answered, watchdog, post_turn, stopper>>

MayRetry == ~rt.stop_requested /\ executor.attempt < MaxLoadAttempts

\* The critical section that publishes the result, by purpose.
AfterReclaim ==
    /\ MutexFree
    /\ executor.pc = "released"
    /\ \/ /\ executor.purpose = "unload"
          /\ rt' = [rt EXCEPT !.backend_healthy = FALSE,
                        !.state = IF rt.stop_requested THEN @ ELSE "NotResident"]
          /\ Loop
       \/ /\ executor.purpose = "reload"
          /\ rt' = [rt EXCEPT !.state = IF rt.stop_requested THEN @ ELSE "Failed"]
          /\ Loop
       \/ /\ executor.purpose = "loadFailed"
          /\ \/ /\ rt.stop_requested
                /\ Loop
                /\ UNCHANGED rt
             \/ /\ MayRetry
                /\ Go("acquire")
                /\ UNCHANGED rt
             \/ /\ ~rt.stop_requested /\ ~MayRetry
                /\ rt' = [rt EXCEPT !.state = "Failed"]
                /\ Go("failQueued")
       \/ /\ executor.purpose = "exit"
          /\ Go("failQueued")
          /\ UNCHANGED rt
    /\ UNCHANGED <<lanes, reservation, worker, jobs, unnotified, cancelled,
                   answered, watchdog, post_turn, stopper>>

-----------------------------------------------------------------------------
(* executorLoop: the exit path, and PostTurnWorker::stop, which discards the *)
(* queued work only when forced and then joins the worker.                   *)

\* Faulty: a recovery under way is not waited for.
NoJobLeft == rt.running_jobs = {}

JobsAreOver == rt.running_jobs = {} /\ ~rt.recovery_in_progress

StopPostTurnWorker ==
    /\ MutexFree
    /\ executor.pc = "exitWait"
    /\ JobsAreOver
    /\ LET dropped == IF rt.force_stop THEN ToSet(post_turn.queue) ELSE {}
           left    == rt.post_turn_sessions \ dropped
       IN  /\ rt' = [rt EXCEPT
                 !.post_turn_sessions = left,
                 !.state = IF dropped # {} /\ left = {} THEN "Draining" ELSE @]
           /\ post_turn' = [post_turn EXCEPT
                 !.stopping = TRUE,
                 !.queue = IF rt.force_stop THEN <<>> ELSE @]
    /\ Go("joinPostTurn")
    /\ UNCHANGED <<lanes, reservation, worker, jobs, unnotified, cancelled,
                   answered, watchdog, stopper>>

JoinPostTurnWorker ==
    /\ MutexFree
    /\ executor.pc = "joinPostTurn"
    /\ post_turn.queue = <<>> /\ post_turn.work = NoSession
    /\ rt' = [rt EXCEPT !.state = IF @ \in ResidentState THEN "Evicting" ELSE @]
    /\ executor' = [executor EXCEPT !.pc = "reclaim", !.purpose = "exit"]
    /\ UNCHANGED <<lanes, reservation, worker, jobs, unnotified, cancelled,
                   answered, watchdog, post_turn, stopper>>

ExecutorEnds ==
    /\ MutexFree
    /\ executor.pc = "exitLast"
    /\ rt' = [rt EXCEPT !.running_jobs = {}, !.active_sessions = {},
                        !.post_turn_sessions = {}, !.backend_healthy = FALSE,
                        !.state = "Stopped"]
    /\ Go("ended")
    /\ stopper' = "joined"
    /\ UNCHANGED <<lanes, reservation, worker, jobs, unnotified, cancelled,
                   answered, watchdog, post_turn>>

-----------------------------------------------------------------------------
(* runJobEntry and runJob: one thread of job_pool_ per admitted job.         *)

JobFrame == <<lanes, reservation, unnotified, cancelled, watchdog, stopper>>

\* The pool has max_concurrent threads, and a recovering job still holds its own.
ThreadFree ==
    Cardinality({j \in Job : jobs[j].pc \in (InFlight \ {"admitted"}) \cup Finishing})
        < rt.max_concurrent

\* A job cancelled before it starts; or one that finds the backend dead, which
\* is an error with status 503; or one that starts.
StartJob(j) ==
    /\ jobs[j].pc = "admitted"
    /\ executor.pc # "admitting"
    /\ ThreadFree
    /\ \/ /\ j \in cancelled
          /\ Answer({j}, "cancelled")
          /\ SetJob(j, "endingEarly")
       \/ /\ j \notin cancelled /\ ~Healthy
          /\ jobs' = [jobs EXCEPT ![j] = [pc |-> "threw", recover |-> TRUE]]
          /\ UNCHANGED answered
       \/ /\ j \notin cancelled /\ Healthy
          /\ SetJob(j, "executing")
          /\ UNCHANGED answered
    /\ UNCHANGED <<rt, worker, executor, post_turn>>
    /\ UNCHANGED JobFrame

\* orchestrator_->execute returns a response.
ExecuteReturns(j) ==
    /\ jobs[j].pc = "executing"
    /\ worker = "up"
    /\ IF j \in cancelled
       THEN Answer({j}, "cancelled") /\ SetJob(j, "ending")
       ELSE UNCHANGED answered /\ SetJob(j, "responded")
    /\ UNCHANGED <<rt, worker, executor, post_turn>>
    /\ UNCHANGED JobFrame

\* execute throws; an error of status 500 or more, and any other exception,
\* recovers the backend.  So does waitForSessionReady after the response.
ExecuteThrows(j) ==
    /\ \/ jobs[j].pc = "executing"
       \/ jobs[j].pc = "resetting" /\ worker # "up"
    /\ \E recover \in IF worker = "up" THEN BOOLEAN ELSE {TRUE} :
          IF j \in cancelled
          THEN Answer({j}, "cancelled") /\ SetJob(j, "ending")
          ELSE /\ jobs' = [jobs EXCEPT ![j] = [pc |-> "threw", recover |-> recover]]
               /\ UNCHANGED answered
    /\ UNCHANGED <<rt, worker, executor, post_turn>>
    /\ UNCHANGED JobFrame

\* beginPostTurn: the session stays reserved until the work is done.
BeginPostTurn(j) ==
    /\ MutexFree
    /\ jobs[j].pc = "responded"
    /\ LET s == SessionOf[j]
           accepted == /\ j \in PostTurnJobs
                       /\ ~rt.stop_requested
                       /\ s \notin rt.post_turn_sessions
                       /\ ~post_turn.stopping
                       /\ Len(post_turn.queue) < rt.max_concurrent
       IN  IF accepted
           THEN /\ rt' = [rt EXCEPT !.post_turn_sessions = @ \cup {s}]
                /\ post_turn' = [post_turn EXCEPT !.queue = Append(@, s)]
           ELSE UNCHANGED <<rt, post_turn>>
    /\ SetJob(j, "completing")
    /\ UNCHANGED <<worker, executor, answered>>
    /\ UNCHANGED JobFrame

CompleteJob(j) ==
    /\ jobs[j].pc = "completing"
    /\ Answer({j}, "complete")
    /\ SetJob(j, "resetting")
    /\ UNCHANGED <<rt, worker, executor, post_turn>>
    /\ UNCHANGED JobFrame

\* waitForSessionReady: the worker's handle is reset.
SessionReady(j) ==
    /\ jobs[j].pc = "resetting"
    /\ worker = "up"
    /\ SetJob(j, "ending")
    /\ UNCHANGED <<rt, worker, executor, answered, post_turn>>
    /\ UNCHANGED JobFrame

\* Faulty: an error that recovers the backend is not reported.
CatchErrorSilently(j) ==
    /\ jobs[j].pc = "threw"
    /\ SetJob(j, IF j \in cancelled \/ jobs[j].recover THEN "ending"
                 ELSE "erroring")
    /\ UNCHANGED <<rt, worker, executor, answered, post_turn>>
    /\ UNCHANGED JobFrame

\* The catch blocks of runJobEntry look at the flag once more, then notifyError.
CatchError(j) ==
    /\ jobs[j].pc = "threw"
    /\ SetJob(j, IF j \in cancelled THEN "ending" ELSE "erroring")
    /\ UNCHANGED <<rt, worker, executor, answered, post_turn>>
    /\ UNCHANGED JobFrame

NotifyError(j) ==
    /\ jobs[j].pc = "erroring"
    /\ Answer({j}, "error")
    /\ SetJob(j, "ending")
    /\ UNCHANGED <<rt, worker, executor, post_turn>>
    /\ UNCHANGED JobFrame

WithoutJob(j) ==
    [rt EXCEPT !.running_jobs = @ \ {j}, !.active_sessions = @ \ {SessionOf[j]}]

DrainedOrIdle(r) == IF r.drain_mode THEN "Draining" ELSE "Idle"

\* Faulty: the recovery starts at once; or is never given up.
StartsRecoveryAtOnce(r) == r.recovery_in_progress /\ ~r.stop_requested
NeverGivesUp(r) == FALSE

\* Whether the job that leaves r behind starts the recovery ...
StartsRecovery(r) ==
    r.recovery_in_progress /\ r.running_jobs = {} /\ ~r.stop_requested

\* ... or gives it up, because the runtime stops anyway ...
GivesUpRecovery(r) ==
    r.recovery_in_progress /\ r.running_jobs = {} /\ r.stop_requested

\* Faulty: a pending recovery does not matter.
SettlesRegardless(r) == r.running_jobs = {} /\ ~r.stop_requested

\* ... or settles the state.
Settles(r) ==
    ~r.recovery_in_progress /\ r.running_jobs = {} /\ ~r.stop_requested

\* What both ends of runJobEntry do with the runtime r the job leaves behind.
LastJobOut(j, r, may_settle) ==
    /\ rt' = IF GivesUpRecovery(r) THEN [r EXCEPT !.recovery_in_progress = FALSE]
             ELSE IF Settles(r) /\ may_settle
                  THEN [r EXCEPT !.state = DrainedOrIdle(r)]
                  ELSE r
    /\ jobs' = [jobs EXCEPT ![j] =
                   [pc |-> "finished", recover |-> StartsRecovery(r)]]

EndEarlyCancelled(j) ==
    /\ MutexFree
    /\ jobs[j].pc = "endingEarly"
    /\ LastJobOut(j, WithoutJob(j), TRUE)
    /\ UNCHANGED <<worker, executor, answered, post_turn>>
    /\ UNCHANGED JobFrame

EndJob(j) ==
    /\ MutexFree
    /\ jobs[j].pc = "ending"
    /\ LET failed == jobs[j].recover \/ (j \in cancelled /\ ~rt.backend_healthy)
           after  == IF failed
                     THEN [WithoutJob(j) EXCEPT
                              !.backend_healthy = FALSE,
                              !.recovery_in_progress = TRUE,
                              !.state = IF rt.stop_requested THEN @ ELSE "Evicting"]
                     ELSE WithoutJob(j)
       IN  LastJobOut(j, after, rt.post_turn_sessions = {})
    /\ UNCHANGED <<worker, executor, answered, post_turn>>
    /\ UNCHANGED JobFrame

\* invalidateCancelWatchdog wakes an armed watchdog and joins it.
InvalidateCancelWatchdog(j) ==
    /\ jobs[j].pc = "finished"
    /\ watchdog[j] \in {"none", "armed", "arming"}
    /\ watchdog' = [watchdog EXCEPT ![j] = IF @ = "armed" THEN "none" ELSE @]
    /\ jobs' = [jobs EXCEPT ![j] =
          [pc |-> IF jobs[j].recover THEN "recover" ELSE "done", recover |-> FALSE]]
    /\ IF jobs[j].recover THEN UNCHANGED executor ELSE Notify
    /\ UNCHANGED <<rt, lanes, reservation, worker, unnotified, cancelled, answered,
                   post_turn, stopper>>

RecoverBegin(j) ==
    /\ jobs[j].pc = "recover"
    /\ SetJob(j, "reclaiming")
    /\ UNCHANGED <<rt, worker, executor, answered, post_turn>>
    /\ UNCHANGED JobFrame

RecoverUnload(j) ==
    /\ jobs[j].pc = "reclaiming"
    /\ reservation = "none"
    /\ worker' = "none"
    /\ SetJob(j, "unloaded")
    /\ UNCHANGED <<rt, executor, answered, post_turn>>
    /\ UNCHANGED JobFrame

RecoverEndReclaim(j) ==
    /\ jobs[j].pc = "unloaded"
    /\ SetJob(j, "released")
    /\ UNCHANGED <<rt, worker, executor, answered, post_turn>>
    /\ UNCHANGED JobFrame

RecoverEnd(j) ==
    /\ MutexFree
    /\ jobs[j].pc = "released"
    /\ rt' = [rt EXCEPT !.recovery_in_progress = FALSE,
                        !.state = IF rt.stop_requested THEN @ ELSE "Failed"]
    /\ SetJob(j, "done")
    /\ Notify
    /\ UNCHANGED <<worker, answered, post_turn>>
    /\ UNCHANGED JobFrame

-----------------------------------------------------------------------------
(* PostTurnWorker::workerLoop and finishPostTurn.                            *)

TakePostTurn ==
    /\ post_turn.work = NoSession
    /\ post_turn.queue # <<>>
    /\ post_turn' = [post_turn EXCEPT !.work = Head(post_turn.queue),
                                      !.queue = Tail(@)]
    /\ UNCHANGED <<rt, lanes, reservation, worker, executor, jobs, unnotified,
                   cancelled, answered, watchdog, stopper>>

FinishPostTurn ==
    /\ MutexFree
    /\ post_turn.work # NoSession
    /\ LET left == rt.post_turn_sessions \ {post_turn.work}
       IN  rt' = [rt EXCEPT
                    !.post_turn_sessions = left,
                    !.state = IF rt.running_jobs = {} /\ left = {}
                              THEN IF rt.stop_requested THEN "Draining"
                                   ELSE DrainedOrIdle(rt)
                              ELSE @]
    /\ post_turn' = [post_turn EXCEPT !.work = NoSession]
    /\ Notify
    /\ UNCHANGED <<lanes, reservation, worker, jobs, unnotified, cancelled,
                   answered, watchdog, stopper>>

-----------------------------------------------------------------------------
(* The cancel watchdog of a job: cancelWatchdogLoop and                      *)
(* handleCancelWatchdogTimeout.                                              *)

WatchdogFrame == <<lanes, reservation, executor, unnotified, cancelled, answered,
                   jobs, post_turn, stopper>>

WatchdogFires(j) ==
    /\ MutexFree
    /\ watchdog[j] = "armed"
    /\ watchdog' = [watchdog EXCEPT ![j] =
          IF Running(j) /\ j \in cancelled /\ rt.backend_healthy
          THEN "aborting" ELSE "none"]
    /\ UNCHANGED <<rt, worker>>
    /\ UNCHANGED WatchdogFrame

\* sendAbort is acknowledged, or not.
SendAbort(j) ==
    /\ watchdog[j] = "aborting"
    /\ \/ worker = "up" /\ watchdog' = [watchdog EXCEPT ![j] = "none"]
       \/ watchdog' = [watchdog EXCEPT ![j] = "killing"]
    /\ UNCHANGED <<rt, worker>>
    /\ UNCHANGED WatchdogFrame

ForceKillActiveWorker(j) ==
    /\ watchdog[j] = "killing"
    /\ IF worker = "up"
       THEN worker' = "dead" /\ watchdog' = [watchdog EXCEPT ![j] = "killed"]
       ELSE UNCHANGED worker /\ watchdog' = [watchdog EXCEPT ![j] = "none"]
    /\ UNCHANGED rt
    /\ UNCHANGED WatchdogFrame

MarkBackendKilled(j) ==
    /\ MutexFree
    /\ watchdog[j] = "killed"
    /\ rt' = [rt EXCEPT !.backend_healthy = FALSE]
    /\ watchdog' = [watchdog EXCEPT ![j] = "none"]
    /\ UNCHANGED worker
    /\ UNCHANGED WatchdogFrame

\* The worker process crashes (external).
WorkerDies ==
    /\ WorkerMayDie
    /\ worker = "up"
    /\ worker' = "dead"
    /\ UNCHANGED <<rt, lanes, reservation, executor, jobs, unnotified, cancelled,
                   answered, watchdog, post_turn, stopper>>

-----------------------------------------------------------------------------
Deciding ==
    \/ ExecutorBlocks \/ ExecutorSleeps \/ TakeStop \/ TakeActivation
    \/ TakeDrain \/ TakeReload \/ ExecutorSpins \/ TakeJobs \/ AdmitJob \/ EndAdmission

Loading ==
    \/ BeginLoad \/ LoadSucceeds \/ LoadFails \/ AcquireGranted \/ AcquireThrows
    \/ FailQueued

Reclaiming == BeginReclaim \/ UnloadBackend \/ EndReclaim \/ AfterReclaim

Exiting == StopPostTurnWorker \/ JoinPostTurnWorker \/ ExecutorEnds

Executor == Deciding \/ Loading \/ Reclaiming \/ Exiting

JobThread(j) ==
    \/ StartJob(j) \/ ExecuteReturns(j) \/ ExecuteThrows(j) \/ BeginPostTurn(j)
    \/ CompleteJob(j) \/ SessionReady(j) \/ CatchError(j) \/ NotifyError(j)
    \/ EndEarlyCancelled(j) \/ EndJob(j) \/ InvalidateCancelWatchdog(j)
    \/ RecoverBegin(j) \/ RecoverUnload(j) \/ RecoverEndReclaim(j) \/ RecoverEnd(j)

PostTurn == TakePostTurn \/ FinishPostTurn

Watchdog(j) ==
    \/ ArmCancelWatchdog(j) \/ WatchdogFires(j) \/ SendAbort(j)
    \/ ForceKillActiveWorker(j) \/ MarkBackendKilled(j)

Pool ==
    \/ Grant \/ Activate \/ ActivateResident \/ RequestDrain
    \/ ExpireStaleQueuedJobs \/ Stop \/ \E force \in BOOLEAN : StopCancelWatchdog(force)

Client(j) == Enqueue(j) \/ EnqueueNotify(j) \/ CancelQueued(j) \/ CancelRunning(j)

Next ==
    \/ Executor \/ PostTurn \/ Pool \/ WorkerDies
    \/ \E j \in Job : Client(j) \/ JobThread(j) \/ Watchdog(j)

Spec == Init /\ [][Next]_vars

\* Every thread that can take a step does: the executor, the job threads (the
\* worker's requests are bounded by a timeout), the post-turn worker, the
\* watchdogs and a submitter between push and notify.  The pool hands over the
\* reservations it obtained, and finishes a stop it began.  Crashes, submissions,
\* cancellations and drains are not forced.  A job takes finitely many steps, so
\* one condition for all the short-lived threads is enough: none of them can be
\* passed over for ever.
Fairness ==
    /\ WF_vars(Executor)
    /\ WF_vars(Grant \/ Activate \/ Stop)
    /\ WF_vars(PostTurn \/ \E j \in Job : JobThread(j) \/ Watchdog(j)
                                                  \/ EnqueueNotify(j))

FairSpec == Spec /\ Fairness

-----------------------------------------------------------------------------
RuntimeRecord ==
    [state : State, activation_requested : BOOLEAN, drain_mode : BOOLEAN,
     backend_healthy : BOOLEAN, max_concurrent : {1, MaxConcurrent},
     running_jobs : SUBSET Job, active_sessions : SUBSET Session,
     post_turn_sessions : SUBSET Session, recovery_in_progress : BOOLEAN,
     stop_requested : BOOLEAN, force_stop : BOOLEAN]

ExecutorRecord ==
    [pc : {"test", "blocking", "sleeping", "admitting", "load", "loading",
           "acquire", "failQueued", "reclaim", "reclaiming", "unloaded",
           "released", "exitWait", "joinPostTurn", "exitLast", "ended"},
     purpose : {"none", "unload", "reload", "loadFailed", "exit"},
     attempt : {0, 1, 2}]

JobRecord ==
    [pc : {"new", "queued", "done"} \cup InFlight \cup Finishing,
     recover : BOOLEAN]

PostTurnRecord ==
    [queue : Seq(Session), work : Session \cup {NoSession}, stopping : BOOLEAN]

WatchdogPC == {"none", "arming", "armed", "aborting", "killing", "killed"}

TypeOK ==
    /\ rt \in RuntimeRecord
    /\ lanes \in [Lane -> Seq(Job)]
    /\ reservation \in {"none", "pool", "pending", "executor"}
    /\ worker \in {"none", "up", "dead"}
    /\ executor \in ExecutorRecord
    /\ jobs \in [Job -> JobRecord]
    /\ unnotified \in SUBSET Job
    /\ cancelled \in SUBSET Job
    /\ answered \in [Job -> SUBSET Outcome]
    /\ watchdog \in [Job -> WatchdogPC]
    /\ post_turn \in PostTurnRecord
    /\ stopper \in {"none", "join", "joinForce", "stopping", "joined"}

\* A conversation is served one turn at a time: two jobs of one session never run
\* together, although they may be queued in different lanes.
OneJobPerSession ==
    \A j, k \in rt.running_jobs : j # k => SessionOf[j] # SessionOf[k]

\* While a session has post-turn work outstanding the only job of it that runs is
\* the one that left the work behind, on its way out.
SessionReserved ==
    \A j \in rt.running_jobs :
        SessionOf[j] \in rt.post_turn_sessions =>
            j \in PostTurnJobs
                /\ jobs[j].pc \in {"completing", "resetting", "threw", "erroring",
                                   "ending"}

\* A job is overtaken, by one of a lower lane or behind it in its own, only while
\* its session is busy.
OvertakesOnlyBusy ==
    [][\A j \in rt'.running_jobs \ rt.running_jobs, k \in Queued(lanes) :
          Ahead(lanes, k, j) =>
              SessionOf[k] \in rt.active_sessions \cup rt.post_turn_sessions]_vars

\* No job is lost between the queue and the threads: popIf erases cancelled jobs
\* without telling anybody, so a queued job must never be found cancelled.
NoSilentDrop == \A j \in Job : jobs[j].pc = "queued" <=> j \in Queued(lanes)

\* A job that has left the scheduler got a terminal callback, whatever mix of
\* cancellation, expiry, crash and failed load it went through.
AnsweredWhenDone == \A j \in Job : jobs[j].pc = "done" => answered[j] # {}

\* A load that was asked for excludes a drain: neither activate, requestDrain nor
\* the executor leaves both pending.
LoadOrDrain == ~(rt.activation_requested /\ rt.drain_mode)

\* An activation is pending exactly as long as the reservation that pays for it
\* waits to be taken, and the runtime is Loading.
ActivationBacked ==
    /\ rt.activation_requested => rt.state = "Loading" /\ reservation = "pending"
    /\ reservation = "pending" => rt.state = "Loading" /\ rt.activation_requested

\* From the failure of a job to the end of the recovery nothing is admitted: the
\* state is neither Idle nor Running, whichever job ends last.  (A runtime that
\* stops admits nothing anyway, and keeps its state.)
RecoveryQuiet ==
    rt.recovery_in_progress /\ ~rt.stop_requested
        => rt.state \notin {"Idle", "Running"}

\* At most one thread, the executor or a job's, is taking the backend down.
SingleReclaim ==
    Cardinality({j \in Job : jobs[j].pc \in {"recover", "reclaiming", "unloaded",
                                              "released"}})
      + (IF executor.pc \in {"reclaim", "reclaiming", "unloaded", "released"}
         THEN 1 ELSE 0) <= 1

\* The worker is never unloaded while a request is using it ("Recovery is deferred
\* until every other admitted request has finished", ModelRuntime.cpp:944).
NoUnloadUnderJob ==
    [][worker = "up" /\ worker' = "none" =>
          \A j \in Job : jobs[j].pc \notin UsesWorker]_vars

\* Nor while post-turn work is using it ("joined before backend teardown",
\* PostTurnWorker.h:21).
NoUnloadUnderPostTurn ==
    [][worker = "up" /\ worker' = "none" => post_turn.work = NoSession]_vars

\* A stopped runtime has left nothing behind: no worker, no job or post-turn work
\* still running, nothing queued, no reservation withheld from other models.
StopLeavesNothing ==
    executor.pc = "ended" =>
        /\ worker = "none"
        /\ reservation = "none"
        /\ IsEmpty(lanes)
        /\ post_turn.work = NoSession /\ post_turn.queue = <<>>
        /\ \A j \in Job : jobs[j].pc \notin InFlight \cup {"queued", "recover",
                                               "reclaiming", "unloaded", "released"}

\* A job handed to a thread ends in a terminal callback, also when the worker dies
\* under it; only a forced stop may cut it off.
AdmittedAnswered ==
    \A j \in Job : Running(j) ~> answered[j] # {} \/ rt.force_stop

\* A recovery ends, although the thread that starts it must outlast the others.
RecoveryEnds == rt.recovery_in_progress ~> ~rt.recovery_in_progress

\* A reservation handed to the runtime is spent or given back: if it were not, no
\* model could ever be unloaded.
ReservationReturned == reservation # "none" ~> reservation = "none"

\* stop() returns, whatever the jobs, the watchdogs and the post-turn worker were
\* doing when it was called.
StopCompletes == stopper # "none" ~> stopper = "joined"

=============================================================================
