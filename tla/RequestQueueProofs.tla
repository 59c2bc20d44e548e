---- MODULE RequestQueueProofs ----
(* With clients that wait for the end of their answers, and neither cancellation  *)
(* nor timeouts nor the watchdog (env = {}), the queue keeps its core guarantee   *)
(* for any number of sessions and requests, and implements TurnGate.              *)
EXTENDS RequestQueue, FiniteSetTheorems, TLAPS

(* Who works on the accelerator holds the lock for its session: no callback, error *)
(* path, timer or refused request takes the lock from under a running event.       *)
WorkHoldsLock ==
    Undisturbed => \A r \in Request : Working(r) => activeSession = SessionOf[r]

Live(r) == pc[r] \in {"putting", "queued", "held", "busy", "stuck"}

Waiting(e) == Active(e) /\ tool[e] = "waiting"

InvClean == cancelled = {} /\ killed = {} /\ \A r \in Request : phase[r] # "orphan"

InvQueue == \A r \in queue : pc[r] = "queued"

(* Who works is at the head of its session: the lock and the current event.       *)
InvPhase ==
    \A r \in Request : phase[r] # "off" =>
        /\ pc[r] = "busy"
        /\ activeSession = SessionOf[r]
        /\ target[r] \in Request
        /\ current[SessionOf[r]] = target[r]

(* A request that was not processed yet has made no event.                        *)
InvFresh ==
    \A r \in Request : pc[r] \in {"unsent", "putting", "queued", "held"} =>
        state[r] = "none" /\ tool[r] = "none"

InvReplied ==
    \A r \in replied : pc[r] = "done" \/ (pc[r] = "busy" /\ Produces(r))

InvLive ==
    \A q, r \in Request : Live(q) /\ Live(r) /\ SessionOf[q] = SessionOf[r] => q = r

InvCurrent ==
    \A s \in Session : current[s] # None => SessionOf[current[s]] = s

(* An active event is its session's current one; somebody works on it or a tool.  *)
InvActive ==
    \A e \in Request : Active(e) =>
        /\ current[SessionOf[e]] = e
        /\ tool[e] = "waiting" \/ \E r \in Request : phase[r] # "off" /\ target[r] = e

InvWaiting ==
    \A e, q \in Request :
        Waiting(e) /\ SessionOf[q] = SessionOf[e] /\ Live(q) =>
            kind[q] = "tool" /\ phase[q] = "off"

(* A callback yet to run finds its session at rest.                               *)
InvCallbacks ==
    \A e \in callbacks, q \in Request : SessionOf[q] = SessionOf[e] =>
        /\ phase[q] = "off"
        /\ ~Active(q)
        /\ Live(q) => kind[q] = "tool"

QInv ==
    /\ TypeOK
    /\ InvClean
    /\ InvQueue
    /\ InvPhase
    /\ InvFresh
    /\ InvReplied
    /\ InvLive
    /\ InvCurrent
    /\ InvActive
    /\ InvWaiting
    /\ InvCallbacks
-----------------------------------------------------------------------------
(* What a run changes keeps its type.                                            *)
LEMMA RunSorts ==
    ASSUME QInv, NEW r \in Request, phase[r] # "off"
    PROVE  /\ SessionOf[r] \in Session
           /\ target[r] \in Request
           /\ SessionOf[target[r]] = SessionOf[r]
           /\ current[SessionOf[r]] = target[r]
<1>1. SessionOf[r] \in Session
  BY QueueAssumption
<1>2. target[r] \in Request /\ current[SessionOf[r]] = target[r]
  BY DEF QInv, InvPhase
<1>3. target[r] # None
  BY <1>2, QueueAssumption
<1>4. QED
  BY <1>1, <1>2, <1>3 DEF QInv, InvCurrent

(* The empty queue of an idle service.                                            *)
LEMMA QuietInit == Init => QInv
  BY QueueAssumption DEF Init, QInv, TypeOK, InvClean, InvQueue, InvPhase, InvFresh, InvReplied,
     InvLive, InvCurrent, InvActive, InvWaiting, InvCallbacks, Live, Waiting, Active

(* A request gets its place in the priority queue.                               *)
LEMMA QuietPut == ASSUME QInv, NEW r \in Request, Put(r) PROVE QInv'
<1> USE QueueAssumption DEF QInv
<1>1. TypeOK'
  BY DEF Put, TypeOK, InvPhase, lockVars, eventVars
<1>2. InvClean'
  BY DEF Put, InvClean, TypeOK, lockVars, eventVars
<1>3. InvQueue'
  BY DEF Put, InvQueue, TypeOK, InvPhase, lockVars, eventVars
<1>4. InvPhase'
  BY DEF Put, InvPhase, TypeOK, InvClean, InvQueue, InvLive, InvCurrent,
     InvWaiting, InvCallbacks, Live, Waiting, Active, lockVars, eventVars
<1>5. InvFresh'
  BY DEF Put, InvFresh, TypeOK, InvQueue, InvPhase, Active, lockVars,
     eventVars
<1>6. InvReplied'
  BY DEF Put, InvReplied, TypeOK, InvQueue, InvPhase, Produces, Continues,
     lockVars, eventVars
<1>7. InvLive'
  BY DEF Put, InvLive, TypeOK, InvQueue, InvPhase, Live, lockVars, eventVars
<1>8. InvCurrent'
  BY DEF Put, InvCurrent, TypeOK, lockVars, eventVars
<1>9. InvActive'
  BY DEF Put, InvActive, TypeOK, InvQueue, InvPhase, InvLive, InvCurrent,
     Live, Active, lockVars, eventVars
<1>10. InvWaiting'
  BY DEF Put, InvWaiting, TypeOK, InvQueue, InvPhase, InvLive, InvCurrent,
     InvActive, Waiting, Active, Live, lockVars, eventVars
<1>11. InvCallbacks'
  BY DEF Put, InvCallbacks, TypeOK, InvQueue, InvPhase, InvLive, InvCurrent,
     InvActive, InvWaiting, Waiting, Active, Live, lockVars, eventVars
<1>12. QED
  BY <1>1, <1>2, <1>3, <1>4, <1>5, <1>6, <1>7, <1>8, <1>9, <1>10, <1>11

(* A request that found the queue full is answered 503.                          *)
LEMMA QuietRejectFull == ASSUME QInv, NEW r \in Request, RejectFull(r) PROVE QInv'
<1> USE QueueAssumption DEF QInv
<1>1. TypeOK'
  BY DEF RejectFull, TypeOK, InvPhase, lockVars, queueVars, eventVars,
     Finish
<1>2. InvClean'
  BY DEF RejectFull, InvClean, TypeOK, lockVars, queueVars, eventVars,
     Finish
<1>3. InvQueue'
  BY DEF RejectFull, InvQueue, TypeOK, InvPhase, lockVars, queueVars,
     eventVars, Finish
<1>4. InvPhase'
  BY DEF RejectFull, InvPhase, TypeOK, InvClean, InvQueue, InvLive,
     InvCurrent, InvWaiting, InvCallbacks, Live, Waiting, Active, lockVars,
     queueVars, eventVars, Finish
<1>5. InvFresh'
  BY DEF RejectFull, InvFresh, TypeOK, InvQueue, InvPhase, Active, lockVars,
     queueVars, eventVars, Finish
<1>6. InvReplied'
  BY DEF RejectFull, InvReplied, TypeOK, InvQueue, InvPhase, Produces,
     Continues, lockVars, queueVars, eventVars, Finish
<1>7. InvLive'
  BY DEF RejectFull, InvLive, TypeOK, InvQueue, InvPhase, Live, lockVars,
     queueVars, eventVars, Finish
<1>8. InvCurrent'
  BY DEF RejectFull, InvCurrent, TypeOK, lockVars, queueVars, eventVars,
     Finish
<1>9. InvActive'
  BY DEF RejectFull, InvActive, TypeOK, InvQueue, InvPhase, InvLive,
     InvCurrent, Live, Active, lockVars, queueVars, eventVars, Finish
<1>10. InvWaiting'
  BY DEF RejectFull, InvWaiting, TypeOK, InvQueue, InvPhase, InvLive,
     InvCurrent, InvActive, Waiting, Active, Live, lockVars, queueVars,
     eventVars, Finish
<1>11. InvCallbacks'
  BY DEF RejectFull, InvCallbacks, TypeOK, InvQueue, InvPhase, InvLive,
     InvCurrent, InvActive, InvWaiting, Waiting, Active, Live, lockVars,
     queueVars, eventVars, Finish
<1>12. QED
  BY <1>1, <1>2, <1>3, <1>4, <1>5, <1>6, <1>7, <1>8, <1>9, <1>10, <1>11

(* The worker takes the first item of the queue.                                 *)
LEMMA QuietWorkerTakes == ASSUME QInv, NEW r \in Request, WorkerTakes(r) PROVE QInv'
<1> USE QueueAssumption DEF QInv
<1>1. TypeOK'
  BY DEF WorkerTakes, TypeOK, InvPhase, lockVars, eventVars
<1>2. InvClean'
  BY DEF WorkerTakes, InvClean, TypeOK, lockVars, eventVars
<1>3. InvQueue'
  BY DEF WorkerTakes, InvQueue, TypeOK, InvPhase, lockVars, eventVars
<1>4. InvPhase'
  BY DEF WorkerTakes, InvPhase, TypeOK, InvClean, InvQueue, InvLive,
     InvCurrent, InvWaiting, InvCallbacks, Live, Waiting, Active, lockVars,
     eventVars
<1>5. InvFresh'
  BY DEF WorkerTakes, InvFresh, TypeOK, InvQueue, InvPhase, Active,
     lockVars, eventVars
<1>6. InvReplied'
  BY DEF WorkerTakes, InvReplied, TypeOK, InvQueue, InvPhase, Produces,
     Continues, lockVars, eventVars
<1>7. InvLive'
  BY DEF WorkerTakes, InvLive, TypeOK, InvQueue, InvPhase, Live, lockVars,
     eventVars
<1>8. InvCurrent'
  BY DEF WorkerTakes, InvCurrent, TypeOK, lockVars, eventVars
<1>9. InvActive'
  BY DEF WorkerTakes, InvActive, TypeOK, InvQueue, InvPhase, InvLive,
     InvCurrent, Live, Active, lockVars, eventVars
<1>10. InvWaiting'
  BY DEF WorkerTakes, InvWaiting, TypeOK, InvQueue, InvPhase, InvLive,
     InvCurrent, InvActive, Waiting, Active, Live, lockVars, eventVars
<1>11. InvCallbacks'
  BY DEF WorkerTakes, InvCallbacks, TypeOK, InvQueue, InvPhase, InvLive,
     InvCurrent, InvActive, InvWaiting, Waiting, Active, Live, lockVars,
     eventVars
<1>12. QED
  BY <1>1, <1>2, <1>3, <1>4, <1>5, <1>6, <1>7, <1>8, <1>9, <1>10, <1>11

(* The model asks for a tool: the session keeps the lock at rest.                *)
LEMMA QuietCallTool == ASSUME QInv, NEW r \in Request, CallTool(r) PROVE QInv'
<1> USE QueueAssumption DEF QInv
<1>1. TypeOK'
  BY DEF CallTool, TypeOK, InvPhase, queueVars, Produces, Continues, Finish,
     AfterHandler, Released
<1>2. InvClean'
  BY DEF CallTool, InvClean, TypeOK, queueVars, Produces, Continues, Finish,
     AfterHandler, Released
<1>3. InvQueue'
  BY DEF CallTool, InvQueue, TypeOK, InvPhase, queueVars, Produces,
     Continues, Finish, AfterHandler, Released
<1>4. InvPhase'
  BY DEF CallTool, InvPhase, TypeOK, InvClean, InvQueue, InvLive,
     InvCurrent, InvWaiting, InvCallbacks, Live, Waiting, Active, queueVars,
     Produces, Continues, Finish, AfterHandler, Released
<1>5. InvFresh'
  BY DEF CallTool, InvFresh, TypeOK, InvQueue, InvPhase, Active, queueVars,
     Produces, Continues, Finish, AfterHandler, Released
<1>6. InvReplied'
  BY DEF CallTool, InvReplied, TypeOK, InvQueue, InvPhase, Produces,
     Continues, queueVars, Finish, AfterHandler, Released
<1>7. InvLive'
  BY DEF CallTool, InvLive, TypeOK, InvQueue, InvPhase, Live, queueVars,
     Produces, Continues, Finish, AfterHandler, Released
<1>8. InvCurrent'
  BY DEF CallTool, InvCurrent, TypeOK, queueVars, Produces, Continues,
     Finish, AfterHandler, Released
<1>9. InvActive'
  BY DEF CallTool, InvActive, TypeOK, InvQueue, InvPhase, InvLive,
     InvCurrent, Live, Active, queueVars, Produces, Continues, Finish,
     AfterHandler, Released
<1>10. InvWaiting'
  <2>1. pc' = [pc EXCEPT ![r] = "done"]
    BY DEF CallTool, TypeOK, InvPhase, AfterHandler, Finish
  <2>2. \A q \in Request : Live(q)' => Live(q) /\ q # r
    BY <2>1 DEF TypeOK, Live
  <2>3. \A q \in Request : Live(q)' => SessionOf[q] # SessionOf[r]
    BY <2>2 DEF CallTool, TypeOK, InvPhase, InvLive, Live
  <2>4. SessionOf[target[r]] = SessionOf[r]
    BY RunSorts DEF CallTool
  <2>5. \A e \in Request \ {target[r]} : Waiting(e)' = Waiting(e)
    BY DEF CallTool, TypeOK, InvPhase, Waiting, Active
  <2>6. \A q \in Request : q # r => phase'[q] = phase[q] /\ kind'[q] = kind[q]
    BY DEF CallTool, TypeOK
  <2>7. QED
    BY <2>2, <2>3, <2>4, <2>5, <2>6 DEF InvWaiting, TypeOK
<1>11. InvCallbacks'
  BY DEF CallTool, InvCallbacks, TypeOK, InvQueue, InvPhase, InvLive,
     InvCurrent, InvActive, InvWaiting, Waiting, Active, Live, queueVars,
     Produces, Continues, Finish, AfterHandler, Released
<1>12. QED
  BY <1>1, <1>2, <1>3, <1>4, <1>5, <1>6, <1>7, <1>8, <1>9, <1>10, <1>11

(* The answer is complete; the post-turn work holds the lock.                    *)
LEMMA QuietAnswer == ASSUME QInv, NEW r \in Request, Answer(r) PROVE QInv'
<1> USE QueueAssumption DEF QInv
<1>1. TypeOK'
  BY DEF Answer, TypeOK, InvPhase, lockVars, queueVars, Produces, Continues
<1>2. InvClean'
  BY DEF Answer, InvClean, TypeOK, lockVars, queueVars, Produces, Continues
<1>3. InvQueue'
  BY DEF Answer, InvQueue, TypeOK, InvPhase, lockVars, queueVars, Produces,
     Continues
<1>4. InvPhase'
  BY DEF Answer, InvPhase, TypeOK, InvClean, InvQueue, InvLive, InvCurrent,
     InvWaiting, InvCallbacks, Live, Waiting, Active, lockVars, queueVars,
     Produces, Continues
<1>5. InvFresh'
  BY DEF Answer, InvFresh, TypeOK, InvQueue, InvPhase, Active, lockVars,
     queueVars, Produces, Continues
<1>6. InvReplied'
  BY DEF Answer, InvReplied, TypeOK, InvQueue, InvPhase, Produces,
     Continues, lockVars, queueVars
<1>7. InvLive'
  BY DEF Answer, InvLive, TypeOK, InvQueue, InvPhase, Live, lockVars,
     queueVars, Produces, Continues
<1>8. InvCurrent'
  BY DEF Answer, InvCurrent, TypeOK, lockVars, queueVars, Produces,
     Continues
<1>9. InvActive'
  BY DEF Answer, InvActive, TypeOK, InvQueue, InvPhase, InvLive, InvCurrent,
     Live, Active, lockVars, queueVars, Produces, Continues
<1>10. InvWaiting'
  BY DEF Answer, InvWaiting, TypeOK, InvQueue, InvPhase, InvLive,
     InvCurrent, InvActive, Waiting, Active, Live, lockVars, queueVars,
     Produces, Continues
<1>11. InvCallbacks'
  BY DEF Answer, InvCallbacks, TypeOK, InvQueue, InvPhase, InvLive,
     InvCurrent, InvActive, InvWaiting, Waiting, Active, Live, lockVars,
     queueVars, Produces, Continues
<1>12. QED
  BY <1>1, <1>2, <1>3, <1>4, <1>5, <1>6, <1>7, <1>8, <1>9, <1>10, <1>11

(* The end of the post-turn work gives up the lock of its session.               *)
LEMMA QuietEndTurn == ASSUME QInv, NEW r \in Request, EndTurn(r) PROVE QInv'
<1> USE QueueAssumption DEF QInv
<1>1. TypeOK'
  BY DEF EndTurn, TypeOK, InvPhase, queueVars, Produces, Continues, Finish,
     AfterHandler, Released
<1>2. InvClean'
  BY DEF EndTurn, InvClean, TypeOK, queueVars, Produces, Continues, Finish,
     AfterHandler, Released
<1>3. InvQueue'
  BY DEF EndTurn, InvQueue, TypeOK, InvPhase, queueVars, Produces,
     Continues, Finish, AfterHandler, Released
<1>4. InvPhase'
  BY DEF EndTurn, InvPhase, TypeOK, InvClean, InvQueue, InvLive, InvCurrent,
     InvWaiting, InvCallbacks, Live, Waiting, Active, queueVars, Produces,
     Continues, Finish, AfterHandler, Released
<1>5. InvFresh'
  BY DEF EndTurn, InvFresh, TypeOK, InvQueue, InvPhase, Active, queueVars,
     Produces, Continues, Finish, AfterHandler, Released
<1>6. InvReplied'
  BY DEF EndTurn, InvReplied, TypeOK, InvQueue, InvPhase, Produces,
     Continues, queueVars, Finish, AfterHandler, Released
<1>7. InvLive'
  BY DEF EndTurn, InvLive, TypeOK, InvQueue, InvPhase, Live, queueVars,
     Produces, Continues, Finish, AfterHandler, Released
<1>8. InvCurrent'
  BY DEF EndTurn, InvCurrent, TypeOK, queueVars, Produces, Continues,
     Finish, AfterHandler, Released
<1>9. InvActive'
  BY DEF EndTurn, InvActive, TypeOK, InvQueue, InvPhase, InvLive,
     InvCurrent, Live, Active, queueVars, Produces, Continues, Finish,
     AfterHandler, Released
<1>10. InvWaiting'
  BY DEF EndTurn, InvWaiting, TypeOK, InvQueue, InvPhase, InvLive,
     InvCurrent, InvActive, Waiting, Active, Live, queueVars, Produces,
     Continues, Finish, AfterHandler, Released
<1>11. InvCallbacks'
  BY DEF EndTurn, InvCallbacks, TypeOK, InvQueue, InvPhase, InvLive,
     InvCurrent, InvActive, InvWaiting, Waiting, Active, Live, queueVars,
     Produces, Continues, Finish, AfterHandler, Released
<1>12. QED
  BY <1>1, <1>2, <1>3, <1>4, <1>5, <1>6, <1>7, <1>8, <1>9, <1>10, <1>11

(* A failed run schedules its callback or ends with its handler.                 *)
LEMMA QuietFail == ASSUME QInv, NEW r \in Request, Fail(r) PROVE QInv'
<1> USE QueueAssumption DEF QInv
<1>1. TypeOK'
  <2>1. target[r] \in Request
    BY RunSorts DEF Fail
  <2>2. PICK drained \in SUBSET queue :
            /\ queue' = queue \ drained
            /\ pc' = [q \in Request |-> IF q \in drained \cup {r} THEN "done" ELSE pc[q]]
            /\ replied' = replied \cup drained \cup {r}
    BY DEF Fail
  <2>3. queue' \subseteq Request /\ replied' \subseteq Request
    BY <2>2 DEF TypeOK
  <2>4. pc' \in [Request -> {"unsent", "putting", "queued", "held", "busy", "stuck", "done"}]
    BY <2>2 DEF TypeOK
  <2>5. QED
    BY <2>1, <2>3, <2>4 DEF Fail, Ends, Released, TypeOK
<1>2. InvClean'
  BY DEF Fail, InvClean, TypeOK, Ends, Produces, Continues, Released
<1>3. InvQueue'
  BY DEF Fail, InvQueue, TypeOK, InvPhase, Ends, Produces, Continues,
     Released
<1>4. InvPhase'
  BY DEF Fail, InvPhase, TypeOK, InvClean, InvQueue, InvLive, InvCurrent,
     InvWaiting, InvCallbacks, Live, Waiting, Active, Ends, Produces,
     Continues, Released
<1>5. InvFresh'
  BY DEF Fail, InvFresh, TypeOK, InvQueue, InvPhase, Active, Ends, Produces,
     Continues, Released
<1>6. InvReplied'
  BY DEF Fail, InvReplied, TypeOK, InvQueue, InvPhase, Produces, Continues,
     Ends, Released
<1>7. InvLive'
  BY DEF Fail, InvLive, TypeOK, InvQueue, InvPhase, Live, Ends, Produces,
     Continues, Released
<1>8. InvCurrent'
  BY DEF Fail, InvCurrent, TypeOK, Ends, Produces, Continues, Released
<1>9. InvActive'
  BY DEF Fail, InvActive, TypeOK, InvQueue, InvPhase, InvLive, InvCurrent,
     Live, Active, Ends, Produces, Continues, Released
<1>10. InvWaiting'
  BY DEF Fail, InvWaiting, TypeOK, InvQueue, InvPhase, InvLive, InvCurrent,
     InvActive, Waiting, Active, Live, Ends, Produces, Continues, Released
<1>11. InvCallbacks'
  <2> DEFINE e == target[r]
  <2>1. e \in Request /\ SessionOf[e] = SessionOf[r] /\ current[SessionOf[r]] = e
    BY RunSorts DEF Fail
  <2>2. /\ callbacks' \subseteq callbacks \cup {e}
        /\ ~Active(e)'
        /\ \A q \in Request : Active(q)' => Active(q)
    BY <2>1 DEF Fail, Ends, Active, TypeOK
  <2>3. /\ phase' = [phase EXCEPT ![r] = "off"]
        /\ kind' = kind
        /\ \A q \in Request : Live(q)' => Live(q) /\ q # r
    BY DEF Fail, Live, TypeOK
  <2>4. \A q \in Request : SessionOf[q] = SessionOf[r] =>
            phase'[q] = "off" /\ ~Live(q)' /\ ~Active(q)'
    BY <2>1, <2>2, <2>3 DEF Fail, TypeOK, InvPhase, InvLive, InvActive, Live
  <2>5. QED
    BY <2>1, <2>2, <2>3, <2>4 DEF InvCallbacks, TypeOK
<1>12. QED
  BY <1>1, <1>2, <1>3, <1>4, <1>5, <1>6, <1>7, <1>8, <1>9, <1>10, <1>11

(* A refused turn is rolled back with its lock.                                  *)
LEMMA QuietRollBack == ASSUME QInv, NEW r \in Request, RollBack(r) PROVE QInv'
<1> USE QueueAssumption DEF QInv
<1>1. TypeOK'
  BY RunSorts DEF RollBack, TypeOK, queueVars, Finish, Released
<1>2. InvClean'
  BY DEF RollBack, InvClean, TypeOK, queueVars, Continues, Finish, Released
<1>3. InvQueue'
  BY DEF RollBack, InvQueue, TypeOK, InvPhase, queueVars, Continues, Finish,
     Released
<1>4. InvPhase'
  BY DEF RollBack, InvPhase, TypeOK, InvClean, InvQueue, InvLive,
     InvCurrent, InvWaiting, InvCallbacks, Live, Waiting, Active, queueVars,
     Continues, Finish, Released
<1>5. InvFresh'
  BY DEF RollBack, InvFresh, TypeOK, InvQueue, InvPhase, Active, queueVars,
     Continues, Finish, Released
<1>6. InvReplied'
  BY DEF RollBack, InvReplied, TypeOK, InvQueue, InvPhase, Produces,
     Continues, queueVars, Finish, Released
<1>7. InvLive'
  BY DEF RollBack, InvLive, TypeOK, InvQueue, InvPhase, Live, queueVars,
     Continues, Finish, Released
<1>8. InvCurrent'
  BY DEF RollBack, InvCurrent, TypeOK, queueVars, Continues, Finish,
     Released
<1>9. InvActive'
  BY DEF RollBack, InvActive, TypeOK, InvQueue, InvPhase, InvLive,
     InvCurrent, Live, Active, queueVars, Continues, Finish, Released
<1>10. InvWaiting'
  BY DEF RollBack, InvWaiting, TypeOK, InvQueue, InvPhase, InvLive,
     InvCurrent, InvActive, Waiting, Active, Live, queueVars, Continues,
     Finish, Released
<1>11. InvCallbacks'
  BY DEF RollBack, InvCallbacks, TypeOK, InvQueue, InvPhase, InvLive,
     InvCurrent, InvActive, InvWaiting, Waiting, Active, Live, queueVars,
     Continues, Finish, Released
<1>12. QED
  BY <1>1, <1>2, <1>3, <1>4, <1>5, <1>6, <1>7, <1>8, <1>9, <1>10, <1>11

(* The callback of a failed turn comes before anything new of its session.       *)
LEMMA QuietCallback == ASSUME QInv, NEW r \in Request, Callback(r) PROVE QInv'
<1> USE QueueAssumption DEF QInv
<1>1. TypeOK'
  BY DEF Callback, TypeOK, InvPhase, queueVars, Finish, Released
<1>2. InvClean'
  BY DEF Callback, InvClean, TypeOK, queueVars, Finish, Released
<1>3. InvQueue'
  BY DEF Callback, InvQueue, TypeOK, InvPhase, queueVars, Finish, Released
<1>4. InvPhase'
  BY DEF Callback, InvPhase, TypeOK, InvClean, InvQueue, InvLive,
     InvCurrent, InvWaiting, InvCallbacks, Live, Waiting, Active, queueVars,
     Finish, Released
<1>5. InvFresh'
  BY DEF Callback, InvFresh, TypeOK, InvQueue, InvPhase, Active, queueVars,
     Finish, Released
<1>6. InvReplied'
  BY DEF Callback, InvReplied, TypeOK, InvQueue, InvPhase, Produces,
     Continues, queueVars, Finish, Released
<1>7. InvLive'
  BY DEF Callback, InvLive, TypeOK, InvQueue, InvPhase, Live, queueVars,
     Finish, Released
<1>8. InvCurrent'
  BY DEF Callback, InvCurrent, TypeOK, queueVars, Finish, Released
<1>9. InvActive'
  BY DEF Callback, InvActive, TypeOK, InvQueue, InvPhase, InvLive,
     InvCurrent, Live, Active, queueVars, Finish, Released
<1>10. InvWaiting'
  BY DEF Callback, InvWaiting, TypeOK, InvQueue, InvPhase, InvLive,
     InvCurrent, InvActive, Waiting, Active, Live, queueVars, Finish,
     Released
<1>11. InvCallbacks'
  BY DEF Callback, InvCallbacks, TypeOK, InvQueue, InvPhase, InvLive,
     InvCurrent, InvActive, InvWaiting, Waiting, Active, Live, queueVars,
     Finish, Released
<1>12. QED
  BY <1>1, <1>2, <1>3, <1>4, <1>5, <1>6, <1>7, <1>8, <1>9, <1>10, <1>11

(* The tool timer ends an event at rest and gives up its lock.                   *)
LEMMA QuietToolTimeout == ASSUME QInv, NEW r \in Request, ToolTimeout(r) PROVE QInv'
<1> USE QueueAssumption DEF QInv
<1>1. TypeOK'
  BY DEF ToolTimeout, TypeOK, InvPhase, queueVars, reqVars, Active, Released
<1>2. InvClean'
  BY DEF ToolTimeout, InvClean, TypeOK, queueVars, reqVars, Active, Released
<1>3. InvQueue'
  BY DEF ToolTimeout, InvQueue, TypeOK, InvPhase, queueVars, reqVars,
     Active, Released
<1>4. InvPhase'
  BY DEF ToolTimeout, InvPhase, TypeOK, InvClean, InvQueue, InvLive,
     InvCurrent, InvWaiting, InvCallbacks, Live, Waiting, Active, queueVars,
     reqVars, Released
<1>5. InvFresh'
  BY DEF ToolTimeout, InvFresh, TypeOK, InvQueue, InvPhase, Active,
     queueVars, reqVars, Released
<1>6. InvReplied'
  BY DEF ToolTimeout, InvReplied, TypeOK, InvQueue, InvPhase, Produces,
     Continues, queueVars, reqVars, Active, Released
<1>7. InvLive'
  BY DEF ToolTimeout, InvLive, TypeOK, InvQueue, InvPhase, Live, queueVars,
     reqVars, Active, Released
<1>8. InvCurrent'
  BY DEF ToolTimeout, InvCurrent, TypeOK, queueVars, reqVars, Active,
     Released
<1>9. InvActive'
  BY DEF ToolTimeout, InvActive, TypeOK, InvQueue, InvPhase, InvLive,
     InvCurrent, Live, Active, queueVars, reqVars, Released
<1>10. InvWaiting'
  BY DEF ToolTimeout, InvWaiting, TypeOK, InvQueue, InvPhase, InvLive,
     InvCurrent, InvActive, Waiting, Active, Live, queueVars, reqVars,
     Released
<1>11. InvCallbacks'
  BY DEF ToolTimeout, InvCallbacks, TypeOK, InvQueue, InvPhase, InvLive,
     InvCurrent, InvActive, InvWaiting, Waiting, Active, Live, queueVars,
     reqVars, Released
<1>12. QED
  BY <1>1, <1>2, <1>3, <1>4, <1>5, <1>6, <1>7, <1>8, <1>9, <1>10, <1>11

(* What the discipline of the clients gives: whoever sends is alone.              *)
LEMMA SenderAlone ==
    ASSUME QInv, env = {}, NEW r \in Request, pc[r] = "unsent", MaySend(r)
    PROVE  /\ phase[r] = "off"
           /\ \A q \in Request : SessionOf[q] = SessionOf[r] => ~Live(q) /\ phase[q] = "off"
           /\ \A e \in callbacks : SessionOf[e] # SessionOf[r]
  BY DEF QInv, TypeOK, MaySend, InvReplied, InvPhase, Live

(* A request alone in its session, let through by the gate: its user message finds*)
(* no active event, its tool answer one that waits, and what it starts keeps QInv.*)
LEMMA QuietProcess ==
    ASSUME QInv, env = {}, NEW r \in Request, NEW k \in {"turn", "tool"},
           MayEnter(SessionOf[r]), r \notin queue, r \notin replied,
           pc[r] \in {"unsent", "held"},
           \A q \in Request : SessionOf[q] = SessionOf[r] =>
               phase[q] = "off" /\ (Live(q) => q = r),
           k = "turn" => \A e \in callbacks : SessionOf[e] # SessionOf[r],
           k = "turn" => \A e \in Request : SessionOf[e] = SessionOf[r] => ~Waiting(e),
           Process(r, k), kind' = [kind EXCEPT ![r] = k],
           UNCHANGED queueVars, UNCHANGED env
    PROVE  QInv'
<1> DEFINE s == SessionOf[r]
           e == current[s]
<1> USE QueueAssumption DEF QInv
<1>a. s \in Session /\ (e # None => e \in Request /\ SessionOf[e] = s)
  <2>1. s \in Session
    OBVIOUS
  <2>2. e \in Request \cup {None}
    BY <2>1 DEF TypeOK
  <2>3. QED
    BY <2>1, <2>2 DEF InvCurrent
<1>b. \A q \in Request : Active(q) /\ SessionOf[q] = s => q = e /\ Waiting(q)
  <2> SUFFICES ASSUME NEW q \in Request, Active(q), SessionOf[q] = s
               PROVE  q = e /\ Waiting(q)
    OBVIOUS
  <2>1. q = e
    BY DEF InvActive
  <2>2. ASSUME NEW p \in Request, phase[p] # "off", target[p] = q
        PROVE  FALSE
    BY <2>2, RunSorts
  <2>3. QED
    BY <2>1, <2>2 DEF InvActive, Waiting
<1>c. \A q \in Request : phase[q] # "off" => activeSession = SessionOf[q] /\ SessionOf[q] # s
  BY DEF InvPhase
<1>d. activeSession \in {None, s} /\ \A q \in Request : phase[q] = "off"
  <2>1. activeSession \in {None, s}
    BY DEF MayEnter
  <2>2. \A q \in Request : SessionOf[q] # None
    OBVIOUS
  <2>3. QED
    BY <1>c, <2>1, <2>2
<1>1. CASE Refuse(r) /\ UNCHANGED eventVars
  <2>1. TypeOK' /\ InvClean' /\ InvQueue' /\ InvPhase' /\ InvFresh' /\ InvCurrent'
    BY <1>1, <1>d DEF Refuse, Finish, Released, eventVars, queueVars, TypeOK, InvClean,
       InvQueue, InvPhase, InvFresh, InvCurrent
  <2>2. InvReplied' /\ InvLive'
    BY <1>1 DEF Refuse, Finish, eventVars, TypeOK, InvReplied, InvLive, Live, Produces, Continues
  <2>3. InvActive'
    BY <1>1, <1>d DEF Refuse, Finish, eventVars, TypeOK, InvActive, Active
  <2>4. InvWaiting' /\ InvCallbacks'
    BY <1>1, <1>d DEF Refuse, Finish, eventVars, TypeOK, InvWaiting, InvCallbacks, Active,
       Waiting, Live
  <2>5. QED
    BY <2>1, <2>2, <2>3, <2>4
<1>2. CASE /\ ToolCall(e) /\ Refuse(r)
           /\ tool' = [tool EXCEPT ![e] = "waiting"]
           /\ UNCHANGED <<current, state, cancelled, killed, callbacks>>
  <2>1. e \in Request /\ Waiting(e)
    BY <1>2, <1>a, <1>b DEF ToolCall, Active
  <2>2. UNCHANGED eventVars
    BY <1>2, <2>1 DEF Waiting, eventVars, TypeOK
  <2>3. QED
    BY <1>1, <1>2, <2>2
<1>3. CASE /\ ToolCall(e) /\ Start(r, e)
           /\ tool' = [tool EXCEPT ![e] = "answered"]
           /\ UNCHANGED <<current, state, cancelled, killed, callbacks>>
  <2>1. e \in Request /\ SessionOf[e] = s /\ Active(e)
    BY <1>3, <1>a, <1>b DEF ToolCall, Active
  <2>2. \A c \in callbacks : SessionOf[c] # s
    BY <2>1 DEF InvCallbacks
  <2>3. TypeOK' /\ InvClean' /\ InvQueue' /\ InvPhase' /\ InvFresh' /\ InvCurrent'
    BY <1>3, <1>d, <1>a, <2>1 DEF Start, queueVars, TypeOK, InvClean, InvQueue, InvPhase,
       InvFresh, InvCurrent, Active
  <2>4. InvReplied' /\ InvLive'
    BY <1>3, <2>1 DEF Start, TypeOK, InvReplied, InvLive, Live, Produces, Continues
  <2>5. InvActive'
    BY <1>3, <1>b, <1>d, <2>1 DEF Start, TypeOK, InvActive, Active
  <2>6. InvWaiting'
    BY <1>3, <1>b, <1>d, <2>1 DEF Start, TypeOK, InvWaiting, Active, Waiting, Live
  <2>7. InvCallbacks'
    BY <1>3, <1>d, <2>1, <2>2 DEF Start, TypeOK, InvCallbacks, Active, Live
  <2>8. QED
    BY <2>3, <2>4, <2>5, <2>6, <2>7
<1>4. CASE NewTurn(r) /\ k = "turn" /\ ~ToolCall(e)
  <2>1. \A q \in Request : SessionOf[q] = s => ~Active(q)
    BY <1>4, <1>b DEF Waiting, ToolCall, Active
  <2>2. UNCHANGED <<cancelled, killed, tool, callbacks>>
    BY <1>4, <1>a, <2>1 DEF NewTurn, Active, ToolCall
  <2>3. CASE /\ Refuse(r)
             /\ state' = [state EXCEPT ![r] = "dropped"]
             /\ current' = [current EXCEPT ![s] = None]
    <3>1. TypeOK' /\ InvClean' /\ InvQueue' /\ InvPhase' /\ InvFresh' /\ InvCurrent'
      BY <2>3, <2>2, <1>d DEF Refuse, Finish, Released, queueVars, TypeOK, InvClean,
         InvQueue, InvPhase, InvFresh, InvCurrent
    <3>2. InvReplied' /\ InvLive'
      BY <2>3, <2>2 DEF Refuse, Finish, TypeOK, InvReplied, InvLive, Live, Produces, Continues
    <3>3. InvActive'
      BY <2>3, <2>2, <2>1, <1>d, <1>a DEF Refuse, Finish, TypeOK, InvActive, Active
    <3>4. InvWaiting' /\ InvCallbacks'
      BY <2>3, <2>2, <2>1, <1>d DEF Refuse, Finish, TypeOK, InvWaiting, InvCallbacks, Active,
         Waiting, Live
    <3>5. QED
      BY <3>1, <3>2, <3>3, <3>4
  <2>4. CASE /\ Start(r, r)
             /\ state' = [state EXCEPT ![r] = "ACTIVE"]
             /\ current' = [current EXCEPT ![s] = r]
    <3>1. TypeOK' /\ InvClean' /\ InvQueue' /\ InvPhase' /\ InvFresh' /\ InvCurrent'
      BY <2>4, <2>2, <1>d, <1>a DEF Start, queueVars, TypeOK, InvClean, InvQueue, InvPhase,
         InvFresh, InvCurrent
    <3>2. InvReplied' /\ InvLive'
      BY <2>4, <2>2 DEF Start, TypeOK, InvReplied, InvLive, Live, Produces, Continues
    <3>3. InvActive'
      BY <2>4, <2>2, <2>1, <1>d, <1>a DEF Start, TypeOK, InvActive, Active
    <3>4. InvWaiting'
      <4>1. ~Waiting(r)'
        BY <2>2 DEF InvFresh, Waiting
      <4>2. QED
        BY <2>4, <2>2, <2>1, <1>d, <4>1 DEF Start, TypeOK, InvWaiting, Active, Waiting, Live
    <3>5. InvCallbacks'
      BY <2>4, <2>2, <1>d, <1>4 DEF Start, TypeOK, InvCallbacks, Active, Live
    <3>6. QED
      BY <3>1, <3>2, <3>3, <3>4, <3>5
  <2>5. QED
    BY <1>4, <2>3, <2>4 DEF NewTurn, ToolCall
<1>5. QED
  BY <1>1, <1>2, <1>3, <1>4 DEF Process, ContinueTool, NewTurn

(* A request on the fast path.                                                   *)
LEMMA QuietSend == ASSUME QInv, env = {}, NEW r \in Request, Send(r) PROVE QInv'
<1> USE QueueAssumption
<1>1. pc[r] = "unsent" /\ MaySend(r) /\ r \notin queue /\ r \notin replied /\ env' = env
  BY DEF Send, QInv, InvQueue, InvReplied
<1>2. PICK k \in {"turn", "tool"} :
         /\ MaySay(r, k)
         /\ kind' = [kind EXCEPT ![r] = k]
         /\ \/ MayEnter(SessionOf[r]) /\ Process(r, k) /\ UNCHANGED queueVars
            \/ /\ ~MayEnter(SessionOf[r])
               /\ pc' = [pc EXCEPT ![r] = "putting"]
               /\ ticket' = [ticket EXCEPT ![r] = 1 + Cardinality({q \in Request : ticket[q] > 0})]
               /\ UNCHANGED <<lockVars, queue, worker, target, phase, replied, eventVars>>
  BY DEF Send
<1>3. /\ \A q \in Request : SessionOf[q] = SessionOf[r] => ~Live(q) /\ phase[q] = "off"
      /\ \A c \in callbacks : SessionOf[c] # SessionOf[r]
  BY <1>1, SenderAlone
<1>4. k = "turn" => \A e \in Request : SessionOf[e] = SessionOf[r] => ~Waiting(e)
  <2>1. ASSUME NEW e \in Request, SessionOf[e] = SessionOf[r], Waiting(e)
        PROVE  current[SessionOf[r]] = e /\ ToolCall(e)
    BY <2>1 DEF QInv, InvActive, Waiting, ToolCall
  <2>2. QED
    BY <1>2, <2>1 DEF MaySay
<1>5. CASE MayEnter(SessionOf[r]) /\ Process(r, k) /\ UNCHANGED queueVars
  BY <1>1, <1>2, <1>3, <1>4, <1>5, QuietProcess
<1>6. CASE /\ pc' = [pc EXCEPT ![r] = "putting"]
           /\ ticket' = [ticket EXCEPT ![r] = 1 + Cardinality({q \in Request : ticket[q] > 0})]
           /\ UNCHANGED <<lockVars, queue, worker, target, phase, replied, eventVars>>
  <2>1. Cardinality({q \in Request : ticket[q] > 0}) \in Nat
    BY FS_Subset, FS_CardinalityType
  <2>2. TypeOK'
    BY <1>1, <1>2, <1>6, <2>1 DEF QInv, TypeOK, lockVars, eventVars
  <2>3. InvClean' /\ InvQueue' /\ InvPhase' /\ InvFresh' /\ InvReplied' /\ InvCurrent'
    BY <1>1, <1>6 DEF QInv, TypeOK, lockVars, eventVars, InvClean, InvQueue, InvPhase,
       InvFresh, InvReplied, InvCurrent, Produces, Continues
  <2>4. InvLive' /\ InvActive'
    BY <1>1, <1>3, <1>6 DEF QInv, TypeOK, eventVars, InvLive, InvActive, Live, Active
  <2>5. InvWaiting' /\ InvCallbacks'
    BY <1>2, <1>3, <1>4, <1>6 DEF QInv, TypeOK, eventVars, InvWaiting, InvCallbacks, Live,
       Waiting, Active
  <2>6. QED
    BY <2>2, <2>3, <2>4, <2>5 DEF QInv
<1>7. QED
  BY <1>2, <1>5, <1>6

(* The worker processes the item it holds.                                       *)
LEMMA QuietWorker == ASSUME QInv, env = {}, WorkerProcesses PROVE QInv'
<1> DEFINE r == worker
<1> USE QueueAssumption DEF QInv
<1>1. /\ r \in Request /\ pc[r] = "held" /\ kind[r] \in {"turn", "tool"}
      /\ MayEnter(SessionOf[r]) /\ Process(r, kind[r])
      /\ UNCHANGED queueVars /\ kind' = kind /\ UNCHANGED env
  BY DEF WorkerProcesses, TypeOK
<1>2. r \notin queue /\ r \notin replied /\ Live(r)
  BY <1>1 DEF InvQueue, InvReplied, Live
<1>3. \A q \in Request : SessionOf[q] = SessionOf[r] => phase[q] = "off" /\ (Live(q) => q = r)
  BY <1>1, <1>2 DEF InvPhase, InvLive, Live
<1>4. kind[r] = "turn" => /\ \A c \in callbacks : SessionOf[c] # SessionOf[r]
                          /\ \A e \in Request : SessionOf[e] = SessionOf[r] => ~Waiting(e)
  BY <1>1, <1>2 DEF InvWaiting, InvCallbacks
<1>5. kind' = [kind EXCEPT ![r] = kind[r]]
  BY <1>1 DEF TypeOK
<1>6. QED
  BY <1>1, <1>2, <1>3, <1>4, <1>5, QuietProcess

(* The inductive step: what needs a member of env cannot happen.                  *)
LEMMA QuietNext == ASSUME QInv, env = {}, [Next]_vars PROVE QInv'
<1>1. ASSUME NEW r \in Request, Client(r) PROVE QInv'
  BY <1>1, QuietSend DEF Client, QueueTimeout, HangUp
<1>2. ASSUME NEW r \in Request, Run(r) PROVE QInv'
  <2>1. ~Abort(r) /\ ~OrphanEnds(r)
    BY DEF Abort, OrphanEnds, QInv, InvClean
  <2>2. QED
    BY <1>2, <2>1, QuietPut, QuietRejectFull, QuietWorkerTakes, QuietCallTool, QuietAnswer,
       QuietEndTurn, QuietFail, QuietRollBack, QuietCallback, QuietToolTimeout DEF Run
<1>3. CASE WorkerProcesses
  BY <1>3, QuietWorker
<1>4. CASE Watchdog \/ \E s \in Session : Cancel(s)
  BY <1>4 DEF Watchdog, Cancel
<1>5. CASE UNCHANGED vars
  BY <1>5 DEF vars, QInv, TypeOK, InvClean, InvQueue, InvPhase, InvFresh, InvReplied, InvLive,
     InvCurrent, InvActive, InvWaiting, InvCallbacks, Live, Waiting, Active, Produces, Continues
<1>6. QED
  BY <1>1, <1>2, <1>3, <1>4, <1>5 DEF Next

(* The environment of a behaviour is chosen at its start.                         *)
LEMMA EnvStays == [Next]_vars => env' = env
  BY DEF Next, vars, Client, Run, Send, QueueTimeout, HangUp, Put, RejectFull, WorkerTakes,
     CallTool, Answer, EndTurn, Fail, RollBack, Abort, OrphanEnds, Callback, ToolTimeout,
     WorkerProcesses, Cancel, Watchdog

(* The invariant of an undisturbed queue holds always.                            *)
LEMMA QuietAlways == Spec => [](Undisturbed => QInv)
<1>1. Init => (Undisturbed => QInv)
  BY QuietInit
<1>2. (Undisturbed => QInv) /\ [Next]_vars => (Undisturbed => QInv)'
  BY EnvStays, QuietNext DEF Undisturbed
<1>3. QED
  BY <1>1, <1>2, PTL DEF Spec

(* Type correctness of an undisturbed queue.                                      *)
THEOREM QueueTypeOK == Spec => [](Undisturbed => TypeOK)
<1>1. (Undisturbed => QInv) => (Undisturbed => TypeOK)
  BY DEF QInv
<1>2. QED
  BY <1>1, QuietAlways, PTL

(* Nothing takes the lock from under the event that works: _process_request_with_ *)
(* lock_held, its callbacks and its error paths release it only at rest.          *)
THEOREM LockCoversWork == Spec => []WorkHoldsLock
<1>1. (Undisturbed => QInv) => WorkHoldsLock
  BY DEF QInv, InvPhase, WorkHoldsLock, Working
<1>2. QED
  BY <1>1, QuietAlways, PTL

(* In a state of the invariant one request has a run on the accelerator.          *)
LEMMA OneRun == (Undisturbed => QInv) => OneOnDsp
<1> SUFFICES ASSUME QInv, NEW q \in Request, NEW r \in Request, Working(q), Working(r)
             PROVE  q = r
  BY DEF OneOnDsp
<1>1. phase[q] # "off" /\ phase[r] # "off"
  BY DEF Working
<1>2. SessionOf[q] = SessionOf[r] /\ Live(q) /\ Live(r)
  BY <1>1 DEF QInv, InvPhase, Live
<1>3. QED
  BY <1>2 DEF QInv, InvLive

(* The core guarantee of the queue manager: one event at a time on the DSP, for   *)
(* any sessions and requests.                                                     *)
THEOREM OneEventOnDsp == Spec => []OneOnDsp
  BY OneRun, QuietAlways, PTL

-----------------------------------------------------------------------------
(* The lock changes hands only where a request starts.                            *)
Starts == \E r \in Request : /\ MayEnter(SessionOf[r])
                             /\ activeSession' = SessionOf[r]
                             /\ phase'[r] = "infer"

(* Every step, seen at the gate.                                                 *)
LEMMA LockStep ==
    ASSUME QInv, env = {}, [Next]_vars
    PROVE  activeSession' \in {activeSession, None} \/ Starts
<1> DEFINE Keeps == activeSession' \in {activeSession, None}
<1>1. ASSUME NEW r \in Request, NEW k \in {"turn", "tool"}, MayEnter(SessionOf[r]), Process(r, k)
      PROVE  Keeps \/ Starts
  BY <1>1 DEF Process, ContinueTool, NewTurn, Refuse, Start, Released, Starts, QInv, TypeOK
<1>2. ASSUME NEW r \in Request, Send(r) PROVE Keeps \/ Starts
  BY <1>1, <1>2 DEF Send, lockVars
<1>3. CASE WorkerProcesses
  BY <1>1, <1>3 DEF WorkerProcesses, QInv, TypeOK
<1>4. ASSUME NEW r \in Request, Run(r) PROVE Keeps
  BY <1>4 DEF Run, Put, RejectFull, WorkerTakes, CallTool, Answer, EndTurn, Fail, RollBack, Abort,
     OrphanEnds, Callback, ToolTimeout, AfterHandler, Released, lockVars
<1>5. ASSUME NEW r \in Request, QueueTimeout(r) \/ HangUp(r) PROVE FALSE
  BY <1>5 DEF QueueTimeout, HangUp
<1>6. CASE Watchdog \/ \E s \in Session : Cancel(s)
  BY <1>6 DEF Watchdog, Cancel
<1>7. CASE UNCHANGED vars
  BY <1>7 DEF vars
<1>8. QED
  BY <1>2, <1>3, <1>4, <1>5, <1>6, <1>7 DEF Next, Client

(* In terms of the gate: only the session at the gate works.                      *)
LEMMA GateState ==
    ASSUME QInv
    PROVE  LET W == {SessionOf[r] : r \in {q \in Request : Working(q)}}
           IN W = {} \/ (W = {activeSession} /\ activeSession \in Session)
<1> DEFINE W == {SessionOf[r] : r \in {q \in Request : Working(q)}}
<1>1. \A r \in Request : Working(r) => SessionOf[r] = activeSession /\ SessionOf[r] \in Session
  BY QueueAssumption DEF QInv, InvPhase, Working
<1>2. \A x \in W : x = activeSession /\ x \in Session
  BY <1>1
<1>3. QED
  BY <1>2

(* The step of an undisturbed queue, seen at the gate.                            *)
LEMMA GateStep ==
    ASSUME QInv, QInv', env = {}, env' = {}, [Next]_vars
    PROVE  [Gate!Next]_Gate!vars
<1> DEFINE W == {SessionOf[r] : r \in {q \in Request : Working(q)}}
<1> DEFINE turn == IF Undisturbed THEN activeSession ELSE None
           working == IF Undisturbed THEN W ELSE {}
<1>0. turn = activeSession /\ turn' = activeSession' /\ working = W /\ working' = W'
  BY DEF Undisturbed
<1>1. W = {} \/ (W = {activeSession} /\ activeSession \in Session)
  BY GateState
<1>2. W' = {} \/ (W' = {activeSession'} /\ activeSession' \in Session)
  <2>1. \A r \in Request : Working(r)' =>
            SessionOf[r] = activeSession' /\ SessionOf[r] \in Session
    BY QueueAssumption DEF QInv, InvPhase, Working
  <2>2. \A x \in W' : x = activeSession' /\ x \in Session
    BY <2>1
  <2>3. QED
    BY <2>2
<1>3. activeSession \in Session \cup {None} /\ None \notin Session
  BY QueueAssumption DEF QInv, TypeOK
<1>4. CASE Starts
  <2>1. PICK r \in Request : /\ MayEnter(SessionOf[r])
                             /\ activeSession' = SessionOf[r]
                             /\ phase'[r] = "infer"
    BY <1>4 DEF Starts
  <2>2. Working(r)'
    BY <2>1, QueueAssumption DEF QInv, InvClean, InvPhase, Working
  <2>3. W' = {SessionOf[r]} /\ SessionOf[r] \in Session
    BY <1>2, <2>1, <2>2
  <2>4. Gate!Enter(SessionOf[r])
    BY <1>0, <2>1, <2>3 DEF Gate!Enter, MayEnter
  <2>5. QED
    BY <2>3, <2>4 DEF Gate!Next
<1>5. CASE activeSession' = activeSession
  BY <1>0, <1>1, <1>2, <1>3, <1>5 DEF Gate!Next, Gate!Enter, Gate!Rest, Gate!vars
<1>6. CASE activeSession' = None /\ activeSession # None
  BY <1>0, <1>2, <1>3, <1>6 DEF Gate!Next, Gate!Leave
<1>7. QED
  BY <1>4, <1>5, <1>6, LockStep DEF QInv, TypeOK

(* The queue of an undisturbed service implements TurnGate; in another environment*)
(* the mapping shows a gate at rest.                                              *)
THEOREM QueueImplementsGate == Spec => GateSpec
<1>1. Init => Gate!Init
  BY DEF Init, Gate!Init, Working
<1>2. ASSUME Undisturbed => QInv, (Undisturbed => QInv)', [Next]_vars
      PROVE  [Gate!Next]_Gate!vars
  <2>1. env' = env
    BY <1>2, EnvStays
  <2>2. CASE env = {}
    BY <1>2, <2>1, <2>2, GateStep DEF Undisturbed
  <2>3. CASE env # {}
    BY <2>1, <2>3 DEF Undisturbed, Gate!vars
  <2>4. QED
    BY <2>2, <2>3
<1>3. QED
  BY <1>1, <1>2, QuietAlways, PTL DEF Spec, Gate!Spec, GateSpec
=====
