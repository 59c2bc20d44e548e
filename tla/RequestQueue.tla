---- MODULE RequestQueue ----
(* The request queue of chatcompletions in ADHOC_MODE                             *)
(* (managers/request_queue_manager.py) with the part of the chat handler and of   *)
(* the text event it drives: which session holds the DSP lock, the priority queue *)
(* and its worker, the completion callbacks, the tool wait, cancellation, the     *)
(* watchdog and the clients. Everything runs on one event loop: an action is what *)
(* runs between two awaits that can suspend.                                      *)
EXTENDS Integers, FiniteSets

CONSTANTS
    Session,      \* conversations
    Request,      \* the requests the clients may send, each at most once
    SessionOf,    \* the session a request was resolved to
    Streaming,    \* the requests with stream = true
    QueueSize,    \* MAX_QUEUE_SIZE
    Envs,         \* the environments to consider: sets of EnvEvents
    None

(* overlap: a client sends before its last request is answered; early: it takes   *)
(* the [DONE] of a stream for its end; conflict: it sends a user message where a  *)
(* tool answer is due; timeout: it waits REQUEST_TIMEOUT in the queue; cancel: it *)
(* uses the cancel endpoint; hangup: it drops a stream; silence: the watchdog     *)
(* sees no token for TOKEN_SILENCE_TIMEOUT.                                       *)
EnvEvents == {"overlap", "early", "conflict", "timeout", "cancel", "hangup", "silence"}

ASSUME QueueAssumption ==
    /\ SessionOf \in [Request -> Session] /\ IsFiniteSet(Request)
    /\ Streaming \subseteq Request
    /\ QueueSize \in Nat \ {0}
    /\ Envs \subseteq SUBSET EnvEvents
    /\ None \notin Session \cup Request

VARIABLES
    env,           \* what clients and time may do, chosen once
    activeSession, \* active_session_id
    queue,         \* requests in the priority queue
    ticket,        \* order of arrival of the queued requests (_request_counter)
    worker,        \* the item the worker took last, or None
    pc,            \* where a request is
    kind,          \* "turn" or "tool": what its last message is
    target,        \* the event a request works on; an event is named by the
                   \* request that created it
    phase,         \* what the request does on the accelerator
    replied,       \* requests whose client has its answer
    current,       \* session.current_event
    state,         \* EventState of an event
    tool,          \* the tool wait of an event
    cancelled,     \* events with is_cancelled
    killed,        \* events whose process got a SIGKILL
    callbacks      \* events whose completion callback is a task yet to run

vars == <<env, activeSession, queue, ticket, worker, pc, kind, target, phase, replied,
          current, state, tool, cancelled, killed, callbacks>>

lockVars   == <<activeSession>>
queueVars  == <<queue, ticket, worker>>
reqVars    == <<pc, kind, target, phase, replied>>
eventVars  == <<current, state, tool, cancelled, killed, callbacks>>

TypeOK ==
    /\ env \in Envs
    /\ activeSession \in Session \cup {None}
    /\ queue \subseteq Request
    /\ ticket \in [Request -> Nat]
    /\ worker \in Request \cup {None}
    /\ pc \in [Request -> {"unsent", "putting", "queued", "held", "busy", "stuck", "done"}]
    /\ kind \in [Request -> {"turn", "tool"}]
    /\ target \in [Request -> Request \cup {None}]
    /\ phase \in [Request -> {"off", "infer", "post", "orphan"}]
    /\ replied \subseteq Request
    /\ current \in [Session -> Request \cup {None}]
    /\ state \in [Request -> {"none", "ACTIVE", "COMPLETED", "FAILED", "CANCELLED", "dropped"}]
    /\ tool \in [Request -> {"none", "waiting", "answered", "expired"}]
    /\ cancelled \subseteq Request /\ killed \subseteq Request
    /\ callbacks \subseteq Request

Init ==
    /\ env \in Envs
    /\ activeSession = None
    /\ queue = {} /\ worker = None
    /\ ticket = [r \in Request |-> 0]
    /\ pc = [r \in Request |-> "unsent"]
    /\ kind = [r \in Request |-> "turn"]
    /\ target = [r \in Request |-> None]
    /\ phase = [r \in Request |-> "off"]
    /\ replied = {}
    /\ current = [s \in Session |-> None]
    /\ state = [r \in Request |-> "none"]
    /\ tool = [r \in Request |-> "none"]
    /\ cancelled = {} /\ killed = {} /\ callbacks = {}

-----------------------------------------------------------------------------
(* The event loop's view of an event and of a request.                            *)

Active(e)     == e # None /\ state[e] = "ACTIVE"
ToolCall(e)   == Active(e) /\ tool[e] \in {"waiting", "answered"}
Continues(r)  == target[r] # r       \* a tool answer: works on an older event
Produces(r)   == r \in Streaming /\ ~Continues(r)   \* runs as a producer task

MayEnter(s) == activeSession \in {None, s}

(* Mutant: the callback forgets whose lock it gives up.                           *)
ReleasedBlindly(s) == None

(* handle_event_completion with a final state: only the holder's lock is given up.*)
Released(s) == IF activeSession = s THEN None ELSE activeSession

Finish(r) ==
    /\ pc' = [pc EXCEPT ![r] = "done"]
    /\ replied' = replied \cup {r}

(* Mutant: the error path forgets the lock.                                       *)
RefuseAndHold(r) ==
    /\ activeSession' = SessionOf[r]
    /\ Finish(r)
    /\ UNCHANGED <<target, phase>>

(* The handler refuses the request with an HTTPException: the lock goes, whatever *)
(* event the session still has.                                                   *)
Refuse(r) ==
    /\ activeSession' = Released(SessionOf[r])
    /\ Finish(r)
    /\ UNCHANGED <<target, phase>>

(* The request takes the lock and begins to work on event e.                      *)
Start(r, e) ==
    /\ activeSession' = SessionOf[r]
    /\ target' = [target EXCEPT ![r] = e]
    /\ phase' = [phase EXCEPT ![r] = "infer"]
    /\ pc' = [pc EXCEPT ![r] = "busy"]
    /\ UNCHANGED replied

(* A continuation: timed out or not expected (408), too long for the context      *)
(* (400, the wait is restored), or accepted.                                      *)
ContinueTool(r) ==
    LET e == current[SessionOf[r]] IN
    \/ ~ToolCall(e) /\ Refuse(r) /\ UNCHANGED eventVars
    \/ /\ ToolCall(e)
       /\ tool' = [tool EXCEPT ![e] = "waiting"]
       /\ Refuse(r)
       /\ UNCHANGED <<current, state, cancelled, killed, callbacks>>
    \/ /\ ToolCall(e)
       /\ tool' = [tool EXCEPT ![e] = "answered"]
       /\ Start(r, e)
       /\ UNCHANGED <<current, state, cancelled, killed, callbacks>>

(* cancel_active_event marks the event and kills its process.                     *)
Kill(e) ==
    /\ cancelled' = cancelled \cup {e}
    /\ killed' = killed \cup {e}

(* A user message: refused while a tool answer is due (409); otherwise a new event*)
(* replaces the current one. A message that is already in the history cancels the *)
(* active event first. Validation may refuse the new event (400), which drops it. *)
NewTurn(r) ==
    LET s == SessionOf[r]
        e == current[s]
        repeats == UNCHANGED <<cancelled, killed>> \/ (Active(e) /\ Kill(e))
    IN
    \/ ToolCall(e) /\ Refuse(r) /\ UNCHANGED eventVars
    \/ /\ ~ToolCall(e) /\ repeats
       /\ Refuse(r)
       /\ state' = [state EXCEPT ![r] = "dropped"]
       /\ current' = [current EXCEPT ![s] = None]
       /\ UNCHANGED <<tool, callbacks>>
    \/ /\ ~ToolCall(e) /\ repeats
       /\ Start(r, r)
       /\ state' = [state EXCEPT ![r] = "ACTIVE"]
       /\ current' = [current EXCEPT ![s] = r]
       /\ UNCHANGED <<tool, callbacks>>

(* _process_request_with_lock_held up to the first token.                         *)
Process(r, k) == IF k = "tool" THEN ContinueTool(r) ELSE NewTurn(r)

-----------------------------------------------------------------------------
(* Clients and the queue.                                                         *)

(* A client that waits sends its next message when the last one is answered; the  *)
(* callback of a failed turn is run by the loop before the answer is on the wire. *)
MaySend(r) ==
    \/ "overlap" \in env
    \/ /\ \A q \in Request \ {r} :
            SessionOf[q] = SessionOf[r] /\ pc[q] # "unsent" =>
              /\ q \in replied
              /\ pc[q] = "busy" /\ Produces(q) => "early" \in env
       /\ \A e \in callbacks : SessionOf[e] # SessionOf[r]

MaySay(r, k) ==
    LET e == current[SessionOf[r]] IN
    IF k = "tool" THEN e # None /\ tool[e] \in {"waiting", "expired"}
                  ELSE ToolCall(e) => env \cap {"conflict", "overlap"} # {}

(* enqueue_request: on the fast path the lock is taken and the request processed, *)
(* otherwise it is given a ticket and put into the queue.                         *)
Send(r) ==
    /\ pc[r] = "unsent" /\ MaySend(r)
    /\ UNCHANGED env
    /\ \E k \in {"turn", "tool"} :
         /\ MaySay(r, k)
         /\ kind' = [kind EXCEPT ![r] = k]
         /\ \/ /\ MayEnter(SessionOf[r])
               /\ Process(r, k)
               /\ UNCHANGED queueVars
            \/ /\ ~MayEnter(SessionOf[r])
               /\ pc' = [pc EXCEPT ![r] = "putting"]
               /\ ticket' = [ticket EXCEPT ![r] = 1 + Cardinality({q \in Request : ticket[q] > 0})]
               /\ UNCHANGED <<lockVars, queue, worker, target, phase, replied, eventVars>>

Put(r) ==
    /\ pc[r] = "putting" /\ Cardinality(queue) < QueueSize
    /\ queue' = queue \cup {r}
    /\ pc' = [pc EXCEPT ![r] = "queued"]
    /\ UNCHANGED <<env, lockVars, ticket, worker, kind, target, phase, replied, eventVars>>

(* The queue stayed full for five seconds: 503.                                   *)
RejectFull(r) ==
    /\ pc[r] = "putting" /\ Cardinality(queue) >= QueueSize
    /\ Finish(r)
    /\ UNCHANGED <<env, lockVars, queueVars, kind, target, phase, eventVars>>

(* wait_for(future, REQUEST_TIMEOUT) gives up: 504. The item stays where it is.   *)
QueueTimeout(r) ==
    /\ "timeout" \in env
    /\ ticket[r] > 0 /\ pc[r] \in {"queued", "held", "busy"} /\ r \notin replied
    /\ replied' = replied \cup {r}
    /\ UNCHANGED <<env, lockVars, queueVars, pc, kind, target, phase, eventVars>>

Priority(r) == IF kind[r] = "tool" THEN 0 ELSE 1

Before(q, r) ==
    \/ Priority(q) < Priority(r)
    \/ Priority(q) = Priority(r) /\ ticket[q] < ticket[r]

(* Mutant: the worker is never free again.                                        *)
WorkerFreeOnce == worker = None

(* The worker awaits the item it took until the response exists: for a stream     *)
(* that is when the producer was started.                                         *)
WorkerFree ==
    worker # None => pc[worker] = "done" \/ (pc[worker] = "busy" /\ Produces(worker))

(* An item whose client has given up is skipped.                                  *)
WorkerTakes(r) ==
    /\ WorkerFree
    /\ r \in queue /\ \A q \in queue \ {r} : Before(r, q)
    /\ queue' = queue \ {r}
    /\ worker' = r
    /\ pc' = [pc EXCEPT ![r] = IF r \in replied THEN "done" ELSE "held"]
    /\ UNCHANGED <<env, lockVars, ticket, kind, target, phase, replied, eventVars>>

WorkerProcesses ==
    /\ worker # None /\ pc[worker] = "held"
    /\ MayEnter(SessionOf[worker])
    /\ Process(worker, kind[worker])
    /\ UNCHANGED <<env, queueVars, kind>>

-----------------------------------------------------------------------------
(* The run of an event and what follows it.                                       *)

(* What _process_request_with_lock_held does with the session's current event     *)
(* (cur) in its new state (st) when the handler has returned without streaming.   *)
AfterHandler(r, cur, st) ==
    LET s == SessionOf[r] IN
    /\ activeSession' = IF cur = None THEN None
                        ELSE IF st = "COMPLETED" THEN Released(s)
                        ELSE activeSession
    /\ IF cur # None /\ st \in {"FAILED", "CANCELLED"}
       THEN pc' = [pc EXCEPT ![r] = "stuck"] /\ UNCHANGED replied
       ELSE Finish(r)

(* The model asks for a tool: the event stays active, its timer starts, the lock  *)
(* is kept.                                                                       *)
CallTool(r) ==
    LET e == target[r]
        s == SessionOf[r] IN
    /\ phase[r] = "infer" /\ state[e] = "ACTIVE" /\ e \notin killed
    /\ tool' = [tool EXCEPT ![e] = "waiting"]
    /\ phase' = [phase EXCEPT ![r] = "off"]
    /\ IF Produces(r) THEN Finish(r) /\ UNCHANGED activeSession
       ELSE AfterHandler(r, current[s], IF current[s] = None THEN "none" ELSE state[current[s]])
    /\ UNCHANGED <<env, queueVars, kind, target, current, state, cancelled, killed, callbacks>>

(* Mutant: the lock is given up before the post-turn work.                        *)
AnswerAndRelease(r) ==
    LET e == target[r] IN
    /\ phase[r] = "infer" /\ e \notin killed
    /\ phase' = [phase EXCEPT ![r] = "post"]
    /\ IF Continues(r) THEN tool' = [tool EXCEPT ![e] = "none"] ELSE UNCHANGED tool
    /\ IF Produces(r)
       THEN /\ state' = IF state[e] = "ACTIVE" THEN [state EXCEPT ![e] = "COMPLETED"] ELSE state
            /\ replied' = replied \cup {r}
       ELSE UNCHANGED <<state, replied>>
    /\ activeSession' = Released(SessionOf[r])
    /\ UNCHANGED <<env, queueVars, pc, kind, target, current, cancelled, killed, callbacks>>

(* The answer is complete. A stream has completed its event and sent [DONE]; then *)
(* the memory of the session is brought up to date on the accelerator.            *)
Answer(r) ==
    LET e == target[r] IN
    /\ phase[r] = "infer" /\ e \notin killed
    /\ phase' = [phase EXCEPT ![r] = "post"]
    /\ IF Continues(r) THEN tool' = [tool EXCEPT ![e] = "none"] ELSE UNCHANGED tool
    /\ IF Produces(r)
       THEN /\ state' = IF state[e] = "ACTIVE" THEN [state EXCEPT ![e] = "COMPLETED"] ELSE state
            /\ replied' = replied \cup {r}
       ELSE UNCHANGED <<state, replied>>
    /\ UNCHANGED <<env, lockVars, queueVars, pc, kind, target, current, cancelled, killed, callbacks>>

(* Post-turn processing is done: the completion callback and, without streaming,  *)
(* the completion of the event and what the queue does after the handler.         *)
EndTurn(r) ==
    LET e == target[r]
        s == SessionOf[r]
        done == IF state[e] = "ACTIVE" THEN [state EXCEPT ![e] = "COMPLETED"] ELSE state
    IN
    /\ phase[r] = "post"
    /\ phase' = [phase EXCEPT ![r] = "off"]
    /\ state' = done
    /\ IF Produces(r) THEN Finish(r) /\ activeSession' = Released(s)
       ELSE IF Continues(r)
       THEN LET quits == Released(s)
                stays == /\ current[s] # None
                         /\ done[current[s]] \in {"FAILED", "CANCELLED"}
                woken == {q \in {e} : pc[q] = "stuck"} \cup (IF stays THEN {} ELSE {r})
            IN /\ activeSession' = IF current[s] = None THEN None ELSE quits
               /\ pc' = [q \in Request |-> IF q \in woken THEN "done"
                                          ELSE IF q = r THEN "stuck" ELSE pc[q]]
               /\ replied' = replied \cup woken
       ELSE AfterHandler(r, current[s], IF current[s] = None THEN "none" ELSE done[current[s]])
    /\ UNCHANGED <<env, queueVars, kind, target, current, tool, cancelled, killed, callbacks>>

(* fail_turn and cancel_turn end an active event and schedule its callback.       *)
Ends(e, how) ==
    IF state[e] = "ACTIVE"
    THEN /\ state' = [state EXCEPT ![e] = how]
         /\ callbacks' = callbacks \cup {e}
         /\ tool' = [tool EXCEPT ![e] = "none"]
    ELSE UNCHANGED <<state, callbacks, tool>>

(* The inference fails: the error answers the client and the lock is given up. A  *)
(* failure to initialise the DSP also empties the queue (503).                    *)
Fail(r) ==
    LET e == target[r] IN
    /\ phase[r] = "infer" /\ (e \notin cancelled \/ Continues(r))
    /\ phase' = [phase EXCEPT ![r] = "off"]
    /\ Ends(e, "FAILED")
    /\ activeSession' = Released(SessionOf[r])
    /\ \E drained \in IF Produces(r) THEN {{}} ELSE {{}, queue} :
         /\ queue' = queue \ drained
         /\ pc' = [q \in Request |-> IF q \in drained \cup {r} THEN "done" ELSE pc[q]]
         /\ replied' = replied \cup drained \cup {r}
    /\ UNCHANGED <<env, ticket, worker, kind, target, current, cancelled, killed>>

(* Output that cannot be parsed or a prompt that is too long after summarisation: *)
(* an HTTPException takes the new event out of the session.                       *)
RollBack(r) ==
    LET s == SessionOf[r] IN
    /\ phase[r] = "infer" /\ r \notin Streaming /\ ~Continues(r)
    /\ phase' = [phase EXCEPT ![r] = "off"]
    /\ state' = [state EXCEPT ![r] = "dropped"]
    /\ current' = IF current[s] = r THEN [current EXCEPT ![s] = None] ELSE current
    /\ activeSession' = Released(s)
    /\ Finish(r)
    /\ UNCHANGED <<env, queueVars, kind, target, tool, cancelled, killed, callbacks>>

(* The run notices that its event was cancelled.                                  *)
Abort(r) ==
    LET e == target[r]
        s == SessionOf[r]
        st == IF current[s] = None THEN "none"
              ELSE IF current[s] = e THEN "CANCELLED" ELSE state[current[s]]
    IN
    /\ phase[r] = "infer" /\ e \in cancelled /\ ~Continues(r)
    /\ phase' = [phase EXCEPT ![r] = "off"]
    /\ Ends(e, "CANCELLED")
    /\ IF Produces(r) THEN Finish(r) /\ activeSession' = Released(s)
       ELSE AfterHandler(r, current[s], st)
    /\ UNCHANGED <<env, queueVars, kind, target, current, cancelled, killed>>

(* The client of a stream disconnects. Before the answer is complete the process  *)
(* is killed; afterwards the shielded post-turn work goes on without the lock.    *)
HangUp(r) ==
    LET e == target[r] IN
    /\ "hangup" \in env
    /\ pc[r] = "busy" /\ Produces(r) /\ phase[r] \in {"infer", "post"}
    /\ Finish(r)
    /\ activeSession' = Released(SessionOf[r])
    /\ cancelled' = cancelled \cup {e}
    /\ IF phase[r] = "infer"
       THEN Ends(e, "CANCELLED") /\ phase' = [phase EXCEPT ![r] = "off"]
       ELSE UNCHANGED <<state, callbacks, tool>> /\ phase' = [phase EXCEPT ![r] = "orphan"]
    /\ UNCHANGED <<env, queueVars, kind, target, current, killed>>

OrphanEnds(r) ==
    /\ phase[r] = "orphan"
    /\ phase' = [phase EXCEPT ![r] = "off"]
    /\ UNCHANGED <<env, lockVars, queueVars, pc, kind, target, replied, eventVars>>

-----------------------------------------------------------------------------
(* Callbacks, timers, cancellation, watchdog.                                     *)

(* A scheduled callback runs; a request that waits for its event's one goes on.   *)
Callback(e) ==
    /\ e \in callbacks
    /\ callbacks' = callbacks \ {e}
    /\ activeSession' = Released(SessionOf[e])
    /\ IF pc[e] = "stuck" THEN Finish(e) ELSE UNCHANGED <<pc, replied>>
    /\ UNCHANGED <<env, queueVars, kind, target, phase, current, state, tool, cancelled, killed>>

(* TOOL_RESPONSE_TIMEOUT_SECONDS without an answer: the event fails, its callback *)
(* is scheduled and also awaited at once.                                         *)
ToolTimeout(e) ==
    /\ Active(e) /\ tool[e] = "waiting"
    /\ state' = [state EXCEPT ![e] = "FAILED"]
    /\ tool' = [tool EXCEPT ![e] = "expired"]
    /\ callbacks' = callbacks \cup {e}
    /\ activeSession' = Released(SessionOf[e])
    /\ UNCHANGED <<env, queueVars, reqVars, current, cancelled, killed>>

(* cancel_active_event: the flag, the kill and the rollback. The event itself     *)
(* stays active until its run or its timer notices.                               *)
CancelActive(s) ==
    /\ Kill(current[s])
    /\ current' = [current EXCEPT ![s] = None]

(* cancel_chat_completion: the holder loses the lock; another session's queued    *)
(* requests are taken out of the queue.                                           *)
Cancel(s) ==
    LET mine == {r \in queue : SessionOf[r] = s} IN
    /\ "cancel" \in env
    /\ Active(current[s])
    /\ CancelActive(s)
    /\ IF activeSession = s
       THEN activeSession' = None /\ UNCHANGED <<queue, pc, replied>>
       ELSE /\ queue' = queue \ mine
            /\ pc' = [r \in Request |-> IF r \in mine THEN "done" ELSE pc[r]]
            /\ replied' = replied \cup mine
            /\ UNCHANGED activeSession
    /\ UNCHANGED <<env, ticket, worker, kind, target, phase, state, tool, callbacks>>

(* The watchdog takes the lock from a silent session, kills its process and       *)
(* cancels its event.                                                             *)
Watchdog ==
    LET s == activeSession IN
    /\ "silence" \in env
    /\ s # None
    /\ activeSession' = None
    /\ IF Active(current[s]) THEN CancelActive(s)
       ELSE /\ killed' = IF current[s] = None THEN killed ELSE killed \cup {current[s]}
            /\ UNCHANGED <<current, cancelled>>
    /\ UNCHANGED <<env, queueVars, reqVars, state, tool, callbacks>>

-----------------------------------------------------------------------------
Client(r) == Send(r) \/ QueueTimeout(r) \/ HangUp(r)

Run(r) == \/ Put(r) \/ RejectFull(r) \/ WorkerTakes(r)
          \/ CallTool(r) \/ Answer(r) \/ EndTurn(r) \/ Fail(r) \/ RollBack(r)
          \/ Abort(r) \/ OrphanEnds(r) \/ Callback(r) \/ ToolTimeout(r)

Next ==
    \/ \E r \in Request : Client(r) \/ Run(r)
    \/ WorkerProcesses
    \/ \E s \in Session : Cancel(s)
    \/ Watchdog

Spec == Init /\ [][Next]_vars

(* The loop runs what is ready, a run of the model ends (its wait is bounded by   *)
(* 300 s) and the timers fire.                                                    *)
FairSpec == Spec /\ WF_vars(WorkerProcesses) /\ \A r \in Request : WF_vars(Run(r))

-----------------------------------------------------------------------------
(* A run whose process was killed only has to notice it.                          *)
Working(r) == phase[r] = "orphan" \/ (phase[r] # "off" /\ target[r] \notin killed)

(* Clients that wait for the end of their answers, and neither cancellation, nor a *)
(* timeout, nor the watchdog between them.                                         *)
Undisturbed == env = {}

(* "Only ONE event can access DSP at any given time" (the module's core guarantee):
   while one event works on the accelerator no other one does, whatever failures,
   refusals, tool waits and callbacks of ended turns come between.                 *)
OneOnDsp ==
    Undisturbed => \A q, r \in Request : Working(q) /\ Working(r) => q = r

(* Nobody is left out: though clients drop streams and talk out of turn, every     *)
(* message gets an answer; turns, tool waits and failures of other sessions may    *)
(* keep it in the queue, the end of its own turn may wait for a callback.          *)
EveryRequestAnswered ==
    \A r \in Request :
        pc[r] # "unsent" /\ env \subseteq {"conflict", "hangup"} ~> r \in replied

(* No session keeps the accelerator for ever, whatever clients, timers and the     *)
(* watchdog do.                                                                    *)
LockIsReleased == \A s \in Session : []<>(activeSession # s)

(* An undisturbed queue is the gate of TurnGate.                                   *)
Gate == INSTANCE TurnGate WITH
            turn <- IF Undisturbed THEN activeSession ELSE None,
            working <- IF Undisturbed THEN {SessionOf[r] : r \in {q \in Request : Working(q)}}
                                      ELSE {}

GateSpec == Gate!Spec
=====
