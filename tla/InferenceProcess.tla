---- MODULE InferenceProcess ----
(* The inference subprocess of chatcompletions and the manager that shares it     *)
(* (genie_wrapper/inference_process_manager.py, llm_process_manager.py,           *)
(* llm_process.py): one socket, read by the reader thread of a run, by the RESET  *)
(* handshakes and by the start thread, and closed by whoever ends the process.    *)
(* Coroutines and the synchronous calls of events run on one event loop, which a  *)
(* blocking call holds up. A run is one call of execute_request.                  *)
EXTENDS Integers, Sequences, FiniteSets

CONSTANTS
    Run,          \* calls of execute_request, each made at most once
    SessionOf,    \* the session a run is for
    ModelOf,      \* the model it asks for
    MaxTokens,    \* the longest answer
    Scenarios,    \* the scenarios to consider, see Scenario
    None

(* reset: a session with a new system prompt resets the handle; cancel: a client  *)
(* drops its request; kill: the cancel endpoint or the watchdog ends an event;    *)
(* slow: an answer takes longer than a timeout; hang, crash: the subprocess stops *)
(* or dies; fault: the accelerator fails a command.                               *)
EnvEvents == {"reset", "cancel", "kill", "slow", "hang", "crash", "fault"}

(* The mode, what may come in between, and the runs that are asked for. With ADHOC_ *)
(* MODE the request queue lets one run in at a time.                              *)
Scenario == [adhoc : BOOLEAN, env : SUBSET EnvEvents, runs : SUBSET Run]

Ended == {"ok", "failed", "cancelled"}
Resets == {"eager", "pre", "early", "post"}
Thread == (Resets \cup {"run", "start"}) \X Run

ASSUME ProcessAssumption ==
    /\ IsFiniteSet(Run) /\ None \notin Run \cup Thread
    /\ \A r \in Run : SessionOf[r] # None /\ ModelOf[r] # None
    /\ MaxTokens \in Nat /\ Scenarios \subseteq Scenario

VARIABLES
    scenario,  \* chosen once
    lock,      \* holder of _async_lock
    pc,        \* where a run is
    loop,      \* what the event loop is blocked in
    threads,   \* threads and blocking calls that read responses
    inside,    \* the one that is in a read of the socket file, or None
    eager,     \* the background RESET a run has left
    task,      \* _eager_reset_task
    justReset, \* _just_eager_reset
    proc,      \* "none", "alive" or "dead"
    model,     \* current_model
    session,   \* current_session_id
    file,      \* the socket files: "closed", "open", or unreadable since a timeout
    toChild, fromChild,  \* lines on the socket
    child,     \* the run the subprocess executes, or None
    kv,        \* the runs whose tokens are in the KV cache
    hung,      \* the subprocess does not react any more
    made, got, \* tokens generated for a run, and those its client has
    bad,       \* runs whose reader met an error
    killed     \* runs whose event was cancelled or found silent

vars == <<scenario, lock, pc, loop, threads, inside, eager, task, justReset, proc, model, session,
          file, toChild, fromChild, child, kv, hung, made, got, bad, killed>>

managerVars == <<lock, eager, task, justReset, session>>
runVars     == <<made, got, bad, killed>>
childVars   == <<child, kv, hung>>
wireVars    == <<toChild, fromChild>>

Adhoc == scenario.adhoc
Env == scenario.env

Free == [op |-> "free", run |-> None]
Blocked(op, r) == [op |-> op, run |-> r]

TypeOK ==
    /\ scenario \in Scenarios
    /\ lock \in Run \cup {None} /\ task \in Run \cup {None} /\ child \in Run \cup {None}
    /\ pc \in [Run -> {"new", "waiting", "switching", "spawning", "starting", "started", "awaiting",
                       "deciding", "resetting", "reset", "refused", "running"} \cup Ended]
    /\ loop \in [op : {"free", "reset", "stop", "close", "kill"}, run : Run \cup {None}]
    /\ threads \subseteq Thread /\ inside \in Thread \cup {None}
    /\ eager \in [Run -> {"none", "pending", "reading", "done"}]
    /\ justReset \in BOOLEAN /\ hung \in BOOLEAN
    /\ proc \in {"none", "alive", "dead"} /\ file \in {"closed", "open", "timedout"}
    /\ kv \subseteq Run /\ bad \subseteq Run /\ killed \subseteq Run
    /\ \A r \in Run : made[r] \in 0 .. MaxTokens /\ got[r] \in 0 .. MaxTokens
    /\ Len(toChild) <= Cardinality(Thread)

Init ==
    /\ scenario \in Scenarios
    /\ lock = None /\ task = None /\ child = None /\ inside = None
    /\ pc = [r \in Run |-> "new"] /\ loop = Free /\ threads = {}
    /\ eager = [r \in Run |-> "none"] /\ justReset = FALSE
    /\ proc = "none" /\ model = None /\ session = None /\ file = "closed"
    /\ toChild = <<>> /\ fromChild = <<>>
    /\ kv = {} /\ hung = FALSE /\ bad = {} /\ killed = {}
    /\ made = [r \in Run |-> 0] /\ got = [r \in Run |-> 0]

Command(type, id)  == [type |-> type, id |-> id]
Response(type, id) == [type |-> type, id |-> id]

CanSend == file # "closed" /\ proc = "alive"

LoopFree == loop = Free

At(r, where) == pc' = [pc EXCEPT ![r] = where]

-----------------------------------------------------------------------------
(* A run up to its EXECUTE. Everything here is the coroutine of the run.          *)

(* _cleanup_process: the process is gone with its socket.                         *)
CleanUp ==
    /\ proc' = "none" /\ file' = "closed"
    /\ toChild' = <<>> /\ fromChild' = <<>>
    /\ child' = None /\ kv' = {} /\ hung' = FALSE
    /\ model' = None /\ session' = None

(* EXECUTE is sent and the reader thread started; a broken socket is an error of  *)
(* the run.                                                                       *)
Execute(r) ==
    /\ At(r, "running")
    /\ IF CanSend
       THEN /\ toChild' = Append(toChild, Command("EXECUTE", <<"run", r>>))
            /\ threads' = threads \cup {<<"run", r>>}
            /\ UNCHANGED bad
       ELSE bad' = bad \cup {r} /\ UNCHANGED <<toChild, threads>>

(* An error before the generator was entered: the event ends the process.         *)
Fail(r) ==
    /\ At(r, "failed")
    /\ lock' = None
    /\ loop' = Blocked("stop", r)


(* A request comes to execute_request. In ADHOC_MODE the queue admits it when the *)
(* one before is over.                                                            *)
MayAsk(r) ==
    /\ r \in scenario.runs /\ pc[r] = "new" /\ LoopFree
    /\ Adhoc => \A q \in Run : pc[q] \in Ended \cup {"new"}

Ask(r) ==
    /\ MayAsk(r)
    /\ At(r, "waiting")
    /\ UNCHANGED <<scenario, managerVars, loop, threads, inside, proc, model, file, wireVars, childVars, runVars>>

(* The handler resets the handle of a session whose system prompt has changed, on *)
(* the event loop and without the lock; a failure is only logged.                 *)
AskWithReset(r) ==
    /\ "reset" \in Env /\ ~Adhoc
    /\ MayAsk(r) /\ CanSend
    /\ At(r, "waiting")
    /\ loop' = Blocked("reset", r)
    /\ threads' = threads \cup {<<"early", r>>}
    /\ toChild' = Append(toChild, Command("RESET", <<"early", r>>))
    /\ UNCHANGED <<scenario, managerVars, inside, proc, model, file, fromChild, childVars, runVars>>

(* Mutant: nobody waits for the lock.                                             *)
LockIgnored == LoopFree

LockIsFree == lock = None

(* _ensure_process_running up to its first await: a process of another model is   *)
(* ended, a missing one started, a background RESET awaited.                      *)
Acquire(r) ==
    /\ pc[r] = "waiting" /\ LoopFree /\ LockIsFree
    /\ lock' = r
    /\ \/ /\ model # None /\ model # ModelOf[r]
          /\ At(r, "switching") /\ loop' = Blocked("close", r)
       \/ /\ model \in {None, ModelOf[r]} /\ proc # "alive"
          /\ At(r, "spawning") /\ UNCHANGED loop
       \/ /\ model \in {None, ModelOf[r]} /\ proc = "alive"
          /\ At(r, IF task = None THEN "deciding" ELSE "awaiting") /\ UNCHANGED loop
    /\ UNCHANGED <<scenario, eager, task, justReset, session, threads, inside, proc, model, file,
                   wireVars, childVars, runVars>>

(* Whatever became of the background RESET, it is over.                           *)
Await(r) ==
    /\ pc[r] = "awaiting" /\ LoopFree
    /\ task # None => eager[task] = "done"
    /\ task' = None
    /\ At(r, "deciding")
    /\ UNCHANGED <<scenario, lock, eager, justReset, session, loop, threads, inside, proc, model, file,
                   wireVars, childVars, runVars>>

(* Mutant: the background RESET is trusted blindly.                               *)
NeverNeedsReset(r) == FALSE

(* In ADHOC_MODE the KV cache is reset unless that was just done, otherwise when   *)
(* the session changes.                                                           *)
NeedsReset(r) == IF Adhoc THEN ~justReset ELSE session # None /\ session # SessionOf[r]

PreReset(r) ==
    /\ pc[r] = "deciding" /\ LoopFree /\ NeedsReset(r)
    /\ IF CanSend
       THEN /\ At(r, "resetting")
            /\ threads' = threads \cup {<<"pre", r>>}
            /\ toChild' = Append(toChild, Command("RESET", <<"pre", r>>))
            /\ UNCHANGED <<lock, loop>>
       ELSE Fail(r) /\ UNCHANGED <<threads, toChild>>
    /\ UNCHANGED <<scenario, eager, task, justReset, session, inside, proc, model, file, fromChild, childVars, runVars>>

(* The process is ready for the run: just started, just reset, or clean.          *)
Begin(r) ==
    /\ LoopFree
    /\ pc[r] \in {"started", "reset"} \/ (pc[r] = "deciding" /\ ~NeedsReset(r))
    /\ session' = SessionOf[r]
    /\ justReset' = (justReset /\ (pc[r] = "started" \/ ~Adhoc))
    /\ Execute(r)
    /\ UNCHANGED <<scenario, lock, eager, task, loop, inside, proc, model, file, fromChild, childVars, made, got, killed>>

Refused(r) ==
    /\ pc[r] = "refused" /\ LoopFree
    /\ Fail(r)
    /\ UNCHANGED <<scenario, eager, task, justReset, session, threads, inside, proc, model, file, wireVars,
                   childVars, runVars>>

(* _start_process: a new subprocess gets INIT. Threads of the last one have met   *)
(* the closed socket by then.                                                     *)
Spawn(r) ==
    /\ pc[r] = "spawning" /\ threads = {} /\ \A q \in Run : eager[q] # "pending"
    /\ At(r, "starting")
    /\ proc' = "alive" /\ file' = "open"
    /\ toChild' = <<Command("INIT", None)>> /\ fromChild' = <<>>
    /\ child' = None /\ kv' = {} /\ hung' = FALSE
    /\ threads' = {<<"start", r>>}
    /\ UNCHANGED <<scenario, managerVars, loop, inside, model, runVars>>

-----------------------------------------------------------------------------
(* The end of a run and the calls that hold up the event loop.                    *)

(* What the finally clause of execute_request leaves: a background RESET.         *)
LeaveReset(r) ==
    /\ eager' = [eager EXCEPT ![r] = "pending"]
    /\ task' = r

(* The generator ends. A failed event ends the process, unless it was killed or   *)
(* the run was for a summary; a completed turn resets the handle at once.         *)
EndRun(r) ==
    /\ pc[r] = "running" /\ LoopFree /\ <<"run", r>> \notin threads
    /\ lock' = None
    /\ LeaveReset(r)
    /\ IF r \in bad
       THEN /\ At(r, "failed")
            /\ loop' \in {Free, Blocked("stop", r)}
            /\ UNCHANGED <<threads, toChild>>
       ELSE /\ At(r, "ok")
            /\ \/ UNCHANGED <<loop, threads, toChild>>
               \/ /\ CanSend
                  /\ loop' = Blocked("reset", r)
                  /\ threads' = threads \cup {<<"post", r>>}
                  /\ toChild' = Append(toChild, Command("RESET", <<"post", r>>))
    /\ UNCHANGED <<scenario, justReset, session, inside, proc, model, file, fromChild, childVars, runVars>>

StartEager(r) ==
    /\ eager[r] = "pending" /\ LoopFree
    /\ IF CanSend
       THEN /\ eager' = [eager EXCEPT ![r] = "reading"]
            /\ threads' = threads \cup {<<"eager", r>>}
            /\ toChild' = Append(toChild, Command("RESET", <<"eager", r>>))
            /\ UNCHANGED justReset
       ELSE /\ eager' = [eager EXCEPT ![r] = "done"]
            /\ justReset' = FALSE
            /\ UNCHANGED <<threads, toChild>>
    /\ UNCHANGED <<scenario, lock, task, session, pc, loop, inside, proc, model, file, fromChild, childVars, runVars>>

(* Mutant: the lock is kept.                                                      *)
StaysLocked(r) == lock

Unlocked(r) == IF lock = r THEN None ELSE lock

(* The client drops its request: the generator is left, and the process killed.   *)
HangUp(r) ==
    /\ "cancel" \in Env /\ LoopFree
    /\ pc[r] \notin Ended \cup {"new"}
    /\ At(r, "cancelled")
    /\ lock' = Unlocked(r)
    /\ IF pc[r] = "running" THEN LeaveReset(r) ELSE UNCHANGED <<eager, task>>
    /\ loop' = Blocked("kill", r)
    /\ UNCHANGED <<scenario, justReset, session, threads, inside, proc, model, file, wireVars, childVars, runVars>>

(* The cancel endpoint or the watchdog kills the process of an active event.      *)
Kill(r) ==
    /\ "kill" \in Env /\ LoopFree
    /\ pc[r] \notin Ended \cup {"new"} /\ r \notin killed
    /\ loop' = Blocked("kill", r)
    /\ killed' = killed \cup {r}
    /\ UNCHANGED <<scenario, managerVars, pc, threads, inside, proc, model, file, wireVars, childVars, made, got, bad>>

(* shutdown: SHUTDOWN is sent, and the process gets five seconds.                 *)
SendShutdown ==
    /\ loop.op = "stop"
    /\ loop' = Blocked("close", loop.run)
    /\ toChild' = IF CanSend THEN Append(toChild, Command("SHUTDOWN", None)) ELSE toChild
    /\ UNCHANGED <<scenario, managerVars, pc, threads, inside, proc, model, file, fromChild, childVars, runVars>>

(* _cleanup_process: the read file can be closed only when nobody is in a read;   *)
(* the process is terminated, or killed, after that.                              *)
Close ==
    /\ loop.op \in {"close", "kill"} /\ inside = None
    /\ CleanUp
    /\ loop' = Free
    /\ pc' = [r \in Run |-> IF r = loop.run /\ pc[r] = "switching" THEN "spawning" ELSE pc[r]]
    /\ UNCHANGED <<scenario, lock, eager, task, justReset, threads, inside, runVars>>

-----------------------------------------------------------------------------
(* Reading responses.                                                             *)

(* A thread that cannot read any more.                                            *)
Break(t) ==
    LET kind == t[1]
        r == t[2] IN
    /\ threads' = threads \ {t}
    /\ bad' = IF kind = "run" THEN bad \cup {r} ELSE bad
    /\ eager' = IF kind = "eager" THEN [eager EXCEPT ![r] = "done"] ELSE eager
    /\ justReset' = IF kind = "eager" THEN FALSE ELSE justReset
    /\ loop' = IF kind \in {"early", "post"} THEN Free ELSE loop
    /\ pc' = IF kind \in {"pre", "start"} /\ pc[r] \in {"resetting", "starting"}
             THEN [pc EXCEPT ![r] = "refused"] ELSE pc
    /\ UNCHANGED <<lock, task, made, got, killed>>

(* A failed start cleans up in its thread.                                        *)
BreakStart(t) == IF t[1] = "start" THEN CleanUp
                 ELSE UNCHANGED <<session, proc, model, wireVars, childVars>>

EnterRead(t) ==
    /\ t \in threads /\ inside = None /\ file = "open"
    /\ inside' = t
    /\ UNCHANGED <<scenario, managerVars, pc, loop, threads, proc, model, file, wireVars, childVars, runVars>>

(* The file is closed, or a read of it timed out before.                          *)
NoRead(t) ==
    /\ t \in threads /\ inside # t /\ file # "open"
    /\ Break(t)
    /\ BreakStart(t) /\ (t[1] # "start" => UNCHANGED file)
    /\ UNCHANGED <<scenario, inside>>

(* End of file, or a timeout: the subprocess hangs, is slow, or has nothing to say *)
(* because somebody else has read the answer.                                     *)
ReadEnds(t) ==
    /\ inside = t /\ fromChild = <<>>
    /\ \/ proc = "dead" /\ (t[1] # "start" => UNCHANGED file)
       \/ /\ proc = "alive"
          /\ hung \/ "slow" \in Env \/ (child = None /\ toChild = <<>>)
          /\ t[1] # "start" => file' = "timedout"
    /\ inside' = None
    /\ Break(t) /\ BreakStart(t)
    /\ UNCHANGED scenario

(* What the reader thread of a run does with a response: all that is not for its  *)
(* run is ignored, and the stream ends with its READY.                            *)
RunReads(t, m) ==
    LET r == t[2] IN
    /\ IF m.id # t THEN UNCHANGED <<threads, got, bad>>
       ELSE /\ threads' = IF m.type = "READY" THEN threads \ {t} ELSE threads
            /\ got' = IF m.type = "TOKEN" THEN [got EXCEPT ![r] = @ + 1] ELSE got
            /\ bad' = IF m.type = "ERROR" THEN bad \cup {r} ELSE bad
    /\ UNCHANGED <<managerVars, pc, loop, proc, model, file, childVars, made, toChild, killed>>

Answers(t, m) == m.type = "READY" /\ m.id = t

(* _send_reset_and_wait ignores whatever is not the answer to its RESET.          *)
ResetReads(t, m) ==
    LET kind == t[1]
        r == t[2] IN
    IF m.type = "ERROR" /\ m.id = t
    THEN Break(t) /\ UNCHANGED <<session, proc, model, file, toChild, childVars>>
    ELSE /\ IF ~Answers(t, m) THEN UNCHANGED <<threads, eager, justReset, loop, pc>>
            ELSE /\ threads' = threads \ {t}
                 /\ eager' = IF kind = "eager" THEN [eager EXCEPT ![r] = "done"] ELSE eager
                 /\ justReset' = (justReset \/ kind = "eager")
                 /\ loop' = IF kind \in {"early", "post"} THEN Free ELSE loop
                 /\ pc' = IF kind = "pre" /\ pc[r] = "resetting"
                          THEN [pc EXCEPT ![r] = "reset"] ELSE pc
         /\ UNCHANGED <<lock, task, session, proc, model, file, toChild, childVars, runVars>>

(* The start thread takes any READY for the answer to INIT, and anything else for *)
(* a failure.                                                                     *)
StartReads(t, m) ==
    LET r == t[2] IN
    IF m.type # "READY" THEN Break(t) /\ CleanUp
    ELSE /\ threads' = threads \ {t}
         /\ model' = ModelOf[r]
         /\ pc' = IF pc[r] = "starting" THEN [pc EXCEPT ![r] = "started"] ELSE pc
         /\ UNCHANGED <<managerVars, loop, proc, file, toChild, childVars, runVars>>

ReadLine(t) ==
    /\ inside = t /\ fromChild # <<>>
    /\ inside' = None /\ UNCHANGED scenario
    /\ LET m == Head(fromChild) IN
       \/ t[1] = "run" /\ RunReads(t, m) /\ fromChild' = Tail(fromChild)
       \/ t[1] = "start" /\ StartReads(t, m) /\ (m.type = "READY" => fromChild' = Tail(fromChild))
       \/ t[1] \in Resets /\ ResetReads(t, m) /\ fromChild' = Tail(fromChild)

-----------------------------------------------------------------------------
(* The subprocess.                                                                *)

Reply(type, id) == fromChild' = Append(fromChild, Response(type, id))

Reacts == proc = "alive" /\ ~hung

(* The next command, when the last is done. EXECUTE fills the cache of the run.    *)
Take ==
    /\ Reacts /\ child = None /\ toChild # <<>>
    /\ toChild' = Tail(toChild)
    /\ LET command == Head(toChild) IN
       \/ /\ command.type = "EXECUTE"
          /\ child' = command.id[2] /\ kv' = kv \cup {command.id[2]}
          /\ UNCHANGED <<proc, fromChild>>
       \/ /\ command.type = "RESET"
          /\ \/ kv' = {} /\ Reply("READY", command.id)
             \/ "fault" \in Env /\ Reply("ERROR", command.id) /\ UNCHANGED kv
          /\ UNCHANGED <<proc, child>>
       \/ /\ command.type = "INIT"
          /\ Reply("READY", None) \/ ("fault" \in Env /\ Reply("ERROR", None))
          /\ UNCHANGED <<proc, child, kv>>
       \/ /\ command.type = "SHUTDOWN"
          /\ proc' = "dead"
          /\ UNCHANGED <<fromChild, child, kv>>
    /\ UNCHANGED <<scenario, managerVars, pc, loop, threads, inside, model, file, hung, runVars>>

Token ==
    /\ Reacts /\ child # None /\ made[child] < MaxTokens
    /\ made' = [made EXCEPT ![child] = @ + 1]
    /\ Reply("TOKEN", <<"run", child>>)
    /\ UNCHANGED <<scenario, managerVars, pc, loop, threads, inside, proc, model, file, toChild, childVars, got, bad, killed>>

(* DONE or ERROR, and READY in any case.                                          *)
Answered ==
    /\ Reacts /\ child # None
    /\ \E type \in {"DONE"} \cup (IF "fault" \in Env THEN {"ERROR"} ELSE {}) :
         fromChild' = fromChild \o <<Response(type, <<"run", child>>), Response("READY", <<"run", child>>)>>
    /\ child' = None
    /\ UNCHANGED <<scenario, managerVars, pc, loop, threads, inside, proc, model, file, toChild, kv, hung, runVars>>

Hang ==
    /\ "hang" \in Env /\ Reacts
    /\ hung' = TRUE
    /\ UNCHANGED <<scenario, managerVars, pc, loop, threads, inside, proc, model, file, wireVars, child, kv, runVars>>

Crash ==
    /\ "crash" \in Env /\ proc = "alive"
    /\ proc' = "dead"
    /\ UNCHANGED <<scenario, managerVars, pc, loop, threads, inside, model, file, wireVars, childVars, runVars>>

-----------------------------------------------------------------------------
Coroutine(r) == \/ Acquire(r) \/ Await(r) \/ PreReset(r) \/ Begin(r) \/ Refused(r) \/ Spawn(r)
                \/ EndRun(r) \/ StartEager(r)

Client(r) == Ask(r) \/ AskWithReset(r) \/ HangUp(r) \/ Kill(r)

Reading(t) == EnterRead(t) \/ NoRead(t) \/ ReadEnds(t) \/ ReadLine(t)

LoopCall == SendShutdown \/ Close

Child == Take \/ Token \/ Answered

Rest ==
    /\ \A r \in scenario.runs : pc[r] \in Ended /\ eager[r] \in {"none", "done"}
    /\ LoopFree /\ threads = {} /\ UNCHANGED vars

Next ==
    \/ \E r \in Run : Client(r) \/ Coroutine(r)
    \/ \E t \in Thread : Reading(t)
    \/ LoopCall \/ Child \/ Hang \/ Crash \/ Rest

Spec == Init /\ [][Next]_vars

(* Threads and the event loop are scheduled, reads time out, and a subprocess that *)
(* is not hung goes on. Nothing makes a client ask, or the subprocess fail.        *)
FairSpec ==
    /\ Spec
    /\ \A r \in Run : WF_vars(Coroutine(r))
    /\ \A t \in Thread : WF_vars(Reading(t))
    /\ WF_vars(LoopCall) /\ WF_vars(Child)

-----------------------------------------------------------------------------
(* A run starts on a clean KV cache: what the subprocess works with is the prompt  *)
(* of the run it executes and nothing of an earlier one, whatever was killed,      *)
(* restarted or timed out in between (_is_rebuild_path). Outside ADHOC_MODE nobody *)
(* looks at a background RESET the subprocess has refused, and nothing is promised *)
(* after one; one that was only not waited for is executed all the same.           *)
CleanStart ==
    Adhoc \/ "fault" \notin Env => (child # None => kv = {child})

(* A successful run has delivered every token the subprocess made for it: no other *)
(* reader of the socket took one away. The handshake of a changed system prompt    *)
(* does, it is sent beside the lock.                                               *)
WholeAnswers ==
    "reset" \notin Env => \A r \in Run : pc[r] = "ok" => got[r] = made[r]

(* Every run ends, whatever happens to the subprocess: no reader, lock or blocked  *)
(* event loop waits for ever.                                                      *)
RunsEnd == \A r \in Run : pc[r] # "new" ~> pc[r] \in Ended
=====
