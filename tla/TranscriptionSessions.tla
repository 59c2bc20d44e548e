---- MODULE TranscriptionSessions ----
(* The one transcription at a time of audio-analytics (services/asr_service.py)   *)
(* and its part in the switch between services (common/service_coordinator.py).   *)
(* Handlers are coroutines of one event loop: a step lasts from one await to the  *)
(* next. What they await is a thread that initialises or closes the engine of a   *)
(* WhisperWrapper, or a sleep, which orders nothing here: it may last as long as  *)
(* the steps of the others take.                                                  *)
EXTENDS Naturals

CONSTANTS
    Request,    \* transcriptions/create messages
    MaxSwitch,  \* bound: how often another service is asked for
    Scenarios,  \* the configurations to consider, see Scenario
    None

(* kind: a live session, an uploaded file, or one whose results are streamed; keep: *)
(* those with keep_alive; env: what else happens ("close": a client closes the    *)
(* session it was given, "stray": somebody closes without a session).             *)
Scenario == [kind : [Request -> {"live", "file", "streamed"}],
             keep : SUBSET Request,
             env  : SUBSET {"invalid", "fail", "silence", "close", "stray", "switch"}]

(* The coroutines: of a request, of the close of its session, of a close without  *)
(* a session, and of the clean-up after another service took over.                *)
Create(r) == <<"create", r>>
Close(r) == <<"close", r>>
Stray == <<"close", None>>
Cleaner == <<"switch", None>>
Task == {Create(r) : r \in Request} \cup {Close(r) : r \in Request} \cup {Stray, Cleaner}

(* Entries of active_sessions: the sentinel of a request, the session of a live   *)
(* transcription and the one that tags the results of a streamed file.            *)
Entry == [is : {"pending", "live", "upload"}, of : Request]

ASSUME SessionAssumption ==
    /\ None \notin Request \cup Entry /\ MaxSwitch \in Nat /\ Scenarios \subseteq Scenario

VARIABLES
    scenario,        \* chosen once
    active_sessions, \* its entries
    whisper_wrapper, \* the singleton: the request that made it, or None
    engine,          \* the engine of the wrapper a request made
    lock,            \* whisper_wrapper_lock
    task,            \* of each coroutine: where it stands, the wrapper it has in hand
    answer,          \* what was published for a request
    watchdog,        \* of the session of a request
    active,          \* _active_service: "ASR", "other" or None
    asrKeepAlive,    \* _asr_keep_alive
    cleanups,        \* background clean-ups of ASR still to run
    switches         \* requests of other services so far

vars == <<scenario, active_sessions, whisper_wrapper, engine, lock, task, answer,
          watchdog, active, asrKeepAlive, cleanups, switches>>

Kind(r) == scenario.kind[r]
Keep == scenario.keep
Env == scenario.env

TypeOK ==
    /\ scenario \in Scenarios
    /\ active_sessions \subseteq Entry
    /\ whisper_wrapper \in Request \cup {None}
    /\ engine \in [Request -> {"none", "made", "ready", "closed"}]
    /\ lock \in Request \cup {None}
    /\ task \in [Task -> [at : {"idle", "stale", "staleClosed", "settle", "lock", "init",
                                "start", "transcribe", "stop", "closing", "closed", "done"},
                          w : Request \cup {None}, then : {"reserve", "upload", "release"}]]
    /\ answer \in [Request -> {"none", "ok", "error", "conflict"}]
    /\ watchdog \in [Request -> {"none", "armed", "closing", "over"}]
    /\ active \in {"ASR", "other", None} /\ asrKeepAlive \in BOOLEAN
    /\ cleanups \in 0 .. MaxSwitch /\ switches \in 0 .. MaxSwitch

Init ==
    /\ scenario \in Scenarios
    /\ active_sessions = {}
    /\ whisper_wrapper = None
    /\ engine = [r \in Request |-> "none"]
    /\ lock = None
    /\ task = [t \in Task |-> [at |-> "idle", w |-> None, then |-> "release"]]
    /\ answer = [r \in Request |-> "none"]
    /\ watchdog = [r \in Request |-> "none"]
    /\ active = None /\ asrKeepAlive = FALSE
    /\ cleanups = 0 /\ switches = 0

-----------------------------------------------------------------------------
(* What handlers have in common.                                                  *)

At(t, where) == task' = [task EXCEPT ![t].at = where]
Holding(t, where, w) == task' = [task EXCEPT ![t].at = where, ![t].w = w]
Cleaning(t, then) == task' = [task EXCEPT ![t] = [at |-> "stale", w |-> whisper_wrapper, then |-> then]]

Item(is, r) == [is |-> is, of |-> r]

(* Mutant: The session of a streamed file is left behind. *)
WithoutSentinel(sessions, r) == sessions \ {Item("pending", r)}

(* The sentinel and the upload of r go, if others have not taken them already.    *)
Without(sessions, r) == sessions \ {Item("pending", r), Item("upload", r)}

EndCreate(r, sessions, result) ==
    /\ At(Create(r), "done")
    /\ answer' = [answer EXCEPT ![r] = result]
    /\ active_sessions' = Without(sessions, r)

(* WhisperWrapper.close: nothing to close before the engine is initialised.       *)
Shut(w) == engine' = [engine EXCEPT ![w] = IF @ = "ready" THEN "closed" ELSE @]

(* _cleanup_all_sessions has a wrapper to close before it forgets the sessions.   *)
MustClose(sessions) == sessions # {} /\ whisper_wrapper # None

-----------------------------------------------------------------------------
(* handle_create_transcription.                                                   *)

(* Mutant: The slot is reserved only when the session is there. *)
ReservedLate(sessions, r) == sessions

Reserved(sessions, r) == sessions \cup {Item("pending", r)}

(* process_file_transcription after its own clean-up, which took the sentinel.    *)
Upload(r) ==
    /\ active_sessions' = IF Kind(r) = "streamed" THEN {Item("upload", r)} ELSE {}
    /\ At(Create(r), "lock")
    /\ UNCHANGED answer

(* From the sentinel to the next await, with the sessions that were left. A value *)
(* of a parameter that cannot be read raises past the code that takes the         *)
(* sentinel away; an unknown model or file format does not.                       *)
Reserve(r, sessions) ==
    /\ asrKeepAlive' = (r \in Keep)
    /\ active' = "ASR"
    /\ \/ /\ "invalid" \in Env
          /\ At(Create(r), "done")
          /\ answer' = [answer EXCEPT ![r] = "error"]
          /\ active_sessions' \in {sessions, Reserved(sessions, r)}
       \/ /\ Kind(r) = "live"
          /\ active_sessions' = Reserved(sessions, r)
          /\ At(Create(r), "lock")
          /\ UNCHANGED answer
       \/ /\ Kind(r) # "live"
          /\ IF MustClose(Reserved(sessions, r))
             THEN /\ active_sessions' = Reserved(sessions, r)
                  /\ Cleaning(Create(r), "upload")
                  /\ UNCHANGED answer
             ELSE Upload(r)
    /\ UNCHANGED <<scenario, whisper_wrapper, engine, lock, watchdog, cleanups, switches>>

Refuse(r) ==
    /\ task[Create(r)].at = "idle" /\ active_sessions # {} /\ r \notin Keep
    /\ EndCreate(r, active_sessions, "conflict")
    /\ UNCHANGED <<scenario, whisper_wrapper, engine, lock, watchdog, active, asrKeepAlive,
                   cleanups, switches>>

Accept(r) ==
    /\ task[Create(r)].at = "idle" /\ (active_sessions = {} \/ r \in Keep)
    /\ IF MustClose(active_sessions)
       THEN /\ Cleaning(Create(r), "reserve")
            /\ UNCHANGED <<scenario, active_sessions, whisper_wrapper, engine, lock, answer,
                           watchdog, active, asrKeepAlive, cleanups, switches>>
       ELSE Reserve(r, {})

(* The wrapper: made and initialised, or taken as it is, under whisper_wrapper_lock. *)
GetWrapper(r) ==
    /\ task[Create(r)].at = "lock" /\ lock = None
    /\ IF whisper_wrapper = None
       THEN /\ whisper_wrapper' = r
            /\ engine' = [engine EXCEPT ![r] = "made"]
            /\ lock' = r
            /\ At(Create(r), "init")
       ELSE /\ Holding(Create(r), "start", whisper_wrapper)
            /\ UNCHANGED <<whisper_wrapper, engine, lock>>
    /\ UNCHANGED <<scenario, active_sessions, answer, watchdog, active, asrKeepAlive,
                   cleanups, switches>>

(* The settings go to the singleton: without one they raise.                      *)
Initialised(r) ==
    /\ task[Create(r)].at = "init"
    /\ engine' = [engine EXCEPT ![r] = "ready"]
    /\ lock' = None
    /\ IF whisper_wrapper = None
       THEN EndCreate(r, active_sessions, "error")
       ELSE /\ Holding(Create(r), "start", whisper_wrapper)
            /\ UNCHANGED <<active_sessions, answer>>
    /\ UNCHANGED <<scenario, whisper_wrapper, watchdog, active, asrKeepAlive, cleanups, switches>>

(* Mutant: The lock is not given back when the engine fails. *)
LockKept == lock

LockReleased == None

InitFails(r) ==
    /\ "fail" \in Env /\ task[Create(r)].at = "init"
    /\ engine' = [engine EXCEPT ![r] = "none"]
    /\ whisper_wrapper' = None
    /\ lock' = LockReleased
    /\ EndCreate(r, active_sessions, "error")
    /\ UNCHANGED <<scenario, watchdog, active, asrKeepAlive, cleanups, switches>>

(* A live session replaces the sentinel; a file goes through the engine.          *)
Start(r) ==
    /\ task[Create(r)].at = "start"
    /\ IF Kind(r) = "live"
       THEN /\ EndCreate(r, active_sessions \cup {Item("live", r)}, "ok")
            /\ watchdog' = [watchdog EXCEPT ![r] = IF r \in Keep THEN "none" ELSE "armed"]
       ELSE /\ At(Create(r), "transcribe")
            /\ UNCHANGED <<active_sessions, answer, watchdog>>
    /\ UNCHANGED <<scenario, whisper_wrapper, engine, lock, active, asrKeepAlive, cleanups,
                   switches>>

(* The results are there, or the time for them is over.                           *)
Transcribed(r) ==
    /\ task[Create(r)].at = "transcribe"
    /\ IF r \in Keep
       THEN \E result \in {"ok", "error"} : EndCreate(r, active_sessions, result)
       ELSE At(Create(r), "closing") /\ UNCHANGED <<active_sessions, answer>>
    /\ UNCHANGED <<scenario, whisper_wrapper, engine, lock, watchdog, active, asrKeepAlive,
                   cleanups, switches>>

EndFile(r) ==
    /\ task[Create(r)].at = "closed"
    /\ whisper_wrapper' = None
    /\ \E result \in {"ok", "error"} : EndCreate(r, active_sessions, result)
    /\ UNCHANGED <<scenario, engine, lock, watchdog, active, asrKeepAlive, cleanups, switches>>

-----------------------------------------------------------------------------
(* _cleanup_all_sessions, of a request or of the clean-up, and the threads that   *)
(* close a wrapper.                                                               *)

ThreadCloses(t) ==
    /\ task[t].at \in {"stale", "closing"}
    /\ Shut(task[t].w)
    /\ At(t, IF task[t].at = "stale" THEN "staleClosed" ELSE "closed")
    /\ UNCHANGED <<scenario, active_sessions, whisper_wrapper, lock, answer, watchdog, active,
                   asrKeepAlive, cleanups, switches>>

DropStale(t) ==
    /\ task[t].at = "staleClosed"
    /\ whisper_wrapper' = None
    /\ At(t, "settle")
    /\ UNCHANGED <<scenario, active_sessions, engine, lock, answer, watchdog, active,
                   asrKeepAlive, cleanups, switches>>

(* After the wait for the DSP all sessions go, those that came meanwhile too.     *)
Settled(r) ==
    /\ task[Create(r)].at = "settle"
    /\ IF task[Create(r)].then = "reserve"
       THEN Reserve(r, {})
       ELSE /\ Upload(r)
            /\ UNCHANGED <<scenario, whisper_wrapper, engine, lock, watchdog, active,
                           asrKeepAlive, cleanups, switches>>

-----------------------------------------------------------------------------
(* handle_close_transcription and the watchdog.                                   *)

(* Without the session it names a close takes another one; a session without a    *)
(* wrapper is only forgotten, with all others.                                    *)
CloseTarget(e) ==
    IF e \in active_sessions THEN {e}
    ELSE IF active_sessions = {} THEN {None} ELSE active_sessions

CloseLive(t, r) ==
    /\ Holding(t, "closing", task[Create(r)].w)
    /\ watchdog' = [watchdog EXCEPT ![r] = IF @ = "armed" THEN "over" ELSE @]
    /\ UNCHANGED active_sessions

CloseOther(t) ==
    /\ At(t, "done")
    /\ active_sessions' = {}
    /\ UNCHANGED watchdog

BeginClose(t, e) ==
    /\ task[t].at = "idle"
    /\ \E target \in CloseTarget(e) :
         IF target = None
         THEN IF whisper_wrapper = None
              THEN CloseOther(t)
              ELSE Holding(t, "closing", whisper_wrapper) /\ UNCHANGED <<watchdog, active_sessions>>
         ELSE IF target.is = "live" THEN CloseLive(t, target.of) ELSE CloseOther(t)
    /\ UNCHANGED <<scenario, whisper_wrapper, engine, lock, answer, active, asrKeepAlive,
                   cleanups, switches>>

CloseSession(r) ==
    "close" \in Env /\ Kind(r) = "live" /\ answer[r] = "ok" /\ BeginClose(Close(r), Item("live", r))

CloseAny == "stray" \in Env /\ BeginClose(Stray, None)

EndClose(t) ==
    /\ task[t].at = "closed"
    /\ At(t, "done")
    /\ whisper_wrapper' = None
    /\ active_sessions' = {}
    /\ UNCHANGED <<scenario, engine, lock, answer, watchdog, active, asrKeepAlive, cleanups,
                   switches>>

(* No audio in time: the watchdog closes the session, which cancels the watchdog  *)
(* first. So the first await of the close raises in it: the session stays, and    *)
(* the wrapper is closed only if that await had handed it to a thread.            *)
Silence(r) ==
    /\ "silence" \in Env
    /\ watchdog[r] = "armed" /\ Item("live", r) \in active_sessions
    /\ \E next \in {"closing", "over"} : watchdog' = [watchdog EXCEPT ![r] = next]
    /\ UNCHANGED <<scenario, active_sessions, whisper_wrapper, engine, lock, task, answer,
                   active, asrKeepAlive, cleanups, switches>>

WatchdogThread(r) ==
    /\ watchdog[r] = "closing"
    /\ Shut(task[Create(r)].w)
    /\ watchdog' = [watchdog EXCEPT ![r] = "over"]
    /\ UNCHANGED <<scenario, active_sessions, whisper_wrapper, lock, task, answer, active,
                   asrKeepAlive, cleanups, switches>>

-----------------------------------------------------------------------------
(* request_service_start of another service, and the clean-up it leaves behind:   *)
(* cleanup_resources_for_service_switch, one at a time.                           *)

OtherService ==
    /\ "switch" \in Env /\ switches < MaxSwitch
    /\ switches' = switches + 1
    /\ active' = "other"
    /\ cleanups' = IF active = "ASR" /\ ~asrKeepAlive THEN cleanups + 1 ELSE cleanups
    /\ UNCHANGED <<scenario, active_sessions, whisper_wrapper, engine, lock, task, answer,
                   watchdog, asrKeepAlive>>

(* The sessions are gone: with a wrapper left it is stopped, for 0.1 s at most.   *)
Release ==
    /\ active_sessions' = {}
    /\ IF whisper_wrapper = None
       THEN At(Cleaner, "idle") /\ cleanups' = cleanups - 1
       ELSE At(Cleaner, "stop") /\ UNCHANGED cleanups
    /\ UNCHANGED <<scenario, whisper_wrapper, engine, lock, answer, watchdog, active,
                   asrKeepAlive, switches>>

BeginCleanUp ==
    /\ task[Cleaner].at = "idle" /\ cleanups > 0
    /\ IF MustClose(active_sessions)
       THEN /\ Cleaning(Cleaner, "release")
            /\ UNCHANGED <<scenario, active_sessions, whisper_wrapper, engine, lock, answer,
                           watchdog, active, asrKeepAlive, cleanups, switches>>
       ELSE Release

SettledCleaner == task[Cleaner].at = "settle" /\ Release

(* What is the singleton by then is closed.                                       *)
Stopped ==
    /\ task[Cleaner].at = "stop"
    /\ IF whisper_wrapper = None
       THEN At(Cleaner, "closed")
       ELSE Holding(Cleaner, "closing", whisper_wrapper)
    /\ UNCHANGED <<scenario, active_sessions, whisper_wrapper, engine, lock, answer, watchdog,
                   active, asrKeepAlive, cleanups, switches>>

EndCleanUp ==
    /\ task[Cleaner].at = "closed"
    /\ whisper_wrapper' = None
    /\ At(Cleaner, "idle")
    /\ cleanups' = cleanups - 1
    /\ UNCHANGED <<scenario, active_sessions, engine, lock, answer, watchdog, active,
                   asrKeepAlive, switches>>

-----------------------------------------------------------------------------
Continue ==
    \/ \E r \in Request :
         \/ GetWrapper(r) \/ Initialised(r) \/ InitFails(r) \/ Start(r) \/ Transcribed(r)
         \/ EndFile(r) \/ Settled(r) \/ WatchdogThread(r) \/ EndClose(Close(r))
    \/ \E t \in Task : ThreadCloses(t) \/ DropStale(t)
    \/ EndClose(Stray) \/ BeginCleanUp \/ SettledCleaner \/ Stopped \/ EndCleanUp

Next ==
    \/ \E r \in Request : Refuse(r) \/ Accept(r) \/ CloseSession(r) \/ Silence(r)
    \/ CloseAny \/ OtherService \/ Continue

(* The event loop resumes every coroutine whose thread or sleep has ended, and    *)
(* hands whisper_wrapper_lock on in turn.                                         *)
Spec ==
    /\ Init /\ [][Next]_vars
    /\ WF_vars(BeginCleanUp \/ SettledCleaner \/ Stopped \/ EndCleanUp)
    /\ \A t \in Task : WF_vars(ThreadCloses(t) \/ DropStale(t))
    /\ \A r \in Request :
         WF_vars(GetWrapper(r) \/ Initialised(r) \/ InitFails(r) \/ Start(r)
                 \/ Transcribed(r) \/ EndFile(r) \/ Settled(r))

-----------------------------------------------------------------------------
Underway(r) == task[Create(r)].at \notin {"idle", "done"}
BeingClosed(w) == \E t \in Task : task[t].at \in {"closing", "closed"} /\ task[t].w = w

(* A session somebody streams audio to has the singleton wrapper, with its engine *)
(* up, to itself until it is closed. It takes the sentinel, set before the first  *)
(* await, to keep the others out that long. Not for requests that may take it     *)
(* from its owner: keep_alive, a close without a session, the clean-up for        *)
(* another service, and an upload of a file, which takes its own.                 *)
SessionBacked ==
    Keep = {} /\ Env \cap {"stray", "switch"} = {} /\ (\A r \in Request : Kind(r) # "file") =>
      \A r \in Request :
        LET w == task[Create(r)].w
        IN  Item("live", r) \in active_sessions /\ watchdog[r] = "armed" /\ ~BeingClosed(w) =>
              /\ w = whisper_wrapper /\ engine[w] = "ready"
              /\ \A q \in Request \ {r} : ~Underway(q) /\ Item("live", q) \notin active_sessions

(* What keeps others out is a live session or a request that still works, however *)
(* clean-ups, closes and requests overtake each other: no sentinel and no upload  *)
(* outlives its request. An unreadable parameter leaves its sentinel.             *)
SlotNotLeaked ==
    "invalid" \notin Env =>
      \A e \in active_sessions : e.is # "live" => Underway(e.of)

(* Every request is answered, with the lock, the wrapper and the sessions taken   *)
(* away or closed under it by whoever else.                                       *)
Answered == \A r \in Request : Underway(r) ~> answer[r] # "none"
====
