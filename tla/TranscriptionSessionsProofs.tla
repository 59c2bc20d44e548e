------------------- MODULE TranscriptionSessionsProofs -------------------
(* Proofs about TranscriptionSessions, for any number of requests and every       *)
(* scenario: no request leaves its sentinel behind, and between polite clients a  *)
(* live session has the wrapper to itself.                                        *)
EXTENDS TranscriptionSessions, TLAPS

-----------------------------------------------------------------------------
(* The types the proofs need.                                                     *)

Where == {"idle", "stale", "staleClosed", "settle", "lock", "init", "start", "transcribe",
          "stop", "closing", "closed", "done"}
State == [at : Where, w : Request \cup {None}, then : {"reserve", "upload", "release"}]

Typed ==
    /\ active_sessions \subseteq Entry
    /\ whisper_wrapper \in Request \cup {None}
    /\ engine \in [Request -> {"none", "made", "ready", "closed"}]
    /\ task \in [Task -> State]
    /\ answer \in [Request -> {"none", "ok", "error", "conflict"}]
    /\ watchdog \in [Request -> {"none", "armed", "closing", "over"}]

LEMMA TasksDiffer ==
    ASSUME NEW r \in Request
    PROVE  /\ Create(r) \in Task /\ Close(r) \in Task /\ Stray \in Task /\ Cleaner \in Task
           /\ Create(r) # Cleaner /\ Create(r) # Stray /\ Close(r) # Cleaner /\ Close(r) # Stray
           /\ Stray # Cleaner
           /\ \A q \in Request : Create(r) # Close(q) /\ (Create(r) = Create(q) => r = q)
                                 /\ (Close(r) = Close(q) => r = q)
BY SessionAssumption DEF Create, Close, Stray, Cleaner, Task

LEMMA FixedTasks == Stray \in Task /\ Cleaner \in Task /\ Stray # Cleaner
BY DEF Stray, Cleaner, Task

(* What the helpers leave of the type of task.                                    *)
LEMMA AtTyped ==
    ASSUME Typed, NEW t \in Task, NEW where \in Where, At(t, where)
    PROVE  /\ task' \in [Task -> State]
           /\ task'[t].at = where /\ task'[t].w = task[t].w
           /\ \A u \in Task : u # t => task'[u] = task[u]
BY DEF Typed, At, Where, State

LEMMA HoldingTyped ==
    ASSUME Typed, NEW t \in Task, NEW where \in Where, NEW w \in Request \cup {None},
           Holding(t, where, w)
    PROVE  /\ task' \in [Task -> State]
           /\ task'[t].at = where /\ task'[t].w = w
           /\ \A u \in Task : u # t => task'[u] = task[u]
<1>1. task[t] \in State
  BY DEF Typed
<1>2. /\ DOMAIN task' = Task
      /\ task'[t] = [at |-> where, w |-> w, then |-> task[t].then]
      /\ \A u \in Task : u # t => task'[u] = task[u]
  BY <1>1 DEF Typed, Holding, State
<1>3. task'[t] \in State
  BY <1>1, <1>2 DEF State
<1>4. task' \in [Task -> State]
  BY <1>2, <1>3 DEF Typed, Holding
<1>5. QED
  BY <1>2, <1>4

LEMMA CleaningTyped ==
    ASSUME Typed, NEW t \in Task, NEW then \in {"reserve", "upload", "release"}, Cleaning(t, then)
    PROVE  /\ task' \in [Task -> State]
           /\ task'[t].at = "stale" /\ task'[t].w = whisper_wrapper
           /\ \A u \in Task : u # t => task'[u] = task[u]
BY DEF Typed, Cleaning, Where, State

LEMMA ItemTyped ==
    ASSUME NEW is \in {"pending", "live", "upload"}, NEW r \in Request
    PROVE  Item(is, r) \in Entry
BY DEF Item, Entry

LEMMA EndCreateTyped ==
    ASSUME Typed, NEW r \in Request, NEW sessions \in SUBSET Entry,
           NEW result \in {"ok", "error", "conflict"}, EndCreate(r, sessions, result)
    PROVE  /\ task' \in [Task -> State] /\ active_sessions' \subseteq Entry
           /\ answer' \in [Request -> {"none", "ok", "error", "conflict"}]
           /\ task'[Create(r)].at = "done" /\ task'[Create(r)].w = task[Create(r)].w
           /\ \A u \in Task : u # Create(r) => task'[u] = task[u]
<1>1. Create(r) \in Task /\ At(Create(r), "done") /\ "done" \in Where
  BY TasksDiffer DEF EndCreate, Where
<1>2. active_sessions' \subseteq Entry
  BY DEF EndCreate, Without
<1>3. answer' \in [Request -> {"none", "ok", "error", "conflict"}]
  BY DEF EndCreate, Typed
<1> QED
  BY <1>1, <1>2, <1>3, AtTyped

LEMMA ShutTyped ==
    ASSUME Typed, NEW w \in Request \cup {None}, Shut(w)
    PROVE  engine' \in [Request -> {"none", "made", "ready", "closed"}]
BY DEF Typed, Shut

LEMMA UploadTyped ==
    ASSUME Typed, NEW r \in Request, Upload(r)
    PROVE  /\ active_sessions' \subseteq Entry /\ task' \in [Task -> State] /\ answer' = answer
           /\ active_sessions' \subseteq {Item("upload", r)}
           /\ task'[Create(r)].at = "lock" /\ task'[Create(r)].w = task[Create(r)].w
           /\ \A u \in Task : u # Create(r) => task'[u] = task[u]
<1>1. Create(r) \in Task /\ At(Create(r), "lock") /\ "lock" \in Where
  BY TasksDiffer DEF Upload, Where
<1>2. active_sessions' \subseteq {Item("upload", r)}
  BY DEF Upload
<1> QED
  BY <1>1, <1>2, AtTyped, ItemTyped DEF Upload

LEMMA ReserveTyped ==
    ASSUME Typed, NEW r \in Request, NEW sessions \in SUBSET Entry, Reserve(r, sessions)
    PROVE  Typed'
<1>1. Create(r) \in Task /\ Item("pending", r) \in Entry
  BY TasksDiffer, ItemTyped
<1>2. /\ active_sessions' \subseteq Entry /\ task' \in [Task -> State]
      /\ answer' \in [Request -> {"none", "ok", "error", "conflict"}]
  <2>1. CASE /\ At(Create(r), "done") /\ answer' = [answer EXCEPT ![r] = "error"]
             /\ active_sessions' \in {sessions, Reserved(sessions, r)}
    BY <1>1, <2>1, AtTyped DEF Typed, Where, Reserved
  <2>2. CASE active_sessions' = Reserved(sessions, r) /\ At(Create(r), "lock") /\ UNCHANGED answer
    BY <1>1, <2>2, AtTyped DEF Typed, Where, Reserved
  <2>3. CASE /\ active_sessions' = Reserved(sessions, r)
             /\ Cleaning(Create(r), "upload") /\ UNCHANGED answer
    BY <1>1, <2>3, CleaningTyped DEF Typed, Reserved
  <2>4. CASE Upload(r)
    BY <2>4, UploadTyped DEF Typed
  <2> QED
    BY <2>1, <2>2, <2>3, <2>4, Zenon DEF Reserve
<1> QED
  BY <1>2 DEF Reserve, Typed

-----------------------------------------------------------------------------
(* The types are kept by every step.                                              *)

LEMMA TypeInit == Init => Typed
<1> SUFFICES ASSUME Init PROVE Typed
  OBVIOUS
<1>1. task \in [Task -> State]
  BY DEF Init, State, Where
<1> QED
  BY <1>1 DEF Init, Typed

LEMMA TypeStep ==
    ASSUME Typed, [Next]_vars
    PROVE  Typed'
<1>1. ASSUME NEW r \in Request, Refuse(r) PROVE Typed'
  <2>1. active_sessions \in SUBSET Entry /\ EndCreate(r, active_sessions, "conflict")
    BY <1>1 DEF Refuse, Typed
  <2> QED
    BY <1>1, <2>1, EndCreateTyped DEF Refuse, Typed
<1>2. ASSUME NEW r \in Request, Accept(r) PROVE Typed'
  <2>1. Create(r) \in Task
    BY TasksDiffer
  <2>2. CASE MustClose(active_sessions)
    BY <1>2, <2>1, <2>2, CleaningTyped DEF Accept, Typed
  <2>3. CASE ~MustClose(active_sessions)
    BY <1>2, <2>3, ReserveTyped DEF Accept
  <2> QED
    BY <2>2, <2>3
<1>3. ASSUME NEW r \in Request, GetWrapper(r) PROVE Typed'
  <2>1. Create(r) \in Task /\ "init" \in Where /\ "start" \in Where
    BY TasksDiffer DEF Where
  <2>2. CASE whisper_wrapper = None
    BY <1>3, <2>1, <2>2, AtTyped DEF GetWrapper, Typed
  <2>3. CASE whisper_wrapper # None
    BY <1>3, <2>1, <2>3, HoldingTyped DEF GetWrapper, Typed
  <2> QED
    BY <2>2, <2>3
<1>4. ASSUME NEW r \in Request, Initialised(r) PROVE Typed'
  <2>1. /\ Create(r) \in Task /\ "start" \in Where /\ active_sessions \in SUBSET Entry
        /\ engine' \in [Request -> {"none", "made", "ready", "closed"}]
    BY <1>4, TasksDiffer DEF Where, Initialised, Typed
  <2>2. CASE whisper_wrapper = None
    BY <1>4, <2>1, <2>2, EndCreateTyped DEF Initialised, Typed
  <2>3. CASE whisper_wrapper # None
    BY <1>4, <2>1, <2>3, HoldingTyped DEF Initialised, Typed
  <2> QED
    BY <2>2, <2>3
<1>5. ASSUME NEW r \in Request, InitFails(r) PROVE Typed'
  <2>1. /\ active_sessions \in SUBSET Entry /\ EndCreate(r, active_sessions, "error")
        /\ engine' \in [Request -> {"none", "made", "ready", "closed"}]
    BY <1>5 DEF InitFails, Typed
  <2> QED
    BY <1>5, <2>1, EndCreateTyped DEF InitFails, Typed
<1>6. ASSUME NEW r \in Request, Start(r) PROVE Typed'
  <2>1. Create(r) \in Task /\ "transcribe" \in Where
    BY TasksDiffer DEF Where
  <2>2. CASE Kind(r) = "live"
    <3>1. active_sessions \cup {Item("live", r)} \in SUBSET Entry
      BY ItemTyped DEF Typed
    <3> QED
      BY <1>6, <2>2, <3>1, EndCreateTyped DEF Start, Typed
  <2>3. CASE Kind(r) # "live"
    BY <1>6, <2>1, <2>3, AtTyped DEF Start, Typed
  <2> QED
    BY <2>2, <2>3
<1>7. ASSUME NEW r \in Request, Transcribed(r) PROVE Typed'
  <2>1. Create(r) \in Task /\ "closing" \in Where /\ active_sessions \in SUBSET Entry
    BY TasksDiffer DEF Where, Typed
  <2>2. CASE r \in Keep
    <3>1. PICK result \in {"ok", "error"} : EndCreate(r, active_sessions, result)
      BY <1>7, <2>2 DEF Transcribed
    <3> QED
      BY <1>7, <2>1, <3>1, EndCreateTyped DEF Transcribed, Typed
  <2>3. CASE r \notin Keep
    BY <1>7, <2>1, <2>3, AtTyped DEF Transcribed, Typed
  <2> QED
    BY <2>2, <2>3
<1>8. ASSUME NEW r \in Request, EndFile(r) PROVE Typed'
  <2>1. PICK result \in {"ok", "error"} : EndCreate(r, active_sessions, result)
    BY <1>8 DEF EndFile
  <2>2. active_sessions \in SUBSET Entry
    BY DEF Typed
  <2> QED
    BY <1>8, <2>1, <2>2, EndCreateTyped DEF EndFile, Typed
<1>9. ASSUME NEW r \in Request, Settled(r) PROVE Typed'
  <2>1. CASE Reserve(r, {})
    BY <2>1, ReserveTyped
  <2>2. CASE Upload(r) /\ UNCHANGED <<scenario, whisper_wrapper, engine, watchdog>>
    BY <2>2, UploadTyped DEF Typed
  <2> QED
    BY <1>9, <2>1, <2>2 DEF Settled
<1>10. ASSUME NEW t \in Task, ThreadCloses(t) PROVE Typed'
  <2>1. "staleClosed" \in Where /\ "closed" \in Where /\ task[t].w \in Request \cup {None}
    BY DEF Where, State, Typed
  <2>2. engine' \in [Request -> {"none", "made", "ready", "closed"}]
    BY <1>10, <2>1, ShutTyped DEF ThreadCloses
  <2> QED
    BY <1>10, <2>1, <2>2, AtTyped DEF ThreadCloses, Typed
<1>11. ASSUME NEW t \in Task, DropStale(t) PROVE Typed'
  BY <1>11, AtTyped DEF DropStale, Where, Typed
<1>12. ASSUME NEW t \in Task, NEW e, BeginClose(t, e) PROVE Typed'
  <2>1. "closing" \in Where /\ "done" \in Where
    BY DEF Where
  <2>2. CASE CloseOther(t) /\ UNCHANGED <<whisper_wrapper, engine, answer>>
    BY <2>1, <2>2, AtTyped DEF CloseOther, Typed
  <2>3. CASE /\ Holding(t, "closing", whisper_wrapper)
             /\ UNCHANGED <<watchdog, active_sessions, whisper_wrapper, engine, answer>>
    BY <2>1, <2>3, HoldingTyped DEF Typed
  <2>4. ASSUME NEW r \in Request, CloseLive(t, r),
               UNCHANGED <<whisper_wrapper, engine, answer>>
        PROVE  Typed'
    <3>1. task[Create(r)].w \in Request \cup {None}
      BY TasksDiffer DEF Typed, State
    <3>2. watchdog' \in [Request -> {"none", "armed", "closing", "over"}]
      BY <2>4 DEF CloseLive, Typed
    <3> QED
      BY <2>1, <2>4, <3>1, <3>2, HoldingTyped DEF CloseLive, Typed
  <2>5. PICK target \in CloseTarget(e) :
          IF target = None
          THEN IF whisper_wrapper = None
               THEN CloseOther(t)
               ELSE Holding(t, "closing", whisper_wrapper) /\ UNCHANGED <<watchdog, active_sessions>>
          ELSE IF target.is = "live" THEN CloseLive(t, target.of) ELSE CloseOther(t)
    BY <1>12 DEF BeginClose
  <2>6. UNCHANGED <<whisper_wrapper, engine, answer>>
    BY <1>12 DEF BeginClose
  <2>7. CASE target = None
    BY <2>2, <2>3, <2>5, <2>6, <2>7
  <2>8. CASE target # None
    <3>1. target.of \in Request
      BY <2>8 DEF CloseTarget, Typed, Entry
    <3> QED
      BY <2>2, <2>4, <2>5, <2>6, <2>8, <3>1
  <2> QED
    BY <2>7, <2>8
<1>13. ASSUME NEW t \in Task, EndClose(t) PROVE Typed'
  BY <1>13, AtTyped DEF EndClose, Where, Typed
<1>14. ASSUME NEW r \in Request, Silence(r) PROVE Typed'
  BY <1>14 DEF Silence, Typed
<1>15. ASSUME NEW r \in Request, WatchdogThread(r) PROVE Typed'
  <2>1. task[Create(r)].w \in Request \cup {None}
    BY TasksDiffer DEF Typed, State
  <2>2. engine' \in [Request -> {"none", "made", "ready", "closed"}]
    BY <1>15, <2>1, ShutTyped DEF WatchdogThread
  <2> QED
    BY <1>15, <2>2 DEF WatchdogThread, Typed
<1>16. ASSUME Release PROVE Typed'
  BY <1>16, FixedTasks, AtTyped DEF Release, Where, Typed
<1>17. ASSUME BeginCleanUp PROVE Typed'
  BY <1>16, <1>17, FixedTasks, CleaningTyped DEF BeginCleanUp, Typed
<1>18. ASSUME Stopped PROVE Typed'
  BY <1>18, FixedTasks, AtTyped, HoldingTyped DEF Stopped, Where, Typed
<1>19. ASSUME EndCleanUp PROVE Typed'
  BY <1>19, FixedTasks, AtTyped DEF EndCleanUp, Where, Typed
<1>20. ASSUME OtherService PROVE Typed'
  BY <1>20 DEF OtherService, Typed
<1>21. ASSUME UNCHANGED vars PROVE Typed'
  BY <1>21 DEF vars, Typed
<1>22. ASSUME Continue PROVE Typed'
  BY <1>3, <1>4, <1>5, <1>6, <1>7, <1>8, <1>9, <1>10, <1>11, <1>13, <1>15, <1>16, <1>17,
     <1>18, <1>19, <1>22, TasksDiffer, FixedTasks DEF Continue, SettledCleaner
<1> QED
  BY <1>1, <1>2, <1>12, <1>14, <1>20, <1>21, <1>22, TasksDiffer, FixedTasks
  DEF Next, CloseSession, CloseAny

-----------------------------------------------------------------------------
(* No sentinel outlives its request: SlotNotLeaked is inductive with the types.   *)

(* A step that moves one coroutine and leaves nothing behind that was not there.  *)
LEMMA SlotKept ==
    ASSUME Typed, Typed', SlotNotLeaked, UNCHANGED scenario, NEW t \in Task,
           \A u \in Task : u # t => task'[u] = task[u],
           active_sessions' \subseteq active_sessions,
           \/ task'[t].at \notin {"idle", "done"}
           \/ \A r \in Request : t # Create(r)
    PROVE  SlotNotLeaked'
<1> SUFFICES ASSUME "invalid" \notin Env, NEW e \in active_sessions, e.is # "live", e \in active_sessions'
             PROVE  Underway(e.of)'
  BY DEF SlotNotLeaked, Env
<1>1. e.of \in Request /\ Underway(e.of)
  BY DEF Typed, Entry, SlotNotLeaked
<1>2. Create(e.of) \in Task
  BY <1>1, TasksDiffer
<1>3. CASE t = Create(e.of)
  BY <1>1, <1>3 DEF Underway
<1>4. CASE t # Create(e.of)
  BY <1>1, <1>2, <1>4 DEF Underway
<1> QED
  BY <1>3, <1>4

(* The end of a request: what it leaves is of others that are underway.           *)
LEMMA SlotTakenAway ==
    ASSUME Typed, SlotNotLeaked, UNCHANGED scenario, NEW r \in Request,
           NEW sessions \in SUBSET Entry, NEW result \in {"ok", "error", "conflict"},
           EndCreate(r, sessions, result), sessions \subseteq active_sessions \cup {Item("live", r)}
    PROVE  SlotNotLeaked'
<1> SUFFICES ASSUME "invalid" \notin Env, NEW e \in active_sessions', e.is # "live"
             PROVE  Underway(e.of)'
  BY DEF SlotNotLeaked, Env
<1>1. e \in sessions /\ e # Item("pending", r) /\ e # Item("upload", r)
  BY DEF EndCreate, Without
<1>2. e \in active_sessions /\ e.of \in Request /\ e = [is |-> e.is, of |-> e.of]
  BY <1>1 DEF Item, Entry
<1>3. e.of # r
  BY <1>1, <1>2 DEF Item, Entry
<1>4. Create(e.of) \in Task /\ Create(e.of) # Create(r)
  BY <1>2, <1>3, TasksDiffer
<1>5. task'[Create(e.of)] = task[Create(e.of)]
  BY <1>4, EndCreateTyped
<1> QED
  BY <1>2, <1>5 DEF SlotNotLeaked, Underway

LEMMA SlotOfReserve ==
    ASSUME Typed, UNCHANGED scenario, NEW r \in Request, Reserve(r, {})
    PROVE  SlotNotLeaked'
<1> SUFFICES ASSUME "invalid" \notin Env, NEW e \in active_sessions'
             PROVE  Underway(e.of)'
  BY DEF SlotNotLeaked, Env
<1>1. Create(r) \in Task
  BY TasksDiffer
<1>2. CASE active_sessions' = Reserved({}, r) /\ At(Create(r), "lock")
  BY <1>1, <1>2, AtTyped DEF Reserved, Item, Underway, Where
<1>3. CASE active_sessions' = Reserved({}, r) /\ Cleaning(Create(r), "upload")
  BY <1>1, <1>3, CleaningTyped DEF Reserved, Item, Underway
<1>4. CASE Upload(r)
  BY <1>4, UploadTyped DEF Item, Underway
<1> QED
  BY <1>2, <1>3, <1>4, Zenon DEF Reserve

LEMMA SlotStep ==
    ASSUME Typed, Typed', SlotNotLeaked, [Next]_vars
    PROVE  SlotNotLeaked'
<1> active_sessions \in SUBSET Entry
  BY DEF Typed
<1>1. ASSUME NEW r \in Request, Refuse(r) PROVE SlotNotLeaked'
  <2>1. EndCreate(r, active_sessions, "conflict") /\ UNCHANGED scenario
    BY <1>1 DEF Refuse
  <2> QED
    BY <2>1, SlotTakenAway
<1>2. ASSUME NEW r \in Request, Accept(r) PROVE SlotNotLeaked'
  <2>1. CASE MustClose(active_sessions)
    <3>1. Create(r) \in Task /\ Cleaning(Create(r), "reserve") /\ UNCHANGED <<scenario, active_sessions>>
      BY <1>2, <2>1, TasksDiffer DEF Accept
    <3> QED
      BY <3>1, CleaningTyped, SlotKept
  <2>2. CASE ~MustClose(active_sessions)
    BY <1>2, <2>2, SlotOfReserve DEF Accept, Reserve
  <2> QED
    BY <2>1, <2>2
<1>3. ASSUME NEW r \in Request, GetWrapper(r) PROVE SlotNotLeaked'
  <2>1. /\ Create(r) \in Task /\ "init" \in Where /\ "start" \in Where
        /\ UNCHANGED <<scenario, active_sessions>>
    BY <1>3, TasksDiffer DEF Where, GetWrapper
  <2>2. CASE At(Create(r), "init")
    BY <2>1, <2>2, AtTyped, SlotKept
  <2>3. CASE Holding(Create(r), "start", whisper_wrapper)
    BY <2>1, <2>3, HoldingTyped, SlotKept DEF Typed
  <2> QED
    BY <1>3, <2>2, <2>3 DEF GetWrapper
<1>4. ASSUME NEW r \in Request, Initialised(r) PROVE SlotNotLeaked'
  <2>1. Create(r) \in Task /\ "start" \in Where /\ UNCHANGED scenario
    BY <1>4, TasksDiffer DEF Where, Initialised
  <2>2. CASE EndCreate(r, active_sessions, "error")
    BY <2>1, <2>2, SlotTakenAway
  <2>3. CASE Holding(Create(r), "start", whisper_wrapper) /\ UNCHANGED active_sessions
    BY <2>1, <2>3, HoldingTyped, SlotKept DEF Typed
  <2> QED
    BY <1>4, <2>2, <2>3 DEF Initialised
<1>5. ASSUME NEW r \in Request, InitFails(r) PROVE SlotNotLeaked'
  <2>1. EndCreate(r, active_sessions, "error") /\ UNCHANGED scenario
    BY <1>5 DEF InitFails
  <2> QED
    BY <2>1, SlotTakenAway
<1>6. ASSUME NEW r \in Request, Start(r) PROVE SlotNotLeaked'
  <2>1. Create(r) \in Task /\ "transcribe" \in Where /\ UNCHANGED scenario
    BY <1>6, TasksDiffer DEF Where, Start
  <2>2. CASE EndCreate(r, active_sessions \cup {Item("live", r)}, "ok")
    BY <2>1, <2>2, SlotTakenAway, ItemTyped
  <2>3. CASE At(Create(r), "transcribe") /\ UNCHANGED active_sessions
    BY <2>1, <2>3, AtTyped, SlotKept
  <2> QED
    BY <1>6, <2>2, <2>3 DEF Start
<1>7. ASSUME NEW r \in Request, Transcribed(r) PROVE SlotNotLeaked'
  <2>1. Create(r) \in Task /\ "closing" \in Where /\ UNCHANGED scenario
    BY <1>7, TasksDiffer DEF Where, Transcribed
  <2>2. ASSUME NEW result \in {"ok", "error"}, EndCreate(r, active_sessions, result)
        PROVE  SlotNotLeaked'
    BY <2>1, <2>2, SlotTakenAway
  <2>3. CASE At(Create(r), "closing") /\ UNCHANGED active_sessions
    BY <2>1, <2>3, AtTyped, SlotKept
  <2> QED
    BY <1>7, <2>2, <2>3 DEF Transcribed
<1>8. ASSUME NEW r \in Request, EndFile(r) PROVE SlotNotLeaked'
  <2>1. PICK result \in {"ok", "error"} : EndCreate(r, active_sessions, result)
    BY <1>8 DEF EndFile
  <2> QED
    BY <1>8, <2>1, SlotTakenAway DEF EndFile
<1>9. ASSUME NEW r \in Request, Settled(r) PROVE SlotNotLeaked'
  <2>1. CASE Reserve(r, {})
    BY <2>1, SlotOfReserve DEF Reserve
  <2>2. CASE Upload(r) /\ UNCHANGED scenario
    BY <2>2, UploadTyped DEF SlotNotLeaked, Underway, Item
  <2> QED
    BY <1>9, <2>1, <2>2 DEF Settled
<1>10. ASSUME NEW t \in Task, ThreadCloses(t) PROVE SlotNotLeaked'
  <2>1. "staleClosed" \in Where /\ "closed" \in Where
    BY DEF Where
  <2> QED
    BY <1>10, <2>1, AtTyped, SlotKept DEF ThreadCloses
<1>11. ASSUME NEW t \in Task, DropStale(t) PROVE SlotNotLeaked'
  <2>1. "settle" \in Where
    BY DEF Where
  <2> QED
    BY <1>11, <2>1, AtTyped, SlotKept DEF DropStale
<1>12. ASSUME NEW t \in Task, NEW e, BeginClose(t, e), \A r \in Request : t # Create(r)
       PROVE  SlotNotLeaked'
  <2>1. "closing" \in Where /\ "done" \in Where /\ UNCHANGED scenario
    BY <1>12 DEF Where, BeginClose
  <2>2. CASE CloseOther(t)
    BY <1>12, <2>1, <2>2, AtTyped, SlotKept DEF CloseOther
  <2>3. ASSUME NEW w \in Request \cup {None}, Holding(t, "closing", w), UNCHANGED active_sessions
        PROVE  SlotNotLeaked'
    BY <1>12, <2>1, <2>3, HoldingTyped, SlotKept
  <2>4. ASSUME NEW r \in Request, CloseLive(t, r) PROVE SlotNotLeaked'
    <3>1. task[Create(r)].w \in Request \cup {None}
      BY TasksDiffer DEF Typed, State
    <3> QED
      BY <2>3, <2>4, <3>1 DEF CloseLive
  <2>5. PICK target \in CloseTarget(e) :
          IF target = None
          THEN IF whisper_wrapper = None
               THEN CloseOther(t)
               ELSE Holding(t, "closing", whisper_wrapper) /\ UNCHANGED <<watchdog, active_sessions>>
          ELSE IF target.is = "live" THEN CloseLive(t, target.of) ELSE CloseOther(t)
    BY <1>12 DEF BeginClose
  <2>6. CASE target = None
    BY <2>2, <2>3, <2>5, <2>6 DEF Typed
  <2>7. CASE target # None
    <3>1. target.of \in Request
      BY <2>7 DEF CloseTarget, Typed, Entry
    <3> QED
      BY <2>2, <2>4, <2>5, <2>7, <3>1
  <2> QED
    BY <2>6, <2>7
<1>13. ASSUME NEW t \in Task, EndClose(t), \A r \in Request : t # Create(r) PROVE SlotNotLeaked'
  BY <1>13 DEF EndClose, SlotNotLeaked
<1>14. ASSUME UNCHANGED <<scenario, active_sessions, task>> PROVE SlotNotLeaked'
  BY <1>14 DEF SlotNotLeaked, Underway, Env
<1>15. ASSUME Release PROVE SlotNotLeaked'
  BY <1>15 DEF Release, SlotNotLeaked
<1>16. Cleaner \in Task /\ \A r \in Request : Cleaner # Create(r)
  BY TasksDiffer, FixedTasks
<1>17. ASSUME BeginCleanUp PROVE SlotNotLeaked'
  <2>1. CASE Cleaning(Cleaner, "release") /\ UNCHANGED <<scenario, active_sessions>>
    BY <1>16, <2>1, CleaningTyped, SlotKept
  <2> QED
    BY <1>15, <1>17, <2>1 DEF BeginCleanUp
<1>18. ASSUME Stopped PROVE SlotNotLeaked'
  <2>1. CASE At(Cleaner, "closed")
    BY <1>16, <1>18, <2>1, AtTyped, SlotKept DEF Stopped, Where
  <2>2. CASE Holding(Cleaner, "closing", whisper_wrapper)
    BY <1>16, <1>18, <2>2, HoldingTyped, SlotKept DEF Stopped, Where, Typed
  <2> QED
    BY <1>18, <2>1, <2>2 DEF Stopped
<1>19. ASSUME EndCleanUp PROVE SlotNotLeaked'
  BY <1>16, <1>19, AtTyped, SlotKept DEF EndCleanUp, Where
<1>20. ASSUME Continue PROVE SlotNotLeaked'
  BY <1>3, <1>4, <1>5, <1>6, <1>7, <1>8, <1>9, <1>10, <1>11, <1>13, <1>14, <1>15, <1>17,
     <1>18, <1>19, <1>20, TasksDiffer, FixedTasks DEF Continue, SettledCleaner, WatchdogThread
<1> QED
  BY <1>1, <1>2, <1>12, <1>14, <1>20, TasksDiffer, FixedTasks
  DEF Next, CloseSession, CloseAny, OtherService, Silence, vars

(* What keeps others out is a live session or a request that still works, for     *)
(* any number of requests, whatever closes, clean-ups and requests come between   *)
(* (active_sessions of ASRService).                                               *)
THEOREM SlotIsReturned == Spec => []SlotNotLeaked
<1>1. Init => Typed /\ SlotNotLeaked
  BY TypeInit DEF Init, SlotNotLeaked
<1>2. Typed /\ SlotNotLeaked /\ [Next]_vars => Typed' /\ SlotNotLeaked'
  BY TypeStep, SlotStep
<1> QED
  BY <1>1, <1>2, PTL DEF Spec

-----------------------------------------------------------------------------
(* Between polite clients one request at a time is underway or streaming: what is *)
(* in active_sessions is its own, and the wrapper and the lock are free without.  *)

Polite ==
    Keep = {} /\ Env \cap {"stray", "switch"} = {} /\ \A r \in Request : Kind(r) # "file"

(* Where a create stands, and what it then holds.                                 *)
Creating(r) ==
    LET c == task[Create(r)]
    IN  /\ \/ c.at \in {"idle", "done"}
           \/ /\ Kind(r) = "live" /\ c.at \in {"lock", "init", "start"}
              /\ Item("pending", r) \in active_sessions
           \/ /\ Kind(r) # "live"
              /\ c.at \in {"lock", "init", "start", "transcribe", "closing", "closed"}
              /\ Item("upload", r) \in active_sessions
        /\ c.at = "lock" => whisper_wrapper = None /\ lock = None
        /\ c.at = "init" => whisper_wrapper = r
        /\ c.at \in {"start", "transcribe", "closing", "closed"} =>
             whisper_wrapper = r /\ c.w = r /\ lock = None
        /\ c.at = "start" => engine[r] = "ready"

(* The session of a request, its close and its watchdog.                          *)
Streaming(r) ==
    LET c == task[Create(r)]
        k == task[Close(r)]
        registered == Item("live", r) \in active_sessions
    IN  /\ k.at \in {"idle", "closing", "closed", "done"}
        /\ k.at \in {"closing", "closed"} => registered /\ k.w = r
        /\ registered => c.at = "done" /\ c.w = r /\ whisper_wrapper = r /\ lock = None
        /\ registered /\ watchdog[r] = "armed" /\ k.at \notin {"closing", "closed"} =>
             engine[r] = "ready"
        /\ Kind(r) = "live" /\ answer[r] = "ok" /\ k.at = "idle" => registered
        /\ watchdog[r] # "none" => c.at = "done" /\ c.w = r

Peace ==
    /\ scenario \in Scenario
    /\ task[Stray].at = "idle" /\ task[Cleaner].at = "idle" /\ cleanups = 0
    /\ \A d, e \in active_sessions : d = e
    /\ active_sessions = {} => whisper_wrapper = None /\ lock = None
    /\ \A e \in active_sessions : task[Create(e.of)].at # "idle"
    /\ \A r \in Request : Creating(r) /\ Streaming(r)

(* Who is not the owner of the one entry is not underway and has no session.      *)
LEMMA OthersOut ==
    ASSUME Typed, Peace, NEW q \in Request, \A e \in active_sessions : e.of # q
    PROVE  /\ task[Create(q)].at \in {"idle", "done"} /\ ~Underway(q)
           /\ Item("live", q) \notin active_sessions
           /\ task[Close(q)].at \in {"idle", "done"}
<1>1. \A is \in {"pending", "live", "upload"} : Item(is, q) \notin active_sessions
  BY DEF Item
<1> QED
  BY <1>1 DEF Peace, Creating, Streaming, Underway

(* A step of the owner r, or of the first that comes when there is none.          *)
LEMMA OwnerStep ==
    ASSUME Typed, Peace, UNCHANGED <<scenario, cleanups>>, NEW r \in Request,
           NEW is \in {"pending", "live", "upload"},
           \A e \in active_sessions : e.of = r,
           active_sessions' \subseteq {Item(is, r)},
           active_sessions' = {} => whisper_wrapper' = None /\ lock' = None,
           \A u \in Task : u # Create(r) /\ u # Close(r) => task'[u] = task[u],
           \A q \in Request : q # r => answer'[q] = answer[q] /\ watchdog'[q] = watchdog[q],
           task'[Create(r)].at # "idle", Creating(r)', Streaming(r)'
    PROVE  Peace'
<1>1. ASSUME NEW q \in Request, q # r PROVE Creating(q)' /\ Streaming(q)'
  <2>1. /\ task'[Create(q)] = task[Create(q)] /\ task'[Close(q)] = task[Close(q)]
        /\ Item("live", q) \notin active_sessions'
    BY <1>1, TasksDiffer DEF Item
  <2>2. /\ task[Create(q)].at \in {"idle", "done"} /\ Item("live", q) \notin active_sessions
        /\ task[Close(q)].at \in {"idle", "done"}
    BY <1>1, OthersOut
  <2>3. Creating(q)'
    BY <2>1, <2>2 DEF Creating
  <2>4. Streaming(q)'
    BY <1>1, <2>1, <2>2 DEF Streaming, Peace, Kind
  <2> QED
    BY <2>3, <2>4
<1>2. task'[Stray] = task[Stray] /\ task'[Cleaner] = task[Cleaner]
  BY TasksDiffer, FixedTasks
<1>3. \A e \in active_sessions' : task'[Create(e.of)].at # "idle"
  BY DEF Item
<1> QED
  BY <1>1, <1>2, <1>3 DEF Peace

(* A step of r that takes no entry and adds none.                                 *)
LEMMA OwnStep ==
    ASSUME Typed, Peace, NEW r \in Request,
           UNCHANGED <<scenario, cleanups, active_sessions, whisper_wrapper, lock>>,
           \A u \in Task : u # Create(r) /\ u # Close(r) => task'[u] = task[u],
           \A q \in Request : q # r => /\ answer'[q] = answer[q] /\ watchdog'[q] = watchdog[q]
                                      /\ engine'[q] = engine[q],
           task[Create(r)].at # "idle" => task'[Create(r)].at # "idle", Creating(r)', Streaming(r)'
    PROVE  Peace'
<1>1. ASSUME NEW q \in Request, q # r PROVE Creating(q)' /\ Streaming(q)'
  <2>1. task'[Create(q)] = task[Create(q)] /\ task'[Close(q)] = task[Close(q)]
    BY <1>1, TasksDiffer
  <2>2. Creating(q)'
    BY <1>1, <2>1 DEF Creating, Peace, Kind
  <2>3. Streaming(q)'
    BY <1>1, <2>1 DEF Streaming, Peace, Kind
  <2> QED
    BY <2>2, <2>3
<1>2. task'[Stray] = task[Stray] /\ task'[Cleaner] = task[Cleaner]
  BY TasksDiffer, FixedTasks
<1>3. ASSUME NEW e \in active_sessions PROVE task'[Create(e.of)].at # "idle"
  <2>1. e.of \in Request /\ Create(e.of) \in Task /\ task[Create(e.of)].at # "idle"
    BY TasksDiffer DEF Typed, Entry, Peace
  <2>2. CASE e.of = r
    BY <2>1, <2>2
  <2>3. CASE e.of # r
    BY <2>1, <2>3, TasksDiffer
  <2> QED
    BY <2>2, <2>3
<1> QED
  BY <1>1, <1>2, <1>3 DEF Peace

(* The owner of an entry is the only one.                                         *)
LEMMA OwnerAlone ==
    ASSUME Peace, NEW r \in Request, NEW is, Item(is, r) \in active_sessions
    PROVE  active_sessions = {Item(is, r)} /\ \A e \in active_sessions : e.of = r
BY DEF Peace, Item

(* The entry of a create that is underway, and what follows from it.              *)
LEMMA UnderwayAlone ==
    ASSUME Typed, Peace, NEW r \in Request, Underway(r)
    PROVE  /\ active_sessions = {Item(IF Kind(r) = "live" THEN "pending" ELSE "upload", r)}
           /\ \A e \in active_sessions : e.of = r
           /\ Item("live", r) \notin active_sessions
           /\ task[Close(r)].at \in {"idle", "done"}
           /\ watchdog[r] = "none"
           /\ (Kind(r) = "live" /\ task[Close(r)].at = "idle" => answer[r] # "ok")
<1>1. Item(IF Kind(r) = "live" THEN "pending" ELSE "upload", r) \in active_sessions
  BY DEF Underway, Peace, Creating
<1>2. /\ active_sessions = {Item(IF Kind(r) = "live" THEN "pending" ELSE "upload", r)}
      /\ \A e \in active_sessions : e.of = r
  BY <1>1, OwnerAlone
<1>3. Item("live", r) \notin active_sessions
  BY <1>2 DEF Item
<1> QED
  BY <1>2, <1>3 DEF Peace, Streaming, Underway

(* The steps of a create.                                                         *)
LEMMA PeaceRefuse ==
    ASSUME Typed, Peace, NEW r \in Request, Refuse(r)
    PROVE  Peace'
<1>1. \A e \in active_sessions : e.of # r
  BY DEF Refuse, Peace
<1>2. active_sessions' = active_sessions
  BY <1>1 DEF Refuse, EndCreate, Without, Item
<1>3. /\ task'[Create(r)].at = "done" /\ \A u \in Task : u # Create(r) => task'[u] = task[u]
  BY EndCreateTyped DEF Refuse, Typed
<1>4. answer' = [answer EXCEPT ![r] = "conflict"] /\ task[Create(r)].at = "idle"
  BY DEF Refuse, EndCreate
<1>5. Creating(r)'
  BY <1>3 DEF Creating
<1>6. Streaming(r)'
  <2>1. task'[Close(r)] = task[Close(r)] /\ answer'[r] = "conflict"
    BY <1>3, <1>4, TasksDiffer DEF Typed
  <2>2. Item("live", r) \notin active_sessions' /\ watchdog' = watchdog
    BY <1>1, <1>2 DEF Item, Refuse
  <2>3. watchdog[r] = "none" /\ task[Close(r)].at \in {"idle", "done"}
    BY <1>1, <1>4, OthersOut DEF Peace, Streaming
  <2> QED
    BY <2>1, <2>2, <2>3 DEF Streaming
<1>7. \A q \in Request : q # r => answer'[q] = answer[q]
  BY <1>4 DEF Typed
<1> QED
  BY <1>2, <1>3, <1>5, <1>6, <1>7, OwnStep DEF Refuse

LEMMA PeaceAccept ==
    ASSUME Typed, Peace, Polite, NEW r \in Request, Accept(r)
    PROVE  Peace'
<1>1. active_sessions = {} /\ task[Create(r)].at = "idle" /\ Reserve(r, {})
  BY DEF Accept, MustClose, Polite
<1>2. whisper_wrapper = None /\ lock = None /\ ~MustClose(Reserved({}, r))
  BY <1>1 DEF Peace, MustClose
<1>3. /\ watchdog[r] = "none" /\ task[Close(r)].at \in {"idle", "done"}
      /\ (Kind(r) = "live" /\ task[Close(r)].at = "idle" => answer[r] # "ok")
  BY <1>1 DEF Peace, Streaming
<1>4. UNCHANGED <<scenario, cleanups, whisper_wrapper, lock, engine, watchdog>> /\ Create(r) \in Task
  BY <1>1, TasksDiffer DEF Reserve
<1>5. CASE /\ At(Create(r), "done") /\ answer' = [answer EXCEPT ![r] = "error"]
           /\ active_sessions' \in {{}, Reserved({}, r)}
  <2>1. /\ task'[Create(r)].at = "done" /\ \A u \in Task : u # Create(r) => task'[u] = task[u]
    BY <1>4, <1>5, AtTyped DEF Where
  <2>2. /\ active_sessions' \subseteq {Item("pending", r)} /\ answer'[r] = "error"
        /\ \A q \in Request : q # r => answer'[q] = answer[q]
    BY <1>5 DEF Reserved, Typed
  <2>3. Creating(r)'
    BY <2>1 DEF Creating
  <2>4. Streaming(r)'
    <3>1. Item("live", r) \notin active_sessions' /\ task'[Close(r)] = task[Close(r)]
      BY <2>1, <2>2, TasksDiffer DEF Item
    <3> QED
      BY <1>3, <1>4, <2>2, <3>1 DEF Streaming
  <2> QED
    BY <1>1, <1>2, <1>4, <2>1, <2>2, <2>3, <2>4, OwnerStep
<1>6. ASSUME NEW is \in {"pending", "upload"}, is = (IF Kind(r) = "live" THEN "pending" ELSE "upload"),
             active_sessions' = {Item(is, r)}, At(Create(r), "lock"), UNCHANGED answer
      PROVE  Peace'
  <2>1. /\ task'[Create(r)].at = "lock" /\ \A u \in Task : u # Create(r) => task'[u] = task[u]
    BY <1>4, <1>6, AtTyped DEF Where
  <2>2. Creating(r)'
    BY <1>2, <1>4, <1>6, <2>1 DEF Creating, Kind
  <2>3. Streaming(r)'
    <3>1. Item("live", r) \notin active_sessions' /\ task'[Close(r)] = task[Close(r)]
      BY <1>6, <2>1, TasksDiffer DEF Item
    <3> QED
      BY <1>3, <1>4, <1>6, <3>1 DEF Streaming, Kind
  <2> QED
    BY <1>1, <1>2, <1>4, <1>6, <2>1, <2>2, <2>3, OwnerStep
<1>7. CASE Kind(r) = "live" /\ active_sessions' = Reserved({}, r) /\ At(Create(r), "lock") /\ UNCHANGED answer
  BY <1>6, <1>7 DEF Reserved
<1>8. CASE Kind(r) # "live" /\ Upload(r)
  <2>1. Kind(r) = "streamed"
    BY <1>8 DEF Polite, Peace, Scenario, Kind
  <2> QED
    BY <1>6, <1>8, <2>1 DEF Upload
<1> QED
  BY <1>1, <1>2, <1>5, <1>7, <1>8, Zenon DEF Reserve

LEMMA PeaceGetWrapper ==
    ASSUME Typed, Peace, NEW r \in Request, GetWrapper(r)
    PROVE  Peace'
<1>1. whisper_wrapper = None /\ Underway(r) /\ task[Create(r)].at = "lock"
  BY DEF GetWrapper, Peace, Creating, Underway
<1>2. /\ whisper_wrapper' = r /\ At(Create(r), "init")
      /\ UNCHANGED <<scenario, active_sessions, answer, watchdog, cleanups>>
  BY <1>1 DEF GetWrapper
<1>3. /\ task'[Create(r)].at = "init" /\ \A u \in Task : u # Create(r) => task'[u] = task[u]
  BY <1>2, TasksDiffer, AtTyped DEF Where
<1>4. Creating(r)'
  BY <1>1, <1>2, <1>3 DEF Creating, Peace, Kind
<1>5. Streaming(r)'
  <2>1. task'[Close(r)] = task[Close(r)]
    BY <1>3, TasksDiffer
  <2> QED
    BY <1>1, <1>2, <2>1, UnderwayAlone DEF Streaming, Kind
<1>6. PICK is \in {"pending", "upload"} : active_sessions = {Item(is, r)}
  BY <1>1, UnderwayAlone
<1> QED
  BY <1>1, <1>2, <1>3, <1>4, <1>5, <1>6, UnderwayAlone, OwnerStep

LEMMA PeaceInitialised ==
    ASSUME Typed, Peace, NEW r \in Request, Initialised(r)
    PROVE  Peace'
<1>1. whisper_wrapper = r /\ whisper_wrapper # None /\ Underway(r) /\ task[Create(r)].at = "init"
  BY SessionAssumption DEF Initialised, Peace, Creating, Underway
<1>2. /\ engine'[r] = "ready" /\ lock' = None /\ Holding(Create(r), "start", r)
      /\ UNCHANGED <<scenario, active_sessions, whisper_wrapper, answer, watchdog, cleanups>>
  BY <1>1 DEF Initialised, Typed
<1>3. /\ task'[Create(r)].at = "start" /\ task'[Create(r)].w = r
      /\ \A u \in Task : u # Create(r) => task'[u] = task[u]
  BY <1>2, TasksDiffer, HoldingTyped DEF Where
<1>4. Creating(r)'
  BY <1>1, <1>2, <1>3 DEF Creating, Peace, Kind
<1>5. Streaming(r)'
  <2>1. task'[Close(r)] = task[Close(r)]
    BY <1>3, TasksDiffer
  <2> QED
    BY <1>1, <1>2, <2>1, UnderwayAlone DEF Streaming, Kind
<1>6. PICK is \in {"pending", "upload"} : active_sessions = {Item(is, r)}
  BY <1>1, UnderwayAlone
<1> QED
  BY <1>1, <1>2, <1>3, <1>4, <1>5, <1>6, UnderwayAlone, OwnerStep

(* A create that ends without a live session leaves nothing.                      *)
LEMMA PeaceEnds ==
    ASSUME Typed, Peace, NEW r \in Request, Underway(r), NEW result \in {"ok", "error"},
           Kind(r) = "live" => result = "error", EndCreate(r, active_sessions, result),
           whisper_wrapper' = None, lock' = None, UNCHANGED <<scenario, watchdog, cleanups>>
    PROVE  Peace'
<1>1. active_sessions' = {}
  <2>1. active_sessions \subseteq {Item("pending", r), Item("upload", r)}
    BY UnderwayAlone
  <2> QED
    BY <2>1 DEF EndCreate, Without
<1>2. /\ task'[Create(r)].at = "done" /\ \A u \in Task : u # Create(r) => task'[u] = task[u]
  BY EndCreateTyped DEF Typed
<1>3. answer'[r] = result /\ \A q \in Request : q # r => answer'[q] = answer[q]
  BY DEF EndCreate, Typed
<1>4. Creating(r)'
  BY <1>2 DEF Creating
<1>5. Streaming(r)'
  <2>1. task'[Close(r)] = task[Close(r)]
    BY <1>2, TasksDiffer
  <2> QED
    BY <1>1, <1>3, <2>1, UnderwayAlone DEF Streaming, Kind
<1> QED
  BY <1>1, <1>2, <1>3, <1>4, <1>5, UnderwayAlone, OwnerStep

LEMMA PeaceStart ==
    ASSUME Typed, Peace, Polite, NEW r \in Request, Start(r)
    PROVE  Peace'
<1>1. /\ Underway(r) /\ task[Create(r)].at = "start" /\ task[Create(r)].w = r
      /\ whisper_wrapper = r /\ lock = None /\ engine[r] = "ready"
  BY DEF Start, Peace, Creating, Underway
<1>2. UNCHANGED <<scenario, whisper_wrapper, engine, lock, cleanups>>
  BY DEF Start
<1>3. CASE Kind(r) = "live"
  <2>1. /\ EndCreate(r, active_sessions \cup {Item("live", r)}, "ok")
        /\ watchdog' = [watchdog EXCEPT ![r] = "armed"]
    BY <1>3 DEF Start, Polite
  <2>2. active_sessions' = {Item("live", r)}
    <3>1. active_sessions = {Item("pending", r)}
      BY <1>1, <1>3, UnderwayAlone
    <3>2. Item("live", r) # Item("pending", r) /\ Item("live", r) # Item("upload", r)
      BY DEF Item
    <3>3. active_sessions' = (active_sessions \cup {Item("live", r)})
                                \ {Item("pending", r), Item("upload", r)}
      BY <2>1 DEF EndCreate, Without
    <3> HIDE DEF Item
    <3> QED
      BY <3>1, <3>2, <3>3
  <2>3. /\ task'[Create(r)].at = "done" /\ task'[Create(r)].w = r
        /\ \A u \in Task : u # Create(r) => task'[u] = task[u]
    BY <1>1, <2>1, EndCreateTyped, ItemTyped DEF Typed
  <2>4. /\ answer'[r] = "ok" /\ watchdog'[r] = "armed"
        /\ \A q \in Request : q # r => answer'[q] = answer[q] /\ watchdog'[q] = watchdog[q]
    BY <2>1 DEF EndCreate, Typed
  <2>5. Creating(r)'
    BY <2>3 DEF Creating
  <2>6. Streaming(r)'
    <3>1. task'[Close(r)] = task[Close(r)] /\ task[Close(r)].at \in {"idle", "done"}
      BY <1>1, <2>3, TasksDiffer, UnderwayAlone
    <3> QED
      BY <1>1, <1>2, <2>2, <2>3, <2>4, <3>1 DEF Streaming
  <2> QED
    BY <1>1, <1>2, <2>2, <2>3, <2>4, <2>5, <2>6, UnderwayAlone, OwnerStep
<1>4. CASE Kind(r) # "live"
  <2>1. At(Create(r), "transcribe") /\ UNCHANGED <<active_sessions, answer, watchdog>>
    BY <1>4 DEF Start
  <2>2. /\ task'[Create(r)].at = "transcribe" /\ task'[Create(r)].w = r
        /\ \A u \in Task : u # Create(r) => task'[u] = task[u]
    BY <1>1, <2>1, TasksDiffer, AtTyped DEF Where
  <2>3. Creating(r)'
    BY <1>1, <1>2, <1>4, <2>1, <2>2, UnderwayAlone DEF Creating, Kind
  <2>4. Streaming(r)'
    <3>1. task'[Close(r)] = task[Close(r)]
      BY <2>2, TasksDiffer
    <3> QED
      BY <1>1, <1>2, <2>1, <3>1, UnderwayAlone DEF Streaming, Kind
  <2> QED
    BY <1>2, <2>1, <2>2, <2>3, <2>4, OwnStep
<1> QED
  BY <1>3, <1>4

(* A streamed file on its way through the engine.                                 *)
LEMMA PeaceFile ==
    ASSUME Typed, Peace, NEW r \in Request, Underway(r), Kind(r) # "live",
           task[Create(r)].at \in {"start", "transcribe", "closing", "closed"},
           NEW where \in {"transcribe", "closing", "closed"}, At(Create(r), where),
           \A q \in Request : q # r => engine'[q] = engine[q],
           UNCHANGED <<scenario, cleanups, active_sessions, whisper_wrapper, lock, answer, watchdog>>
    PROVE  Peace'
<1>1. /\ task'[Create(r)].at = where /\ task'[Create(r)].w = task[Create(r)].w
      /\ \A u \in Task : u # Create(r) => task'[u] = task[u]
  BY TasksDiffer, AtTyped DEF Where
<1>2. Creating(r)'
  BY <1>1, UnderwayAlone DEF Creating, Kind, Peace
<1>3. Streaming(r)'
  <2>1. task'[Close(r)] = task[Close(r)]
    BY <1>1, TasksDiffer
  <2> QED
    BY <2>1, UnderwayAlone DEF Streaming, Kind
<1> QED
  BY <1>1, <1>2, <1>3, OwnStep

LEMMA PeaceTranscribed ==
    ASSUME Typed, Peace, Polite, NEW r \in Request, Transcribed(r)
    PROVE  Peace'
<1>1. Underway(r) /\ Kind(r) # "live" /\ task[Create(r)].at = "transcribe"
  BY DEF Transcribed, Peace, Creating, Underway
<1>2. /\ At(Create(r), "closing")
      /\ UNCHANGED <<scenario, cleanups, active_sessions, whisper_wrapper, engine, lock, answer, watchdog>>
  BY DEF Transcribed, Polite
<1> QED
  BY <1>1, <1>2, PeaceFile

LEMMA PeaceEndFile ==
    ASSUME Typed, Peace, NEW r \in Request, EndFile(r)
    PROVE  Peace'
<1>1. Underway(r) /\ Kind(r) # "live" /\ lock = None
  BY DEF EndFile, Peace, Creating, Underway
<1>2. PICK result \in {"ok", "error"} : EndCreate(r, active_sessions, result)
  BY DEF EndFile
<1> QED
  BY <1>1, <1>2, PeaceEnds DEF EndFile

(* The steps of the threads, of a close and of the watchdog.                      *)
LEMMA PeaceThread ==
    ASSUME Typed, Peace, NEW t \in Task, ThreadCloses(t)
    PROVE  Peace'
<1>1. t # Stray /\ t # Cleaner
  BY DEF ThreadCloses, Peace
<1>2. ASSUME NEW r \in Request, t = Create(r) PROVE Peace'
  <2>1. Underway(r) /\ Kind(r) # "live" /\ task[t].at = "closing" /\ task[t].w = r
    BY <1>2 DEF ThreadCloses, Peace, Creating, Underway
  <2>2. /\ At(Create(r), "closed") /\ Shut(r)
        /\ UNCHANGED <<scenario, cleanups, active_sessions, whisper_wrapper, lock, answer, watchdog>>
    BY <1>2, <2>1 DEF ThreadCloses
  <2>3. \A q \in Request : q # r => engine'[q] = engine[q]
    BY <2>2 DEF Shut, Typed
  <2> QED
    BY <1>2, <2>1, <2>2, <2>3, PeaceFile
<1>3. ASSUME NEW r \in Request, t = Close(r) PROVE Peace'
  <2>1. /\ task[t].at = "closing" /\ task[t].w = r /\ Item("live", r) \in active_sessions
        /\ task[Create(r)].at = "done"
    BY <1>3 DEF ThreadCloses, Peace, Streaming
  <2>2. /\ At(t, "closed") /\ Shut(r)
        /\ UNCHANGED <<scenario, cleanups, active_sessions, whisper_wrapper, lock, answer, watchdog>>
    BY <1>3, <2>1 DEF ThreadCloses
  <2>3. \A q \in Request : q # r => engine'[q] = engine[q]
    BY <2>2 DEF Shut, Typed
  <2>4. /\ task'[t].at = "closed" /\ task'[t].w = r /\ \A u \in Task : u # t => task'[u] = task[u]
    BY <2>1, <2>2, AtTyped DEF Where
  <2>5. task'[Create(r)] = task[Create(r)]
    BY <1>3, <2>4, TasksDiffer
  <2>6. Creating(r)'
    BY <2>1, <2>5 DEF Creating
  <2>7. Streaming(r)'
    BY <1>3, <2>1, <2>2, <2>4, <2>5 DEF Streaming, Peace, Kind
  <2> QED
    BY <1>3, <2>1, <2>2, <2>3, <2>4, <2>5, <2>6, <2>7, OwnStep
<1> QED
  BY <1>1, <1>2, <1>3 DEF Task

LEMMA PeaceClose ==
    ASSUME Typed, Peace, NEW r \in Request, CloseSession(r)
    PROVE  Peace'
<1>1. /\ Kind(r) = "live" /\ answer[r] = "ok" /\ task[Close(r)].at = "idle"
      /\ BeginClose(Close(r), Item("live", r))
  BY DEF CloseSession, BeginClose
<1>2. Item("live", r) \in active_sessions /\ task[Create(r)].at = "done" /\ task[Create(r)].w = r
  BY <1>1 DEF Peace, Streaming
<1>3. CloseTarget(Item("live", r)) = {Item("live", r)} /\ Item("live", r) # None
  BY <1>2, ItemTyped, SessionAssumption DEF CloseTarget
<1>4. CloseLive(Close(r), r) /\ UNCHANGED <<scenario, cleanups, whisper_wrapper, engine, lock, answer>>
  BY <1>1, <1>3 DEF BeginClose, Item
<1>5. Holding(Close(r), "closing", r) /\ UNCHANGED active_sessions
  BY <1>2, <1>4 DEF CloseLive
<1>6. /\ task'[Close(r)].at = "closing" /\ task'[Close(r)].w = r
      /\ \A u \in Task : u # Close(r) => task'[u] = task[u]
  BY <1>5, TasksDiffer, HoldingTyped DEF Where
<1>7. task'[Create(r)] = task[Create(r)]
  BY <1>6, TasksDiffer
<1>8. \A q \in Request : q # r => watchdog'[q] = watchdog[q]
  BY <1>4 DEF CloseLive, Typed
<1>9. Creating(r)'
  BY <1>2, <1>7 DEF Creating
<1>10. Streaming(r)'
  BY <1>2, <1>4, <1>5, <1>6, <1>7 DEF Streaming, Peace
<1> QED
  BY <1>2, <1>4, <1>5, <1>6, <1>7, <1>8, <1>9, <1>10, OwnStep

LEMMA PeaceEndClose ==
    ASSUME Typed, Peace, NEW r \in Request, EndClose(Close(r))
    PROVE  Peace'
<1>1. Item("live", r) \in active_sessions /\ lock = None
  BY DEF EndClose, Peace, Streaming
<1>2. \A e \in active_sessions : e.of = r
  BY <1>1, OwnerAlone
<1>3. /\ task'[Close(r)].at = "done" /\ \A u \in Task : u # Close(r) => task'[u] = task[u]
  BY TasksDiffer, AtTyped DEF EndClose, Where
<1>4. task'[Create(r)] = task[Create(r)] /\ task[Create(r)].at = "done" /\ task[Create(r)].w = r
  BY <1>1, <1>3, TasksDiffer DEF Peace, Streaming
<1>5. /\ active_sessions' = {} /\ whisper_wrapper' = None
      /\ UNCHANGED <<scenario, cleanups, engine, lock, answer, watchdog>>
  BY DEF EndClose
<1>6. Creating(r)'
  BY <1>4 DEF Creating
<1>7. Streaming(r)'
  BY <1>3, <1>4, <1>5 DEF Streaming
<1> QED
  BY <1>1, <1>2, <1>3, <1>4, <1>5, <1>6, <1>7, OwnerStep

LEMMA PeaceSilence ==
    ASSUME Typed, Peace, NEW r \in Request, Silence(r)
    PROVE  Peace'
<1>1. PICK next \in {"closing", "over"} : watchdog' = [watchdog EXCEPT ![r] = next]
  BY DEF Silence
<1>2. watchdog'[r] = next /\ \A q \in Request : q # r => watchdog'[q] = watchdog[q]
  BY <1>1 DEF Typed
<1>3. /\ UNCHANGED <<scenario, active_sessions, whisper_wrapper, engine, lock, task, answer, cleanups>>
      /\ Item("live", r) \in active_sessions
  BY DEF Silence
<1>4. Creating(r)'
  BY <1>3 DEF Creating, Peace, Kind
<1>5. Streaming(r)'
  BY <1>2, <1>3 DEF Streaming, Peace, Kind
<1> QED
  BY <1>2, <1>3, <1>4, <1>5, OwnStep

LEMMA PeaceWatchdog ==
    ASSUME Typed, Peace, NEW r \in Request, WatchdogThread(r)
    PROVE  Peace'
<1>1. task[Create(r)].at = "done" /\ task[Create(r)].w = r
  BY DEF WatchdogThread, Peace, Streaming
<1>2. /\ watchdog'[r] = "over" /\ \A q \in Request : q # r => watchdog'[q] = watchdog[q]
  BY DEF WatchdogThread, Typed
<1>3. \A q \in Request : q # r => engine'[q] = engine[q]
  BY <1>1 DEF WatchdogThread, Shut, Typed
<1>4. UNCHANGED <<scenario, active_sessions, whisper_wrapper, lock, task, answer, cleanups>>
  BY DEF WatchdogThread
<1>5. Creating(r)'
  BY <1>1, <1>4 DEF Creating
<1>6. Streaming(r)'
  BY <1>1, <1>2, <1>4 DEF Streaming, Peace, Kind
<1> QED
  BY <1>2, <1>3, <1>4, <1>5, <1>6, OwnStep

LEMMA PeaceStep ==
    ASSUME Typed, Peace, Polite, [Next]_vars
    PROVE  Peace'
<1>1. "stray" \notin Env /\ "switch" \notin Env
  BY DEF Polite
<1>2. ASSUME NEW r \in Request, InitFails(r) PROVE Peace'
  <2>1. Underway(r) /\ EndCreate(r, active_sessions, "error")
    BY <1>2 DEF InitFails, Underway
  <2> QED
    BY <1>2, <2>1, PeaceEnds DEF InitFails, LockReleased
<1>3. ASSUME NEW r \in Request PROVE ~Settled(r)
  BY DEF Settled, Peace, Creating
<1>4. ASSUME NEW t \in Task PROVE ~DropStale(t)
  BY DEF DropStale, Task, Peace, Creating, Streaming
<1>5. ~EndClose(Stray) /\ ~BeginCleanUp /\ ~SettledCleaner /\ ~Stopped /\ ~EndCleanUp
  BY DEF EndClose, BeginCleanUp, SettledCleaner, Stopped, EndCleanUp, Peace
<1>6. CASE UNCHANGED vars
  BY <1>6 DEF vars, Peace, Creating, Streaming, Kind
<1>7. CASE Continue
  BY <1>2, <1>3, <1>4, <1>5, <1>7, PeaceGetWrapper, PeaceInitialised, PeaceStart,
     PeaceTranscribed, PeaceEndFile, PeaceWatchdog, PeaceEndClose, PeaceThread DEF Continue
<1> QED
  BY <1>1, <1>6, <1>7, PeaceRefuse, PeaceAccept, PeaceClose, PeaceSilence
  DEF Next, CloseAny, OtherService

(* A session somebody streams audio to has the singleton wrapper, with its engine *)
(* up, to itself until it is closed: for any number of polite clients, whatever   *)
(* fails and whoever falls silent (handle_create_transcription reserves the slot  *)
(* before its first await).                                                       *)
THEOREM SessionHasTheWrapper == Spec => []SessionBacked
<1>1. Init /\ Polite => Peace
  <2> SUFFICES ASSUME Init, Polite PROVE Peace
    OBVIOUS
  <2>1. scenario \in Scenario /\ Stray \in Task /\ Cleaner \in Task
    BY SessionAssumption, FixedTasks DEF Init
  <2>2. ASSUME NEW r \in Request PROVE Creating(r) /\ Streaming(r)
    BY TasksDiffer DEF Init, Creating, Streaming
  <2> QED
    BY <2>1, <2>2 DEF Init, Peace
<1>2. Typed /\ (Polite => Peace) /\ [Next]_vars => Typed' /\ (Polite => Peace)'
  <2> SUFFICES ASSUME Typed, Polite => Peace, [Next]_vars PROVE Typed' /\ (Polite => Peace)'
    OBVIOUS
  <2>1. scenario' = scenario
    BY DEF Next, Continue, vars, Refuse, Accept, CloseSession, BeginClose, Silence, CloseAny,
           OtherService, GetWrapper, Initialised, InitFails, Start, Transcribed, EndFile, Settled,
           WatchdogThread, EndClose, ThreadCloses, DropStale, BeginCleanUp, SettledCleaner,
           Stopped, EndCleanUp, Reserve, Release
  <2>2. Polite' <=> Polite
    BY <2>1 DEF Polite, Keep, Env, Kind
  <2> QED
    BY <2>2, TypeStep, PeaceStep
<1>3. Typed /\ (Polite => Peace) => SessionBacked
  <2> SUFFICES ASSUME Typed, Polite, Peace, NEW r \in Request, Item("live", r) \in active_sessions,
                      watchdog[r] = "armed", ~BeingClosed(task[Create(r)].w)
               PROVE  /\ task[Create(r)].w = whisper_wrapper /\ engine[task[Create(r)].w] = "ready"
                      /\ \A q \in Request \ {r} :
                           ~Underway(q) /\ Item("live", q) \notin active_sessions
    BY DEF SessionBacked, Polite
  <2>1. task[Create(r)].w = r /\ whisper_wrapper = r
    BY DEF Peace, Streaming
  <2>2. task[Close(r)].at \notin {"closing", "closed"}
    BY <2>1, TasksDiffer DEF BeingClosed, Peace, Streaming
  <2>3. \A e \in active_sessions : e.of = r
    BY OwnerAlone
  <2> QED
    BY <2>1, <2>2, <2>3, OthersOut DEF Peace, Streaming
<1>4. Init => Typed
  BY TypeInit
<1> QED
  BY <1>1, <1>2, <1>3, <1>4, PTL DEF Spec
=============================================================================
