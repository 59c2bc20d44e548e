---- MODULE InferenceProcessProofs ----
(* Proofs about InferenceProcess, for any runs, sessions, models and scenarios:    *)
(* a run starts on a clean KV cache, the socket has one reader, and a successful  *)
(* run has every token the subprocess made for it.                                *)
EXTENDS InferenceProcess, FiniteSetTheorems, SequenceTheorems, TLAPS

-----------------------------------------------------------------------------
(* Types. Commands carry the thread that waits for their answer, and responses    *)
(* the one they answer.                                                           *)

BeforeLock == {"new", "waiting"}
UnderLock == {"switching", "spawning", "starting", "started", "awaiting", "deciding",
              "resetting", "reset", "refused", "running"}
Phase == BeforeLock \cup UnderLock \cup Ended

LoopType == [op : {"free", "reset", "stop", "close", "kill"}, run : Run \cup {None}]
EagerType == {"none", "pending", "reading", "done"}

RunId == {"run"} \X Run
ResetId == Resets \X Run

CommandType ==
    [type : {"EXECUTE"}, id : RunId] \cup [type : {"RESET"}, id : ResetId]
      \cup [type : {"INIT", "SHUTDOWN"}, id : {None}]

ResponseType ==
    [type : {"TOKEN", "DONE"}, id : RunId] \cup [type : {"READY", "ERROR"}, id : Thread \cup {None}]

Typed ==
    /\ scenario \in Scenarios
    /\ lock \in Run \cup {None} /\ task \in Run \cup {None} /\ child \in Run \cup {None}
    /\ pc \in [Run -> Phase]
    /\ loop \in LoopType
    /\ threads \subseteq Thread /\ inside \in Thread \cup {None}
    /\ eager \in [Run -> EagerType]
    /\ justReset \in BOOLEAN
    /\ proc \in {"none", "alive", "dead"} /\ file \in {"closed", "open", "timedout"}
    /\ kv \subseteq Run /\ bad \subseteq Run
    /\ made \in [Run -> Nat] /\ got \in [Run -> Nat]
    /\ toChild \in Seq(CommandType) /\ fromChild \in Seq(ResponseType)

LEMMA Elements ==
    /\ \A p \in BeforeLock \cup UnderLock \cup Ended : p \in Phase
    /\ {"new", "waiting", "switching", "spawning", "starting", "started", "awaiting", "deciding",
        "resetting", "reset", "refused", "running", "ok", "failed", "cancelled"} = Phase
    /\ Free \in LoopType
    /\ \A r \in Run : \A op \in {"reset", "stop", "close", "kill"} : Blocked(op, r) \in LoopType
    /\ EagerType = {"none", "pending", "reading", "done"}
BY DEF BeforeLock, UnderLock, Ended, Phase, Free, Blocked, LoopType, EagerType

(* A thread is what it does and for which run.                                    *)
LEMMA ThreadShape ==
    ASSUME NEW t \in Thread
    PROVE  t[1] \in Resets \cup {"run", "start"} /\ t[2] \in Run /\ t = <<t[1], t[2]>>
BY DEF Thread

LEMMA ThreadOf ==
    ASSUME NEW r \in Run
    PROVE  /\ <<"run", r>> \in Thread /\ <<"start", r>> \in Thread
           /\ \A kind \in Resets : <<kind, r>> \in Thread
           /\ <<"run", r>> # None /\ r # None
BY ProcessAssumption DEF Thread

LEMMA MessageTypes ==
    /\ \A r \in Run : Command("EXECUTE", <<"run", r>>) \in CommandType
    /\ \A r \in Run : \A kind \in Resets : Command("RESET", <<kind, r>>) \in CommandType
    /\ Command("INIT", None) \in CommandType /\ Command("SHUTDOWN", None) \in CommandType
    /\ \A r \in Run : \A type \in {"TOKEN", "DONE", "READY", "ERROR"} :
         Response(type, <<"run", r>>) \in ResponseType
    /\ \A c \in CommandType : /\ Response("READY", c.id) \in ResponseType
                              /\ Response("ERROR", c.id) \in ResponseType
                              /\ c.type = "EXECUTE" => c.id[2] \in Run /\ c.id = <<"run", c.id[2]>>
                              /\ c.type = "RESET" => c.id[1] \in Resets /\ c.id[2] \in Run /\ c.id \in Thread
                              /\ c.type \in {"INIT", "SHUTDOWN"} => c.id = None
<1>1. \A r \in Run : <<"run", r>> \in RunId /\ \A kind \in Resets : <<kind, r>> \in ResetId
  BY DEF RunId, ResetId
<1>2. RunId \subseteq Thread /\ ResetId \subseteq Thread
  BY DEF RunId, ResetId, Thread
<1>3. \A i \in RunId : i[2] \in Run /\ i = <<"run", i[2]>>
  BY DEF RunId
<1>4. \A i \in ResetId : i[1] \in Resets /\ i[2] \in Run
  BY DEF ResetId
<1> QED
  BY <1>1, <1>2, <1>3, <1>4 DEF Command, Response, CommandType, ResponseType

(* The messages at hand are of these types, and so is what is left of them.        *)
LEMMA Ends ==
    ASSUME NEW T, NEW s \in Seq(T), s # <<>>
    PROVE  /\ Head(s) \in T /\ Tail(s) \in Seq(T) /\ Head(s) = s[1] /\ 1 \in DOMAIN s
           /\ Len(Tail(s)) = Len(s) - 1 /\ DOMAIN s = 1 .. Len(s) /\ Len(s) \in Nat
           /\ DOMAIN Tail(s) = 1 .. Len(s) - 1
           /\ \A i \in DOMAIN Tail(s) : i + 1 \in DOMAIN s /\ Tail(s)[i] = s[i + 1]
BY HeadTailProperties

LEMMA Adds ==
    ASSUME NEW T, NEW s \in Seq(T), NEW x \in T
    PROVE  /\ Append(s, x) \in Seq(T) /\ Len(s) \in Nat /\ DOMAIN s = 1 .. Len(s)
           /\ DOMAIN Append(s, x) = 1 .. Len(s) + 1
           /\ \A i \in DOMAIN s : Append(s, x)[i] = s[i]
           /\ Append(s, x)[Len(s) + 1] = x
BY AppendProperties

LEMMA Entries ==
    ASSUME NEW T, NEW s \in Seq(T)
    PROVE  /\ \A i \in DOMAIN s : s[i] \in T
           /\ \A x \in T : \A i \in DOMAIN Append(s, x) : (i \in DOMAIN s /\ Append(s, x)[i] = s[i]) \/ Append(s, x)[i] = x
<1>1. DOMAIN s = 1 .. Len(s) /\ Len(s) \in Nat
  BY LenProperties
<1>2. \A i \in DOMAIN s : s[i] \in T
  BY <1>1, ElementOfSeq
<1>3. ASSUME NEW x \in T, NEW i \in DOMAIN Append(s, x)
      PROVE  (i \in DOMAIN s /\ Append(s, x)[i] = s[i]) \/ Append(s, x)[i] = x
  <2>1. i \in 1 .. Len(s) + 1
    BY <1>3, Adds
  <2>2. CASE i = Len(s) + 1
    BY <2>2, Adds
  <2>3. CASE i \in DOMAIN s
    BY <2>3, Adds
  <2> QED
    BY <1>1, <2>1, <2>2, <2>3
<1> QED
  BY <1>2, <1>3

LEMMA Appended ==
    ASSUME NEW T, NEW s \in Seq(T), NEW x \in T
    PROVE  \A i \in DOMAIN Append(s, x) : (i \in DOMAIN s /\ Append(s, x)[i] = s[i]) \/ Append(s, x)[i] = x
BY Entries

(* An answer of two lines.                                                        *)
LEMMA TwoLines ==
    ASSUME NEW T, NEW s \in Seq(T), NEW x \in T, NEW y \in T
    PROVE  s \o <<x, y>> = Append(Append(s, x), y) /\ Append(s, x) \in Seq(T)
<1>1. Append(s, x) \in Seq(T) /\ Append(s, x) = s \o <<x>>
  BY AppendProperties, AppendIsConcat
<1>2. Append(Append(s, x), y) = (s \o <<x>>) \o <<y>>
  BY <1>1, AppendIsConcat
<1>3. <<x>> \in Seq(T) /\ <<y>> \in Seq(T) /\ <<x>> \o <<y>> = <<x, y>>
  <2>1. <<x>> \in Seq(T) /\ <<y>> \in Seq(T)
    OBVIOUS
  <2>2. Append(<<x>>, y) = <<x>> \o <<y>>
    BY <2>1, AppendIsConcat
  <2>3. Append(<<x>>, y) = <<x, y>>
    <3>1. /\ Append(<<x>>, y) \in Seq(T) /\ Len(<<x>>) = 1
          /\ Append(<<x>>, y)[1] = x /\ Append(<<x>>, y)[2] = y /\ Len(Append(<<x>>, y)) = 2
      BY <2>1, AppendProperties
    <3>2. <<x, y>> \in Seq(T) /\ Len(<<x, y>>) = 2 /\ <<x, y>>[1] = x /\ <<x, y>>[2] = y
      OBVIOUS
    <3>3. \A i \in 1 .. 2 : Append(<<x>>, y)[i] = <<x, y>>[i]
      BY <3>1, <3>2
    <3> QED
      BY <3>1, <3>2, <3>3, SeqEqual
  <2> QED
    BY <2>1, <2>2, <2>3
<1>4. (s \o <<x>>) \o <<y>> = s \o (<<x>> \o <<y>>)
  BY <1>3, ConcatAssociative
<1> QED
  BY <1>1, <1>2, <1>3, <1>4

-----------------------------------------------------------------------------
(* Every step keeps the types.                                                    *)

LEMMA InitTyped == Init => Typed
<1> SUFFICES ASSUME Init PROVE Typed
  OBVIOUS
<1>1. "new" \in Phase /\ Free \in LoopType /\ "none" \in EagerType
  BY Elements
<1>2. <<>> \in Seq(CommandType) /\ <<>> \in Seq(ResponseType)
  OBVIOUS
<1> QED
  BY <1>1, <1>2 DEF Init, Typed

LEMMA ClientTyped ==
    ASSUME Typed, NEW r \in Run, Client(r)
    PROVE  Typed'
<1> USE DEF Typed, managerVars, runVars, childVars, wireVars
<1>1. \A p \in {"waiting", "cancelled"} : [pc EXCEPT ![r] = p] \in [Run -> Phase]
  BY Elements
<1>2. Blocked("reset", r) \in LoopType /\ Blocked("kill", r) \in LoopType
  BY Elements
<1>3. CASE Ask(r)
  BY <1>1, <1>3 DEF Ask, At
<1>4. CASE AskWithReset(r)
  <2>1. Command("RESET", <<"early", r>>) \in CommandType /\ <<"early", r>> \in Thread
    BY MessageTypes, ThreadOf DEF Resets
  <2>2. toChild' \in Seq(CommandType)
    BY <1>4, <2>1, Adds DEF AskWithReset
  <2> QED
    BY <1>1, <1>2, <1>4, <2>1, <2>2 DEF AskWithReset, At
<1>5. CASE HangUp(r)
  <2>1. eager' \in [Run -> EagerType] /\ task' \in Run \cup {None}
    BY <1>5, Elements DEF HangUp, LeaveReset
  <2>2. lock' \in Run \cup {None}
    BY <1>5 DEF HangUp, Unlocked
  <2>3. pc' \in [Run -> Phase] /\ loop' \in LoopType
    BY <1>1, <1>2, <1>5 DEF HangUp, At
  <2> QED
    BY <1>5, <2>1, <2>2, <2>3 DEF HangUp
<1>6. CASE Kill(r)
  BY <1>2, <1>6 DEF Kill
<1> QED
  BY <1>3, <1>4, <1>5, <1>6 DEF Client

LEMMA CoroutineTyped ==
    ASSUME Typed, NEW r \in Run, Coroutine(r)
    PROVE  Typed'
<1> USE DEF Typed, managerVars, runVars, childVars, wireVars
<1>1. /\ Append(toChild, Command("EXECUTE", <<"run", r>>)) \in Seq(CommandType)
      /\ \A kind \in Resets : Append(toChild, Command("RESET", <<kind, r>>)) \in Seq(CommandType)
  BY MessageTypes, Adds
<1>2. <<"run", r>> \in Thread /\ <<"start", r>> \in Thread /\ \A kind \in Resets : <<kind, r>> \in Thread
  BY ThreadOf
<1>3. /\ Append(toChild, Command("RESET", <<"pre", r>>)) \in Seq(CommandType) /\ <<"pre", r>> \in Thread
      /\ Append(toChild, Command("RESET", <<"post", r>>)) \in Seq(CommandType) /\ <<"post", r>> \in Thread
      /\ Append(toChild, Command("RESET", <<"eager", r>>)) \in Seq(CommandType) /\ <<"eager", r>> \in Thread
  BY <1>1, <1>2 DEF Resets
<1>4. \A p \in Phase : At(r, p) => pc' \in [Run -> Phase]
  BY DEF At
<1>5. \A op \in {"reset", "stop", "close", "kill"} : Blocked(op, r) \in LoopType
  BY Elements
<1>6. \A p \in EagerType : [eager EXCEPT ![r] = p] \in [Run -> EagerType]
  OBVIOUS
<1>7. CASE Acquire(r)
  <2>1. pc' \in [Run -> Phase]
    BY <1>4, <1>7, Elements DEF Acquire
  <2>2. loop' \in LoopType
    BY <1>5, <1>7 DEF Acquire
  <2> QED
    BY <1>7, <2>1, <2>2 DEF Acquire
<1>8. CASE Await(r)
  <2>1. pc' \in [Run -> Phase]
    BY <1>4, <1>8, Elements DEF Await
  <2> QED
    BY <1>8, <2>1 DEF Await
<1>9. CASE PreReset(r)
  <2>1. pc' \in [Run -> Phase]
    BY <1>4, <1>9, Elements DEF PreReset, Fail
  <2>2. loop' \in LoopType /\ lock' \in Run \cup {None}
    BY <1>5, <1>9 DEF PreReset, Fail
  <2>3. toChild' \in Seq(CommandType) /\ threads' \subseteq Thread
    BY <1>3, <1>9 DEF PreReset
  <2> QED
    BY <1>9, <2>1, <2>2, <2>3 DEF PreReset
<1>10. CASE Begin(r)
  <2>1. pc' \in [Run -> Phase]
    BY <1>4, <1>10, Elements DEF Begin, Execute
  <2>2. toChild' \in Seq(CommandType) /\ threads' \subseteq Thread /\ bad' \subseteq Run
    BY <1>1, <1>2, <1>10 DEF Begin, Execute
  <2>3. justReset' \in BOOLEAN
    BY <1>10 DEF Begin
  <2> QED
    BY <1>10, <2>1, <2>2, <2>3 DEF Begin
<1>11. CASE Refused(r)
  <2>1. pc' \in [Run -> Phase] /\ loop' \in LoopType /\ lock' = None
    BY <1>4, <1>5, <1>11, Elements DEF Refused, Fail
  <2> QED
    BY <1>11, <2>1 DEF Refused
<1>12. CASE Spawn(r)
  <2>1. pc' \in [Run -> Phase]
    BY <1>4, <1>12, Elements DEF Spawn
  <2>2. toChild' \in Seq(CommandType) /\ fromChild' \in Seq(ResponseType)
    BY <1>12, MessageTypes DEF Spawn
  <2> QED
    BY <1>2, <1>12, <2>1, <2>2 DEF Spawn
<1>13. CASE EndRun(r)
  <2>1. pc' \in [Run -> Phase]
    BY <1>4, <1>13, Elements DEF EndRun
  <2>2. loop' \in LoopType
    BY <1>5, <1>13, Elements DEF EndRun
  <2>3. eager' \in [Run -> EagerType] /\ task' = r
    BY <1>6, <1>13, Elements DEF EndRun, LeaveReset
  <2>4. toChild' \in Seq(CommandType) /\ threads' \subseteq Thread
    BY <1>3, <1>13 DEF EndRun
  <2> QED
    BY <1>13, <2>1, <2>2, <2>3, <2>4 DEF EndRun
<1>14. CASE StartEager(r)
  <2>1. eager' \in [Run -> EagerType] /\ justReset' \in BOOLEAN
    BY <1>6, <1>14, Elements DEF StartEager
  <2>2. toChild' \in Seq(CommandType) /\ threads' \subseteq Thread
    BY <1>3, <1>14 DEF StartEager
  <2> QED
    BY <1>14, <2>1, <2>2 DEF StartEager
<1> QED
  BY <1>7, <1>8, <1>9, <1>10, <1>11, <1>12, <1>13, <1>14 DEF Coroutine

LEMMA BreakTyped ==
    ASSUME Typed, NEW t \in Thread, Break(t)
    PROVE  /\ threads' \subseteq Thread /\ bad' \subseteq Run /\ eager' \in [Run -> EagerType]
           /\ justReset' \in BOOLEAN /\ loop' \in LoopType /\ pc' \in [Run -> Phase]
           /\ UNCHANGED <<lock, task, made, got>>
<1> USE DEF Typed, Break
<1>1. t[2] \in Run
  BY ThreadShape
<1>2. "done" \in EagerType /\ Free \in LoopType /\ "refused" \in Phase
  BY Elements
<1>3. threads' \subseteq Thread /\ bad' \subseteq Run /\ UNCHANGED <<lock, task, made, got>>
  BY <1>1
<1>4. eager' \in [Run -> EagerType] /\ justReset' \in BOOLEAN
  BY <1>1, <1>2
<1>5. loop' \in LoopType /\ pc' \in [Run -> Phase]
  BY <1>1, <1>2
<1> QED
  BY <1>3, <1>4, <1>5

LEMMA CleanUpTyped ==
    ASSUME CleanUp
    PROVE  /\ proc' = "none" /\ file' = "closed" /\ child' = None /\ kv' \subseteq Run
           /\ toChild' \in Seq(CommandType) /\ fromChild' \in Seq(ResponseType)
BY DEF CleanUp

LEMMA ReadingTyped ==
    ASSUME Typed, NEW t \in Thread, Reading(t)
    PROVE  Typed'
<1> USE DEF Typed, managerVars, runVars, childVars, wireVars
<1>1. t[1] \in Resets \cup {"run", "start"} /\ t[2] \in Run /\ t = <<t[1], t[2]>>
  BY ThreadShape
<1>2. CASE EnterRead(t)
  BY <1>2 DEF EnterRead
<1>3. CASE NoRead(t) \/ ReadEnds(t)
  <2>1. Break(t) /\ BreakStart(t) /\ inside' \in {inside, None} /\ UNCHANGED scenario
    BY <1>3 DEF NoRead, ReadEnds
  <2>2. /\ proc' \in {"none", "alive", "dead"} /\ child' \in Run \cup {None} /\ kv' \subseteq Run
        /\ toChild' \in Seq(CommandType) /\ fromChild' \in Seq(ResponseType)
    BY <2>1, CleanUpTyped DEF BreakStart
  <2>3. file' \in {"closed", "open", "timedout"}
    BY <1>3, <2>1, CleanUpTyped DEF BreakStart, NoRead, ReadEnds
  <2> QED
    BY <2>1, <2>2, <2>3, BreakTyped
<1>4. CASE ReadLine(t)
  <2> DEFINE m == Head(fromChild)
  <2>1. Tail(fromChild) \in Seq(ResponseType) /\ inside' = None /\ UNCHANGED scenario
    BY <1>4, Ends DEF ReadLine
  <2>2. CASE RunReads(t, m) /\ fromChild' = Tail(fromChild)
    <3>1. got' \in [Run -> Nat]
      BY <1>1, <2>2 DEF RunReads
    <3>2. threads' \subseteq Thread /\ bad' \subseteq Run
      BY <1>1, <2>2 DEF RunReads
    <3> QED
      BY <2>1, <2>2, <3>1, <3>2 DEF RunReads
  <2>3. CASE StartReads(t, m) /\ (m.type = "READY" => fromChild' = Tail(fromChild))
    <3>1. CASE m.type # "READY"
      BY <2>1, <2>3, <3>1, BreakTyped, CleanUpTyped DEF StartReads
    <3>2. CASE m.type = "READY"
      <4>1. pc' \in [Run -> Phase]
        BY <1>1, <2>3, <3>2, Elements DEF StartReads
      <4> QED
        BY <2>1, <2>3, <3>2, <4>1 DEF StartReads
    <3> QED
      BY <3>1, <3>2
  <2>4. CASE ResetReads(t, m) /\ fromChild' = Tail(fromChild)
    <3>1. CASE m.type = "ERROR" /\ m.id = t
      BY <2>1, <2>4, <3>1, BreakTyped DEF ResetReads
    <3>2. CASE ~(m.type = "ERROR" /\ m.id = t)
      <4>1. "done" \in EagerType /\ Free \in LoopType /\ "reset" \in Phase
        BY Elements
      <4>2. threads' \subseteq Thread /\ justReset' \in BOOLEAN /\ loop' \in LoopType
        BY <2>4, <3>2, <4>1 DEF ResetReads
      <4>3. eager' \in [Run -> EagerType] /\ pc' \in [Run -> Phase]
        BY <1>1, <2>4, <3>2, <4>1 DEF ResetReads
      <4> QED
        BY <2>1, <2>4, <3>2, <4>2, <4>3 DEF ResetReads
    <3> QED
      BY <3>1, <3>2
  <2> QED
    BY <1>4, <2>2, <2>3, <2>4 DEF ReadLine
<1> QED
  BY <1>2, <1>3, <1>4 DEF Reading

LEMMA OtherTyped ==
    ASSUME Typed, LoopCall \/ Child \/ Hang \/ Crash \/ UNCHANGED vars
    PROVE  Typed'
<1> USE DEF Typed, managerVars, runVars, childVars, wireVars
<1>1. CASE SendShutdown
  <2>1. Append(toChild, Command("SHUTDOWN", None)) \in Seq(CommandType)
    BY MessageTypes, Adds
  <2>2. loop' \in LoopType
    BY <1>1 DEF SendShutdown, LoopType, Blocked
  <2> QED
    BY <1>1, <2>1, <2>2 DEF SendShutdown
<1>2. CASE Close
  <2>1. loop' \in LoopType /\ pc' \in [Run -> Phase]
    BY <1>2, Elements DEF Close
  <2> QED
    BY <1>2, <2>1, CleanUpTyped DEF Close
<1>3. CASE Take
  <2> DEFINE c == Head(toChild)
  <2>1. c \in CommandType /\ Tail(toChild) \in Seq(CommandType)
    BY <1>3, Ends DEF Take
  <2>2. /\ Response("READY", c.id) \in ResponseType /\ Response("ERROR", c.id) \in ResponseType
        /\ c.type = "EXECUTE" => c.id[2] \in Run
        /\ c.type = "INIT" => c.id = None
    BY <2>1, MessageTypes
  <2>3. /\ Append(fromChild, Response("READY", c.id)) \in Seq(ResponseType)
        /\ Append(fromChild, Response("ERROR", c.id)) \in Seq(ResponseType)
    BY <2>2, Adds
  <2>4. toChild' = Tail(toChild)
        /\ UNCHANGED <<scenario, managerVars, pc, loop, threads, inside, model, file, hung, runVars>>
    BY <1>3 DEF Take
  <2>5. CASE c.type = "EXECUTE" /\ child' = c.id[2] /\ kv' = kv \cup {c.id[2]} /\ UNCHANGED <<proc, fromChild>>
    BY <2>1, <2>2, <2>4, <2>5
  <2>6. CASE /\ c.type = "RESET" /\ UNCHANGED <<proc, child>>
             /\ \/ kv' = {} /\ Reply("READY", c.id)
                \/ Reply("ERROR", c.id) /\ UNCHANGED kv
    <3>1. fromChild' \in Seq(ResponseType) /\ kv' \subseteq Run
      BY <2>3, <2>6 DEF Reply
    <3> QED
      BY <2>1, <2>4, <2>6, <3>1
  <2>7. CASE /\ c.type = "INIT" /\ UNCHANGED <<proc, child, kv>>
             /\ Reply("READY", None) \/ Reply("ERROR", None)
    <3>1. fromChild' \in Seq(ResponseType)
      BY <2>2, <2>3, <2>7 DEF Reply
    <3> QED
      BY <2>1, <2>4, <2>7, <3>1
  <2>8. CASE proc' = "dead" /\ UNCHANGED <<fromChild, child, kv>>
    BY <2>1, <2>4, <2>8
  <2> QED
    BY <1>3, <2>5, <2>6, <2>7, <2>8 DEF Take
<1>4. CASE Token
  <2>1. child \in Run /\ Response("TOKEN", <<"run", child>>) \in ResponseType
    BY <1>4, MessageTypes DEF Token
  <2>2. Append(fromChild, Response("TOKEN", <<"run", child>>)) \in Seq(ResponseType)
    BY <2>1, Adds
  <2> QED
    BY <1>4, <2>1, <2>2 DEF Token, Reply
<1>5. CASE Answered
  <2>1. child \in Run
    BY <1>5 DEF Answered
  <2>2. \A type \in {"DONE", "ERROR"} :
          <<Response(type, <<"run", child>>), Response("READY", <<"run", child>>)>> \in Seq(ResponseType)
    BY <2>1, MessageTypes
  <2>3. fromChild' \in Seq(ResponseType)
    BY <1>5, <2>2, ConcatProperties DEF Answered
  <2> QED
    BY <1>5, <2>3 DEF Answered
<1>6. CASE Hang \/ Crash \/ UNCHANGED vars
  BY <1>6 DEF Hang, Crash, vars
<1> QED
  BY <1>1, <1>2, <1>3, <1>4, <1>5, <1>6 DEF LoopCall, Child

(* The cases of a step.                                                           *)
LEMMA StepCases ==
    ASSUME [Next]_vars
    PROVE  \/ \E r \in Run : Client(r) \/ Coroutine(r)
           \/ \E t \in Thread : Reading(t)
           \/ LoopCall \/ Child \/ Hang \/ Crash \/ UNCHANGED vars
BY DEF Next, Rest

LEMMA TypedStep == Typed /\ [Next]_vars => Typed'
BY StepCases, ClientTyped, CoroutineTyped, ReadingTyped, OtherTyped

-----------------------------------------------------------------------------
(* Who may go on: the runs under the lock, the background RESETs and the readers.  *)

LockInv == \A r \in Run : pc[r] \in UnderLock => lock = r

(* A background RESET that is still to come or under way.                         *)
Open(q) == eager[q] \in {"pending", "reading"}

(* From here on a run has the subprocess for itself.                              *)
Alone == UnderLock \ {"switching", "spawning", "awaiting"}

(* The last background RESET is the only one that can be open, _eager_reset_task   *)
(* stands for it, and a run gets no further than awaiting before it is over.       *)
EagerInv ==
    /\ \A q \in Run : Open(q) => task = q
    /\ \A r \in Run : pc[r] \in Alone => \A q \in Run : ~Open(q)
    /\ \A q \in Run : eager[q] = "reading" <=> <<"eager", q>> \in threads
    /\ \A q \in Run : pc[q] \in BeforeLock \cup UnderLock => eager[q] = "none"

(* Nobody is in a read of a file that somebody closes.                            *)
InsideInv == inside # None => inside \in threads /\ file = "open"

Order == LockInv /\ EagerInv /\ InsideInv

(* The phases in their sets.                                                      *)
LEMMA PhaseSets ==
    /\ BeforeLock = {"new", "waiting"}
    /\ UnderLock = {"switching", "spawning", "starting", "started", "awaiting", "deciding",
                    "resetting", "reset", "refused", "running"}
    /\ Alone = {"starting", "started", "deciding", "resetting", "reset", "refused", "running"}
    /\ Ended = {"ok", "failed", "cancelled"}
BY DEF BeforeLock, UnderLock, Alone, Ended

(* What a reader may do to all this: leave, and tell the run or the background    *)
(* RESET it has read for.                                                         *)
ReaderMoves(t) ==
    /\ UNCHANGED <<scenario, lock, task, made>>
    /\ threads' \in {threads, threads \ {t}}
    /\ InsideInv'
    /\ eager' = IF t[1] = "eager" /\ threads' # threads THEN [eager EXCEPT ![t[2]] = "done"] ELSE eager
    /\ \/ pc' = pc
       \/ /\ t[1] \in {"pre", "start"} /\ pc[t[2]] \in {"resetting", "starting"}
          /\ pc' = [pc EXCEPT ![t[2]] = "refused"]
       \/ t[1] = "pre" /\ pc[t[2]] = "resetting" /\ pc' = [pc EXCEPT ![t[2]] = "reset"]
       \/ t[1] = "start" /\ pc[t[2]] = "starting" /\ pc' = [pc EXCEPT ![t[2]] = "started"]

LEMMA ReadingMoves ==
    ASSUME Typed, Order, NEW t \in Thread, Reading(t)
    PROVE  t \in threads /\ ReaderMoves(t)
<1> USE DEF managerVars, runVars, childVars, wireVars
<1>1. t[1] \in Resets \cup {"run", "start"} /\ t[2] \in Run /\ t = <<t[1], t[2]>> /\ t # None
  BY ThreadShape, ProcessAssumption
<1>2. t \in threads /\ InsideInv
  BY <1>1 DEF Order, InsideInv, Reading, EnterRead, NoRead, ReadEnds, ReadLine
<1> SUFFICES ReaderMoves(t)
  BY <1>2
<1>3. CASE EnterRead(t)
  <2>1. threads' = threads /\ inside' = t /\ file' = "open" /\ UNCHANGED <<scenario, lock, task, made, eager, pc>>
    BY <1>3 DEF EnterRead
  <2> QED
    BY <1>1, <1>2, <2>1 DEF ReaderMoves, InsideInv
<1>4. ASSUME Break(t), UNCHANGED scenario, inside' = None
      PROVE  ReaderMoves(t)
  <2>1. UNCHANGED <<scenario, lock, task, made>> /\ threads' = threads \ {t} /\ threads' # threads
    BY <1>2, <1>4 DEF Break
  <2>2. eager' = IF t[1] = "eager" THEN [eager EXCEPT ![t[2]] = "done"] ELSE eager
    BY <1>4 DEF Break
  <2>3. \/ pc' = pc
        \/ /\ t[1] \in {"pre", "start"} /\ pc[t[2]] \in {"resetting", "starting"}
           /\ pc' = [pc EXCEPT ![t[2]] = "refused"]
    BY <1>4 DEF Break
  <2> QED
    BY <1>4, <2>1, <2>2, <2>3 DEF ReaderMoves, InsideInv
<1>5. CASE NoRead(t) \/ ReadEnds(t)
  <2>1. inside' = None
    BY <1>2, <1>5 DEF NoRead, ReadEnds, InsideInv
  <2> QED
    BY <1>4, <1>5, <2>1 DEF NoRead, ReadEnds
<1>6. CASE ReadLine(t)
  <2> DEFINE m == Head(fromChild)
  <2>1. inside' = None /\ UNCHANGED scenario
    BY <1>6 DEF ReadLine
  <2>2. CASE t[1] = "run" /\ RunReads(t, m)
    <3>1. UNCHANGED <<lock, task, made, eager, pc>> /\ threads' \in {threads, threads \ {t}}
      BY <2>2 DEF RunReads
    <3> QED
      BY <2>1, <2>2, <3>1 DEF ReaderMoves, InsideInv
  <2>3. CASE t[1] = "start" /\ StartReads(t, m)
    <3>1. CASE m.type # "READY"
      BY <1>4, <2>1, <2>3, <3>1 DEF StartReads
    <3>2. CASE m.type = "READY"
      <4>1. UNCHANGED <<lock, task, made, eager>> /\ threads' = threads \ {t}
        BY <2>3, <3>2 DEF StartReads
      <4>2. pc' = pc \/ (pc[t[2]] = "starting" /\ pc' = [pc EXCEPT ![t[2]] = "started"])
        BY <2>3, <3>2 DEF StartReads
      <4> QED
        BY <2>1, <2>3, <4>1, <4>2 DEF ReaderMoves, InsideInv
    <3> QED
      BY <3>1, <3>2
  <2>4. CASE t[1] \in Resets /\ ResetReads(t, m)
    <3>1. CASE m.type = "ERROR" /\ m.id = t
      BY <1>4, <2>1, <2>4, <3>1 DEF ResetReads
    <3>2. CASE ~(m.type = "ERROR" /\ m.id = t) /\ ~Answers(t, m)
      <4>1. UNCHANGED <<lock, task, made, eager, pc, threads>>
        BY <2>4, <3>2 DEF ResetReads
      <4> QED
        BY <2>1, <4>1 DEF ReaderMoves, InsideInv
    <3>3. CASE ~(m.type = "ERROR" /\ m.id = t) /\ Answers(t, m)
      <4>1. UNCHANGED <<lock, task, made>> /\ threads' = threads \ {t} /\ threads' # threads
        BY <1>2, <2>4, <3>3 DEF ResetReads
      <4>2. eager' = IF t[1] = "eager" THEN [eager EXCEPT ![t[2]] = "done"] ELSE eager
        BY <2>4, <3>3 DEF ResetReads
      <4>3. pc' = pc \/ (t[1] = "pre" /\ pc[t[2]] = "resetting" /\ pc' = [pc EXCEPT ![t[2]] = "reset"])
        BY <2>4, <3>3 DEF ResetReads
      <4> QED
        BY <2>1, <2>4, <4>1, <4>2, <4>3 DEF ReaderMoves, InsideInv
    <3> QED
      BY <3>1, <3>2, <3>3
  <2> QED
    BY <1>6, <2>2, <2>3, <2>4 DEF ReadLine
<1> QED
  BY <1>3, <1>5, <1>6 DEF Reading

LEMMA ReadingOrder ==
    ASSUME Typed, Order, NEW t \in Thread, Reading(t)
    PROVE  Order'
<1> USE DEF Order
<1>1. t \in threads /\ ReaderMoves(t)
  BY ReadingMoves
<1>2. t[1] \in Resets \cup {"run", "start"} /\ t[2] \in Run /\ t = <<t[1], t[2]>>
  BY ThreadShape
<1>3. pc \in [Run -> Phase] /\ eager \in [Run -> EagerType]
  BY DEF Typed
<1>4. /\ \A r \in Run : pc'[r] = pc[r] \/ (pc[r] \in Alone /\ pc'[r] \in Alone)
      /\ \A q \in Run : eager'[q] = eager[q] \/ (eager'[q] = "done" /\ <<"eager", q>> = t)
  BY <1>1, <1>2, <1>3, PhaseSets DEF ReaderMoves
<1>5. LockInv'
  BY <1>1, <1>4, PhaseSets DEF ReaderMoves, LockInv
<1>6. \A q \in Run : eager'[q] = "reading" <=> <<"eager", q>> \in threads'
  <2> SUFFICES ASSUME NEW q \in Run PROVE eager'[q] = "reading" <=> <<"eager", q>> \in threads'
    OBVIOUS
  <2>1. CASE <<"eager", q>> = t
    <3>1. t[1] = "eager" /\ t[2] = q
      BY <1>2, <2>1
    <3> QED
      BY <1>1, <1>3, <2>1, <3>1 DEF ReaderMoves, EagerInv
  <2>2. CASE <<"eager", q>> # t
    BY <1>1, <1>4, <2>2 DEF ReaderMoves, EagerInv
  <2> QED
    BY <2>1, <2>2
<1>7. EagerInv'
  <2>1. \A q \in Run : Open(q)' => Open(q)
    BY <1>4 DEF Open
  <2>2. \A q \in Run : eager[q] = "none" => eager'[q] = "none"
    BY <1>1, <1>4 DEF EagerInv
  <2> QED
    BY <1>1, <1>4, <1>6, <2>1, <2>2, PhaseSets DEF ReaderMoves, EagerInv
<1> QED
  BY <1>1, <1>5, <1>7 DEF ReaderMoves

(* The clients and the coroutines leave the reads alone, and only a start that     *)
(* finds no reader opens the file.                                                *)
LEMMA InsideStep ==
    ASSUME Typed, InsideInv, NEW r \in Run, Client(r) \/ Coroutine(r)
    PROVE  InsideInv'
<1>1. CASE Spawn(r)
  BY <1>1 DEF Spawn, InsideInv
<1>2. CASE Client(r) \/ (Coroutine(r) /\ ~Spawn(r))
  <2>1. UNCHANGED <<inside, file>> /\ threads \subseteq threads'
    BY <1>2 DEF Client, Ask, AskWithReset, HangUp, Kill, Coroutine, Acquire, Await, PreReset, Begin, Refused,
       EndRun, StartEager, Execute, Fail
  <2> QED
    BY <2>1 DEF InsideInv
<1> QED
  BY <1>1, <1>2

LEMMA ClientOrder ==
    ASSUME Typed, Order, NEW r \in Run, Client(r)
    PROVE  Order'
<1> USE PhaseSets, InsideStep DEF Typed, Order, managerVars, runVars
<1>1. CASE Ask(r) \/ AskWithReset(r)
  <2>1. /\ pc[r] = "new" /\ pc' = [pc EXCEPT ![r] = "waiting"]
        /\ UNCHANGED <<lock, task, eager, inside>>
        /\ threads \subseteq threads' /\ threads' \subseteq threads \cup {<<"early", r>>}
    BY <1>1 DEF Ask, AskWithReset, MayAsk, At
  <2>2. \A q \in Run : <<"eager", q>> # <<"early", r>>
    OBVIOUS
  <2> QED
    BY <2>1, <2>2 DEF LockInv, EagerInv, Open
<1>2. CASE HangUp(r)
  <2>1. /\ pc[r] \notin Ended /\ pc' = [pc EXCEPT ![r] = "cancelled"]
        /\ UNCHANGED <<threads, inside>>
        /\ lock' = IF lock = r THEN None ELSE lock
    BY <1>2 DEF HangUp, At, Unlocked
  <2>2. LockInv'
    BY <2>1 DEF LockInv
  <2>3. CASE pc[r] = "running"
    <3>1. eager' = [eager EXCEPT ![r] = "pending"] /\ task' = r
      BY <1>2, <2>3 DEF HangUp, LeaveReset
    <3>2. \A q \in Run : ~Open(q) /\ (q # r => pc[q] \notin Alone) /\ <<"eager", r>> \notin threads
      BY <2>3 DEF LockInv, EagerInv, Open
    <3>3. EagerInv'
      BY <2>1, <3>1, <3>2 DEF EagerInv, Open
    <3> QED
      BY <2>1, <2>2, <3>3
  <2>4. CASE pc[r] # "running"
    <3>1. UNCHANGED <<eager, task>>
      BY <1>2, <2>4 DEF HangUp
    <3> QED
      BY <2>1, <2>2, <3>1 DEF EagerInv, Open
  <2> QED
    BY <2>3, <2>4
<1>3. CASE Kill(r)
  BY <1>3 DEF Kill, LockInv, EagerInv, Open
<1> QED
  BY <1>1, <1>2, <1>3 DEF Client

LEMMA CoroutineOrder ==
    ASSUME Typed, Order, NEW r \in Run, Coroutine(r)
    PROVE  Order'
<1> USE PhaseSets, InsideStep DEF Typed, Order, managerVars, runVars
<1>0. lock # r \/ \A q \in Run : q # r => pc[q] \notin UnderLock
  BY DEF LockInv
<1>1. CASE Acquire(r)
  <2>1. /\ pc[r] = "waiting" /\ lock = None /\ lock' = r
        /\ UNCHANGED <<task, eager, threads, inside>>
        /\ \E p \in {"switching", "spawning", "awaiting", "deciding"} :
             /\ pc' = [pc EXCEPT ![r] = p]
             /\ p = "deciding" => task = None
    BY <1>1 DEF Acquire, At, LockIsFree
  <2>2. \A q \in Run : pc[q] \notin UnderLock /\ q # None
    BY <2>1, ProcessAssumption DEF LockInv
  <2>3. LockInv'
    BY <2>1, <2>2 DEF LockInv
  <2>4. EagerInv'
    BY <2>1, <2>2 DEF EagerInv, Open
  <2> QED
    BY <2>1, <2>3, <2>4
<1>2. CASE Await(r)
  <2>1. /\ pc[r] = "awaiting" /\ pc' = [pc EXCEPT ![r] = "deciding"] /\ task' = None
        /\ UNCHANGED <<lock, eager, threads, inside>>
        /\ task # None => eager[task] = "done"
    BY <1>2 DEF Await, At
  <2>2. \A q \in Run : ~Open(q)
    BY <2>1, ProcessAssumption DEF EagerInv, Open
  <2> QED
    BY <2>1, <2>2 DEF LockInv, EagerInv, Open
<1>3. CASE PreReset(r) \/ Begin(r) \/ Refused(r)
  <2>1. /\ pc[r] \in {"deciding", "started", "reset", "refused"}
        /\ \E p \in {"resetting", "running", "failed"} :
             /\ pc' = [pc EXCEPT ![r] = p]
             /\ lock' = IF p = "failed" THEN None ELSE lock
        /\ UNCHANGED <<task, eager, inside>>
        /\ threads \subseteq threads' /\ threads' \subseteq threads \cup {<<"pre", r>>, <<"run", r>>}
    BY <1>3 DEF PreReset, Begin, Refused, Execute, Fail, At
  <2>2. \A q \in Run : <<"eager", q>> \notin {<<"pre", r>>, <<"run", r>>}
    OBVIOUS
  <2>3. lock = r /\ \A q \in Run : q # r => pc[q] \notin UnderLock
    BY <1>0, <2>1 DEF LockInv
  <2>4. LockInv'
    BY <2>1, <2>3 DEF LockInv
  <2>5. EagerInv'
    BY <2>1, <2>2 DEF EagerInv, Open
  <2> QED
    BY <2>1, <2>4, <2>5
<1>4. CASE Spawn(r)
  <2>1. /\ pc[r] = "spawning" /\ pc' = [pc EXCEPT ![r] = "starting"]
        /\ threads = {} /\ \A q \in Run : eager[q] # "pending"
        /\ threads' = {<<"start", r>>} /\ UNCHANGED <<lock, task, eager, inside>>
    BY <1>4 DEF Spawn, At
  <2>2. \A q \in Run : ~Open(q) /\ <<"eager", q>> # <<"start", r>>
    BY <2>1 DEF EagerInv, Open
  <2> QED
    BY <2>1, <2>2 DEF LockInv, EagerInv, Open
<1>5. CASE EndRun(r)
  <2>1. /\ pc[r] = "running" /\ \E p \in {"ok", "failed"} : pc' = [pc EXCEPT ![r] = p]
        /\ lock' = None /\ eager' = [eager EXCEPT ![r] = "pending"] /\ task' = r /\ inside' = inside
        /\ threads \subseteq threads' /\ threads' \subseteq threads \cup {<<"post", r>>}
    BY <1>5 DEF EndRun, At, LeaveReset
  <2>2. \A q \in Run : <<"eager", q>> # <<"post", r>>
    OBVIOUS
  <2>3. \A q \in Run : ~Open(q) /\ (q # r => pc[q] \notin UnderLock)
    BY <2>1 DEF LockInv, EagerInv, Open
  <2>4. LockInv'
    BY <2>1, <2>3 DEF LockInv
  <2>5. EagerInv'
    BY <2>1, <2>2, <2>3 DEF EagerInv, Open
  <2> QED
    BY <2>1, <2>4, <2>5
<1>6. CASE StartEager(r)
  <2>1. /\ eager[r] = "pending" /\ UNCHANGED <<pc, lock, task, inside>>
        /\ \/ eager' = [eager EXCEPT ![r] = "reading"] /\ threads' = threads \cup {<<"eager", r>>}
           \/ eager' = [eager EXCEPT ![r] = "done"] /\ UNCHANGED threads
    BY <1>6 DEF StartEager
  <2>2. \A q \in Run : q # r => <<"eager", q>> # <<"eager", r>>
    OBVIOUS
  <2>3. eager \in [Run -> EagerType] /\ eager[r] # "none" /\ <<"eager", r>> \notin threads
    BY <2>1 DEF EagerInv
  <2>4. EagerInv'
    BY <2>1, <2>2, <2>3 DEF EagerInv, Open
  <2> QED
    BY <2>1, <2>4 DEF LockInv
<1> QED
  BY <1>1, <1>2, <1>3, <1>4, <1>5, <1>6 DEF Coroutine

LEMMA OtherOrder ==
    ASSUME Typed, Order, LoopCall \/ Child \/ Hang \/ Crash \/ UNCHANGED vars
    PROVE  Order'
<1>1. /\ UNCHANGED <<lock, task, eager, threads, inside>>
      /\ inside # None => file' = file
      /\ \/ pc' = pc
         \/ pc' = [r \in Run |-> IF r = loop.run /\ pc[r] = "switching" THEN "spawning" ELSE pc[r]]
  BY DEF LoopCall, Child, SendShutdown, Close, Take, Token, Answered, Hang, Crash, vars, managerVars, runVars
<1>2. pc \in [Run -> Phase]
  BY DEF Typed
<1>3. \A r \in Run : pc'[r] = pc[r] \/ (pc[r] = "switching" /\ pc'[r] = "spawning")
  BY <1>1, <1>2
<1>4. LockInv'
  BY <1>1, <1>3, PhaseSets DEF Order, LockInv
<1>5. EagerInv'
  BY <1>1, <1>3, PhaseSets DEF Order, EagerInv, Open
<1> QED
  BY <1>1, <1>4, <1>5 DEF Order, InsideInv

LEMMA OrderStep == Typed /\ Order /\ [Next]_vars => Order'
BY StepCases, ClientOrder, CoroutineOrder, ReadingOrder, OtherOrder

-----------------------------------------------------------------------------
(* Runs and background RESETs only go forward, so that a message of a run is on   *)
(* the socket only after the run has sent its command.                            *)

Resetting == {"resetting", "reset", "refused"}
Executing == {"running"} \cup Ended

Sent(t) ==
    /\ t[1] = "run" => pc[t[2]] \in Executing
    /\ t[1] = "pre" => pc[t[2]] \in Resetting \cup Executing
    /\ t[1] = "eager" => eager[t[2]] \in {"reading", "done"}

SentIds == {t \in Thread : Sent(t)} \cup {None}

Fresh ==
    /\ \A i \in DOMAIN toChild : toChild[i].id \in SentIds
    /\ \A i \in DOMAIN fromChild : fromChild[i].id \in SentIds
    /\ child # None => pc[child] \in Executing

LEMMA Forward ==
    ASSUME Typed, Order, [Next]_vars, NEW r \in Run
    PROVE  /\ pc[r] \in Ended => pc'[r] = pc[r]
           /\ pc[r] = "running" => pc'[r] \in Executing
           /\ pc[r] \in Resetting => pc'[r] \in Resetting \cup Executing
           /\ eager[r] \in {"reading", "done"} => eager'[r] \in {"reading", "done"}
<1> USE PhaseSets DEF Typed, Resetting, Executing, managerVars, runVars
<1>1. ASSUME NEW q \in Run, Client(q) PROVE /\ pc[r] \in Ended => pc'[r] = pc[r]
                                            /\ pc[r] = "running" => pc'[r] \in Executing
                                            /\ pc[r] \in Resetting => pc'[r] \in Resetting \cup Executing
                                            /\ eager[r] \in {"reading", "done"} => eager'[r] = eager[r]
  <2>1. CASE Ask(q) \/ AskWithReset(q) \/ Kill(q)
    BY <2>1 DEF Ask, AskWithReset, Kill, MayAsk, At
  <2>2. CASE HangUp(q)
    <3>1. pc[q] \notin Ended /\ pc' = [pc EXCEPT ![q] = "cancelled"]
      BY <2>2 DEF HangUp, At
    <3>2. eager' = eager \/ (pc[q] = "running" /\ eager' = [eager EXCEPT ![q] = "pending"])
      BY <2>2 DEF HangUp, LeaveReset
    <3> QED
      BY <3>1, <3>2 DEF Order, EagerInv
  <2> QED
    BY <1>1, <2>1, <2>2 DEF Client
<1>2. ASSUME NEW q \in Run, Coroutine(q)
      PROVE /\ pc[r] \in Ended => pc'[r] = pc[r]
            /\ pc[r] = "running" => pc'[r] \in Executing
            /\ pc[r] \in Resetting => pc'[r] \in Resetting \cup Executing
            /\ eager[r] \in {"reading", "done"} => eager'[r] \in {"reading", "done"}
  <2>1. CASE Acquire(q) \/ Await(q) \/ PreReset(q) \/ Spawn(q)
    BY <2>1 DEF Acquire, Await, PreReset, Spawn, Fail, At
  <2>2. CASE Begin(q) \/ Refused(q)
    BY <2>2 DEF Begin, Refused, Execute, Fail, At
  <2>3. CASE EndRun(q)
    <3>1. pc[q] = "running" /\ \E p \in {"ok", "failed"} : pc' = [pc EXCEPT ![q] = p]
      BY <2>3 DEF EndRun, At
    <3>2. eager' = [eager EXCEPT ![q] = "pending"]
      BY <2>3 DEF EndRun, LeaveReset
    <3> QED
      BY <3>1, <3>2 DEF Order, EagerInv
  <2>4. CASE StartEager(q)
    BY <2>4 DEF StartEager
  <2> QED
    BY <1>2, <2>1, <2>2, <2>3, <2>4 DEF Coroutine
<1>3. ASSUME NEW t \in Thread, Reading(t)
      PROVE /\ pc[r] \in Ended => pc'[r] = pc[r]
            /\ pc[r] = "running" => pc'[r] \in Executing
            /\ pc[r] \in Resetting => pc'[r] \in Resetting \cup Executing
            /\ eager[r] \in {"reading", "done"} => eager'[r] \in {"reading", "done"}
  BY <1>3, ReadingMoves, ThreadShape DEF ReaderMoves
<1>4. CASE LoopCall \/ Child \/ Hang \/ Crash \/ UNCHANGED vars
  <2>1. /\ eager' = eager
        /\ \/ pc' = pc
           \/ pc' = [q \in Run |-> IF q = loop.run /\ pc[q] = "switching" THEN "spawning" ELSE pc[q]]
    BY <1>4 DEF LoopCall, Child, SendShutdown, Close, Take, Token, Answered, Hang, Crash, vars
  <2> QED
    BY <2>1
<1> QED
  BY <1>1, <1>2, <1>3, <1>4, StepCases

LEMMA SentStays ==
    ASSUME Typed, Order, [Next]_vars
    PROVE  SentIds \subseteq SentIds'
<1>1. ASSUME NEW t \in Thread, Sent(t) PROVE Sent(t)'
  BY <1>1, Forward, ThreadShape DEF Sent, Resetting, Executing
<1> QED
  BY <1>1 DEF SentIds

(* What a reader does to the wire and the subprocess.                             *)
LEMMA ReadingWire ==
    ASSUME Typed, Order, NEW t \in Thread, Reading(t)
    PROVE  \/ CleanUp
           \/ /\ UNCHANGED <<toChild, child, kv, hung, proc>>
              /\ (file' = "closed" <=> file = "closed")
              /\ \/ fromChild' = fromChild
                 \/ inside = t /\ fromChild # <<>> /\ fromChild' = Tail(fromChild)
<1> USE DEF managerVars, runVars, childVars, wireVars
<1>1. CASE EnterRead(t)
  BY <1>1 DEF EnterRead
<1>2. CASE NoRead(t)
  BY <1>2 DEF NoRead, BreakStart
<1>3. CASE ReadEnds(t)
  <2>1. file = "open"
    BY <1>3, ThreadShape, ProcessAssumption DEF ReadEnds, Order, InsideInv
  <2>2. CASE t[1] = "start"
    BY <1>3, <2>2 DEF ReadEnds, BreakStart
  <2>3. CASE t[1] # "start"
    <3>1. UNCHANGED <<toChild, child, kv, hung, proc, fromChild>>
      BY <1>3, <2>3 DEF ReadEnds, BreakStart
    <3>2. file' = file \/ file' = "timedout"
      BY <1>3, <2>3 DEF ReadEnds
    <3> QED
      BY <2>1, <3>1, <3>2
  <2> QED
    BY <2>2, <2>3
<1>4. CASE ReadLine(t)
  <2> DEFINE m == Head(fromChild)
  <2>1. CASE RunReads(t, m) /\ fromChild' = Tail(fromChild)
    BY <1>4, <2>1 DEF ReadLine, RunReads
  <2>2. CASE StartReads(t, m) /\ (m.type = "READY" => fromChild' = Tail(fromChild))
    <3>1. CASE m.type # "READY"
      BY <2>2, <3>1 DEF StartReads
    <3>2. CASE m.type = "READY"
      <4>1. UNCHANGED <<toChild, child, kv, hung, proc, file>> /\ inside = t /\ fromChild # <<>>
        BY <1>4, <2>2, <3>2 DEF ReadLine, StartReads
      <4> QED
        BY <2>2, <3>2, <4>1
    <3> QED
      BY <3>1, <3>2
  <2>3. CASE ResetReads(t, m) /\ fromChild' = Tail(fromChild)
    BY <1>4, <2>3 DEF ReadLine, ResetReads
  <2> QED
    BY <1>4, <2>1, <2>2, <2>3 DEF ReadLine
<1> QED
  BY <1>1, <1>2, <1>3, <1>4 DEF Reading

(* A command that is sent is the last on the wire.                                *)
Sends(c) == c \in CommandType /\ toChild' = Append(toChild, c)

(* What a client or a coroutine does to the wire and the subprocess.              *)
LEMMA CallerWire ==
    ASSUME Typed, NEW r \in Run, Client(r) \/ Coroutine(r)
    PROVE  \/ UNCHANGED <<toChild, fromChild, child, kv>>
           \/ /\ \E kind \in Resets :
                   /\ Sends(Command("RESET", <<kind, r>>))
                   /\ kind = "pre" => PreReset(r)
                   /\ kind = "eager" => StartEager(r)
                   /\ kind = "early" => AskWithReset(r)
              /\ CanSend /\ UNCHANGED <<fromChild, child, kv>>
           \/ /\ Begin(r) /\ CanSend /\ Sends(Command("EXECUTE", <<"run", r>>))
              /\ UNCHANGED <<fromChild, child, kv>>
           \/ Spawn(r)
<1> USE DEF managerVars, runVars, childVars, wireVars
<1>1. \A kind \in Resets : Command("RESET", <<kind, r>>) \in CommandType
  BY MessageTypes
<1>2. CASE Ask(r) \/ HangUp(r) \/ Kill(r) \/ Acquire(r) \/ Await(r) \/ Refused(r)
  BY <1>2 DEF Ask, HangUp, Kill, Acquire, Await, Refused
<1>3. CASE AskWithReset(r)
  <2>1. Sends(Command("RESET", <<"early", r>>)) /\ CanSend /\ UNCHANGED <<fromChild, child, kv>> /\ "early" \in Resets
    BY <1>1, <1>3 DEF AskWithReset, Sends, Resets
  <2> QED
    BY <1>3, <2>1
<1>4. CASE PreReset(r)
  <2>1. CASE CanSend
    <3>1. Sends(Command("RESET", <<"pre", r>>)) /\ UNCHANGED <<fromChild, child, kv>> /\ "pre" \in Resets
      BY <1>1, <1>4, <2>1 DEF PreReset, Sends, Resets
    <3> QED
      BY <1>4, <2>1, <3>1
  <2>2. CASE ~CanSend
    BY <1>4, <2>2 DEF PreReset
  <2> QED
    BY <2>1, <2>2
<1>5. CASE Begin(r)
  <2>1. CASE CanSend
    <3>1. Sends(Command("EXECUTE", <<"run", r>>)) /\ UNCHANGED <<fromChild, child, kv>>
      BY <1>5, <2>1, MessageTypes DEF Begin, Execute, Sends
    <3> QED
      BY <1>5, <2>1, <3>1
  <2>2. CASE ~CanSend
    BY <1>5, <2>2 DEF Begin, Execute
  <2> QED
    BY <2>1, <2>2
<1>6. CASE EndRun(r)
  <2>1. UNCHANGED <<fromChild, child, kv>>
    BY <1>6 DEF EndRun
  <2>2. CASE toChild' # toChild
    <3>1. CanSend /\ Sends(Command("RESET", <<"post", r>>)) /\ "post" \in Resets
      BY <1>1, <1>6, <2>2 DEF EndRun, Sends, Resets
    <3> QED
      BY <2>1, <3>1
  <2> QED
    BY <2>1, <2>2
<1>7. CASE StartEager(r)
  <2>1. CASE CanSend
    <3>1. Sends(Command("RESET", <<"eager", r>>)) /\ UNCHANGED <<fromChild, child, kv>> /\ "eager" \in Resets
      BY <1>1, <1>7, <2>1 DEF StartEager, Sends, Resets
    <3> QED
      BY <1>7, <2>1, <3>1
  <2>2. CASE ~CanSend
    BY <1>7, <2>2 DEF StartEager
  <2> QED
    BY <2>1, <2>2
<1> QED
  BY <1>2, <1>3, <1>4, <1>5, <1>6, <1>7 DEF Client, Coroutine

LEMMA FreshStep ==
    ASSUME Typed, Typed', Order, Fresh, [Next]_vars
    PROVE  Fresh'
<1> USE DEF managerVars, runVars, childVars, wireVars
<1>0. /\ SentIds \subseteq SentIds' /\ None \in SentIds'
      /\ \A r \in Run : pc[r] \in Executing => pc'[r] \in Executing
  BY SentStays, Forward, PhaseSets DEF Executing, Resetting, SentIds
<1>1. /\ \A i \in DOMAIN toChild : toChild[i].id \in SentIds'
      /\ \A i \in DOMAIN fromChild : fromChild[i].id \in SentIds'
      /\ child # None => child \in Run /\ pc'[child] \in Executing
  BY <1>0 DEF Fresh, Typed
<1>2. CASE UNCHANGED <<toChild, fromChild, child>>
  BY <1>1, <1>2 DEF Fresh
<1>3. CASE CleanUp
  <2>1. toChild' = <<>> /\ fromChild' = <<>> /\ child' = None
    BY <1>3 DEF CleanUp
  <2> QED
    BY <2>1 DEF Fresh
<1>4. ASSUME NEW c \in CommandType, Sends(c), c.id \in SentIds', UNCHANGED <<fromChild, child>>
      PROVE  Fresh'
  <2>1. toChild \in Seq(CommandType) /\ toChild' = Append(toChild, c)
    BY <1>4 DEF Sends, Typed
  <2>2. \A i \in DOMAIN toChild' : (i \in DOMAIN toChild /\ toChild'[i] = toChild[i]) \/ toChild'[i] = c
    BY <2>1, Appended
  <2> QED
    BY <1>1, <1>4, <2>2 DEF Fresh
<1>5. ASSUME NEW r \in Run, Client(r) \/ Coroutine(r) PROVE Fresh'
  <2>1. CASE Spawn(r)
    <3>1. toChild' = <<Command("INIT", None)>> /\ fromChild' = <<>> /\ child' = None
      BY <2>1 DEF Spawn
    <3> QED
      BY <1>0, <3>1 DEF Fresh, Command
  <2>2. ASSUME NEW kind \in Resets, Sends(Command("RESET", <<kind, r>>)), UNCHANGED <<fromChild, child>>,
               kind = "pre" => PreReset(r), kind = "eager" => StartEager(r), CanSend
        PROVE  Fresh'
    <3>1. kind = "pre" => pc'[r] = "resetting"
      BY <2>2 DEF PreReset, At, Typed
    <3>2. kind = "eager" => eager'[r] = "reading"
      BY <2>2 DEF StartEager, Typed
    <3>3. <<kind, r>> \in SentIds'
      BY <3>1, <3>2, ThreadOf DEF Sent, SentIds, Resets, Resetting
    <3> QED
      BY <1>4, <2>2, <3>3 DEF Sends, Command
  <2>3. CASE Begin(r) /\ Sends(Command("EXECUTE", <<"run", r>>)) /\ UNCHANGED <<fromChild, child>>
    <3>1. pc'[r] = "running"
      BY <2>3 DEF Begin, Execute, At, Typed
    <3>2. <<"run", r>> \in SentIds'
      BY <3>1, ThreadOf DEF Sent, SentIds, Executing
    <3> QED
      BY <1>4, <2>3, <3>2 DEF Sends, Command
  <2> QED
    BY <1>2, <1>5, <2>1, <2>2, <2>3, CallerWire
<1>6. ASSUME NEW t \in Thread, Reading(t) PROVE Fresh'
  <2>1. CASE UNCHANGED <<toChild, child>> /\ fromChild # <<>> /\ fromChild' = Tail(fromChild)
    <3>1. \A i \in DOMAIN fromChild' : i + 1 \in DOMAIN fromChild /\ fromChild'[i] = fromChild[i + 1]
      BY <2>1, Ends DEF Typed
    <3> QED
      BY <1>1, <2>1, <3>1 DEF Fresh
  <2> QED
    BY <1>2, <1>3, <1>6, <2>1, ReadingWire
<1>7. CASE SendShutdown
  <2>1. CASE toChild' # toChild
    <3>1. Sends(Command("SHUTDOWN", None)) /\ UNCHANGED <<fromChild, child>>
      BY <1>7, <2>1, MessageTypes DEF SendShutdown, Sends
    <3> QED
      BY <1>0, <1>4, <3>1 DEF Sends, Command
  <2> QED
    BY <1>2, <1>7, <2>1 DEF SendShutdown
<1>8. CASE Close
  BY <1>3, <1>8 DEF Close
<1>9. ASSUME NEW c \in ResponseType, Reply(c.type, c.id), c.id \in SentIds'
      PROVE  \A i \in DOMAIN fromChild' : fromChild'[i].id \in SentIds'
  <2>1. fromChild' = Append(fromChild, c)
    <3>1. Response(c.type, c.id) = c
      BY DEF Response, ResponseType
    <3> QED
      BY <1>9, <3>1 DEF Reply
  <2>2. \A i \in DOMAIN fromChild' : (i \in DOMAIN fromChild /\ fromChild'[i] = fromChild[i]) \/ fromChild'[i] = c
    <3>1. fromChild \in Seq(ResponseType)
      BY DEF Typed
    <3> QED
      BY <2>1, <3>1, Appended
  <2> QED
    BY <1>1, <1>9, <2>2
<1>10. CASE Take
  <2> DEFINE c == Head(toChild)
  <2>1. /\ c \in CommandType /\ c = toChild[1] /\ 1 \in DOMAIN toChild /\ toChild' = Tail(toChild)
        /\ \A i \in DOMAIN toChild' : i + 1 \in DOMAIN toChild /\ toChild'[i] = toChild[i + 1]
    BY <1>10, Ends DEF Take, Typed
  <2>2. c.id \in SentIds'
    BY <1>1, <2>1
  <2>3. Response("READY", c.id) \in ResponseType /\ Response("ERROR", c.id) \in ResponseType
    BY <2>1, MessageTypes
  <2>4. \A type \in {"READY", "ERROR"} : Response(type, c.id).type = type /\ Response(type, c.id).id = c.id
    BY DEF Response
  <2>5. \A i \in DOMAIN toChild' : toChild'[i].id \in SentIds'
    BY <1>1, <2>1
  <2>6. CASE c.type = "EXECUTE" /\ child' = c.id[2] /\ UNCHANGED fromChild
    <3>1. c.id = <<"run", child'>> /\ child' \in Run /\ c.id # None
      BY <2>1, <2>6, MessageTypes, ThreadOf
    <3>2. pc'[child'] \in Executing
      BY <2>2, <3>1 DEF Sent, SentIds
    <3> QED
      BY <1>1, <2>5, <2>6, <3>2 DEF Fresh
  <2>7. CASE child' = child /\ (Reply("READY", c.id) \/ Reply("ERROR", c.id))
    <3>1. \A i \in DOMAIN fromChild' : fromChild'[i].id \in SentIds'
      BY <1>9, <2>2, <2>3, <2>4, <2>7
    <3> QED
      BY <1>1, <2>5, <2>7, <3>1 DEF Fresh
  <2>8. CASE UNCHANGED <<fromChild, child>>
    BY <1>1, <2>5, <2>8 DEF Fresh
  <2>9. c.type = "INIT" => c.id = None
    BY <2>1, MessageTypes
  <2> QED
    BY <1>10, <2>6, <2>7, <2>8, <2>9 DEF Take
<1>11. CASE Token
  <2>1. child \in Run /\ <<"run", child>> \in SentIds' /\ UNCHANGED <<toChild, child>>
    BY <1>1, <1>11, ThreadOf DEF Token, Sent, SentIds
  <2>2. Response("TOKEN", <<"run", child>>) \in ResponseType
    BY <2>1, MessageTypes
  <2>3. \A i \in DOMAIN fromChild' : fromChild'[i].id \in SentIds'
    BY <1>9, <1>11, <2>1, <2>2 DEF Token, Response
  <2> QED
    BY <1>1, <2>1, <2>3 DEF Fresh
<1>12. CASE Answered
  <2>1. child \in Run /\ <<"run", child>> \in SentIds' /\ toChild' = toChild /\ child' = None
    BY <1>1, <1>12, ThreadOf DEF Answered, Sent, SentIds
  <2>2. PICK type \in {"DONE", "ERROR"} :
          fromChild' = fromChild \o <<Response(type, <<"run", child>>), Response("READY", <<"run", child>>)>>
    BY <1>12 DEF Answered
  <2>3. \A i \in DOMAIN fromChild' : \/ i \in DOMAIN fromChild /\ fromChild'[i] = fromChild[i]
                                     \/ fromChild'[i].id = <<"run", child>>
    <3> DEFINE first == Response(type, <<"run", child>>)
               last == Response("READY", <<"run", child>>)
    <3>1. first \in ResponseType /\ last \in ResponseType /\ fromChild \in Seq(ResponseType)
      BY <2>1, MessageTypes DEF Typed
    <3>2. first.id = <<"run", child>> /\ last.id = <<"run", child>>
      BY DEF Response
    <3> HIDE DEF first, last
    <3>3. fromChild' = Append(Append(fromChild, first), last) /\ Append(fromChild, first) \in Seq(ResponseType)
      <4>1. fromChild' = fromChild \o <<first, last>>
        BY <2>2 DEF first, last
      <4>2. fromChild \o <<first, last>> = Append(Append(fromChild, first), last)
            /\ Append(fromChild, first) \in Seq(ResponseType)
        BY <3>1, TwoLines
      <4> QED
        BY <4>1, <4>2
    <3>4. \A i \in DOMAIN fromChild' : \/ i \in DOMAIN Append(fromChild, first)
                                          /\ fromChild'[i] = Append(fromChild, first)[i]
                                       \/ fromChild'[i] = last
      BY <3>1, <3>3, Appended
    <3>5. \A i \in DOMAIN Append(fromChild, first) :
            (i \in DOMAIN fromChild /\ Append(fromChild, first)[i] = fromChild[i]) \/ Append(fromChild, first)[i] = first
      BY <3>1, Appended
    <3> QED
      BY <3>2, <3>4, <3>5
  <2> QED
    BY <1>1, <2>1, <2>3 DEF Fresh
<1>13. CASE Hang \/ Crash \/ UNCHANGED vars
  BY <1>2, <1>13 DEF Hang, Crash, vars
<1> QED
  BY <1>5, <1>6, <1>7, <1>8, <1>10, <1>11, <1>12, <1>13, StepCases DEF LoopCall, Child

-----------------------------------------------------------------------------
(* What a step does to the commands on their way and to the KV cache.             *)

(* The subprocess is gone, or new.                                                *)
Wiped ==
    /\ toChild' \in {<<>>, <<Command("INIT", None)>>} /\ fromChild' = <<>>
    /\ child' = None /\ kv' = {}

LEMMA StepWire ==
    ASSUME Typed, Order, [Next]_vars
    PROVE  /\ \/ UNCHANGED <<toChild, kv>> /\ child' \in {child, None}
              \/ /\ \E c \in CommandType : c.type \in {"RESET", "SHUTDOWN"} /\ Sends(c)
                 /\ UNCHANGED <<child, kv>>
              \/ \E r \in Run : /\ Begin(r) /\ CanSend /\ Sends(Command("EXECUTE", <<"run", r>>))
                                /\ UNCHANGED <<child, kv>>
              \/ Wiped
              \/ Take
           /\ CanSend' => CanSend \/ Wiped
<1> USE DEF managerVars, runVars, childVars, wireVars
<1>1. ASSUME NEW r \in Run, Client(r) \/ Coroutine(r)
      PROVE  (\/ UNCHANGED <<toChild, kv>> /\ child' \in {child, None}
              \/ /\ \E c \in CommandType : c.type \in {"RESET", "SHUTDOWN"} /\ Sends(c)
                 /\ UNCHANGED <<child, kv>>
              \/ /\ Begin(r) /\ CanSend /\ Sends(Command("EXECUTE", <<"run", r>>))
                 /\ UNCHANGED <<child, kv>>
              \/ Wiped) /\ (CanSend' => CanSend \/ Wiped)
  <2>1. CASE Spawn(r)
    BY <2>1 DEF Spawn, Wiped
  <2>2. CASE Client(r) \/ (Coroutine(r) /\ ~Spawn(r))
    <3>1. UNCHANGED <<proc, file>>
      BY <2>2 DEF Client, Ask, AskWithReset, HangUp, Kill, Coroutine, Acquire, Await, PreReset, Begin, Refused,
         EndRun, StartEager
    <3>2. ASSUME NEW kind \in Resets, Sends(Command("RESET", <<kind, r>>))
          PROVE  \E c \in CommandType : c.type \in {"RESET", "SHUTDOWN"} /\ Sends(c)
      <4>1. Command("RESET", <<kind, r>>).type = "RESET" /\ Command("RESET", <<kind, r>>) \in CommandType
        BY MessageTypes DEF Command
      <4> QED
        BY <3>2, <4>1
    <3>3. CanSend' => CanSend
      BY <3>1 DEF CanSend
    <3>4. \/ UNCHANGED <<toChild, child, kv>>
          \/ (\E kind \in Resets : Sends(Command("RESET", <<kind, r>>))) /\ UNCHANGED <<child, kv>>
          \/ Begin(r) /\ CanSend /\ Sends(Command("EXECUTE", <<"run", r>>)) /\ UNCHANGED <<child, kv>>
          \/ Spawn(r)
      BY <1>1, CallerWire
    <3>5. Spawn(r) => Wiped
      BY DEF Spawn, Wiped
    <3> QED
      BY <3>2, <3>3, <3>4, <3>5
  <2> QED
    BY <1>1, <2>1, <2>2
<1>2. ASSUME CleanUp PROVE Wiped /\ ~CanSend'
  BY <1>2 DEF CleanUp, Wiped, CanSend
<1>3. ASSUME NEW t \in Thread, Reading(t)
      PROVE  (UNCHANGED <<toChild, kv, child>> \/ Wiped) /\ (CanSend' => CanSend \/ Wiped)
  BY <1>2, <1>3, ReadingWire DEF CanSend
<1>4. CASE SendShutdown
  <2>1. Command("SHUTDOWN", None) \in CommandType /\ Command("SHUTDOWN", None).type = "SHUTDOWN"
    BY MessageTypes DEF Command
  <2>2. /\ UNCHANGED <<child, kv>> /\ (CanSend' => CanSend)
        /\ toChild' = toChild \/ Sends(Command("SHUTDOWN", None))
    BY <1>4, <2>1 DEF SendShutdown, Sends, CanSend
  <2> QED
    BY <2>1, <2>2
<1>5. CASE Close
  BY <1>2, <1>5 DEF Close
<1>6. CASE Take
  BY <1>6 DEF Take, CanSend, Reacts
<1>7. CASE Token \/ Answered \/ Hang \/ Crash \/ UNCHANGED vars
  BY <1>7 DEF Token, Answered, Hang, Crash, vars, CanSend
<1> QED
  BY <1>1, <1>3, <1>4, <1>5, <1>6, <1>7, StepCases DEF LoopCall, Child

(* The commands after one is sent, and after one is taken.                        *)
LEMMA SentCommands ==
    ASSUME Typed, NEW c \in CommandType, Sends(c)
    PROVE  \E n \in Nat : /\ DOMAIN toChild = 1 .. n /\ DOMAIN toChild' = 1 .. n + 1
                          /\ \A i \in 1 .. n : toChild'[i] = toChild[i]
                          /\ toChild'[n + 1] = c
<1>1. toChild \in Seq(CommandType) /\ toChild' = Append(toChild, c)
  BY DEF Typed, Sends
<1> QED
  BY <1>1, Adds

LEMMA TakenCommands ==
    ASSUME Typed, Take
    PROVE  \E n \in Nat : /\ DOMAIN toChild = 1 .. n + 1 /\ DOMAIN toChild' = 1 .. n
                          /\ \A i \in 1 .. n : toChild'[i] = toChild[i + 1]
                          /\ Head(toChild) = toChild[1] /\ toChild[1] \in CommandType
<1>1. toChild \in Seq(CommandType) /\ toChild # <<>> /\ toChild' = Tail(toChild)
  BY DEF Typed, Take
<1>2. Len(toChild) - 1 \in Nat /\ Len(toChild) = Len(toChild) - 1 + 1
  BY <1>1, Ends
<1> QED
  BY <1>1, <1>2, Ends

-----------------------------------------------------------------------------
(* The KV cache is clean, or will be when the commands on their way are executed. *)

IsExec(i) == toChild[i].type = "EXECUTE"
IsReset(i) == toChild[i].type = "RESET"
NoExecAfter(k) == \A i \in DOMAIN toChild : i > k => ~IsExec(i)

Clean == kv = {} /\ NoExecAfter(0)
Dry == Clean \/ \E k \in DOMAIN toChild : IsReset(k) /\ NoExecAfter(k)

CleanChild == child # None => kv = {child}

LEMMA WipedIsClean == Wiped => Clean' /\ CleanChild' /\ \A i \in DOMAIN toChild' : ~IsExec(i)' /\ ~IsReset(i)'
<1> SUFFICES ASSUME Wiped
             PROVE  Clean' /\ CleanChild' /\ \A i \in DOMAIN toChild' : ~IsExec(i)' /\ ~IsReset(i)'
  OBVIOUS
<1>1. \A i \in DOMAIN toChild' : toChild'[i] = Command("INIT", None)
  BY DEF Wiped
<1> QED
  BY <1>1 DEF Wiped, Clean, NoExecAfter, IsExec, IsReset, CleanChild, Command

(* What the subprocess makes of a command.                                        *)
LEMMA TakeCases ==
    ASSUME Typed, Take
    PROVE  /\ child = None
           /\ \/ IsExec(1) /\ kv' = kv \cup {child'} /\ child' # None /\ child' = toChild[1].id[2] /\ UNCHANGED fromChild
              \/ IsReset(1) /\ kv' = {} /\ child' = None /\ Reply("READY", toChild[1].id)
              \/ IsReset(1) /\ "fault" \in Env /\ kv' = kv /\ child' = None /\ Reply("ERROR", toChild[1].id)
              \/ /\ ~IsExec(1) /\ ~IsReset(1) /\ kv' = kv /\ child' = None
                 /\ fromChild' = fromChild \/ \E type \in {"READY", "ERROR"} : Reply(type, None)
<1>1. Head(toChild) = toChild[1] /\ toChild[1] \in CommandType
  BY TakenCommands
<1>2. toChild[1].type = "EXECUTE" => toChild[1].id[2] \in Run /\ toChild[1].id[2] # None
  BY <1>1, MessageTypes, ThreadOf
<1> QED
  BY <1>1, <1>2 DEF Take, IsExec, IsReset

(* Nothing but an EXECUTE makes the cache dirty.                                  *)
LEMMA StaysClean ==
    ASSUME Typed, Order, [Next]_vars, Clean, \A r \in Run : Begin(r) => ~CanSend
    PROVE  Clean'
<1>1. CASE UNCHANGED <<toChild, kv>>
  BY <1>1 DEF Clean, NoExecAfter, IsExec
<1>2. ASSUME NEW c \in CommandType, c.type \in {"RESET", "SHUTDOWN"}, Sends(c), UNCHANGED kv
      PROVE  Clean'
  <2>1. PICK n \in Nat : /\ DOMAIN toChild = 1 .. n /\ DOMAIN toChild' = 1 .. n + 1
                         /\ \A i \in 1 .. n : toChild'[i] = toChild[i]
                         /\ toChild'[n + 1] = c
    BY <1>2, SentCommands
  <2> QED
    BY <1>2, <2>1 DEF Clean, NoExecAfter, IsExec
<1>3. CASE Take
  <2>1. PICK n \in Nat : /\ DOMAIN toChild = 1 .. n + 1 /\ DOMAIN toChild' = 1 .. n
                         /\ \A i \in 1 .. n : toChild'[i] = toChild[i + 1]
    BY <1>3, TakenCommands
  <2>2. kv' = {}
    BY <1>3, <2>1, TakeCases DEF Clean, NoExecAfter
  <2> QED
    BY <2>1, <2>2 DEF Clean, NoExecAfter, IsExec
<1> QED
  BY <1>1, <1>2, <1>3, StepWire, WipedIsClean

LEMMA StaysDry ==
    ASSUME Typed, Order, [Next]_vars, Dry, "fault" \notin Env, \A r \in Run : Begin(r) => ~CanSend
    PROVE  Dry'
<1> USE DEF Dry
<1>1. CASE Clean
  BY <1>1, StaysClean
<1>2. ASSUME NEW k \in DOMAIN toChild, IsReset(k), NoExecAfter(k)
      PROVE  Dry'
  <2>1. CASE UNCHANGED <<toChild, kv>>
    BY <1>2, <2>1 DEF NoExecAfter, IsExec, IsReset
  <2>2. ASSUME NEW c \in CommandType, c.type \in {"RESET", "SHUTDOWN"}, Sends(c), UNCHANGED kv
        PROVE  Dry'
    <3>1. PICK n \in Nat : /\ DOMAIN toChild = 1 .. n /\ DOMAIN toChild' = 1 .. n + 1
                           /\ \A i \in 1 .. n : toChild'[i] = toChild[i]
                           /\ toChild'[n + 1] = c
      BY <2>2, SentCommands
    <3>2. k \in DOMAIN toChild' /\ IsReset(k)' /\ NoExecAfter(k)'
      BY <1>2, <2>2, <3>1 DEF NoExecAfter, IsExec, IsReset
    <3> QED
      BY <3>2
  <2>3. CASE Take
    <3>1. PICK n \in Nat : /\ DOMAIN toChild = 1 .. n + 1 /\ DOMAIN toChild' = 1 .. n
                           /\ \A i \in 1 .. n : toChild'[i] = toChild[i + 1]
      BY <2>3, TakenCommands
    <3>2. CASE k = 1
      <4>1. kv' = {}
        BY <1>2, <2>3, <3>2, TakeCases DEF IsExec, IsReset
      <4>2. NoExecAfter(0)'
        BY <1>2, <3>1, <3>2 DEF NoExecAfter, IsExec
      <4> QED
        BY <4>1, <4>2 DEF Clean
    <3>3. CASE k # 1
      <4> DEFINE j == k - 1
      <4>1. j \in DOMAIN toChild' /\ toChild'[j] = toChild[k] /\ k \in 2 .. n + 1
        BY <3>1, <3>3
      <4>2. \A i \in DOMAIN toChild' : i > j => toChild'[i] = toChild[i + 1] /\ i + 1 \in DOMAIN toChild /\ i + 1 > k
        BY <3>1, <4>1
      <4> HIDE DEF j
      <4>3. IsReset(j)' /\ NoExecAfter(j)'
        BY <1>2, <4>1, <4>2 DEF NoExecAfter, IsExec, IsReset
      <4> QED
        BY <4>1, <4>3
    <3> QED
      BY <3>2, <3>3
  <2> QED
    BY <2>1, <2>2, <2>3, StepWire, WipedIsClean
<1> QED
  BY <1>1, <1>2
-----------------------------------------------------------------------------
(* Without faults of the accelerator: an EXECUTE comes after a RESET, with none   *)
(* in between, or finds the cache clean; and the background RESET that a run leaves *)
(* cleans up after it.                                                            *)

Prepared(i) ==
    \/ kv = {} /\ \A j \in DOMAIN toChild : j < i => ~IsExec(j)
    \/ \E k \in DOMAIN toChild :
         k < i /\ IsReset(k) /\ \A j \in DOMAIN toChild : k < j /\ j < i => ~IsExec(j)

Between ==
    /\ CleanChild
    /\ \A i \in DOMAIN toChild : IsExec(i) => Prepared(i)
    /\ CanSend => Dry \/ \E r \in Run : pc[r] = "running" \/ eager[r] = "pending"

(* A run that has executed leaves a background RESET, whose command is sent next. *)
LEMMA RunLeavesReset ==
    ASSUME Typed, Order, [Next]_vars, NEW r \in Run, pc[r] = "running" \/ eager[r] = "pending"
    PROVE  \/ pc'[r] = "running" \/ eager'[r] = "pending"
           \/ CanSend /\ Sends(Command("RESET", <<"eager", r>>)) /\ UNCHANGED kv /\ eager'[r] = "reading"
           \/ ~CanSend' /\ justReset' = FALSE
<1> USE PhaseSets DEF Typed, managerVars, runVars, wireVars, childVars
<1>1. ASSUME NEW q \in Run, Client(q)
      PROVE  pc'[r] = "running" \/ eager'[r] = "pending"
  <2>1. CASE Ask(q) \/ AskWithReset(q) \/ Kill(q)
    BY <1>1, <2>1 DEF Ask, AskWithReset, Kill, MayAsk, At
  <2>2. CASE HangUp(q)
    <3>1. pc' = [pc EXCEPT ![q] = "cancelled"]
      BY <2>2 DEF HangUp, At
    <3>2. eager' = IF pc[q] = "running" THEN [eager EXCEPT ![q] = "pending"] ELSE eager
      BY <2>2 DEF HangUp, LeaveReset
    <3> QED
      BY <3>1, <3>2
  <2> QED
    BY <1>1, <2>1, <2>2 DEF Client
<1>2. ASSUME NEW q \in Run, Coroutine(q)
      PROVE  \/ pc'[r] = "running" \/ eager'[r] = "pending"
             \/ CanSend /\ Sends(Command("RESET", <<"eager", r>>)) /\ UNCHANGED kv /\ eager'[r] = "reading"
             \/ ~CanSend' /\ justReset' = FALSE
  <2>1. CASE Acquire(q) \/ Await(q) \/ PreReset(q) \/ Spawn(q)
    BY <2>1 DEF Acquire, Await, PreReset, Spawn, Fail, At
  <2>2. CASE Begin(q) \/ Refused(q)
    BY <2>2 DEF Begin, Refused, Execute, Fail, At
  <2>3. CASE EndRun(q)
    <3>1. \E p \in {"ok", "failed"} : pc' = [pc EXCEPT ![q] = p]
      BY <2>3 DEF EndRun, At
    <3>2. eager' = [eager EXCEPT ![q] = "pending"]
      BY <2>3 DEF EndRun, LeaveReset
    <3> QED
      BY <3>1, <3>2
  <2>4. CASE StartEager(q)
    <3>1. pc' = pc /\ \A p \in Run : p # q => eager'[p] = eager[p]
      BY <2>4 DEF StartEager
    <3>2. CASE CanSend
      <4>1. Command("RESET", <<"eager", q>>) \in CommandType
        BY MessageTypes DEF Resets
      <4>2. Sends(Command("RESET", <<"eager", q>>)) /\ UNCHANGED kv /\ eager'[q] = "reading"
        BY <2>4, <3>2, <4>1 DEF StartEager, Sends
      <4> QED
        BY <3>1, <3>2, <4>2
    <3>3. CASE ~CanSend
      <4>1. ~CanSend' /\ justReset' = FALSE
        BY <2>4, <3>3 DEF StartEager, CanSend
      <4> QED
        BY <4>1
    <3> QED
      BY <3>2, <3>3
  <2> QED
    BY <1>2, <2>1, <2>2, <2>3, <2>4 DEF Coroutine
<1>3. ASSUME NEW t \in Thread, Reading(t)
      PROVE  pc'[r] = "running" \/ eager'[r] = "pending"
  <2>1. t \in threads /\ ReaderMoves(t) /\ t[2] \in Run /\ t = <<t[1], t[2]>>
    BY <1>3, ReadingMoves, ThreadShape
  <2>2. t[1] = "eager" => eager[t[2]] = "reading"
    BY <2>1 DEF Order, EagerInv
  <2> QED
    BY <2>1, <2>2 DEF ReaderMoves
<1>4. CASE LoopCall \/ Child \/ Hang \/ Crash \/ UNCHANGED vars
  <2>1. /\ eager' = eager
        /\ \/ pc' = pc
           \/ pc' = [q \in Run |-> IF q = loop.run /\ pc[q] = "switching" THEN "spawning" ELSE pc[q]]
    BY <1>4 DEF LoopCall, Child, SendShutdown, Close, Take, Token, Answered, Hang, Crash, vars
  <2> QED
    BY <2>1
<1> QED
  BY <1>1, <1>2, <1>3, <1>4, StepCases

(* A run begins when no other is under the lock and no background RESET is open.   *)
LEMMA BeginsAlone ==
    ASSUME Typed, Order, NEW r \in Run, Begin(r)
    PROVE  /\ \A q \in Run : q # r => pc[q] \notin UnderLock
           /\ pc[r] \in {"started", "reset", "deciding"} /\ pc' = [pc EXCEPT ![r] = "running"]
           /\ \A q \in Run : ~Open(q)
           /\ UNCHANGED <<eager, fromChild>> /\ justReset' \in {justReset, FALSE}
           /\ CanSend => Sends(Command("EXECUTE", <<"run", r>>)) /\ UNCHANGED <<child, kv>>
<1>1. /\ pc[r] \in {"started", "reset", "deciding"} /\ pc' = [pc EXCEPT ![r] = "running"]
      /\ UNCHANGED <<eager, fromChild>> /\ justReset' \in {justReset, FALSE}
  BY DEF Begin, Execute, At, Typed
<1>2. CanSend => Sends(Command("EXECUTE", <<"run", r>>)) /\ UNCHANGED <<child, kv>>
  BY MessageTypes DEF Begin, Execute, Sends, childVars
<1> QED
  BY <1>1, <1>2, PhaseSets DEF Order, LockInv, EagerInv

LEMMA InitBetween == Init => Between
<1> SUFFICES ASSUME Init PROVE Between
  OBVIOUS
<1>1. child = None /\ DOMAIN toChild = {} /\ file = "closed"
  BY DEF Init
<1> QED
  BY <1>1 DEF Between, CleanChild, CanSend

LEMMA BetweenStep ==
    ASSUME Typed, Order, Between, "fault" \notin Env, [Next]_vars
    PROVE  Between'
<1> USE DEF Between
<1>1. ASSUME NEW r \in Run, Begin(r), CanSend, Sends(Command("EXECUTE", <<"run", r>>)), UNCHANGED <<child, kv>>
      PROVE  Between'
  <2>1. pc'[r] = "running"
    BY <1>1, BeginsAlone DEF Typed
  <2>2. Dry
    BY <1>1, BeginsAlone, PhaseSets DEF Open
  <2>3. PICK n \in Nat : /\ DOMAIN toChild = 1 .. n /\ DOMAIN toChild' = 1 .. n + 1
                         /\ \A i \in 1 .. n : toChild'[i] = toChild[i]
                         /\ toChild'[n + 1] = Command("EXECUTE", <<"run", r>>)
    <3>1. Command("EXECUTE", <<"run", r>>) \in CommandType
      BY MessageTypes
    <3> QED
      BY <1>1, <3>1, SentCommands
  <2>4. Prepared(n + 1)'
    BY <1>1, <2>2, <2>3 DEF Dry, Clean, NoExecAfter, Prepared, IsExec, IsReset
  <2>5. ASSUME NEW i \in 1 .. n, IsExec(i)' PROVE Prepared(i)'
    BY <1>1, <2>3, <2>5 DEF Prepared, IsExec, IsReset
  <2>6. \A i \in DOMAIN toChild' : IsExec(i)' => Prepared(i)'
    BY <2>3, <2>4, <2>5
  <2> QED
    BY <1>1, <2>1, <2>6 DEF CleanChild
<1>2. CASE \A r \in Run : Begin(r) => ~CanSend
  <2>1. CleanChild' /\ \A i \in DOMAIN toChild' : IsExec(i)' => Prepared(i)'
    <3>1. CASE UNCHANGED <<toChild, kv>> /\ child' \in {child, None}
      BY <3>1 DEF CleanChild, Prepared, IsExec, IsReset
    <3>2. ASSUME NEW c \in CommandType, c.type \in {"RESET", "SHUTDOWN"}, Sends(c), UNCHANGED <<child, kv>>
          PROVE  CleanChild' /\ \A i \in DOMAIN toChild' : IsExec(i)' => Prepared(i)'
      <4>1. PICK n \in Nat : /\ DOMAIN toChild = 1 .. n /\ DOMAIN toChild' = 1 .. n + 1
                             /\ \A i \in 1 .. n : toChild'[i] = toChild[i]
                             /\ toChild'[n + 1] = c
        BY <3>2, SentCommands
      <4>2. ASSUME NEW i \in DOMAIN toChild', IsExec(i)' PROVE Prepared(i)'
        <5>1. i \in 1 .. n /\ IsExec(i)
          BY <3>2, <4>1, <4>2 DEF IsExec
        <5> QED
          BY <3>2, <4>1, <5>1 DEF Prepared, IsExec, IsReset
      <4> QED
        BY <3>2, <4>2 DEF CleanChild
    <3>3. CASE Take
      <4>1. PICK n \in Nat : /\ DOMAIN toChild = 1 .. n + 1 /\ DOMAIN toChild' = 1 .. n
                             /\ \A i \in 1 .. n : toChild'[i] = toChild[i + 1]
        BY <3>3, TakenCommands
      <4>2. /\ IsExec(1) => kv' = kv \cup {child'} /\ child' # None /\ ~IsReset(1)
            /\ IsReset(1) => kv' = {} /\ child' = None
            /\ ~IsExec(1) /\ ~IsReset(1) => kv' = kv /\ child' = None
        BY <3>3, TakeCases DEF IsExec, IsReset
      <4>3. IsExec(1) => Prepared(1)
        BY <4>1
      <4>4. IsExec(1) => kv = {}
        BY <4>1, <4>3 DEF Prepared
      <4>5. CleanChild'
        BY <4>2, <4>4 DEF CleanChild
      <4>6. ASSUME NEW i \in 1 .. n, IsExec(i)' PROVE Prepared(i)'
        <5>1. IsExec(i + 1) /\ Prepared(i + 1) /\ i + 1 \in 1 .. n + 1
          BY <4>1, <4>6 DEF IsExec
        <5>2. CASE kv = {} /\ \A j \in DOMAIN toChild : j < i + 1 => ~IsExec(j)
          <6>1. kv' = {}
            BY <4>1, <4>2, <5>2
          <6>2. \A j \in DOMAIN toChild' : j < i => ~IsExec(j)'
            BY <4>1, <5>2 DEF IsExec
          <6> QED
            BY <6>1, <6>2 DEF Prepared
        <5>3. ASSUME NEW k \in DOMAIN toChild, k < i + 1, IsReset(k),
                     \A j \in DOMAIN toChild : k < j /\ j < i + 1 => ~IsExec(j)
              PROVE  Prepared(i)'
          <6>1. CASE k = 1
            <7>1. kv' = {}
              BY <4>2, <5>3, <6>1
            <7>2. \A j \in DOMAIN toChild' : j < i => ~IsExec(j)'
              BY <4>1, <5>3, <6>1 DEF IsExec
            <7> QED
              BY <7>1, <7>2 DEF Prepared
          <6>2. CASE k # 1
            <7>1. k \in 2 .. n + 1
              BY <4>1, <5>3, <6>2
            <7>2. PICK m \in 1 .. n : m = k - 1
              BY <7>1
            <7>3. m < i /\ IsReset(m)'
              BY <4>1, <5>3, <7>1, <7>2 DEF IsReset
            <7>4. ASSUME NEW j \in DOMAIN toChild', m < j /\ j < i PROVE ~IsExec(j)'
              <8>1. j + 1 \in DOMAIN toChild /\ k < j + 1 /\ j + 1 < i + 1 /\ toChild'[j] = toChild[j + 1]
                BY <4>1, <7>2, <7>4
              <8> QED
                BY <5>3, <8>1 DEF IsExec
            <7> QED
              BY <4>1, <7>3, <7>4 DEF Prepared
          <6> QED
            BY <6>1, <6>2
        <5> QED
          BY <5>1, <5>2, <5>3 DEF Prepared
      <4> QED
        BY <4>1, <4>5, <4>6
    <3> QED
      BY <1>2, <3>1, <3>2, <3>3, StepWire, WipedIsClean
  <2>2. CanSend' => Dry' \/ \E r \in Run : pc'[r] = "running" \/ eager'[r] = "pending"
    <3> SUFFICES ASSUME CanSend', ~Wiped
                 PROVE  Dry' \/ \E r \in Run : pc'[r] = "running" \/ eager'[r] = "pending"
      BY WipedIsClean DEF Dry
    <3>1. CanSend
      BY StepWire
    <3>2. CASE Dry
      BY <1>2, <3>2, StaysDry
    <3>3. ASSUME NEW r \in Run, pc[r] = "running" \/ eager[r] = "pending"
          PROVE  Dry' \/ pc'[r] = "running" \/ eager'[r] = "pending"
      <4>1. CASE Sends(Command("RESET", <<"eager", r>>))
        <5>1. Command("RESET", <<"eager", r>>) \in CommandType
          BY MessageTypes DEF Resets
        <5>2. PICK n \in Nat : DOMAIN toChild' = 1 .. n + 1 /\ toChild'[n + 1] = Command("RESET", <<"eager", r>>)
          BY <4>1, <5>1, SentCommands
        <5>3. IsReset(n + 1)' /\ NoExecAfter(n + 1)' /\ n + 1 \in DOMAIN toChild'
          BY <5>2 DEF IsReset, NoExecAfter, Command
        <5> QED
          BY <5>3 DEF Dry
      <4> QED
        BY <3>3, <4>1, RunLeavesReset
    <3> QED
      BY <3>1, <3>2, <3>3
  <2> QED
    BY <2>1, <2>2
<1> QED
  BY <1>1, <1>2, BeginsAlone
-----------------------------------------------------------------------------
(* In ADHOC_MODE, whatever fails: a run executes only after an answered RESET or   *)
(* in a new subprocess, because a refused one leaves justReset FALSE or the run    *)
(* refused. An answer tells its reader that the cache is clean as long as nobody   *)
(* else executes, and nobody does while somebody waits.                           *)

(* The readers whose answer decides whether a run may execute.                    *)
Waiting == {t \in Thread : \/ t[1] = "pre" /\ pc[t[2]] = "resetting"
                           \/ t[1] = "eager" /\ eager[t[2]] = "reading"}

Known ==
    /\ CleanChild
    /\ \A i \in DOMAIN toChild : IsExec(i) =>
         kv = {} /\ \A j \in DOMAIN toChild : IsExec(j) => i = j
    /\ CanSend /\ justReset => Clean \/ \E r \in Run : pc[r] = "running" \/ Open(r)
    /\ CanSend => \A r \in Run : pc[r] \in {"reset", "starting", "started"} => Clean
    /\ \A i \in DOMAIN toChild : IsReset(i) /\ toChild[i].id \in Waiting => NoExecAfter(i)
    /\ \A i \in DOMAIN fromChild : fromChild[i].type = "READY" /\ fromChild[i].id \in Waiting => Clean

(* t finds the answer to its RESET.                                               *)
Told(t) == t \in Waiting /\ fromChild # <<>> /\ Answers(t, Head(fromChild))

LEMMA ReadingTells ==
    ASSUME Typed, Order, NEW t \in Thread, Reading(t)
    PROVE  /\ justReset' => justReset \/ Told(t)
           /\ \A r \in Run : pc'[r] = "reset" => pc[r] = "reset" \/ Told(t)
           /\ \A r \in Run : pc'[r] \in {"starting", "started"} => pc[r] \in {"starting", "started"}
           /\ t[1] = "eager" /\ t \notin threads' => justReset' = FALSE \/ Told(t)
<1> USE DEF managerVars, runVars, childVars, wireVars
<1>1. t[1] \in Resets \cup {"run", "start"} /\ t[2] \in Run /\ t = <<t[1], t[2]>>
  BY ThreadShape
<1>2. t \in threads /\ ReaderMoves(t)
  BY ReadingMoves
<1>3. pc \in [Run -> Phase] /\ justReset \in BOOLEAN
  BY DEF Typed
<1>4. \A r \in Run : pc'[r] \in {"starting", "started"} => pc[r] \in {"starting", "started"}
  BY <1>1, <1>2, <1>3 DEF ReaderMoves
<1>5. t[1] = "eager" => t \in Waiting
  BY <1>1, <1>2 DEF Order, EagerInv, Waiting
<1>6. ASSUME Break(t)
      PROVE  /\ justReset' => justReset
             /\ \A r \in Run : pc'[r] = "reset" => pc[r] = "reset"
             /\ t[1] = "eager" => justReset' = FALSE
  BY <1>1, <1>3, <1>6 DEF Break
<1>7. CASE EnterRead(t)
  <2>1. UNCHANGED <<justReset, pc, threads>>
    BY <1>7 DEF EnterRead
  <2> QED
    BY <1>2, <1>4, <2>1
<1>8. CASE NoRead(t) \/ ReadEnds(t)
  BY <1>4, <1>6, <1>8 DEF NoRead, ReadEnds
<1>9. CASE ReadLine(t)
  <2> DEFINE m == Head(fromChild)
  <2>0. fromChild # <<>>
    BY <1>9 DEF ReadLine
  <2>1. CASE t[1] = "run" /\ RunReads(t, m)
    <3>1. UNCHANGED <<justReset, pc>>
      BY <2>1 DEF RunReads
    <3> QED
      BY <1>4, <2>1, <3>1
  <2>2. CASE t[1] = "start" /\ StartReads(t, m)
    <3>1. CASE m.type # "READY"
      BY <1>4, <1>6, <2>2, <3>1 DEF StartReads
    <3>2. CASE m.type = "READY"
      <4>1. justReset' = justReset /\ \A r \in Run : pc'[r] = "reset" => pc[r] = "reset"
        BY <1>1, <1>3, <2>2, <3>2 DEF StartReads
      <4> QED
        BY <1>4, <2>2, <4>1
    <3> QED
      BY <3>1, <3>2
  <2>3. CASE t[1] \in Resets /\ ResetReads(t, m)
    <3>1. CASE m.type = "ERROR" /\ m.id = t
      BY <1>4, <1>6, <2>3, <3>1 DEF ResetReads
    <3>2. CASE ~(m.type = "ERROR" /\ m.id = t) /\ ~Answers(t, m)
      <4>1. UNCHANGED <<justReset, pc, threads>>
        BY <2>3, <3>2 DEF ResetReads
      <4> QED
        BY <1>2, <1>4, <4>1
    <3>3. CASE ~(m.type = "ERROR" /\ m.id = t) /\ Answers(t, m)
      <4>1. justReset' = (justReset \/ t[1] = "eager")
        BY <2>3, <3>3 DEF ResetReads
      <4>2. pc' = IF t[1] = "pre" /\ pc[t[2]] = "resetting" THEN [pc EXCEPT ![t[2]] = "reset"] ELSE pc
        BY <2>3, <3>3 DEF ResetReads
      <4>3. t[1] = "pre" /\ pc[t[2]] = "resetting" => Told(t)
        BY <2>0, <3>3 DEF Told, Waiting
      <4>4. t[1] = "eager" => Told(t)
        BY <1>5, <2>0, <3>3 DEF Told
      <4>5. \A r \in Run : pc'[r] = "reset" => pc[r] = "reset" \/ Told(t)
        BY <1>1, <1>3, <4>2, <4>3
      <4>6. justReset' => justReset \/ Told(t)
        BY <4>1, <4>4
      <4> QED
        BY <1>4, <4>4, <4>5, <4>6
    <3> QED
      BY <3>1, <3>2, <3>3
  <2> QED
    BY <1>9, <2>1, <2>2, <2>3 DEF ReadLine
<1> QED
  BY <1>7, <1>8, <1>9 DEF Reading

(* Nobody but a reader says that a RESET was answered, and only a new subprocess  *)
(* starts clean without one.                                                      *)
LEMMA OthersTellNothing ==
    ASSUME Typed, [Next]_vars, \A t \in Thread : ~Reading(t)
    PROVE  /\ justReset' => justReset
           /\ \A r \in Run : pc'[r] \in {"reset", "starting", "started"} => pc'[r] = pc[r] \/ Wiped
<1> USE DEF Typed, managerVars, runVars, wireVars, childVars
<1>1. ASSUME NEW q \in Run, Client(q)
      PROVE  /\ justReset' = justReset
             /\ \A r \in Run : pc'[r] \in {"reset", "starting", "started"} => pc'[r] = pc[r]
  BY <1>1 DEF Client, Ask, AskWithReset, HangUp, Kill, At
<1>2. ASSUME NEW q \in Run, Coroutine(q)
      PROVE  /\ justReset' => justReset
             /\ \A r \in Run : pc'[r] \in {"reset", "starting", "started"} => pc'[r] = pc[r] \/ Wiped
  <2>1. CASE Acquire(q) \/ Await(q) \/ PreReset(q)
    BY <2>1 DEF Acquire, Await, PreReset, Fail, At
  <2>2. CASE Begin(q) \/ Refused(q)
    BY <2>2 DEF Begin, Refused, Execute, Fail, At
  <2>3. CASE EndRun(q) \/ StartEager(q)
    BY <2>3 DEF EndRun, StartEager, At
  <2>4. CASE Spawn(q)
    <3>1. Wiped /\ justReset' = justReset
      BY <2>4 DEF Spawn, Wiped
    <3> QED
      BY <3>1
  <2> QED
    BY <1>2, <2>1, <2>2, <2>3, <2>4 DEF Coroutine
<1>3. CASE LoopCall \/ Child \/ Hang \/ Crash \/ UNCHANGED vars
  <2>1. /\ justReset' = justReset
        /\ \/ pc' = pc
           \/ pc' = [q \in Run |-> IF q = loop.run /\ pc[q] = "switching" THEN "spawning" ELSE pc[q]]
    BY <1>3 DEF LoopCall, Child, SendShutdown, Close, Take, Token, Answered, Hang, Crash, vars
  <2> QED
    BY <2>1
<1> QED
  BY <1>1, <1>2, <1>3, StepCases

(* A run that executes, or a background RESET that is open, stays so until the    *)
(* RESET is answered or given up.                                                 *)
LEMMA OpenStays ==
    ASSUME Typed, Order, Order', [Next]_vars, NEW r \in Run, pc[r] = "running" \/ Open(r)
    PROVE  \/ pc'[r] = "running" \/ Open(r)'
           \/ justReset' = FALSE
           \/ Told(<<"eager", r>>)
<1>1. CASE pc[r] = "running" \/ eager[r] = "pending"
  BY <1>1, RunLeavesReset DEF Open
<1>2. CASE eager[r] = "reading"
  <2> DEFINE t == <<"eager", r>>
  <2>1. t \in threads /\ t \in Thread
    BY <1>2, ThreadOf DEF Order, EagerInv, Resets
  <2> SUFFICES ASSUME t \notin threads' PROVE justReset' = FALSE \/ Told(t)
    BY DEF Order, EagerInv, Open
  <2>2. ASSUME NEW q \in Run, Client(q) \/ Coroutine(q) PROVE FALSE
    <3>1. CASE Spawn(q)
      BY <2>1, <3>1 DEF Spawn
    <3>2. CASE Client(q) \/ (Coroutine(q) /\ ~Spawn(q))
      <4>1. threads \subseteq threads'
        BY <3>2 DEF Client, Ask, AskWithReset, HangUp, Kill, Coroutine, Acquire, Await, PreReset, Begin, Refused,
           EndRun, StartEager, Execute, Fail
      <4> QED
        BY <2>1, <4>1
    <3> QED
      BY <2>2, <3>1, <3>2
  <2>3. ASSUME NEW u \in Thread, Reading(u) PROVE justReset' = FALSE \/ Told(t)
    <3>1. u = t
      BY <2>1, <2>3, ReadingMoves DEF ReaderMoves
    <3>2. t[1] = "eager"
      OBVIOUS
    <3> QED
      BY <2>3, <3>1, <3>2, ReadingTells
  <2>4. CASE LoopCall \/ Child \/ Hang \/ Crash \/ UNCHANGED vars
    <3>1. threads' = threads
      BY <2>4 DEF LoopCall, Child, SendShutdown, Close, Take, Token, Answered, Hang, Crash, vars
    <3> QED
      BY <2>1, <3>1
  <2> QED
    BY <2>2, <2>3, <2>4, StepCases
<1> QED
  BY <1>1, <1>2 DEF Open

(* Who starts to wait sends its RESET in the same step, and nothing of it was on  *)
(* the socket before.                                                             *)
LEMMA WaitingStep ==
    ASSUME Typed, Order, [Next]_vars, NEW t \in Waiting'
    PROVE  \/ t \in Waiting
           \/ /\ t \notin SentIds /\ t \in Thread
              /\ Sends(Command("RESET", t)) /\ UNCHANGED <<fromChild, child, kv>>
<1> USE DEF Typed, managerVars, runVars, wireVars, childVars
<1>0. t \in Thread /\ t[1] \in {"pre", "eager"} /\ t[2] \in Run /\ t = <<t[1], t[2]>> /\ t # None
  BY ThreadShape, ProcessAssumption DEF Waiting
<1> DEFINE r == t[2]
<1>1. /\ t[1] = "pre" => pc'[r] = "resetting"
      /\ t[1] = "eager" => eager'[r] = "reading"
  BY DEF Waiting
<1>2. (t[1] = "pre" /\ pc[r] = "resetting") \/ (t[1] = "eager" /\ eager[r] = "reading") => t \in Waiting
  BY <1>0 DEF Waiting
<1>3. ASSUME NEW q \in Run, Client(q) PROVE t \in Waiting
  <2>1. /\ pc'[r] = "resetting" => pc[r] = "resetting"
        /\ eager'[r] = "reading" => eager[r] = "reading"
    BY <1>0, <1>3 DEF Client, Ask, AskWithReset, HangUp, Kill, At, LeaveReset
  <2> QED
    BY <1>0, <1>1, <1>2, <2>1
<1>4. ASSUME NEW q \in Run, Coroutine(q)
      PROVE  t \in Waiting \/ (t \notin SentIds /\ Sends(Command("RESET", t)) /\ UNCHANGED <<fromChild, child, kv>>)
  <2>1. CASE Acquire(q) \/ Await(q) \/ Begin(q) \/ Refused(q) \/ Spawn(q) \/ EndRun(q)
    <3>1. pc'[r] = "resetting" => pc[r] = "resetting"
      BY <1>0, <2>1 DEF Acquire, Await, Begin, Refused, Spawn, EndRun, Execute, Fail, At
    <3>2. eager'[r] = "reading" => eager[r] = "reading"
      BY <1>0, <2>1 DEF Acquire, Await, Begin, Refused, Spawn, EndRun, LeaveReset
    <3> QED
      BY <1>0, <1>1, <1>2, <3>1, <3>2
  <2>2. CASE PreReset(q)
    <3>1. eager' = eager /\ pc[q] = "deciding" /\ \A p \in Run : p # q => pc'[p] = pc[p]
      BY <2>2 DEF PreReset, Fail, At
    <3>2. CASE t = <<"pre", q>>
      <4>1. r = q /\ t[1] = "pre"
        BY <3>2
      <4>2. CanSend
        BY <1>1, <2>2, <4>1 DEF PreReset, Fail, At
      <4>3. Sends(Command("RESET", t)) /\ UNCHANGED <<fromChild, child, kv>>
        BY <2>2, <3>2, <4>2, MessageTypes DEF PreReset, Sends, Resets
      <4>4. t \notin SentIds
        BY <1>0, <3>1, <4>1, PhaseSets DEF SentIds, Sent, Resetting, Executing
      <4> QED
        BY <4>3, <4>4
    <3>3. CASE t # <<"pre", q>>
      BY <1>0, <1>1, <1>2, <3>1, <3>3
    <3> QED
      BY <3>2, <3>3
  <2>3. CASE StartEager(q)
    <3>1. pc' = pc /\ eager[q] = "pending" /\ \A p \in Run : p # q => eager'[p] = eager[p]
      BY <2>3 DEF StartEager
    <3>2. CASE t = <<"eager", q>>
      <4>1. r = q /\ t[1] = "eager"
        BY <3>2
      <4>2. CanSend
        BY <1>1, <2>3, <4>1 DEF StartEager
      <4>3. Sends(Command("RESET", t)) /\ UNCHANGED <<fromChild, child, kv>>
        BY <2>3, <3>2, <4>2, MessageTypes DEF StartEager, Sends, Resets
      <4>4. t \notin SentIds
        BY <1>0, <3>1, <4>1 DEF SentIds, Sent
      <4> QED
        BY <4>3, <4>4
    <3>3. CASE t # <<"eager", q>>
      BY <1>0, <1>1, <1>2, <3>1, <3>3
    <3> QED
      BY <3>2, <3>3
  <2> QED
    BY <1>4, <2>1, <2>2, <2>3 DEF Coroutine
<1>5. ASSUME NEW u \in Thread, Reading(u) PROVE t \in Waiting
  <2>1. ReaderMoves(u)
    BY <1>5, ReadingMoves
  <2>2. /\ pc'[r] = "resetting" => pc[r] = "resetting"
        /\ eager'[r] = "reading" => eager[r] = "reading"
    BY <1>0, <2>1 DEF ReaderMoves
  <2> QED
    BY <1>0, <1>1, <1>2, <2>2
<1>6. CASE LoopCall \/ Child \/ Hang \/ Crash \/ UNCHANGED vars
  <2>1. /\ eager' = eager
        /\ \/ pc' = pc
           \/ pc' = [q \in Run |-> IF q = loop.run /\ pc[q] = "switching" THEN "spawning" ELSE pc[q]]
    BY <1>6 DEF LoopCall, Child, SendShutdown, Close, Take, Token, Answered, Hang, Crash, vars
  <2> QED
    BY <1>0, <1>1, <1>2, <2>1
<1> QED
  BY <1>0, <1>3, <1>4, <1>5, <1>6, StepCases

LEMMA InitKnown == Init => Known
<1> SUFFICES ASSUME Init PROVE Known
  OBVIOUS
<1>1. child = None /\ DOMAIN toChild = {} /\ DOMAIN fromChild = {} /\ file = "closed"
  BY DEF Init
<1> QED
  BY <1>1 DEF Known, CleanChild, CanSend

(* A run that begins finds the cache clean, and nobody waits then.                 *)
LEMMA KnownBegin ==
    ASSUME Typed, Order, Known, Adhoc, [Next]_vars, NEW r \in Run, Begin(r), CanSend
    PROVE  Known'
<1>1. /\ \A q \in Run : q # r => pc[q] \notin UnderLock
      /\ pc[r] \in {"started", "reset", "deciding"} /\ pc' = [pc EXCEPT ![r] = "running"]
      /\ \A q \in Run : ~Open(q)
      /\ eager' = eager /\ UNCHANGED <<child, kv>>
      /\ Sends(Command("EXECUTE", <<"run", r>>))
  BY BeginsAlone
<1>2. pc \in [Run -> Phase]
  BY DEF Typed
<1>3. Clean
  <2>1. CASE pc[r] = "deciding"
    <3>1. justReset
      BY <2>1 DEF Begin, NeedsReset
    <3> QED
      BY <1>1, <2>1, <3>1, PhaseSets DEF Known
  <2>2. CASE pc[r] # "deciding"
    BY <1>1, <2>2 DEF Known
  <2> QED
    BY <2>1, <2>2
<1>4. pc'[r] = "running" /\ \A q \in Run : pc'[q] \notin {"resetting", "reset", "starting", "started"}
  BY <1>1, <1>2, PhaseSets
<1>5. \A t \in Thread : t \notin Waiting'
  BY <1>1, <1>4, ThreadShape DEF Waiting, Open
<1>6. Waiting' = {}
  BY <1>5 DEF Waiting
<1>7. PICK n \in Nat : /\ DOMAIN toChild = 1 .. n /\ DOMAIN toChild' = 1 .. n + 1
                       /\ \A i \in 1 .. n : toChild'[i] = toChild[i]
                       /\ toChild'[n + 1] = Command("EXECUTE", <<"run", r>>)
  BY <1>1, SentCommands DEF Sends
<1>8. \A i \in DOMAIN toChild' : IsExec(i)' => i = n + 1
  BY <1>3, <1>7 DEF Clean, NoExecAfter, IsExec
<1>9. CleanChild' /\ kv' = {}
  BY <1>1, <1>3 DEF Known, CleanChild, Clean
<1> QED
  BY <1>4, <1>6, <1>8, <1>9 DEF Known

(* What the socket carries is still true after any other step.                    *)
LEMMA KnownWire ==
    ASSUME Typed, Order, Fresh, Known, [Next]_vars, \A r \in Run : Begin(r) => ~CanSend
    PROVE  /\ CleanChild'
           /\ \A i \in DOMAIN toChild' : IsExec(i)' =>
                kv' = {} /\ \A j \in DOMAIN toChild' : IsExec(j)' => i = j
           /\ \A i \in DOMAIN toChild' : IsReset(i)' /\ toChild'[i].id \in Waiting' => NoExecAfter(i)'
<1> USE DEF Known
<1>1. \A t \in Waiting' : t \in Waiting \/ (t \notin SentIds /\ Sends(Command("RESET", t)))
  BY WaitingStep
<1>2. \A i \in DOMAIN toChild : toChild[i].id \in SentIds
  BY DEF Fresh
<1>3. CASE UNCHANGED <<toChild, kv>> /\ child' \in {child, None}
  <2>1. Waiting' \subseteq Waiting
    <3>1. \A c \in CommandType : ~Sends(c)
      <4> SUFFICES ASSUME NEW c \in CommandType, Sends(c) PROVE FALSE
        OBVIOUS
      <4>1. PICK n \in Nat : DOMAIN toChild = 1 .. n /\ DOMAIN toChild' = 1 .. n + 1
        BY SentCommands
      <4>2. n + 1 \in DOMAIN toChild' /\ n + 1 \notin DOMAIN toChild
        BY <4>1
      <4> QED
        BY <1>3, <4>2
    <3> QED
      BY <1>1, <3>1 DEF Sends
  <2> QED
    BY <1>3, <2>1 DEF CleanChild, NoExecAfter, IsExec, IsReset
<1>4. ASSUME NEW c \in CommandType, c.type \in {"RESET", "SHUTDOWN"}, Sends(c), UNCHANGED <<child, kv>>
      PROVE  /\ CleanChild'
             /\ \A i \in DOMAIN toChild' : IsExec(i)' =>
                  kv' = {} /\ \A j \in DOMAIN toChild' : IsExec(j)' => i = j
             /\ \A i \in DOMAIN toChild' : IsReset(i)' /\ toChild'[i].id \in Waiting' => NoExecAfter(i)'
  <2>1. PICK n \in Nat : /\ DOMAIN toChild = 1 .. n /\ DOMAIN toChild' = 1 .. n + 1
                         /\ \A i \in 1 .. n : toChild'[i] = toChild[i]
                         /\ toChild'[n + 1] = c
    BY <1>4, SentCommands
  <2>2. CleanChild'
    BY <1>4 DEF CleanChild
  <2>3. \A i \in DOMAIN toChild' : IsExec(i)' => i \in DOMAIN toChild /\ IsExec(i)
    BY <1>4, <2>1 DEF IsExec
  <2>4. ASSUME NEW i \in DOMAIN toChild', IsReset(i)', toChild'[i].id \in Waiting'
        PROVE  NoExecAfter(i)'
    <3>1. CASE i = n + 1
      BY <2>1, <2>3, <3>1 DEF NoExecAfter
    <3>2. CASE i \in 1 .. n
      <4>1. toChild[i].id \in Waiting /\ IsReset(i)
        BY <1>1, <1>2, <2>1, <2>4, <3>2 DEF IsReset
      <4> QED
        BY <2>1, <2>3, <3>2, <4>1 DEF NoExecAfter
    <3> QED
      BY <2>1, <3>1, <3>2
  <2> QED
    BY <1>4, <2>2, <2>3, <2>4
<1>5. CASE Take
  <2>1. PICK n \in Nat : /\ DOMAIN toChild = 1 .. n + 1 /\ DOMAIN toChild' = 1 .. n
                         /\ \A i \in 1 .. n : toChild'[i] = toChild[i + 1]
    BY <1>5, TakenCommands
  <2>2. \A c \in CommandType : ~Sends(c)
    <3> SUFFICES ASSUME NEW c \in CommandType, Sends(c) PROVE FALSE
      OBVIOUS
    <3>1. PICK m \in Nat : DOMAIN toChild = 1 .. m /\ DOMAIN toChild' = 1 .. m + 1
      BY SentCommands
    <3>2. m + 1 \in DOMAIN toChild' /\ m + 1 \notin DOMAIN toChild
      BY <3>1
    <3> QED
      BY <2>1, <3>2
  <2>3. Waiting' \subseteq Waiting
    BY <1>1, <2>2 DEF Sends
  <2>4. /\ IsExec(1) => kv' = kv \cup {child'} /\ child' # None
        /\ ~IsExec(1) => kv' \in {{}, kv} /\ child' = None
    BY <1>5, TakeCases DEF IsExec, IsReset
  <2>5. IsExec(1) => kv = {} /\ \A i \in 1 .. n : ~IsExec(i)'
    BY <2>1 DEF IsExec
  <2>6. CleanChild'
    BY <2>4, <2>5 DEF CleanChild
  <2>7. ASSUME NEW i \in 1 .. n, IsExec(i)'
        PROVE  kv' = {} /\ \A j \in 1 .. n : IsExec(j)' => i = j
    <3>1. i + 1 \in DOMAIN toChild /\ IsExec(i + 1) /\ ~IsExec(1)
      BY <2>1, <2>5, <2>7 DEF IsExec
    <3>2. kv' = {}
      BY <2>4, <3>1
    <3>3. ASSUME NEW j \in 1 .. n, IsExec(j)' PROVE i = j
      <4>1. j + 1 \in DOMAIN toChild /\ IsExec(j + 1)
        BY <2>1, <3>3 DEF IsExec
      <4>2. i + 1 = j + 1
        BY <3>1, <4>1
      <4> QED
        BY <4>2
    <3> QED
      BY <3>2, <3>3
  <2>8. ASSUME NEW i \in 1 .. n, IsReset(i)', toChild'[i].id \in Waiting'
        PROVE  NoExecAfter(i)'
    <3>1. i + 1 \in DOMAIN toChild /\ IsReset(i + 1) /\ toChild[i + 1].id \in Waiting
      BY <2>1, <2>3, <2>8 DEF IsReset
    <3>2. ASSUME NEW j \in 1 .. n, j > i PROVE ~IsExec(j)'
      <4>1. j + 1 \in DOMAIN toChild /\ j + 1 > i + 1 /\ toChild'[j] = toChild[j + 1]
        BY <2>1, <3>2
      <4> QED
        BY <3>1, <4>1 DEF NoExecAfter, IsExec
    <3> QED
      BY <2>1, <3>2 DEF NoExecAfter
  <2> QED
    BY <2>1, <2>6, <2>7, <2>8
<1> QED
  BY <1>3, <1>4, <1>5, StepWire, WipedIsClean

LEMMA WaitingAnswers ==
    ASSUME Typed, Order, Fresh, Known, [Next]_vars, \A r \in Run : Begin(r) => ~CanSend,
           NEW i \in DOMAIN fromChild', fromChild'[i].type = "READY", fromChild'[i].id \in Waiting'
    PROVE  Clean'
<1> USE DEF managerVars, runVars, wireVars, childVars
<1>1. fromChild'[i].id \in Thread /\ None \notin Thread
  BY ProcessAssumption DEF Waiting
<1>2. ASSUME NEW j \in DOMAIN fromChild, fromChild'[i] = fromChild[j] PROVE Clean'
  <2>1. fromChild[j].id \in Waiting
    BY <1>2, WaitingStep DEF Fresh
  <2> QED
    BY <1>2, <2>1, StaysClean DEF Known
<1>3. CASE fromChild' = fromChild
  BY <1>2, <1>3
<1>4. CASE Wiped
  BY <1>4, WipedIsClean
<1>5. ASSUME NEW t \in Thread, Reading(t) PROVE Clean'
  <2>1. CASE fromChild # <<>> /\ fromChild' = Tail(fromChild)
    <3>1. i + 1 \in DOMAIN fromChild /\ fromChild'[i] = fromChild[i + 1]
      BY <2>1, Ends DEF Typed
    <3> QED
      BY <1>2, <3>1
  <2>2. CleanUp => Wiped
    BY DEF CleanUp, Wiped
  <2> QED
    BY <1>3, <1>4, <1>5, <2>1, <2>2, ReadingWire
<1>6. ASSUME NEW c \in ResponseType, fromChild' = Append(fromChild, c), fromChild'[i] # c PROVE Clean'
  <2>1. fromChild \in Seq(ResponseType)
    BY DEF Typed
  <2>2. i \in DOMAIN fromChild /\ fromChild'[i] = fromChild[i]
    BY <1>6, <2>1, Appended
  <2> QED
    BY <1>2, <2>2
<1>7. CASE Take
  <2>1. PICK n \in Nat : /\ DOMAIN toChild = 1 .. n + 1 /\ DOMAIN toChild' = 1 .. n
                         /\ \A k \in 1 .. n : toChild'[k] = toChild[k + 1]
                         /\ toChild[1] \in CommandType
    BY <1>7, TakenCommands
  <2> DEFINE id == toChild[1].id
  <2>2. CASE IsReset(1) /\ kv' = {} /\ Reply("READY", id)
    <3>1. Response("READY", id) \in ResponseType /\ Response("READY", id).id = id
      BY <2>1, MessageTypes DEF Response
    <3>2. CASE fromChild'[i] = Response("READY", id)
      <4>0. id \in SentIds /\ 1 \in DOMAIN toChild
        BY <2>1 DEF Fresh
      <4>1. id \in Waiting' /\ id \in Thread
        BY <1>1, <3>1, <3>2
      <4>2. \A c \in CommandType : ~Sends(c)
        <5> SUFFICES ASSUME NEW c \in CommandType, Sends(c) PROVE FALSE
          OBVIOUS
        <5>1. PICK m \in Nat : DOMAIN toChild = 1 .. m /\ DOMAIN toChild' = 1 .. m + 1
          BY SentCommands
        <5>2. m + 1 \in DOMAIN toChild' /\ m + 1 \notin DOMAIN toChild
          BY <5>1
        <5> QED
          BY <2>1, <5>2
      <4>3. id \in Waiting
        BY <4>0, <4>1, WaitingStep
      <4>4. NoExecAfter(1)
        BY <2>2, <4>0, <4>3 DEF Known
      <4>5. ASSUME NEW k \in 1 .. n PROVE ~IsExec(k)'
        <5>1. k + 1 \in DOMAIN toChild /\ k + 1 > 1 /\ toChild'[k] = toChild[k + 1]
          BY <2>1
        <5> QED
          BY <4>4, <5>1 DEF NoExecAfter, IsExec
      <4> QED
        BY <2>1, <2>2, <4>5 DEF Clean, NoExecAfter
    <3>3. CASE fromChild'[i] # Response("READY", id)
      BY <1>6, <2>2, <3>1, <3>3 DEF Reply
    <3> QED
      BY <3>2, <3>3
  <2>3. CASE Reply("ERROR", id)
    <3>1. Response("ERROR", id) \in ResponseType /\ Response("ERROR", id).type = "ERROR"
      BY <2>1, MessageTypes DEF Response
    <3> QED
      BY <1>6, <2>3, <3>1 DEF Reply
  <2>4. ASSUME NEW type \in {"READY", "ERROR"}, Reply(type, None) PROVE Clean'
    <3>1. Response(type, None) \in ResponseType /\ Response(type, None).id = None
      BY DEF Response, ResponseType
    <3>2. fromChild'[i] # Response(type, None)
      BY <1>1, <3>1
    <3> QED
      BY <1>6, <2>4, <3>1, <3>2 DEF Reply
  <2> QED
    BY <1>3, <1>7, <2>2, <2>3, <2>4, TakeCases
<1>8. CASE Token
  <2>1. child \in Run
    BY <1>8 DEF Token, Typed
  <2>2. Response("TOKEN", <<"run", child>>) \in ResponseType /\ Response("TOKEN", <<"run", child>>).type = "TOKEN"
    BY <2>1, MessageTypes DEF Response
  <2> QED
    BY <1>6, <1>8, <2>2 DEF Token, Reply
<1>9. CASE Answered
  <2>1. child \in Run
    BY <1>9 DEF Answered, Typed
  <2>2. PICK type \in {"DONE", "ERROR"} :
          fromChild' = fromChild \o <<Response(type, <<"run", child>>), Response("READY", <<"run", child>>)>>
    BY <1>9 DEF Answered
  <2> DEFINE first == Response(type, <<"run", child>>)
             last == Response("READY", <<"run", child>>)
  <2>3. first \in ResponseType /\ last \in ResponseType /\ fromChild \in Seq(ResponseType)
    BY <2>1, MessageTypes DEF Typed
  <2>4. first.id = <<"run", child>> /\ last.id = <<"run", child>> /\ <<"run", child>> \notin Waiting'
    BY DEF Response, Waiting
  <2>5. fromChild' = fromChild \o <<first, last>>
    BY <2>2
  <2> HIDE DEF first, last
  <2>6. fromChild' = Append(Append(fromChild, first), last) /\ Append(fromChild, first) \in Seq(ResponseType)
    BY <2>3, <2>5, TwoLines
  <2>7. i \in DOMAIN Append(fromChild, first) /\ fromChild'[i] = Append(fromChild, first)[i]
    <3>1. \A k \in DOMAIN Append(Append(fromChild, first), last) :
            \/ k \in DOMAIN Append(fromChild, first)
               /\ Append(Append(fromChild, first), last)[k] = Append(fromChild, first)[k]
            \/ Append(Append(fromChild, first), last)[k] = last
      BY <2>3, <2>6, Appended
    <3>2. fromChild'[i] # last
      BY <2>4
    <3> QED
      BY <2>6, <3>1, <3>2
  <2>8. i \in DOMAIN fromChild /\ Append(fromChild, first)[i] = fromChild[i]
    <3>1. fromChild'[i] # first
      BY <2>4
    <3> QED
      BY <2>3, <2>7, <3>1, Appended
  <2> QED
    BY <1>2, <2>7, <2>8
<1>10. CASE (\E r \in Run : Client(r) \/ Coroutine(r)) \/ LoopCall \/ Hang \/ Crash \/ UNCHANGED vars
  <2>1. fromChild' = fromChild \/ Wiped
    <3>1. ASSUME NEW r \in Run, Client(r) \/ Coroutine(r) PROVE fromChild' = fromChild \/ Wiped
      BY <3>1, CallerWire DEF Spawn, Wiped
    <3>2. Close => Wiped
      BY DEF Close, CleanUp, Wiped
    <3> QED
      BY <1>10, <3>1, <3>2 DEF LoopCall, SendShutdown, Hang, Crash, vars
  <2> QED
    BY <1>3, <1>4, <2>1
<1> QED
  BY <1>5, <1>7, <1>8, <1>9, <1>10, StepCases DEF Child

LEMMA KnownStep ==
    ASSUME Typed, Order, Order', Fresh, Known, Adhoc, [Next]_vars
    PROVE  Known'
<1>1. CASE \E r \in Run : Begin(r) /\ CanSend
  BY <1>1, KnownBegin
<1>2. CASE \A r \in Run : Begin(r) => ~CanSend
  <2> SUFFICES /\ CanSend' /\ justReset' => Clean' \/ \E r \in Run : pc'[r] = "running" \/ Open(r)'
               /\ CanSend' => \A r \in Run : pc'[r] \in {"reset", "starting", "started"} => Clean'
    BY <1>2, KnownWire, WaitingAnswers DEF Known
  <2> SUFFICES ASSUME CanSend', ~Wiped, ~Clean'
               PROVE  /\ justReset' => \E r \in Run : pc'[r] = "running" \/ Open(r)'
                      /\ \A r \in Run : pc'[r] \notin {"reset", "starting", "started"}
    BY WipedIsClean
  <2>1. CanSend /\ ~Clean
    BY <1>2, StaysClean, StepWire
  <2>2. \A t \in Thread : ~Told(t)
    <3> SUFFICES ASSUME NEW t \in Thread, Told(t) PROVE FALSE
      OBVIOUS
    <3>1. fromChild \in Seq(ResponseType) /\ fromChild # <<>>
      BY DEF Typed, Told
    <3>2. 1 \in DOMAIN fromChild /\ fromChild[1] = Head(fromChild)
      BY <3>1, Ends
    <3> QED
      BY <2>1, <3>2 DEF Told, Answers, Known
  <2>3. justReset' => justReset
    BY <2>2, ReadingTells, OthersTellNothing
  <2>4. \A r \in Run : pc[r] \notin {"reset", "starting", "started"}
    BY <2>1 DEF Known
  <2>5. \A r \in Run : pc'[r] \notin {"reset", "starting", "started"}
    BY <2>2, <2>4, ReadingTells, OthersTellNothing
  <2>6. ASSUME justReset' PROVE \E r \in Run : pc'[r] = "running" \/ Open(r)'
    <3>1. PICK r \in Run : pc[r] = "running" \/ Open(r)
      BY <2>1, <2>3, <2>6 DEF Known
    <3>2. <<"eager", r>> \in Thread
      BY ThreadOf DEF Resets
    <3> QED
      BY <2>2, <2>6, <3>1, <3>2, OpenStays
  <2> QED
    BY <2>5, <2>6
<1> QED
  BY <1>1, <1>2

-----------------------------------------------------------------------------
(* The inductive invariant of a clean start.                                      *)
CleanInv ==
    /\ Typed /\ Order /\ Fresh
    /\ "fault" \notin Env => Between
    /\ Adhoc => Known

LEMMA InitOrder == Init => Order /\ Fresh
<1> SUFFICES ASSUME Init PROVE Order /\ Fresh
  OBVIOUS
<1>1. /\ \A r \in Run : pc[r] = "new" /\ eager[r] = "none"
      /\ threads = {} /\ inside = None /\ child = None /\ DOMAIN toChild = {} /\ DOMAIN fromChild = {}
  BY DEF Init
<1> QED
  BY <1>1, PhaseSets DEF Order, LockInv, EagerInv, InsideInv, Open, Fresh

LEMMA ScenarioStays ==
    ASSUME Typed, Order, [Next]_vars
    PROVE  scenario' = scenario
BY ReadingMoves, StepCases DEF ReaderMoves, Client, Ask, AskWithReset, HangUp, Kill, Coroutine, Acquire, Await,
   PreReset, Begin, Refused, Spawn, EndRun, StartEager, LoopCall, SendShutdown, Close, Child, Take, Token,
   Answered, Hang, Crash, vars

LEMMA CleanInvStep == CleanInv /\ [Next]_vars => CleanInv'
<1> SUFFICES ASSUME CleanInv, [Next]_vars PROVE CleanInv'
  OBVIOUS
<1> USE DEF CleanInv
<1>1. Typed' /\ Order' /\ Fresh'
  BY TypedStep, OrderStep, FreshStep
<1>2. scenario' = scenario
  BY ScenarioStays
<1> QED
  BY <1>1, <1>2, BetweenStep, KnownStep DEF Env, Adhoc

LEMMA CleanInvariant == Spec => []CleanInv
<1>1. Init => CleanInv
  BY InitTyped, InitOrder, InitBetween, InitKnown DEF CleanInv
<1> QED
  BY <1>1, CleanInvStep, PTL DEF Spec

(* A run starts on a clean KV cache, whatever is killed, times out or fails: in   *)
(* ADHOC_MODE always, otherwise unless the accelerator refuses commands.          *)
THEOREM CleanStartHolds == Spec => []CleanStart
<1>1. CleanInv => CleanStart
  BY DEF CleanInv, Between, Known, CleanChild, CleanStart
<1> QED
  BY <1>1, CleanInvariant, PTL

-----------------------------------------------------------------------------
(* The socket has one reader, unless a handshake is sent beside the lock.          *)

(* Somebody still counts on what t reads.                                         *)
Present(t) ==
    /\ t[1] = "run" => pc[t[2]] = "running"
    /\ t[1] = "pre" => pc[t[2]] = "resetting"
    /\ t[1] = "start" => pc[t[2]] = "starting"
    /\ t[1] = "eager" => eager[t[2]] = "reading"
    /\ t[1] \in {"early", "post"} => loop = Blocked("reset", t[2])

ReaderInv ==
    /\ \A t, u \in threads : t = u
    /\ file # "closed" /\ loop.op # "kill" => \A t \in threads : Present(t)
    /\ loop.op = "reset" => lock = None /\ \A q \in Run : eager[q] # "reading"
    /\ \A r \in Run : <<"run", r>> \in threads => pc[r] \in {"running", "cancelled"}

(* Who is about to send a command finds nobody reading.                           *)
LEMMA NobodyReads ==
    ASSUME Typed, Order, ReaderInv, LoopFree, CanSend, NEW r \in Run,
           \/ pc[r] \in {"deciding", "started", "reset", "refused"}
           \/ pc[r] = "running" /\ <<"run", r>> \notin threads
           \/ eager[r] = "pending"
    PROVE  threads = {}
<1> SUFFICES ASSUME NEW t \in threads PROVE FALSE
  OBVIOUS
<1>1. t \in Thread /\ t[1] \in Resets \cup {"run", "start"} /\ t[2] \in Run /\ t = <<t[1], t[2]>>
  BY ThreadShape DEF Typed
<1>2. Present(t)
  BY DEF LoopFree, Free, CanSend, ReaderInv
<1>3. t[1] \notin {"early", "post"}
  BY <1>2 DEF Present, LoopFree, Free, Blocked
<1>4. CASE t[1] = "eager"
  <2>1. Open(t[2]) /\ eager[t[2]] = "reading"
    BY <1>2, <1>4 DEF Present, Open
  <2>2. eager[r] # "pending"
    BY <1>1, <2>1 DEF Order, EagerInv, Open
  <2> QED
    BY <1>1, <2>1, <2>2, PhaseSets DEF Order, EagerInv
<1>5. CASE t[1] \in {"run", "pre", "start"}
  <2>1. pc[t[2]] \in {"running", "resetting", "starting"}
    BY <1>2, <1>5 DEF Present
  <2>2. \A q \in Run : ~Open(q)
    BY <1>1, <2>1, PhaseSets DEF Order, EagerInv
  <2>3. t[2] = r
    BY <1>1, <2>1, <2>2, PhaseSets DEF Order, LockInv, Open
  <2> QED
    BY <1>1, <1>2, <1>5, <2>1, <2>2, <2>3 DEF Present, Open
<1> QED
  BY <1>1, <1>3, <1>4, <1>5 DEF Resets

LEMMA ClientReaders ==
    ASSUME Typed, Order, ReaderInv, "reset" \notin Env, NEW r \in Run, Client(r)
    PROVE  ReaderInv'
<1> USE DEF managerVars, runVars, wireVars, childVars
<1>0. pc \in [Run -> Phase]
  BY DEF Typed
<1>1. \A t \in threads : t[2] \in Run /\ t[1] \in Resets \cup {"run", "start"} /\ t = <<t[1], t[2]>>
  BY ThreadShape DEF Typed
<1>2. CASE Ask(r)
  <2>1. /\ UNCHANGED <<threads, file, loop, lock, eager>>
        /\ pc[r] = "new" /\ \A q \in Run : q # r => pc'[q] = pc[q]
    BY <1>0, <1>2 DEF Ask, MayAsk, At
  <2>2. \A t \in threads : Present(t) => Present(t)'
    BY <1>1, <2>1 DEF Present
  <2> QED
    BY <2>1, <2>2 DEF ReaderInv
<1>3. CASE HangUp(r)
  <2>1. /\ UNCHANGED <<threads, file>> /\ loop' = Blocked("kill", r)
        /\ pc' = [pc EXCEPT ![r] = "cancelled"]
    BY <1>3 DEF HangUp, At
  <2>2. loop'.op = "kill" /\ \A q \in Run : pc[q] \in {"running", "cancelled"} => pc'[q] \in {"running", "cancelled"}
    BY <1>0, <2>1 DEF Blocked
  <2> QED
    BY <2>1, <2>2 DEF ReaderInv
<1>4. CASE Kill(r)
  <2>1. UNCHANGED <<threads, file, pc>> /\ loop'.op = "kill"
    BY <1>4 DEF Kill, Blocked
  <2> QED
    BY <2>1 DEF ReaderInv
<1> QED
  BY <1>2, <1>3, <1>4 DEF Client, AskWithReset

(* A reader joins when there is none.                                             *)
LEMMA OneJoins ==
    ASSUME Typed, ReaderInv, NEW t \in Thread, threads = {}, threads' = {t}, Present(t)',
           loop'.op = "reset" => lock' = None /\ \A q \in Run : eager'[q] # "reading"
    PROVE  ReaderInv'
<1>1. \A q \in Run : <<"run", q>> = t => t[1] = "run" /\ t[2] = q
  OBVIOUS
<1> QED
  BY <1>1 DEF ReaderInv, Present

LEMMA CoroutineReaders ==
    ASSUME Typed, Order, ReaderInv, NEW r \in Run, Coroutine(r)
    PROVE  ReaderInv'
<1> USE DEF managerVars, runVars, wireVars, childVars
<1>0. pc \in [Run -> Phase] /\ eager \in [Run -> EagerType]
  BY DEF Typed
<1>1. \A t \in threads : t[2] \in Run /\ t[1] \in Resets \cup {"run", "start"} /\ t = <<t[1], t[2]>>
  BY ThreadShape DEF Typed
<1>2. <<"run", r>> \in Thread /\ <<"start", r>> \in Thread /\ <<"pre", r>> \in Thread
      /\ <<"eager", r>> \in Thread /\ <<"post", r>> \in Thread
  BY ThreadOf DEF Resets
<1>3. CASE Acquire(r)
  <2>1. /\ UNCHANGED <<threads, file, eager>> /\ LoopFree
        /\ pc[r] = "waiting" /\ \A q \in Run : q # r => pc'[q] = pc[q]
        /\ loop' \in {loop, Blocked("close", r)}
    BY <1>0, <1>3 DEF Acquire, At
  <2>2. \A t \in threads : Present(t) => Present(t)'
    BY <1>1, <2>1 DEF Present, LoopFree, Free, Blocked
  <2>3. loop'.op # "reset" /\ loop.op # "kill"
    BY <2>1 DEF LoopFree, Free, Blocked
  <2> QED
    BY <2>1, <2>2, <2>3 DEF ReaderInv
<1>4. CASE Await(r)
  <2>1. /\ UNCHANGED <<threads, file, eager, loop>> /\ LoopFree
        /\ pc[r] = "awaiting" /\ \A q \in Run : q # r => pc'[q] = pc[q]
    BY <1>0, <1>4 DEF Await, At
  <2>2. \A t \in threads : Present(t) => Present(t)'
    BY <1>1, <2>1 DEF Present
  <2>3. loop'.op # "reset"
    BY <2>1 DEF LoopFree, Free
  <2> QED
    BY <2>1, <2>2, <2>3 DEF ReaderInv
<1>5. ASSUME threads' = threads, LoopFree, UNCHANGED <<file, eager>>, pc[r] \in {"deciding", "started", "reset", "refused"},
             \A q \in Run : q # r => pc'[q] = pc[q], loop' \in {loop, Blocked("stop", r)}
      PROVE  ReaderInv'
  <2>1. \A t \in threads : Present(t) => Present(t)'
    BY <1>1, <1>5 DEF Present, LoopFree, Free, Blocked
  <2>2. loop'.op # "reset" /\ loop.op # "kill"
    BY <1>5 DEF LoopFree, Free, Blocked
  <2> QED
    BY <1>5, <2>1, <2>2 DEF ReaderInv
<1>6. CASE PreReset(r)
  <2>0. pc[r] = "deciding" /\ LoopFree /\ UNCHANGED <<eager, file>>
    BY <1>6 DEF PreReset
  <2>1. CASE CanSend
    <3>1. threads = {}
      BY <2>0, <2>1, NobodyReads
    <3>2. threads' = {<<"pre", r>>} /\ pc'[r] = "resetting" /\ loop' = loop
      BY <1>0, <1>6, <2>1, <3>1 DEF PreReset, At
    <3>3. Present(<<"pre", r>>)' /\ loop'.op # "reset"
      BY <2>0, <3>2 DEF Present, LoopFree, Free
    <3> QED
      BY <1>2, <3>1, <3>2, <3>3, OneJoins
  <2>2. CASE ~CanSend
    <3>1. threads' = threads /\ loop' = Blocked("stop", r) /\ pc' = [pc EXCEPT ![r] = "failed"]
      BY <1>6, <2>2 DEF PreReset, Fail, At
    <3> QED
      BY <1>0, <1>5, <2>0, <3>1
  <2> QED
    BY <2>1, <2>2
<1>7. CASE Begin(r)
  <2>0. pc[r] \in {"deciding", "started", "reset"} /\ LoopFree /\ UNCHANGED <<eager, file, loop>>
        /\ pc' = [pc EXCEPT ![r] = "running"]
    BY <1>7 DEF Begin, Execute, At
  <2>1. CASE CanSend
    <3>1. threads = {}
      BY <2>0, <2>1, NobodyReads
    <3>2. threads' = {<<"run", r>>} /\ pc'[r] = "running"
      BY <1>0, <1>7, <2>0, <2>1, <3>1 DEF Begin, Execute
    <3>3. Present(<<"run", r>>)' /\ loop'.op # "reset"
      BY <2>0, <3>2 DEF Present, LoopFree, Free
    <3> QED
      BY <1>2, <3>1, <3>2, <3>3, OneJoins
  <2>2. CASE ~CanSend
    <3>1. threads' = threads
      BY <1>7, <2>2 DEF Begin, Execute
    <3> QED
      BY <1>0, <1>5, <2>0, <3>1
  <2> QED
    BY <2>1, <2>2
<1>8. CASE Refused(r)
  <2>1. /\ pc[r] = "refused" /\ LoopFree /\ UNCHANGED <<eager, file, threads>>
        /\ pc' = [pc EXCEPT ![r] = "failed"] /\ loop' = Blocked("stop", r)
    BY <1>8 DEF Refused, Fail, At
  <2> QED
    BY <1>0, <1>5, <2>1
<1>9. CASE Spawn(r)
  <2>1. threads = {} /\ threads' = {<<"start", r>>} /\ pc'[r] = "starting" /\ UNCHANGED <<loop, lock, eager>>
    BY <1>0, <1>9 DEF Spawn, At
  <2>2. Present(<<"start", r>>)'
    BY <2>1 DEF Present
  <2> QED
    BY <1>2, <2>1, <2>2, OneJoins DEF ReaderInv
<1>10. CASE EndRun(r)
  <2>0. /\ pc[r] = "running" /\ <<"run", r>> \notin threads /\ LoopFree /\ file' = file /\ lock' = None
        /\ eager' = [eager EXCEPT ![r] = "pending"]
    BY <1>10 DEF EndRun, LeaveReset
  <2>1. \A q \in Run : eager'[q] # "reading"
    BY <1>0, <2>0, PhaseSets DEF Order, EagerInv, Open
  <2>2. CASE threads' = threads
    <3>1. /\ loop' \in {loop, Free, Blocked("stop", r)}
          /\ \A q \in Run : q # r => pc'[q] = pc[q] /\ eager'[q] = eager[q]
      <4>1. \E p \in {"ok", "failed"} : pc' = [pc EXCEPT ![r] = p]
        BY <1>10 DEF EndRun, At
      <4>2. loop' \in {loop, Free, Blocked("stop", r)}
        <5>1. loop' = Blocked("reset", r) => CanSend /\ threads' = {<<"post", r>>}
          <6>1. loop' = Blocked("reset", r) => CanSend /\ threads' = threads \cup {<<"post", r>>}
            BY <1>10, <2>0 DEF EndRun, Blocked, Free, LoopFree
          <6> QED
            BY <2>0, <6>1, NobodyReads
        <5>2. CanSend => threads = {}
          BY <2>0, NobodyReads
        <5> QED
          BY <1>10, <2>2, <5>1, <5>2 DEF EndRun
      <4> QED
        BY <1>0, <2>0, <4>1, <4>2
    <3>2. loop'.op # "reset" /\ loop.op # "kill"
      BY <2>0, <3>1 DEF LoopFree, Free, Blocked
    <3>3. \A t \in threads : t[1] # "run" \/ t[2] # r
      BY <1>1, <2>0
    <3>4. eager[r] # "reading"
      BY <2>0, PhaseSets DEF Order, EagerInv
    <3>5. \A t \in threads : Present(t) => Present(t)'
      BY <1>1, <2>0, <3>1, <3>3, <3>4 DEF Present, LoopFree, Free, Blocked
    <3>6. \A q \in Run : <<"run", q>> \in threads => q # r
      BY <2>0
    <3> QED
      BY <2>0, <2>2, <3>1, <3>2, <3>5, <3>6 DEF ReaderInv
  <2>3. CASE threads' # threads
    <3>1. CanSend /\ loop' = Blocked("reset", r) /\ threads' = threads \cup {<<"post", r>>}
      BY <1>10, <2>3 DEF EndRun
    <3>2. threads = {}
      BY <2>0, <3>1, NobodyReads
    <3>3. Present(<<"post", r>>)'
      BY <3>1 DEF Present
    <3> QED
      BY <1>2, <2>0, <2>1, <3>1, <3>2, <3>3, OneJoins
  <2> QED
    BY <2>2, <2>3
<1>11. CASE StartEager(r)
  <2>0. eager[r] = "pending" /\ LoopFree /\ UNCHANGED <<pc, file, loop, lock>>
    BY <1>11 DEF StartEager
  <2>1. CASE CanSend
    <3>1. threads = {}
      BY <2>0, <2>1, NobodyReads
    <3>2. threads' = {<<"eager", r>>} /\ eager'[r] = "reading"
      BY <1>0, <1>11, <2>1, <3>1 DEF StartEager
    <3>3. Present(<<"eager", r>>)' /\ loop'.op # "reset"
      BY <2>0, <3>2 DEF Present, LoopFree, Free
    <3> QED
      BY <1>2, <3>1, <3>2, <3>3, OneJoins
  <2>2. CASE ~CanSend
    <3>1. threads' = threads /\ eager' = [eager EXCEPT ![r] = "done"]
      BY <1>11, <2>2 DEF StartEager
    <3>2. \A t \in threads : Present(t) => Present(t)'
      BY <1>0, <1>1, <2>0, <3>1 DEF Present
    <3>3. loop'.op # "reset"
      BY <2>0 DEF LoopFree, Free
    <3> QED
      BY <2>0, <3>1, <3>2, <3>3 DEF ReaderInv
  <2> QED
    BY <2>1, <2>2
<1> QED
  BY <1>3, <1>4, <1>6, <1>7, <1>8, <1>9, <1>10, <1>11 DEF Coroutine

LEMMA ReadingReaders ==
    ASSUME Typed, Order, ReaderInv, NEW t \in Thread, Reading(t)
    PROVE  ReaderInv'
<1> USE DEF managerVars, runVars, wireVars, childVars
<1>1. t \in threads /\ ReaderMoves(t)
  BY ReadingMoves
<1>2. threads = {t} /\ threads' \in {{}, {t}}
  BY <1>1 DEF ReaderInv, ReaderMoves
<1>3. file' # "closed" => file # "closed"
  BY ReadingWire DEF CleanUp
<1>4. threads' = threads => UNCHANGED <<pc, eager, loop>>
  <2> SUFFICES ASSUME threads' = threads PROVE UNCHANGED <<pc, eager, loop>>
    OBVIOUS
  <2>1. ~Break(t)
    BY <1>1 DEF Break
  <2> DEFINE m == Head(fromChild)
  <2>2. RunReads(t, m) => UNCHANGED <<pc, eager, loop>>
    BY DEF RunReads
  <2>3. ~StartReads(t, m)
    BY <1>1, <2>1 DEF StartReads
  <2>4. ResetReads(t, m) => UNCHANGED <<pc, eager, loop>>
    BY <1>1, <2>1 DEF ResetReads
  <2> QED
    BY <2>1, <2>2, <2>3, <2>4 DEF Reading, EnterRead, NoRead, ReadEnds, ReadLine
<1>5. loop' \in {loop, Free}
  <2> DEFINE m == Head(fromChild)
  <2>1. Break(t) => loop' \in {loop, Free}
    BY DEF Break
  <2>2. RunReads(t, m) => loop' \in {loop, Free}
    BY DEF RunReads
  <2>3. StartReads(t, m) => loop' \in {loop, Free}
    BY <2>1 DEF StartReads
  <2>4. ResetReads(t, m) => loop' \in {loop, Free}
    BY <2>1 DEF ResetReads
  <2> QED
    BY <2>1, <2>2, <2>3, <2>4 DEF Reading, EnterRead, NoRead, ReadEnds, ReadLine
<1>6. CASE threads' = {}
  <2>1. loop'.op = "reset" => loop' = loop
    BY <1>5 DEF Free
  <2>2. \A q \in Run : eager'[q] = "reading" => eager[q] = "reading"
    BY <1>1, ThreadShape DEF ReaderMoves, Typed
  <2> QED
    BY <1>1, <1>6, <2>1, <2>2 DEF ReaderInv, ReaderMoves
<1>7. CASE threads' = threads
  <2>1. UNCHANGED <<pc, eager, loop, lock, threads>>
    BY <1>1, <1>4, <1>7 DEF ReaderMoves
  <2> QED
    BY <1>3, <2>1 DEF ReaderInv, Present
<1> QED
  BY <1>2, <1>6, <1>7

LEMMA OtherReaders ==
    ASSUME Typed, Order, ReaderInv, LoopCall \/ Child \/ Hang \/ Crash \/ UNCHANGED vars
    PROVE  ReaderInv'
<1> USE DEF managerVars, runVars, wireVars, childVars
<1>1. CASE Close
  <2>1. UNCHANGED <<threads, lock, eager>> /\ file' = "closed" /\ loop' = Free
    BY <1>1 DEF Close, CleanUp
  <2>2. \A q \in Run : pc[q] \in {"running", "cancelled"} => pc'[q] = pc[q]
    BY <1>1 DEF Close
  <2> QED
    BY <2>1, <2>2 DEF ReaderInv, Free
<1>2. CASE SendShutdown
  <2>1. UNCHANGED <<threads, lock, eager, pc, file>> /\ loop.op = "stop" /\ loop'.op = "close"
    BY <1>2 DEF SendShutdown, Blocked
  <2>2. \A t \in threads : Present(t) => Present(t)'
    BY <2>1 DEF Present, Blocked
  <2> QED
    BY <2>1, <2>2 DEF ReaderInv
<1>3. CASE Child \/ Hang \/ Crash \/ UNCHANGED vars
  <2>1. UNCHANGED <<threads, lock, eager, pc, file, loop>>
    BY <1>3 DEF Child, Take, Token, Answered, Hang, Crash, vars
  <2> QED
    BY <2>1 DEF ReaderInv, Present
<1> QED
  BY <1>1, <1>2, <1>3 DEF LoopCall

LEMMA ReaderStep ==
    ASSUME Typed, Order, ReaderInv, "reset" \notin Env, [Next]_vars
    PROVE  ReaderInv'
BY StepCases, ClientReaders, CoroutineReaders, ReadingReaders, OtherReaders

-----------------------------------------------------------------------------
(* The tokens of a run that are on their way.                                     *)

TokenOf(r) == Response("TOKEN", <<"run", r>>)
ReadyOf(r) == Response("READY", <<"run", r>>)
Tokens(s, r) == {i \in DOMAIN s : s[i] = TokenOf(r)}

LEMMA TokensFinite ==
    ASSUME NEW s \in Seq(ResponseType), NEW r \in Run
    PROVE  IsFiniteSet(Tokens(s, r)) /\ Cardinality(Tokens(s, r)) \in Nat
<1>1. DOMAIN s = 1 .. Len(s) /\ Len(s) \in Nat
  BY LenProperties
<1>2. IsFiniteSet(1 .. Len(s)) /\ Tokens(s, r) \in SUBSET (1 .. Len(s))
  BY <1>1, FS_Interval DEF Tokens
<1> QED
  BY <1>2, FS_Subset, FS_CardinalityType

LEMMA TokenAppended ==
    ASSUME NEW s \in Seq(ResponseType), NEW x \in ResponseType, NEW r \in Run
    PROVE  Cardinality(Tokens(Append(s, x), r)) =
             Cardinality(Tokens(s, r)) + IF x = TokenOf(r) THEN 1 ELSE 0
<1>1. /\ Len(s) \in Nat /\ DOMAIN s = 1 .. Len(s) /\ DOMAIN Append(s, x) = 1 .. Len(s) + 1
      /\ \A i \in DOMAIN s : Append(s, x)[i] = s[i]
      /\ Append(s, x)[Len(s) + 1] = x
  BY Adds
<1>2. CASE x = TokenOf(r)
  <2>1. Tokens(Append(s, x), r) = Tokens(s, r) \cup {Len(s) + 1} /\ Len(s) + 1 \notin Tokens(s, r)
    BY <1>1, <1>2 DEF Tokens
  <2> QED
    BY <1>2, <2>1, TokensFinite, FS_AddElement
<1>3. CASE x # TokenOf(r)
  <2>1. Tokens(Append(s, x), r) = Tokens(s, r)
    BY <1>1, <1>3 DEF Tokens
  <2> QED
    BY <1>3, <2>1, TokensFinite
<1> QED
  BY <1>2, <1>3

LEMMA TokenTaken ==
    ASSUME NEW s \in Seq(ResponseType), s # <<>>, NEW r \in Run
    PROVE  Cardinality(Tokens(s, r)) =
             Cardinality(Tokens(Tail(s), r)) + IF Head(s) = TokenOf(r) THEN 1 ELSE 0
<1>1. /\ Tail(s) \in Seq(ResponseType) /\ Head(s) = s[1] /\ 1 \in DOMAIN s
      /\ DOMAIN s = 1 .. Len(s) /\ Len(s) \in Nat /\ DOMAIN Tail(s) = 1 .. Len(s) - 1
      /\ \A i \in DOMAIN Tail(s) : i + 1 \in DOMAIN s /\ Tail(s)[i] = s[i + 1]
  BY Ends
<1> DEFINE rest == Tokens(s, r) \ {1}
           next == [i \in Tokens(Tail(s), r) |-> i + 1]
<1>2. next \in [Tokens(Tail(s), r) -> rest]
  BY <1>1 DEF Tokens
<1>3. \A i, j \in Tokens(Tail(s), r) : next[i] = next[j] => i = j
  BY <1>1 DEF Tokens
<1>4. \A k \in rest : \E i \in Tokens(Tail(s), r) : next[i] = k
  <2> SUFFICES ASSUME NEW k \in rest PROVE \E i \in Tokens(Tail(s), r) : next[i] = k
    OBVIOUS
  <2>1. k \in 2 .. Len(s) /\ s[k] = TokenOf(r)
    BY <1>1 DEF Tokens
  <2>2. PICK i \in 1 .. Len(s) - 1 : i + 1 = k
    BY <1>1, <2>1
  <2>3. i \in Tokens(Tail(s), r)
    BY <1>1, <2>1, <2>2 DEF Tokens
  <2> QED
    BY <2>2, <2>3
<1> HIDE DEF rest, next
<1>5. next \in Bijection(Tokens(Tail(s), r), rest)
  BY <1>2, <1>3, <1>4 DEF Bijection, Injection, Surjection, IsInjective
<1>6. Cardinality(rest) = Cardinality(Tokens(Tail(s), r))
  <2>1. ExistsBijection(Tokens(Tail(s), r), rest)
    BY <1>5 DEF ExistsBijection
  <2> QED
    BY <1>1, <2>1, TokensFinite, FS_Bijection
<1>7. Cardinality(rest) = IF 1 \in Tokens(s, r) THEN Cardinality(Tokens(s, r)) - 1 ELSE Cardinality(Tokens(s, r))
  BY TokensFinite, FS_RemoveElement DEF rest
<1>8. 1 \in Tokens(s, r) <=> Head(s) = TokenOf(r)
  BY <1>1 DEF Tokens
<1> QED
  BY <1>1, <1>6, <1>7, <1>8, TokensFinite

(* Other threads' and other runs' responses are no tokens of r.                   *)
LEMMA ResponseOf ==
    ASSUME NEW r \in Run
    PROVE  /\ TokenOf(r).id = <<"run", r>> /\ TokenOf(r).type = "TOKEN"
           /\ ReadyOf(r).id = <<"run", r>> /\ ReadyOf(r).type = "READY"
           /\ TokenOf(r) # ReadyOf(r)
           /\ \A m \in ResponseType : m.id = <<"run", r>> /\ m.type = "TOKEN" => m = TokenOf(r)
           /\ \A m \in ResponseType : m.id = <<"run", r>> /\ m.type = "READY" => m = ReadyOf(r)
           /\ \A q : <<"run", q>> = <<"run", r>> => q = r
BY DEF TokenOf, ReadyOf, Response, ResponseType

-----------------------------------------------------------------------------
(* A run is executed once, its READY is the last of its responses, and what its   *)
(* client has not got of its tokens is on the socket.                             *)

ExecuteOf(r) == Command("EXECUTE", <<"run", r>>)

(* The answer of r is complete.                                                   *)
Over(r) == \/ pc[r] = "ok"
           \/ pc[r] = "running" /\ <<"run", r>> \notin threads /\ r \notin bad

StreamInv(r) ==
    /\ pc[r] \notin Executing => made[r] = 0 /\ got[r] = 0
    /\ \A i \in DOMAIN toChild : toChild[i] = ExecuteOf(r) =>
         /\ child # r
         /\ \A j \in DOMAIN toChild : toChild[j] = ExecuteOf(r) => i = j
         /\ \A j \in DOMAIN fromChild : fromChild[j].id # <<"run", r>>
    /\ \A i \in DOMAIN fromChild : fromChild[i] = ReadyOf(r) =>
         /\ child # r
         /\ \A j \in DOMAIN fromChild : fromChild[j] = TokenOf(r) => j < i
    /\ <<"run", r>> \in threads /\ file # "closed" =>
         made[r] = got[r] + Cardinality(Tokens(fromChild, r))
    /\ Over(r) =>
         /\ <<"run", r>> \notin threads /\ got[r] = made[r] /\ child # r
         /\ \A i \in DOMAIN toChild : toChild[i] # ExecuteOf(r)

(* What becomes of a run beside the socket.                                       *)
Calm(r) ==
    /\ UNCHANGED <<made, got>>
    /\ pc'[r] \notin Executing => pc[r] \notin Executing
    /\ <<"run", r>> \in threads' => <<"run", r>> \in threads
    /\ file' # "closed" => file # "closed" \/ <<"run", r>> \notin threads'
    /\ Over(r)' => Over(r)

(* A step that adds nothing of r to the socket.                                   *)
LEMMA QuietStream ==
    ASSUME Typed, NEW r \in Run, StreamInv(r), Calm(r), fromChild' = fromChild, child' = child,
           \/ toChild' = toChild
           \/ \E c \in CommandType : c # ExecuteOf(r) /\ Sends(c)
    PROVE  StreamInv(r)'
<1>1. \A i \in DOMAIN toChild' : toChild'[i] = ExecuteOf(r) => i \in DOMAIN toChild /\ toChild[i] = ExecuteOf(r)
  <2>1. ASSUME NEW c \in CommandType, c # ExecuteOf(r), Sends(c), NEW i \in DOMAIN toChild', toChild'[i] = ExecuteOf(r)
        PROVE  i \in DOMAIN toChild /\ toChild[i] = ExecuteOf(r)
    <3>1. toChild \in Seq(CommandType) /\ toChild' = Append(toChild, c)
      BY <2>1 DEF Typed, Sends
    <3> QED
      BY <2>1, <3>1, Appended
  <2> QED
    BY <2>1
<1> QED
  BY <1>1 DEF StreamInv, Calm

(* The socket is gone or new.                                                     *)
LEMMA WipedStream ==
    ASSUME NEW r \in Run, StreamInv(r), Calm(r), Wiped, r # None,
           file' = "closed" \/ <<"run", r>> \notin threads'
    PROVE  StreamInv(r)'
<1>1. DOMAIN fromChild' = {} /\ child' # r /\ \A i \in DOMAIN toChild' : toChild'[i] # ExecuteOf(r)
  BY DEF Wiped, ExecuteOf, Command
<1> QED
  BY <1>1 DEF StreamInv, Calm

LEMMA CallerStream ==
    ASSUME Typed, Order, Fresh, ReaderInv, [Next]_vars, NEW r \in Run, StreamInv(r),
           NEW q \in Run, Client(q) \/ Coroutine(q)
    PROVE  StreamInv(r)'
<1> USE DEF managerVars, runVars, wireVars, childVars
<1>0. /\ pc \in [Run -> Phase] /\ bad \subseteq Run /\ r # None
      /\ <<"run", r>> \in Thread
      /\ \A kind \in Resets : <<kind, q>> # <<"run", r>>
      /\ <<"start", q>> # <<"run", r>>
      /\ <<"run", q>> = <<"run", r>> => q = r
  BY ThreadOf DEF Typed, Resets
<1>1. pc'[r] \notin Executing => pc[r] \notin Executing
  BY Forward, PhaseSets DEF Executing
<1>2. CASE Begin(q)
  <2>1. /\ pc' = [pc EXCEPT ![q] = "running"] /\ pc[q] \in {"started", "reset", "deciding"}
        /\ UNCHANGED <<made, got, file, fromChild, child, kv>> /\ LoopFree
    BY <1>2 DEF Begin, Execute, At
  <2>2. CASE ~CanSend
    <3>1. UNCHANGED <<threads, toChild>> /\ bad' = bad \cup {q}
      BY <1>2, <2>2 DEF Begin, Execute
    <3>2. Over(r)' => Over(r)
      BY <1>0, <2>1, <3>1 DEF Over
    <3> QED
      BY <1>1, <2>1, <3>1, <3>2, QuietStream DEF Calm
  <2>3. CASE CanSend
    <3>1. threads = {} /\ threads' = {<<"run", q>>} /\ bad' = bad
      BY <1>2, <2>1, <2>3, NobodyReads DEF Begin, Execute
    <3>2. Sends(ExecuteOf(q))
      BY <1>2, <2>3, BeginsAlone DEF ExecuteOf
    <3>3. CASE q # r
      <4>1. ExecuteOf(q) # ExecuteOf(r) /\ ExecuteOf(q) \in CommandType
        BY <1>0, <3>3, MessageTypes DEF ExecuteOf, Command
      <4>2. Calm(r)
        BY <1>0, <1>1, <2>1, <3>1, <3>3 DEF Calm, Over
      <4> QED
        BY <2>1, <3>2, <4>1, <4>2, QuietStream
    <3>4. CASE q = r
      <4>1. pc[r] \notin Executing /\ made[r] = 0 /\ got[r] = 0
        BY <2>1, <3>4, PhaseSets DEF StreamInv, Executing
      <4>2. child # r
        BY <1>0, <4>1 DEF Fresh
      <4>3. <<"run", r>> \notin SentIds
        <5>1. ~Sent(<<"run", r>>)
          BY <4>1 DEF Sent
        <5> QED
          BY <5>1, ThreadOf DEF SentIds
      <4>4. \A i \in DOMAIN fromChild : fromChild[i].id # <<"run", r>>
        BY <4>3 DEF Fresh
      <4>5. \A i \in DOMAIN toChild : toChild[i] # ExecuteOf(r)
        BY <4>3 DEF Fresh, ExecuteOf, Command
      <4>6. PICK n \in Nat : /\ DOMAIN toChild = 1 .. n /\ DOMAIN toChild' = 1 .. n + 1
                             /\ \A i \in 1 .. n : toChild'[i] = toChild[i]
        BY <3>2, SentCommands DEF Sends
      <4>7. Tokens(fromChild', r) = {}
        BY <2>1, <4>4, ResponseOf DEF Tokens
      <4>8. \A i \in DOMAIN fromChild : fromChild[i] # ReadyOf(r)
        BY <4>4, ResponseOf
      <4>9. \A i \in DOMAIN toChild' : toChild'[i] = ExecuteOf(r) => i = n + 1
        BY <4>5, <4>6
      <4>10. pc'[r] = "running" /\ <<"run", r>> \in threads'
        BY <1>0, <2>1, <3>1, <3>4
      <4>11. pc'[r] \in Executing /\ ~Over(r)'
        BY <4>10 DEF Executing, Over
      <4>12. Cardinality(Tokens(fromChild', r)) = 0
        BY <4>7, FS_EmptySet
      <4> QED
        BY <2>1, <4>1, <4>2, <4>4, <4>8, <4>9, <4>11, <4>12 DEF StreamInv
    <3> QED
      BY <3>3, <3>4
  <2> QED
    BY <2>2, <2>3
<1>3. CASE Spawn(q)
  <2>1. /\ pc[q] = "spawning" /\ pc' = [pc EXCEPT ![q] = "starting"] /\ UNCHANGED <<made, got, bad>>
        /\ threads = {} /\ threads' = {<<"start", q>>} /\ Wiped
    BY <1>3 DEF Spawn, At, Wiped
  <2>2. <<"run", r>> \notin threads' /\ (Over(r)' => Over(r))
    BY <1>0, <2>1 DEF Over
  <2>3. Calm(r)
    BY <1>1, <2>1, <2>2 DEF Calm
  <2> QED
    BY <1>0, <2>1, <2>2, <2>3, WipedStream
<1>4. CASE ~Begin(q) /\ ~Spawn(q)
  <2>1. UNCHANGED <<made, got, file, bad>>
    BY <1>4 DEF Client, Ask, AskWithReset, HangUp, Kill, Coroutine, Acquire, Await, PreReset, Refused,
       EndRun, StartEager
  <2>2. <<"run", r>> \in threads' <=> <<"run", r>> \in threads
    <3>1. "early" \in Resets /\ "pre" \in Resets /\ "post" \in Resets /\ "eager" \in Resets
      BY DEF Resets
    <3> QED
      BY <1>0, <1>4, <3>1 DEF Client, Ask, AskWithReset, HangUp, Kill, Coroutine, Acquire, Await, PreReset, Refused,
         EndRun, StartEager
  <2>3. Over(r)' => Over(r)
    <3>1. CASE EndRun(q)
      <4>1. /\ pc[q] = "running" /\ <<"run", q>> \notin threads
            /\ pc' = [pc EXCEPT ![q] = IF q \in bad THEN "failed" ELSE "ok"]
        BY <3>1 DEF EndRun, At
      <4> QED
        BY <1>0, <2>1, <2>2, <4>1 DEF Over
    <3>2. CASE ~EndRun(q)
      <4>1. pc'[r] \in {"ok", "running"} => pc'[r] = pc[r]
        BY <1>0, <1>4, <3>2 DEF Client, Ask, AskWithReset, HangUp, Kill, Coroutine, Acquire, Await, PreReset, Refused,
           StartEager, Fail, At
      <4> QED
        BY <2>1, <2>2, <4>1 DEF Over
    <3> QED
      BY <3>1, <3>2
  <2>4. Calm(r)
    BY <1>1, <2>1, <2>2, <2>3 DEF Calm
  <2>5. ASSUME NEW kind \in Resets, Sends(Command("RESET", <<kind, q>>)), UNCHANGED <<fromChild, child>>
        PROVE  StreamInv(r)'
    <3>1. Command("RESET", <<kind, q>>) # ExecuteOf(r) /\ Command("RESET", <<kind, q>>) \in CommandType
      BY MessageTypes DEF ExecuteOf, Command
    <3> QED
      BY <2>4, <2>5, <3>1, QuietStream
  <2>6. UNCHANGED <<toChild, fromChild, child>> => StreamInv(r)'
    BY <2>4, QuietStream
  <2> QED
    BY <1>4, <2>5, <2>6, CallerWire
<1> QED
  BY <1>2, <1>3, <1>4

LEMMA ReadingStream ==
    ASSUME Typed, Order, Fresh, ReaderInv, [Next]_vars, NEW r \in Run, StreamInv(r),
           NEW t \in Thread, Reading(t)
    PROVE  StreamInv(r)'
<1> USE DEF managerVars, runVars, wireVars, childVars
<1>0. /\ t \in threads /\ ReaderMoves(t) /\ threads = {t} /\ made' = made
      /\ t[2] \in Run /\ t = <<t[1], t[2]>>
      /\ pc \in [Run -> Phase] /\ got \in [Run -> Nat] /\ made \in [Run -> Nat] /\ bad \subseteq Run /\ r # None
      /\ fromChild \in Seq(ResponseType)
  <2>1. t \in threads /\ ReaderMoves(t)
    BY ReadingMoves
  <2>2. threads = {t} /\ made' = made
    BY <2>1 DEF ReaderInv, ReaderMoves
  <2>3. t[2] \in Run /\ t = <<t[1], t[2]>> /\ r # None
    BY ThreadShape, ThreadOf
  <2> QED
    BY <2>1, <2>2, <2>3 DEF Typed
<1>1. /\ pc'[r] \notin Executing => pc[r] \notin Executing
      /\ pc'[r] \in {"ok", "running"} => pc'[r] = pc[r]
  BY <1>0, Forward, PhaseSets DEF Executing, ReaderMoves
<1>2. /\ <<"run", r>> \in threads' => <<"run", r>> \in threads
      /\ file' # "closed" => file # "closed"
  BY <1>0, ReadingWire DEF ReaderMoves, CleanUp
<1>3. (t = <<"run", r>>) <=> (t[1] = "run" /\ t[2] = r)
  BY <1>0
<1>4. ASSUME CleanUp, got' = got, Over(r)' => Over(r) PROVE StreamInv(r)'
  <2>1. Wiped /\ file' = "closed"
    BY <1>4 DEF CleanUp, Wiped
  <2>2. Calm(r)
    BY <1>0, <1>1, <1>2, <1>4 DEF Calm
  <2> QED
    BY <1>0, <2>1, <2>2, WipedStream
<1>5. ASSUME Break(t) PROVE got' = got /\ (Over(r)' => Over(r))
  <2>1. got' = got /\ threads' = {} /\ bad \subseteq bad' /\ (t = <<"run", r>> => r \in bad')
    BY <1>0, <1>3, <1>5 DEF Break
  <2>2. ASSUME Over(r)', pc'[r] = "running" PROVE Over(r)
    <3>1. r \notin bad' /\ pc[r] = "running"
      BY <1>1, <2>2 DEF Over
    <3>2. t # <<"run", r>> /\ r \notin bad
      BY <2>1, <3>1
    <3> QED
      BY <1>0, <3>1, <3>2 DEF Over
  <2> QED
    BY <1>1, <2>1, <2>2 DEF Over
<1>6. ASSUME UNCHANGED <<toChild, fromChild, child, got>>, Over(r)' => Over(r)
      PROVE  StreamInv(r)'
  BY <1>0, <1>1, <1>2, <1>6, QuietStream DEF Calm
<1>7. CASE EnterRead(t)
  <2>1. UNCHANGED <<toChild, fromChild, child, got, threads, bad>>
    BY <1>7 DEF EnterRead
  <2>2. Over(r)' => Over(r)
    BY <1>1, <2>1 DEF Over
  <2> QED
    BY <1>6, <2>1, <2>2
<1>8. CASE NoRead(t) \/ ReadEnds(t)
  <2>1. Break(t) /\ BreakStart(t)
    BY <1>8 DEF NoRead, ReadEnds
  <2>2. CleanUp \/ UNCHANGED <<toChild, fromChild, child>>
    BY <2>1 DEF BreakStart
  <2> QED
    BY <1>4, <1>5, <1>6, <2>1, <2>2
<1>9. CASE ReadLine(t)
  <2> DEFINE m == Head(fromChild)
  <2>0. /\ fromChild # <<>> /\ m \in ResponseType /\ m = fromChild[1] /\ 1 \in DOMAIN fromChild
        /\ DOMAIN fromChild = 1 .. Len(fromChild) /\ Len(fromChild) \in Nat
        /\ \A i \in DOMAIN Tail(fromChild) : i + 1 \in DOMAIN fromChild /\ Tail(fromChild)[i] = fromChild[i + 1]
    BY <1>0, <1>9, Ends DEF ReadLine
  <2>1. DOMAIN Tail(fromChild) = 1 .. Len(fromChild) - 1
    BY <1>0, <2>0, Ends
  <2> HIDE DEF m
  (* A line is taken, and what is on the socket moves on. *)
  <2>2. ASSUME fromChild' = Tail(fromChild), UNCHANGED <<toChild, child>>,
               got'[r] = got[r] + IF <<"run", r>> \in threads' /\ m = TokenOf(r) THEN 1 ELSE 0,
               Over(r)' => Over(r) \/ (m = ReadyOf(r) /\ <<"run", r>> \in threads /\ <<"run", r>> \notin threads')
        PROVE  StreamInv(r)'
    <3>1. \A i \in DOMAIN fromChild' : i + 1 \in DOMAIN fromChild /\ fromChild'[i] = fromChild[i + 1]
      BY <2>0, <2>2
    <3>2. pc'[r] \notin Executing => made'[r] = 0 /\ got'[r] = 0
      <4>1. SUFFICES ASSUME pc'[r] \notin Executing PROVE made'[r] = 0 /\ got'[r] = 0
        OBVIOUS
      <4>2. pc[r] \notin Executing
        BY <1>1, <4>1
      <4>3. <<"run", r>> \notin threads
        BY <4>2 DEF ReaderInv, Executing, Ended
      <4> QED
        BY <1>0, <1>2, <2>2, <4>2, <4>3 DEF StreamInv
    <3>3. \A i \in DOMAIN toChild' : toChild'[i] = ExecuteOf(r) =>
            /\ child' # r
            /\ \A j \in DOMAIN toChild' : toChild'[j] = ExecuteOf(r) => i = j
            /\ \A j \in DOMAIN fromChild' : fromChild'[j].id # <<"run", r>>
      BY <2>2, <3>1 DEF StreamInv
    <3>4. ASSUME NEW i \in DOMAIN fromChild', fromChild'[i] = ReadyOf(r)
          PROVE  /\ child' # r
                 /\ \A j \in DOMAIN fromChild' : fromChild'[j] = TokenOf(r) => j < i
      <4>1. i + 1 \in DOMAIN fromChild /\ fromChild[i + 1] = ReadyOf(r)
        BY <3>1, <3>4
      <4>2. child # r /\ \A j \in DOMAIN fromChild : fromChild[j] = TokenOf(r) => j < i + 1
        BY <4>1 DEF StreamInv
      <4>3. ASSUME NEW j \in DOMAIN fromChild', fromChild'[j] = TokenOf(r) PROVE j < i
        <5>1. j + 1 \in DOMAIN fromChild /\ fromChild[j + 1] = TokenOf(r)
          BY <3>1, <4>3
        <5>2. j + 1 < i + 1
          BY <4>2, <5>1
        <5> QED
          BY <2>1, <2>2, <5>2
      <4> QED
        BY <2>2, <4>2, <4>3
    <3>5. Cardinality(Tokens(fromChild, r)) = Cardinality(Tokens(fromChild', r)) + IF m = TokenOf(r) THEN 1 ELSE 0
      BY <1>0, <2>0, <2>2, TokenTaken DEF m
    <3>6. fromChild' \in Seq(ResponseType)
      BY <1>0, <2>0, <2>2, Ends
    <3>7. <<"run", r>> \in threads' /\ file' # "closed" =>
            made'[r] = got'[r] + Cardinality(Tokens(fromChild', r))
      <4>1. SUFFICES ASSUME <<"run", r>> \in threads', file' # "closed"
                     PROVE  made'[r] = got'[r] + Cardinality(Tokens(fromChild', r))
        OBVIOUS
      <4>2. made[r] = got[r] + Cardinality(Tokens(fromChild, r))
        BY <1>2, <4>1 DEF StreamInv
      <4>3. got[r] \in Nat /\ Cardinality(Tokens(fromChild', r)) \in Nat /\ made'[r] = made[r]
        BY <1>0, <3>6, TokensFinite
      <4> QED
        BY <2>2, <3>5, <4>1, <4>2, <4>3
    <3>8. Over(r)' => /\ <<"run", r>> \notin threads' /\ got'[r] = made'[r] /\ child' # r
                      /\ \A i \in DOMAIN toChild' : toChild'[i] # ExecuteOf(r)
      <4>1. CASE Over(r)
        <5>1. <<"run", r>> \notin threads /\ got[r] = made[r] /\ child # r
              /\ \A i \in DOMAIN toChild : toChild[i] # ExecuteOf(r)
          BY <4>1 DEF StreamInv
        <5>2. got'[r] = got[r]
          BY <1>0, <1>2, <2>2, <5>1
        <5> QED
          BY <1>0, <1>2, <2>2, <5>1, <5>2
      <4>2. CASE m = ReadyOf(r) /\ <<"run", r>> \in threads /\ <<"run", r>> \notin threads'
        <5>1. fromChild[1] = ReadyOf(r) /\ fromChild[1].id = <<"run", r>>
          BY <2>0, <4>2, ResponseOf
        <5>2. child # r /\ \A j \in DOMAIN fromChild : fromChild[j] # TokenOf(r)
          <6>1. child # r /\ \A j \in DOMAIN fromChild : fromChild[j] = TokenOf(r) => j < 1
            BY <2>0, <5>1 DEF StreamInv
          <6> QED
            BY <2>0, <6>1
        <5>3. \A i \in DOMAIN toChild : toChild[i] # ExecuteOf(r)
          BY <2>0, <5>1 DEF StreamInv
        <5>4. file # "closed"
          BY <1>0, <1>9, ProcessAssumption DEF ReadLine, Order, InsideInv
        <5>5. Tokens(fromChild, r) = {}
          BY <5>2 DEF Tokens
        <5>6. Cardinality(Tokens(fromChild, r)) = 0
          BY <5>5, FS_EmptySet
        <5>7. made[r] = got[r] /\ got[r] \in Nat
          BY <1>0, <4>2, <5>4, <5>6 DEF StreamInv
        <5> QED
          BY <1>0, <2>2, <4>2, <5>2, <5>3, <5>7
      <4> QED
        BY <2>2, <4>1, <4>2
    <3> QED
      BY <3>2, <3>3, <3>4, <3>7, <3>8 DEF StreamInv
  <2>3. CASE t[1] = "run" /\ RunReads(t, m) /\ fromChild' = Tail(fromChild)
    <3>0. UNCHANGED <<toChild, child, pc>> /\ bad \subseteq bad'
      BY <2>3 DEF RunReads
    <3>1. CASE t # <<"run", r>>
      <4>1. <<"run", r>> \notin threads /\ got'[r] = got[r]
        <5>1. t[2] # r
          BY <1>3, <2>3, <3>1
        <5> QED
          BY <1>0, <2>3, <3>1, <5>1 DEF RunReads
      <4>2. Over(r)' => Over(r)
        BY <3>0, <4>1 DEF Over
      <4> QED
        BY <1>0, <1>2, <2>2, <2>3, <3>0, <4>1, <4>2
    <3>2. CASE t = <<"run", r>>
      <4>0. t[2] = r /\ <<"run", r>> \in threads
        BY <1>0, <1>3, <3>2
      <4>1. CASE m.id # t
        <5>1. UNCHANGED <<threads, got, bad>> /\ m # TokenOf(r)
          BY <2>3, <3>2, <4>1, ResponseOf DEF RunReads
        <5>2. Over(r)' => Over(r)
          BY <3>0, <5>1 DEF Over
        <5>3. got'[r] = got[r] /\ got[r] \in Nat
          BY <1>0, <5>1
        <5> QED
          BY <2>2, <2>3, <3>0, <5>1, <5>2, <5>3
      <4>2. CASE m.id = t /\ m.type = "TOKEN"
        <5>1. m = TokenOf(r) /\ threads' = threads /\ got'[r] = got[r] + 1 /\ bad' = bad
          <6>1. m = TokenOf(r)
            BY <2>0, <3>2, <4>2, ResponseOf
          <6>2. threads' = threads /\ got' = [got EXCEPT ![r] = @ + 1] /\ bad' = bad
            BY <2>3, <4>0, <4>2 DEF RunReads
          <6> QED
            BY <1>0, <6>1, <6>2
        <5>2. Over(r)' => Over(r)
          BY <3>0, <5>1 DEF Over
        <5> QED
          BY <2>2, <2>3, <3>0, <4>0, <5>1, <5>2
      <4>3. CASE m.id = t /\ m.type # "TOKEN"
        <5>1. m # TokenOf(r) /\ got' = got
          BY <2>3, <4>3, ResponseOf DEF RunReads
        <5>2. CASE m.type = "READY"
          <6>1. m = ReadyOf(r) /\ threads' = {}
            BY <1>0, <2>0, <2>3, <3>2, <4>3, <5>2, ResponseOf DEF RunReads
          <6>2. got'[r] = got[r] + 0
            BY <1>0, <5>1
          <6> QED
            BY <2>2, <2>3, <3>0, <4>0, <5>1, <6>1, <6>2
        <5>3. CASE m.type # "READY"
          <6>1. threads' = threads
            BY <2>3, <4>3, <5>3 DEF RunReads
          <6>2. Over(r)' => Over(r)
            BY <3>0, <4>0, <6>1 DEF Over
          <6>3. got'[r] = got[r] + 0
            BY <1>0, <5>1
          <6> QED
            BY <2>2, <2>3, <3>0, <5>1, <6>2, <6>3
        <5> QED
          BY <5>2, <5>3
      <4> QED
        BY <4>1, <4>2, <4>3
    <3> QED
      BY <3>1, <3>2
  <2>4. ASSUME t[1] # "run", fromChild' = Tail(fromChild), UNCHANGED <<toChild, child, got>>, bad \subseteq bad'
        PROVE  StreamInv(r)'
    <3>1. <<"run", r>> \notin threads /\ <<"run", r>> \notin threads'
      BY <1>0, <1>2, <1>3, <2>4
    <3>2. Over(r)' => Over(r)
      BY <1>1, <2>4, <3>1 DEF Over
    <3>3. got'[r] = got[r] + 0
      BY <1>0, <2>4
    <3> QED
      BY <2>2, <2>4, <3>1, <3>2, <3>3
  <2>5. CASE t[1] = "start" /\ StartReads(t, m) /\ (m.type = "READY" => fromChild' = Tail(fromChild))
    <3>1. CASE m.type # "READY"
      BY <1>4, <1>5, <2>5, <3>1 DEF StartReads
    <3>2. CASE m.type = "READY"
      BY <2>4, <2>5, <3>2 DEF StartReads
    <3> QED
      BY <3>1, <3>2
  <2>6. CASE t[1] \in Resets /\ ResetReads(t, m) /\ fromChild' = Tail(fromChild)
    <3>1. Break(t) => bad \subseteq bad' /\ got' = got
      BY DEF Break
    <3>2. UNCHANGED <<toChild, child, got>> /\ bad \subseteq bad'
      BY <2>6, <3>1 DEF ResetReads
    <3> QED
      BY <2>4, <2>6, <3>2 DEF Resets
  <2> QED
    BY <1>9, <2>3, <2>5, <2>6 DEF ReadLine, m
<1> QED
  BY <1>7, <1>8, <1>9 DEF Reading

LEMMA OtherStream ==
    ASSUME Typed, Order, Fresh, [Next]_vars, NEW r \in Run, StreamInv(r),
           LoopCall \/ Child \/ Hang \/ Crash \/ UNCHANGED vars
    PROVE  StreamInv(r)'
<1> USE DEF managerVars, runVars, wireVars, childVars
<1>0. /\ r # None /\ fromChild \in Seq(ResponseType) /\ made \in [Run -> Nat] /\ got \in [Run -> Nat]
      /\ child # None => child \in Run
  BY ThreadOf DEF Typed
<1>1. /\ UNCHANGED <<threads, bad, got>>
      /\ pc'[r] \notin Executing => pc[r] \notin Executing
      /\ pc'[r] \in {"ok", "running"} => pc'[r] = pc[r]
      /\ file' # "closed" => file # "closed"
  <2>1. UNCHANGED <<threads, bad, got>> /\ (file' = file \/ file' = "closed")
    BY DEF LoopCall, SendShutdown, Close, CleanUp, Child, Take, Token, Answered, Hang, Crash, vars
  <2>2. \/ pc' = pc
        \/ pc' = [q \in Run |-> IF q = loop.run /\ pc[q] = "switching" THEN "spawning" ELSE pc[q]]
    BY DEF LoopCall, Child, SendShutdown, Close, Take, Token, Answered, Hang, Crash, vars
  <2>3. pc'[r] \in {"ok", "running"} => pc'[r] = pc[r]
    BY <2>2
  <2> QED
    BY <2>1, <2>3, Forward, PhaseSets DEF Executing
<1>2. Over(r)' => Over(r)
  BY <1>1 DEF Over
<1>3. made' = made => Calm(r)
  BY <1>1, <1>2 DEF Calm
<1>4. CASE Close
  <2>1. Wiped /\ file' = "closed" /\ made' = made
    BY <1>4 DEF Close, CleanUp, Wiped
  <2> QED
    BY <1>0, <1>3, <2>1, WipedStream
<1>5. CASE SendShutdown \/ Hang \/ Crash \/ UNCHANGED vars
  <2>1. UNCHANGED <<made, fromChild, child>>
    BY <1>5 DEF SendShutdown, Hang, Crash, vars
  <2>2. Command("SHUTDOWN", None) \in CommandType /\ Command("SHUTDOWN", None) # ExecuteOf(r)
    BY MessageTypes DEF ExecuteOf, Command
  <2>3. toChild' = toChild \/ Sends(Command("SHUTDOWN", None))
    BY <1>5, <2>2 DEF SendShutdown, Sends, Hang, Crash, vars
  <2> QED
    BY <1>3, <2>1, <2>2, <2>3, QuietStream
(* A response that is no token and no READY of r. *)
<1>6. ASSUME NEW c \in ResponseType, c.id # <<"run", r>>, fromChild' = Append(fromChild, c)
      PROVE  /\ Cardinality(Tokens(fromChild', r)) = Cardinality(Tokens(fromChild, r))
             /\ \A i \in DOMAIN fromChild' :
                  (i \in DOMAIN fromChild /\ fromChild'[i] = fromChild[i]) \/ fromChild'[i] = c
  <2>1. c # TokenOf(r)
    BY <1>6, ResponseOf
  <2>2. Cardinality(Tokens(fromChild', r)) = Cardinality(Tokens(fromChild, r)) + 0
    BY <1>0, <1>6, <2>1, TokenAppended
  <2> QED
    BY <1>0, <1>6, <2>2, Appended, TokensFinite
<1>7. CASE Take
  <2>1. PICK n \in Nat : /\ DOMAIN toChild = 1 .. n + 1 /\ DOMAIN toChild' = 1 .. n
                         /\ \A i \in 1 .. n : toChild'[i] = toChild[i + 1]
                         /\ toChild[1] \in CommandType
    BY <1>7, TakenCommands
  <2>2. made' = made
    BY <1>7 DEF Take
  <2>3. \A i \in DOMAIN toChild' : i + 1 \in DOMAIN toChild /\ i + 1 # 1 /\ toChild'[i] = toChild[i + 1]
    BY <2>1
  <2>4. /\ child = None /\ 1 \in DOMAIN toChild
        /\ child' # None => child' = toChild[1].id[2] /\ IsExec(1) /\ fromChild' = fromChild
    BY <1>7, <2>1, TakeCases
  <2>5. child' = r => toChild[1] = ExecuteOf(r) /\ fromChild' = fromChild
    <3> SUFFICES ASSUME child' = r PROVE toChild[1] = ExecuteOf(r) /\ fromChild' = fromChild
      OBVIOUS
    <3>1. toChild[1].type = "EXECUTE" /\ toChild[1].id = <<"run", r>> /\ fromChild' = fromChild
      BY <1>0, <2>1, <2>4, MessageTypes DEF IsExec
    <3> QED
      BY <2>1, <3>1 DEF CommandType, ExecuteOf, Command
  <2>6. child' = r => /\ \A i \in DOMAIN toChild' : toChild'[i] # ExecuteOf(r)
                      /\ \A i \in DOMAIN fromChild : fromChild[i].id # <<"run", r>>
                      /\ ~Over(r)
    <3> SUFFICES ASSUME child' = r PROVE /\ \A i \in DOMAIN toChild' : toChild'[i] # ExecuteOf(r)
                                         /\ \A i \in DOMAIN fromChild : fromChild[i].id # <<"run", r>>
                                         /\ ~Over(r)
      OBVIOUS
    <3>1. /\ \A j \in DOMAIN toChild : toChild[j] = ExecuteOf(r) => 1 = j
          /\ \A i \in DOMAIN fromChild : fromChild[i].id # <<"run", r>>
          /\ ~Over(r)
      BY <2>4, <2>5 DEF StreamInv
    <3> QED
      BY <2>3, <3>1
  (* The answer, if there is one, is for somebody else. *)
  <2>7. fromChild' = fromChild \/ \E c \in ResponseType : c.id # <<"run", r>> /\ fromChild' = Append(fromChild, c)
    <3>1. ASSUME NEW type \in {"READY", "ERROR"}, IsReset(1), Reply(type, toChild[1].id)
          PROVE  \E c \in ResponseType : c.id # <<"run", r>> /\ fromChild' = Append(fromChild, c)
      <4>1. toChild[1].id[1] \in Resets /\ Response(type, toChild[1].id) \in ResponseType
        BY <2>1, <3>1, MessageTypes DEF IsReset
      <4>2. Response(type, toChild[1].id).id # <<"run", r>>
        BY <4>1 DEF Response, Resets
      <4> QED
        BY <3>1, <4>1, <4>2 DEF Reply
    <3>2. ASSUME NEW type \in {"READY", "ERROR"}, Reply(type, None)
          PROVE  \E c \in ResponseType : c.id # <<"run", r>> /\ fromChild' = Append(fromChild, c)
      <4>1. Response(type, None) \in ResponseType /\ Response(type, None).id # <<"run", r>>
        BY ThreadOf DEF Response, ResponseType
      <4> QED
        BY <3>2, <4>1 DEF Reply
    <3> QED
      BY <1>7, <3>1, <3>2, TakeCases
  <2>8. /\ Cardinality(Tokens(fromChild', r)) = Cardinality(Tokens(fromChild, r))
        /\ \A i \in DOMAIN fromChild' : \/ i \in DOMAIN fromChild /\ fromChild'[i] = fromChild[i]
                                        \/ fromChild'[i].id # <<"run", r>>
    BY <1>6, <2>7
  <2>9. \A i \in DOMAIN toChild' : toChild'[i] = ExecuteOf(r) =>
          /\ child' # r
          /\ \A j \in DOMAIN toChild' : toChild'[j] = ExecuteOf(r) => i = j
          /\ \A j \in DOMAIN fromChild' : fromChild'[j].id # <<"run", r>>
    <3> SUFFICES ASSUME NEW i \in DOMAIN toChild', toChild'[i] = ExecuteOf(r)
                 PROVE  /\ child' # r
                        /\ \A j \in DOMAIN toChild' : toChild'[j] = ExecuteOf(r) => i = j
                        /\ \A j \in DOMAIN fromChild' : fromChild'[j].id # <<"run", r>>
      OBVIOUS
    <3>1. i + 1 \in DOMAIN toChild /\ toChild[i + 1] = ExecuteOf(r)
      BY <2>3
    <3>2. /\ \A j \in DOMAIN toChild : toChild[j] = ExecuteOf(r) => i + 1 = j
          /\ \A j \in DOMAIN fromChild : fromChild[j].id # <<"run", r>>
      BY <3>1 DEF StreamInv
    <3>3. ASSUME NEW j \in DOMAIN toChild', toChild'[j] = ExecuteOf(r) PROVE i = j
      <4>1. i + 1 = j + 1
        BY <2>3, <3>2, <3>3
      <4> QED
        BY <2>1, <4>1
    <3> QED
      BY <2>6, <2>8, <3>2, <3>3
  <2>10. ASSUME NEW i \in DOMAIN fromChild', fromChild'[i] = ReadyOf(r)
         PROVE  child' # r /\ \A j \in DOMAIN fromChild' : fromChild'[j] = TokenOf(r) => j < i
    <3>1. fromChild[i] = ReadyOf(r) /\ i \in DOMAIN fromChild
      BY <2>8, <2>10, ResponseOf
    <3>2. child' # r
      BY <2>6, <3>1, ResponseOf
    <3>3. ASSUME NEW j \in DOMAIN fromChild', fromChild'[j] = TokenOf(r) PROVE j < i
      <4>1. j \in DOMAIN fromChild /\ fromChild[j] = TokenOf(r)
        BY <2>8, <3>3, ResponseOf
      <4> QED
        BY <3>1, <4>1 DEF StreamInv
    <3> QED
      BY <3>2, <3>3
  <2>11. Over(r)' => /\ <<"run", r>> \notin threads' /\ got'[r] = made'[r] /\ child' # r
                     /\ \A i \in DOMAIN toChild' : toChild'[i] # ExecuteOf(r)
    BY <1>1, <1>2, <2>2, <2>3, <2>6 DEF StreamInv
  <2> QED
    BY <1>1, <2>2, <2>8, <2>9, <2>10, <2>11 DEF StreamInv
<1>8. CASE Token
  <2>1. /\ child \in Run /\ UNCHANGED <<child, toChild, got, threads, file, pc>>
        /\ made' = [made EXCEPT ![child] = @ + 1]
        /\ fromChild' = Append(fromChild, TokenOf(child)) /\ TokenOf(child) \in ResponseType
    BY <1>0, <1>8, MessageTypes DEF Token, Reply, TokenOf
  <2>2. CASE child # r
    <3>1. TokenOf(child).id # <<"run", r>> /\ made'[r] = made[r]
      BY <1>0, <2>1, <2>2, ResponseOf
    <3>2. /\ Cardinality(Tokens(fromChild', r)) = Cardinality(Tokens(fromChild, r))
          /\ \A i \in DOMAIN fromChild' : \/ i \in DOMAIN fromChild /\ fromChild'[i] = fromChild[i]
                                          \/ fromChild'[i].id # <<"run", r>>
      BY <1>6, <2>1, <3>1
    <3>3. \A i \in DOMAIN fromChild' : fromChild'[i] \in {ReadyOf(r), TokenOf(r)} => i \in DOMAIN fromChild /\ fromChild'[i] = fromChild[i]
      BY <3>2, ResponseOf
    <3>4. \A i \in DOMAIN toChild' : toChild'[i] = ExecuteOf(r) => \A j \in DOMAIN fromChild' : fromChild'[j].id # <<"run", r>>
      BY <2>1, <3>2 DEF StreamInv
    <3> QED
      BY <1>2, <2>1, <2>2, <3>1, <3>2, <3>3, <3>4 DEF StreamInv
  <2>3. CASE child = r
    <3>1. pc[r] \in Executing
      BY <1>0, <2>3 DEF Fresh
    <3>2. Cardinality(Tokens(fromChild', r)) = Cardinality(Tokens(fromChild, r)) + 1
      BY <1>0, <2>1, <2>3, TokenAppended
    <3>3. made'[r] = made[r] + 1 /\ made[r] \in Nat /\ got[r] \in Nat /\ Cardinality(Tokens(fromChild, r)) \in Nat
      BY <1>0, <2>1, <2>3, TokensFinite
    <3>4. /\ \A i \in DOMAIN toChild : toChild[i] # ExecuteOf(r)
          /\ \A i \in DOMAIN fromChild : fromChild[i] # ReadyOf(r)
          /\ ~Over(r)
      BY <2>3 DEF StreamInv
    <3>5. \A i \in DOMAIN fromChild' : fromChild'[i] # ReadyOf(r)
      BY <1>0, <2>1, <2>3, <3>4, Appended, ResponseOf
    <3>6. <<"run", r>> \in threads' /\ file' # "closed" => made'[r] = got'[r] + Cardinality(Tokens(fromChild', r))
      BY <2>1, <3>2, <3>3 DEF StreamInv
    <3> QED
      BY <1>2, <2>1, <3>1, <3>4, <3>5, <3>6 DEF StreamInv
  <2> QED
    BY <2>2, <2>3
<1>9. CASE Answered
  <2>1. child \in Run /\ child' = None /\ UNCHANGED <<toChild, made, got, threads, file, pc>>
    BY <1>0, <1>9 DEF Answered
  <2>2. PICK type \in {"DONE", "ERROR"} :
          fromChild' = fromChild \o <<Response(type, <<"run", child>>), Response("READY", <<"run", child>>)>>
    BY <1>9 DEF Answered
  <2> DEFINE first == Response(type, <<"run", child>>)
             half == Append(fromChild, first)
  <2>3. first \in ResponseType /\ ReadyOf(child) \in ResponseType
    BY <2>1, MessageTypes DEF ReadyOf
  <2>4. first.id = <<"run", child>> /\ first.type = type /\ fromChild' = fromChild \o <<first, ReadyOf(child)>>
    BY <2>2 DEF Response, ReadyOf
  <2> HIDE DEF first
  <2>5. half \in Seq(ResponseType) /\ fromChild' = Append(half, ReadyOf(child))
    BY <1>0, <2>3, <2>4, TwoLines
  <2>6. first # TokenOf(r) /\ first # ReadyOf(r) /\ ReadyOf(child) # TokenOf(r)
    BY <2>1, <2>4, ResponseOf
  <2>7. Cardinality(Tokens(fromChild', r)) = Cardinality(Tokens(fromChild, r))
    <3>1. Cardinality(Tokens(half, r)) = Cardinality(Tokens(fromChild, r)) + 0
      BY <1>0, <2>3, <2>6, TokenAppended
    <3>2. Cardinality(Tokens(fromChild', r)) = Cardinality(Tokens(half, r)) + 0
      BY <2>3, <2>5, <2>6, TokenAppended
    <3> QED
      BY <1>0, <2>5, <3>1, <3>2, TokensFinite
  <2>8. /\ Len(fromChild) \in Nat /\ DOMAIN fromChild = 1 .. Len(fromChild)
        /\ DOMAIN fromChild' = 1 .. Len(fromChild) + 2
        /\ \A i \in DOMAIN fromChild : fromChild'[i] = fromChild[i]
        /\ fromChild'[Len(fromChild) + 1] = first /\ fromChild'[Len(fromChild) + 2] = ReadyOf(child)
    <3>1. /\ Len(fromChild) \in Nat /\ DOMAIN fromChild = 1 .. Len(fromChild)
          /\ DOMAIN half = 1 .. Len(fromChild) + 1
          /\ \A i \in DOMAIN fromChild : half[i] = fromChild[i]
          /\ half[Len(fromChild) + 1] = first
      BY <1>0, <2>3, Adds
    <3> HIDE DEF half
    <3>2. /\ Len(half) \in Nat /\ DOMAIN half = 1 .. Len(half)
          /\ DOMAIN fromChild' = 1 .. Len(half) + 1
          /\ \A i \in DOMAIN half : fromChild'[i] = half[i]
          /\ fromChild'[Len(half) + 1] = ReadyOf(child)
      BY <2>3, <2>5, Adds
    <3>3. Len(half) = Len(fromChild) + 1
      BY <2>3, <1>0, AppendProperties DEF half
    <3> QED
      BY <3>1, <3>2, <3>3
  <2>9. \A i \in DOMAIN toChild : toChild[i] = ExecuteOf(r) =>
          \A j \in DOMAIN fromChild' : fromChild'[j].id # <<"run", r>>
    <3> SUFFICES ASSUME NEW i \in DOMAIN toChild, toChild[i] = ExecuteOf(r), NEW j \in DOMAIN fromChild'
                 PROVE  fromChild'[j].id # <<"run", r>>
      OBVIOUS
    <3>1. child # r /\ \A k \in DOMAIN fromChild : fromChild[k].id # <<"run", r>>
      BY DEF StreamInv
    <3>2. first.id # <<"run", r>> /\ ReadyOf(child).id # <<"run", r>>
      BY <2>1, <2>4, <3>1, ResponseOf
    <3>3. j \in DOMAIN fromChild \/ j = Len(fromChild) + 1 \/ j = Len(fromChild) + 2
      BY <2>8
    <3> QED
      BY <2>8, <3>1, <3>2, <3>3
  <2>10. \A j \in DOMAIN fromChild' : fromChild'[j] = TokenOf(r) => j \in DOMAIN fromChild /\ fromChild[j] = TokenOf(r)
    <3> SUFFICES ASSUME NEW j \in DOMAIN fromChild', fromChild'[j] = TokenOf(r)
                 PROVE  j \in DOMAIN fromChild /\ fromChild[j] = TokenOf(r)
      OBVIOUS
    <3>1. j \in DOMAIN fromChild \/ j = Len(fromChild) + 1 \/ j = Len(fromChild) + 2
      BY <2>8
    <3> QED
      BY <2>6, <2>8, <3>1
  <2>11. ASSUME NEW i \in DOMAIN fromChild', fromChild'[i] = ReadyOf(r)
         PROVE  \A j \in DOMAIN fromChild' : fromChild'[j] = TokenOf(r) => j < i
    <3>1. (i \in DOMAIN fromChild /\ fromChild[i] = ReadyOf(r)) \/ i = Len(fromChild) + 2
      <4>1. i \in DOMAIN fromChild \/ i = Len(fromChild) + 1 \/ i = Len(fromChild) + 2
        BY <2>8
      <4> QED
        BY <2>6, <2>8, <2>11, <4>1
    <3>2. CASE i \in DOMAIN fromChild /\ fromChild[i] = ReadyOf(r)
      BY <2>10, <3>2 DEF StreamInv
    <3>3. CASE i = Len(fromChild) + 2
      BY <2>8, <2>10, <3>3
    <3> QED
      BY <3>1, <3>2, <3>3
  <2> QED
    BY <1>0, <1>2, <2>1, <2>7, <2>9, <2>11 DEF StreamInv
<1> QED
  BY <1>4, <1>5, <1>7, <1>8, <1>9 DEF LoopCall, Child

-----------------------------------------------------------------------------
(* The inductive invariant of whole answers.                                      *)
WholeInv ==
    /\ Typed /\ Order /\ Fresh
    /\ "reset" \notin Env => ReaderInv /\ \A r \in Run : StreamInv(r)

LEMMA InitWhole == Init => ReaderInv /\ \A r \in Run : StreamInv(r)
<1> SUFFICES ASSUME Init PROVE ReaderInv /\ \A r \in Run : StreamInv(r)
  OBVIOUS
<1>1. /\ \A r \in Run : pc[r] = "new" /\ made[r] = 0 /\ got[r] = 0
      /\ threads = {} /\ loop = Free /\ DOMAIN toChild = {} /\ DOMAIN fromChild = {}
  BY DEF Init
<1> QED
  BY <1>1 DEF ReaderInv, StreamInv, Over, Free

LEMMA WholeInvStep == WholeInv /\ [Next]_vars => WholeInv'
<1> SUFFICES ASSUME WholeInv, [Next]_vars PROVE WholeInv'
  OBVIOUS
<1> USE DEF WholeInv
<1>1. Typed' /\ Order' /\ Fresh' /\ scenario' = scenario
  BY TypedStep, OrderStep, FreshStep, ScenarioStays
<1>2. ASSUME "reset" \notin Env PROVE ReaderInv' /\ \A r \in Run : StreamInv(r)'
  <2>1. ReaderInv'
    BY <1>2, ReaderStep
  <2>2. ASSUME NEW r \in Run PROVE StreamInv(r)'
    BY <1>2, <2>2, StepCases, CallerStream, ReadingStream, OtherStream
  <2> QED
    BY <2>1, <2>2
<1> QED
  BY <1>1, <1>2 DEF Env

LEMMA WholeInvariant == Spec => []WholeInv
<1>1. Init => WholeInv
  BY InitTyped, InitOrder, InitWhole DEF WholeInv
<1> QED
  BY <1>1, WholeInvStep, PTL DEF Spec

(* At most one thread or blocking call reads the socket, as long as no handshake  *)
(* is sent beside the lock.                                                       *)
THEOREM OneReader == Spec => [](("reset" \notin Env) => \A t, u \in threads : t = u)
<1>1. WholeInv => (("reset" \notin Env) => \A t, u \in threads : t = u)
  BY DEF WholeInv, ReaderInv
<1> QED
  BY <1>1, WholeInvariant, PTL

(* A successful run has delivered every token the subprocess made for it, through *)
(* kills, crashes, timeouts and refused commands.                                 *)
THEOREM WholeAnswersHold == Spec => []WholeAnswers
<1>1. WholeInv => WholeAnswers
  BY DEF WholeInv, StreamInv, Over, WholeAnswers
<1> QED
  BY <1>1, WholeInvariant, PTL
====
