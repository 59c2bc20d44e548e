---- MODULE SessionStore ----
(* Which session a request belongs to (managers/session_manager.py,               *)
(* session/conversation_session.py, session/conversation_utils.py and the turn    *)
(* taking of impl/event_based_chat_handler.py). Clients send their whole history  *)
(* with each request; the server finds its copy of it by hashes of complete       *)
(* turns, or of the user messages while a tool call is open, and takes what lies  *)
(* beyond the length of its copy as new. A hash is what it is made from.          *)
EXTENDS Integers, Sequences, FiniteSets, FiniteSetsExt, SequencesExt, Functions

CONSTANTS
    Client,
    Text,         \* what a user says
    Request,      \* as many as there are requests at most
    Session,      \* as many as there are sessions at most
    MaxTurns,     \* bound on the turns of a conversation
    Scenarios,    \* the scenarios to consider, see Scenario
    None

(* tools: the model calls tools; fail: a turn fails; late: a tool response does   *)
(* not come in time; refuse: the preflight checks of a turn refuse it; cancel,    *)
(* delete: the endpoints; resend: a client asks again before it has an answer;    *)
(* expire: entries of timed-out tool calls and idle sessions grow too old.        *)
EnvEvents == {"tools", "fail", "late", "refuse", "cancel", "delete", "resend", "expire"}

(* ADHOC_MODE lets one turn in at a time, a tool wait included; what may come in   *)
(* between; MAX_SESSIONS; bound on the requests.                                   *)
Scenario == [adhoc : BOOLEAN, env : SUBSET EnvEvents, max : Nat \ {0}, requests : Nat]

ASSUME SessionAssumption ==
    /\ IsFiniteSet(Request) /\ IsFiniteSet(Session) /\ MaxTurns \in Nat /\ None \notin Nat
    /\ Scenarios \subseteq Scenario /\ \A sc \in Scenarios : sc.requests <= Cardinality(Request)

VARIABLES
    scenario,  \* chosen once
    view,      \* the history a client keeps
    asked,     \* its last request, or None
    reqs,      \* the requests that came, in order
    store,     \* the session objects made, in order
    live,      \* _sessions
    recent,    \* sessions in the order of last_activity
    byHash,    \* _hash_to_session
    byTool,    \* _tool_calling_map
    byLate     \* _timed_out_tool_call_map

vars == <<scenario, view, asked, reqs, store, live, recent, byHash, byTool, byLate>>

Adhoc == scenario.adhoc
Env == scenario.env
MaxSessions == scenario.max

User(t)      == [role |-> "user", text |-> t]
Answer       == [role |-> "assistant", text |-> "answer"]
ToolCall(id) == [role |-> "call", text |-> id]
ToolResponse == [role |-> "tool", text |-> "result"]

NoEvent == [state |-> "none", req |-> None, from |-> 0, tool |-> FALSE]

NewSession == [msgs |-> <<>>, event |-> NoEvent, cont |-> {}, retry |-> {}, done |-> <<>>]

TypeOK ==
    /\ scenario \in Scenarios
    /\ Len(reqs) <= Cardinality(Request) /\ Len(store) <= Cardinality(Session)
    /\ \A c \in Client : asked[c] \in DOMAIN reqs \cup {None}
    /\ \A r \in DOMAIN reqs :
         /\ reqs[r].client \in Client /\ reqs[r].session \in DOMAIN store
         /\ reqs[r].phase \in {"resolved", "running", "answered", "called", "failed", "refused", "nothing new"}
    /\ \A s \in DOMAIN store :
         store[s].event.state \in {"none", "active", "completed", "failed"}
    /\ live \subseteq DOMAIN store /\ Cardinality(live) <= MaxSessions
    /\ ToSet(recent) = live /\ IsInjective(recent)

Init ==
    /\ scenario \in Scenarios
    /\ view = [c \in Client |-> <<>>]
    /\ asked = [c \in Client |-> None]
    /\ reqs = <<>> /\ store = <<>>
    /\ live = {} /\ recent = <<>>
    /\ byHash = <<>> /\ byTool = <<>> /\ byLate = <<>>

-----------------------------------------------------------------------------
(* Hashes.                                                                        *)

(* The messages at some places, in their order: each with its rank.               *)
Ranked(msgs, places) == {<<Cardinality({j \in places : j <= i}), msgs[i]>> : i \in places}

Said(msgs) == {i \in DOMAIN msgs : msgs[i].role = "user"}

Users(msgs) == Ranked(msgs, Said(msgs))

(* A turn is a user message with what follows it up to the next one.              *)
InAnsweredTurn(msgs, i) ==
    \E j \in DOMAIN msgs : /\ msgs[j].role = "assistant"
                           /\ \A k \in Said(msgs) : k <= i <=> k <= j

(* calculate_conversation_hash: the user message, the tool calls and the answer   *)
(* of every turn that has an answer.                                              *)
Hash(msgs) == Ranked(msgs, {i \in DOMAIN msgs : msgs[i].role # "tool" /\ InAnsweredTurn(msgs, i)})

Without(map, keys) == Restrict(map, DOMAIN map \ keys)

(* The entries that do not name a session of gone.                                *)
Forget(map, gone) == Restrict(map, {k \in DOMAIN map : map[k] \notin gone})

Put(map, key, s) == [k \in DOMAIN map \cup {key} |-> IF k = key THEN s ELSE map[k]]

Left(s) == RemoveAt(recent, CHOOSE i \in DOMAIN recent : recent[i] = s)

Touch(s) == recent' = IF s \in live THEN Append(Left(s), s) ELSE recent

IsActive(s)  == store[s].event.state = "active"
IsWaiting(s) == IsActive(s) /\ reqs[store[s].event.req].phase = "called"

-----------------------------------------------------------------------------
(* A request comes: find_or_create_session, before any queue.                     *)

IsToolResponse(msgs) == Last(msgs).role = "tool"

Knows(map, key) == key \in DOMAIN map /\ map[key] \in live

FoundByTool(msgs) == Knows(byTool, Users(msgs))

FoundByLate(msgs) ==
    ~FoundByTool(msgs) /\ IsToolResponse(msgs) /\ Knows(byLate, Users(msgs))

FoundByHash(msgs) ==
    /\ ~FoundByTool(msgs) /\ ~FoundByLate(msgs)
    /\ Hash(msgs) # {} /\ Knows(byHash, Hash(msgs))

Continues(msgs) == FoundByHash(msgs) /\ Hash(msgs) = store[byHash[Hash(msgs)]].cont

(* Mutant: the signature of the request is not compared.                          *)
ReplaysAny(msgs) ==
    /\ FoundByHash(msgs) /\ ~Continues(msgs)
    /\ Hash(msgs) = store[byHash[Hash(msgs)]].retry
    /\ store[byHash[Hash(msgs)]].done # <<>>

Replays(msgs) ==
    /\ FoundByHash(msgs) /\ ~Continues(msgs)
    /\ Hash(msgs) = store[byHash[Hash(msgs)]].retry
    /\ store[byHash[Hash(msgs)]].done = msgs

(* Entries that name a session that is gone go when they are met.                 *)
DropStale(msgs) ==
    /\ byTool' = IF FoundByTool(msgs) THEN byTool ELSE Without(byTool, {Users(msgs)})
    /\ byLate' = IF FoundByTool(msgs) \/ FoundByLate(msgs) \/ ~IsToolResponse(msgs) THEN byLate
                 ELSE Without(byLate, {Users(msgs)})
    /\ byHash' = IF FoundByTool(msgs) \/ FoundByLate(msgs) \/ FoundByHash(msgs) THEN byHash
                 ELSE Without(byHash, {Hash(msgs)})

(* create_session with _cleanup_old_sessions: sessions too old, then the ones     *)
(* least recently active beyond MAX_SESSIONS.                                     *)
CreateSession(msgs) ==
    LET new  == Len(store) + 1
        keep == Len(recent) + 1 - MaxSessions
    IN  \E n \in Max({keep, 0}) .. (IF "expire" \in Env THEN Len(recent) ELSE Max({keep, 0})) :
          LET gone == ToSet(SubSeq(recent, 1, n))
          IN  /\ store' = Append(store, NewSession)
              /\ live' = (live \ gone) \cup {new}
              /\ recent' = Append(SubSeq(recent, n + 1, Len(recent)), new)
              /\ byTool' = Forget(Without(byTool, {Users(msgs)}), gone)
              /\ byLate' = Forget(IF IsToolResponse(msgs) THEN Without(byLate, {Users(msgs)}) ELSE byLate, gone)
              /\ byHash' = Forget(IF FoundByHash(msgs) THEN byHash ELSE Without(byHash, {Hash(msgs)}), gone)

Arrive(c, msgs) ==
    /\ Len(reqs) < scenario.requests
    /\ UNCHANGED scenario
    /\ asked' = [asked EXCEPT ![c] = Len(reqs) + 1]
    /\ \/ /\ FoundByTool(msgs) \/ FoundByLate(msgs) \/ Continues(msgs) \/ Replays(msgs)
          /\ LET s == CASE FoundByTool(msgs) -> byTool[Users(msgs)]
                        [] FoundByLate(msgs) -> byLate[Users(msgs)]
                        [] OTHER -> byHash[Hash(msgs)]
             IN  reqs' = Append(reqs, [client |-> c, msgs |-> msgs, session |-> s,
                                       phase |-> IF Replays(msgs) THEN "answered" ELSE "resolved",
                                       basis |-> IF Replays(msgs) THEN store[s].done ELSE <<>>])
          /\ DropStale(msgs)
          /\ view' = IF Replays(msgs) THEN [view EXCEPT ![c] = Append(msgs, Answer)] ELSE view
          /\ UNCHANGED <<store, live, recent>>
       \/ /\ ~FoundByTool(msgs) /\ ~FoundByLate(msgs) /\ ~Continues(msgs) /\ ~Replays(msgs)
          /\ Len(store) < Cardinality(Session)
          /\ CreateSession(msgs)
          /\ reqs' = Append(reqs, [client |-> c, msgs |-> msgs, session |-> Len(store) + 1,
                                   phase |-> "resolved", basis |-> <<>>])
          /\ UNCHANGED view

Settled(c) == asked[c] # None => reqs[asked[c]].phase \notin {"resolved", "running"}

(* A client goes on with its conversation or begins another.                      *)
Say(c, t) ==
    /\ Settled(c)
    /\ view[c] # <<>> => Last(view[c]).role = "assistant"
    /\ Cardinality(Said(view[c])) < MaxTurns
    /\ Arrive(c, Append(view[c], User(t)))

Begin(c, t) ==
    /\ Settled(c) /\ view[c] # <<>>
    /\ Arrive(c, <<User(t)>>)

(* It sends a turn that was not answered once more; with resend also before it    *)
(* knows, or after the answer was lost.                                           *)
Retry(c) ==
    /\ asked[c] # None
    /\ \/ reqs[asked[c]].phase \in {"failed", "refused", "nothing new"}
       \/ "resend" \in Env /\ reqs[asked[c]].phase \in {"resolved", "running", "answered"}
    /\ ~IsToolResponse(reqs[asked[c]].msgs)
    /\ Arrive(c, reqs[asked[c]].msgs)

RespondTool(c) ==
    /\ asked[c] # None /\ reqs[asked[c]].phase = "called"
    /\ Arrive(c, Append(view[c], ToolResponse))

-----------------------------------------------------------------------------
(* The handler takes a request up. In ADHOC_MODE the queue lets one turn in, and  *)
(* only its own session while that waits for a tool.                              *)

MayTake(r) ==
    /\ reqs[r].phase = "resolved"
    /\ Adhoc => /\ \A q \in DOMAIN reqs : reqs[q].phase # "running"
                /\ \A s \in DOMAIN store : IsWaiting(s) => s = reqs[r].session

SetPhase(r, phase) == [reqs EXCEPT ![r].phase = phase]

ContinuesTool(r) == IsToolResponse(reqs[r].msgs) /\ IsActive(reqs[r].session) /\ store[reqs[r].session].event.tool

(* A tool response nobody waits for, or a new message while one is waited for.    *)
Refuse(r) ==
    /\ MayTake(r)
    /\ IF IsToolResponse(reqs[r].msgs)
       THEN ~ContinuesTool(r) \/ Knows(byLate, Users(reqs[r].msgs))
       ELSE IsActive(reqs[r].session) /\ store[reqs[r].session].event.tool
    /\ reqs' = SetPhase(r, "refused")
    /\ UNCHANGED <<scenario, view, asked, store, live, recent, byHash, byTool, byLate>>

TakeTool(r) ==
    LET s == reqs[r].session IN
    /\ MayTake(r) /\ ContinuesTool(r)
    /\ ~Knows(byLate, Users(reqs[r].msgs))
    /\ store' = [store EXCEPT ![s].msgs = Append(@, ToolResponse), ![s].event.req = r]
    /\ reqs' = SetPhase(r, "running")
    /\ Touch(s)
    /\ UNCHANGED <<scenario, view, asked, live, byHash, byTool, byLate>>

(* cancel_active_event: the messages of the event go.                             *)
RolledBack(session) ==
    IF session.event.state = "active"
    THEN [session EXCEPT !.msgs = SubSeq(@, 1, session.event.from - 1), !.event = NoEvent]
    ELSE session

NewMessages(msgs, session) == SubSeq(msgs, Len(session.msgs) + 1, Len(msgs))

(* When nothing is new an active event is taken for an interrupted one and        *)
(* cancelled.                                                                     *)
Base(r) ==
    LET session == store[reqs[r].session]
    IN  IF NewMessages(reqs[r].msgs, session) = <<>> THEN RolledBack(session) ELSE session

Take(r) ==
    LET s    == reqs[r].session
        base == Base(r)
        new  == NewMessages(reqs[r].msgs, base)
    IN
    /\ MayTake(r)
    /\ ~IsToolResponse(reqs[r].msgs)
    /\ ~(IsActive(s) /\ store[s].event.tool)
    /\ IF new = <<>>
       THEN /\ store' = [store EXCEPT ![s] = base]
            /\ reqs' = SetPhase(r, "nothing new")
            /\ IF base # store[s] THEN Touch(s) ELSE UNCHANGED recent
       ELSE /\ store' = [store EXCEPT ![s] =
                  [base EXCEPT !.msgs = @ \o new,
                               !.event = [state |-> "active", req |-> r, from |-> Len(base.msgs) + 1,
                                          tool |-> FALSE]]]
            /\ reqs' = SetPhase(r, "running")
            /\ Touch(s)
    /\ UNCHANGED <<scenario, view, asked, live, byHash, byTool, byLate>>

-----------------------------------------------------------------------------
(* How a turn ends.                                                               *)

IsCurrent(r) ==
    LET e == store[reqs[r].session].event IN e.state = "active" /\ e.req = r

(* A client that has asked again does not see what comes of the old request.      *)
Sees(r, msgs) ==
    view' = IF asked[reqs[r].client] = r THEN [view EXCEPT ![reqs[r].client] = msgs] ELSE view

(* The user messages of the event alone, whatever the turns before it.            *)
EventUsers(session) == Users(SubSeq(session.msgs, session.event.from, Len(session.msgs)))

CallTool(r) ==
    LET s == reqs[r].session IN
    /\ "tools" \in Env
    /\ reqs[r].phase = "running" /\ IsCurrent(r)
    /\ store' = [store EXCEPT ![s].msgs = Append(@, ToolCall(r)), ![s].event.tool = TRUE]
    /\ reqs' = SetPhase(r, "called")
    /\ byTool' = Put(byTool, EventUsers(store[s]), s)
    /\ byLate' = Without(byLate, {EventUsers(store[s])})
    /\ Sees(r, Append(reqs[r].msgs, ToolCall(r)))
    /\ Touch(s)
    /\ UNCHANGED <<scenario, asked, live, byHash>>

(* Mutant: the old retry candidate stays in the map.                              *)
RehashKeepsOld(s, old, full) ==
    LET add == {h \in {old.cont, full} : h # {}}
    IN  [h \in DOMAIN byHash \cup add |-> IF h \in add THEN s ELSE byHash[h]]

(* complete_current_event: the hash this turn began from becomes the candidate    *)
(* for a retry, the one it ends with the continuation.                            *)
Rehash(s, old, full) ==
    LET mine == {h \in {old.retry, old.cont} : h \in DOMAIN byHash /\ byHash[h] = s}
        add  == {h \in {old.cont, full} : h # {}}
        rest == Without(byHash, mine)
    IN  [h \in DOMAIN rest \cup add |-> IF h \in add THEN s ELSE rest[h]]

Finish(r) ==
    LET s    == reqs[r].session
        old  == store[s]
        full == Hash(Append(old.msgs, Answer))
    IN
    /\ reqs[r].phase = "running" /\ IsCurrent(r)
    /\ store' = [store EXCEPT ![s] =
          [old EXCEPT !.msgs = Append(@, Answer), !.event.state = "completed",
                      !.cont = full, !.retry = old.cont, !.done = reqs[r].msgs]]
    /\ reqs' = [reqs EXCEPT ![r].phase = "answered", ![r].basis = old.msgs]
    /\ byHash' = Rehash(s, old, full)
    /\ byTool' = IF old.event.tool THEN Without(byTool, {EventUsers(old)}) ELSE byTool
    /\ Sees(r, Append(reqs[r].msgs, Answer))
    /\ Touch(s)
    /\ UNCHANGED <<scenario, asked, live, byLate>>

(* fail_turn: what the turn has added stays. An event that was cancelled ends in  *)
(* this way too, but is not the current one any more.                             *)
Fail(r) ==
    LET s == reqs[r].session IN
    /\ reqs[r].phase = "running"
    /\ "fail" \in Env \/ ~IsCurrent(r)
    /\ reqs' = SetPhase(r, "failed")
    /\ store' = IF IsCurrent(r) THEN [store EXCEPT ![s].event.state = "failed"] ELSE store
    /\ UNCHANGED <<scenario, view, asked, live, recent, byHash, byTool, byLate>>

(* _rollback_new_turn_preflight, _rollback_tool_continuation_preflight: a turn    *)
(* refused before it ran leaves nothing; a tool call stays open.                  *)
Preflight(r) ==
    LET s == reqs[r].session IN
    /\ "refuse" \in Env
    /\ reqs[r].phase = "running" /\ IsCurrent(r)
    /\ IF store[s].event.tool
       THEN /\ store' = [store EXCEPT ![s].msgs = Front(@)]
            /\ reqs' = SetPhase(r, "called")
       ELSE /\ store' = [store EXCEPT ![s] = RolledBack(@)]
            /\ reqs' = SetPhase(r, "refused")
    /\ UNCHANGED <<scenario, view, asked, live, recent, byHash, byTool, byLate>>

(* Mutant: the entry of the tool call stays.                                      *)
ToolTimeoutKeeps(s) ==
    /\ "late" \in Env
    /\ IsWaiting(s)
    /\ store' = [store EXCEPT ![s].event.state = "failed"]
    /\ reqs' = SetPhase(store[s].event.req, "failed")
    /\ byLate' = Put(byLate, EventUsers(store[s]), s)
    /\ UNCHANGED <<scenario, view, asked, live, recent, byHash, byTool>>

(* expire_tool_wait.                                                              *)
ToolTimeout(s) ==
    /\ "late" \in Env
    /\ IsWaiting(s)
    /\ store' = [store EXCEPT ![s].event.state = "failed"]
    /\ reqs' = SetPhase(store[s].event.req, "failed")
    /\ byTool' = Without(byTool, {EventUsers(store[s])})
    /\ byLate' = Put(byLate, EventUsers(store[s]), s)
    /\ UNCHANGED <<scenario, view, asked, live, recent, byHash>>

ForgetLate ==
    /\ "expire" \in Env
    /\ \E k \in DOMAIN byLate : byLate' = Without(byLate, {k})
    /\ UNCHANGED <<scenario, view, asked, reqs, store, live, recent, byHash, byTool>>

(* cancel_chat_completion on an active event.                                     *)
Cancel(s) ==
    /\ "cancel" \in Env
    /\ s \in live /\ IsActive(s)
    /\ store' = [store EXCEPT ![s] = RolledBack(@)]
    /\ reqs' = IF IsWaiting(s) THEN SetPhase(store[s].event.req, "failed") ELSE reqs
    /\ Touch(s)
    /\ UNCHANGED <<scenario, view, asked, live, byHash, byTool, byLate>>

(* delete_session.                                                                *)
Delete(s) ==
    /\ "delete" \in Env
    /\ s \in live
    /\ live' = live \ {s}
    /\ recent' = Left(s)
    /\ byHash' = Forget(byHash, {s})
    /\ byTool' = Forget(byTool, {s})
    /\ byLate' = Forget(byLate, {s})
    /\ UNCHANGED <<scenario, view, asked, reqs, store>>

Next ==
    \/ \E c \in Client :
         \/ \E t \in Text : Say(c, t) \/ Begin(c, t)
         \/ Retry(c) \/ RespondTool(c)
    \/ \E r \in DOMAIN reqs :
         Refuse(r) \/ TakeTool(r) \/ Take(r) \/ CallTool(r) \/ Finish(r) \/ Fail(r) \/ Preflight(r)
    \/ \E s \in DOMAIN store : ToolTimeout(s) \/ Cancel(s) \/ Delete(s)
    \/ ForgetLate

Spec == Init /\ [][Next]_vars

-----------------------------------------------------------------------------
(* Who ends on the same words of the user, with no tool call open, has the same   *)
(* history.                                                                       *)
SameWords ==
    \A r, q \in DOMAIN reqs :
      /\ Users(reqs[r].msgs) = Users(reqs[q].msgs)
      /\ ~IsToolResponse(reqs[r].msgs) /\ ~IsToolResponse(reqs[q].msgs)
      => reqs[r].msgs = reqs[q].msgs

(* An answer, made or replayed, was made from the history its client sent, though *)
(* the server only counts how much of it it has. With tools it takes that one turn *)
(* goes on at a time, that no tool call is given up, and that the tool map, which  *)
(* goes by the words of the user, does not lead to another history.               *)
AnswerFits ==
    \/ "tools" \notin Env
    \/ Adhoc /\ Env \cap {"cancel", "late"} = {} /\ SameWords
    => \A r \in DOMAIN reqs : reqs[r].phase = "answered" => reqs[r].basis = reqs[r].msgs

(* An entry of the hash map that names a session names one that goes on, or can be *)
(* retried, from there.                                                           *)
HashesLead ==
    \A h \in DOMAIN byHash :
      byHash[h] \in live => h \in {store[byHash[h]].cont, store[byHash[h]].retry}

(* An entry of the tool map names a session that waits for that tool response or  *)
(* works on it; a turn that fails or is cancelled after a tool call leaves its own.*)
ToolsLead ==
    Env \cap {"fail", "cancel"} = {} =>
      \A k \in DOMAIN byTool : IsActive(byTool[k]) /\ store[byTool[k]].event.tool
====
