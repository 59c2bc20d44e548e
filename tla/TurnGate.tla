---- MODULE TurnGate ----
(* What the request queue of chatcompletions promises (request_queue_manager.py, *)
(* module and class documentation): the conversation turns of the sessions pass   *)
(* a gate one session at a time, and only the session at the gate works on the    *)
(* accelerator. A turn that waits for the answer of a tool keeps the gate.        *)
CONSTANTS Session, None

VARIABLES turn,     \* the session whose turn is in progress, or None
          working   \* the sessions that use the accelerator

vars == <<turn, working>>

Init == turn = None /\ working = {}

(* A session passes the gate, or goes on with the turn it holds.                  *)
Enter(s) ==
    /\ turn \in {None, s}
    /\ turn' = s
    /\ working' = {s}

(* The turn rests while the client runs a tool.                                   *)
Rest(s) ==
    /\ turn = s
    /\ working' = {}
    /\ UNCHANGED turn

(* The turn is over: the accelerator is idle before the next session enters.      *)
Leave(s) ==
    /\ turn = s
    /\ turn' = None
    /\ working' = {}

Next == \E s \in Session : Enter(s) \/ Rest(s) \/ Leave(s)

Spec == Init /\ [][Next]_vars
=====
