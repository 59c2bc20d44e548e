---- MODULE MCRequestQueue ----
EXTENDS RequestQueue
CONSTANTS s1, s2, r1, r2, r3

(* Two requests of one session, the second of which may be the answer of a tool,  *)
(* and one of another session that competes with them for a queue of one place.   *)
MCSession == {s1, s2}
MCRequest == {r1, r2, r3}
MCSessionOf == [r \in MCRequest |-> IF r = r3 THEN s2 ELSE s1]

(* Clients that wait; clients that talk out of turn and drop streams; anything.   *)
MCEnvs == {{}, {"conflict", "hangup"}, EnvEvents}
=====
