---- MODULE MCInferenceProcess ----
EXTENDS InferenceProcess
CONSTANTS a, b, c, s1, s2, m1, m2

(* Two runs of one session and one of another, which asks for a model of its own. *)
MCRun == {a, b, c}
MCSession == [r \in Run |-> IF r = c THEN s2 ELSE s1]
MCModel == [r \in Run |-> IF r = c THEN m2 ELSE m1]

S(adhoc, env, runs) == [adhoc |-> adhoc, env |-> env, runs |-> runs]

(* With the queue: two runs of a session where everything of the subprocess fails, *)
(* three in a row where the accelerator does. Without it: a competitor with its    *)
(* own model and handle resets, and two runs of one session with clients that drop *)
(* their requests and a subprocess that hangs or dies.                             *)
MCScenarios ==
    {S(TRUE, {"kill", "slow", "hang", "fault"}, {a, b}),
     S(TRUE, {"fault"}, {a, b, c}),
     S(FALSE, {"reset", "cancel", "kill", "crash", "fault"}, {a, c}),
     S(FALSE, {"cancel", "crash", "hang"}, {a, b})}
=====
