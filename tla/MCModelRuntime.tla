--------------------------- MODULE MCModelRuntime ---------------------------
(* Up to three jobs on two sessions.  j1 and j2 have sessions of their own; j3 *)
(* continues a tool chain on the session of j1 and goes to the lane above.     *)
EXTENDS ModelRuntime

CONSTANTS j1, j2, j3, s1, s2

MCOneJob == {j1}
MCTwoJobs == {j1, j2}
MCThreeJobs == {j1, j2, j3}
MCSession == {s1, s2}
MCSessionOf == [j \in Job |-> IF j = j2 THEN s2 ELSE s1]
MCLaneOf == [j \in Job |-> IF j = j3 THEN "tool_continuation" ELSE "any_request"]

=============================================================================
