---- MODULE MCSessionStore ----
EXTENDS SessionStore

(* Two clients that may say the same and three sessions. With room for all         *)
(* sessions, four requests: a conversation and what answers, retries or doubles it;*)
(* with room for two of them, three.                                               *)
S(adhoc, env, max, n) == [adhoc |-> adhoc, env |-> env, max |-> max, requests |-> n]

MCScenarios ==
    {S(TRUE, {"tools", "refuse"}, 3, 4),
     S(TRUE, {"tools", "late", "refuse"}, 3, 3),
     S(TRUE, {"tools", "fail", "resend", "delete"}, 2, 3),
     S(FALSE, {"cancel", "fail", "resend", "refuse", "expire"}, 2, 3),
     S(FALSE, {"tools", "late", "delete", "expire"}, 2, 3)}
====
