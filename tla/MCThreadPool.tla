---------------------------- MODULE MCThreadPool ----------------------------
(* Four tasks and two workers; one thread submits them all, as the executor of *)
(* a ModelRuntime does, or two threads submit at the same time, as two job     *)
(* threads do that reset their sessions.                                       *)
EXTENDS ThreadPool

CONSTANTS t1, t2, t3, t4, w1, w2

MCTask == {t1, t2, t3, t4}
MCWorker == {w1, w2}
MCOneSubmitter == [t \in Task |-> 1]
MCTwoSubmitters == [t \in Task |-> IF t \in {t1, t2} THEN 1 ELSE 2]

=============================================================================
