---- MODULE MCModelLoadCoordinator ----
(* Three runtimes, one of them configured with no memory estimate, on a device *)
(* that holds two of them beside the headroom but not all three.               *)
EXTENDS ModelLoadCoordinator

CONSTANTS r1, r2, r3

MCRuntime == {r1, r2, r3}
MCMemory  == [r \in MCRuntime |-> IF r = r1 THEN 0 ELSE 2]

=====
