---- MODULE MCSystemResources ----
(* The two managers, of which the LLM one marks its process, with models that fit *)
(* beside each other, alone or not at all.                                        *)
EXTENDS SystemResources

CONSTANTS LLM, VLM

MCManager == {LLM, VLM}
MCMarks == {LLM}
MCModels == [m \in MCManager |-> IF m = LLM THEN {"small", "medium", "large"}
                                            ELSE {"vision", "wide", "huge"}]
MCMemory == [small |-> 20, medium |-> 40, large |-> 60, vision |-> 30, wide |-> 80, huge |-> 100]
MCScenarios == [adhoc : BOOLEAN, crashes : BOOLEAN, maxActive : {1, 2}]
====
