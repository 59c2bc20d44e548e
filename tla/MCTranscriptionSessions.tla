---- MODULE MCTranscriptionSessions ----
(* Three requests. The polite scenarios: clients that close the session they were *)
(* given, silence, files that are streamed; and those with keep_alive, plain      *)
(* files, another service or a close by somebody else.                            *)
EXTENDS TranscriptionSessions

CONSTANTS r1, r2, r3

MCRequest == {r1, r2, r3}
Live == [r \in MCRequest |-> "live"]

MCScenarios == {
    [kind |-> Live, keep |-> {}, env |-> {"invalid", "fail", "close", "silence"}],
    [kind |-> [Live EXCEPT ![r1] = "streamed"], keep |-> {},
     env |-> {"invalid", "fail", "close", "silence"}],
    [kind |-> [Live EXCEPT ![r1] = "file", ![r2] = "streamed"], keep |-> {},
     env |-> {"fail", "close", "silence"}],
    [kind |-> Live, keep |-> {}, env |-> {"fail", "close", "switch"}],
    [kind |-> Live, keep |-> {r1}, env |-> {"fail", "silence", "stray"}],
    [kind |-> [Live EXCEPT ![r1] = "file"], keep |-> {r1}, env |-> {"fail", "switch"}]}
====
