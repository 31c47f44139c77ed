----------------------------- MODULE MCDeadLetters -----------------------------
(* Two requests and one letter, and nothing that fails, for TLC.            *)
EXTENDS DeadLetters

CONSTANTS l1, r1, r2
=============================================================================
