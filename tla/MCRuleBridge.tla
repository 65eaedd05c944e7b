---------------------------- MODULE MCRuleBridge ----------------------------
(* RuleBridge on small instances. *)
EXTENDS RuleBridge, TLC

InTurn == {"down", "shared", "nocsrf"}
Overlapping == {"overlap", "late"}

\* Requests and families are interchangeable (safety runs only).
Interchangeable == Permutations(Requests) \cup Permutations(Families)

============================================================================
