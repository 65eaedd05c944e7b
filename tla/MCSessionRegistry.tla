------------------------- MODULE MCSessionRegistry -------------------------
(* SessionRegistry on small instances. *)
EXTENDS SessionRegistry, TLC

Everything == AllDisturbances
Nothing == {}
Cancellation == {"cancel"}
Overlap == {"overlap"}

\* Sessions, ports and callers are interchangeable (safety runs only).
Interchangeable == Permutations(Sessions) \cup Permutations(Ports) \cup Permutations(Calls)

============================================================================
