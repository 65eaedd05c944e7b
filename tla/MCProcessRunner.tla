-------------------------- MODULE MCProcessRunner --------------------------
(* ProcessRunner on small instances. *)
EXTENDS ProcessRunner, TLC

\* Callers are interchangeable (safety runs only).
Interchangeable == Permutations(Calls)

============================================================================
