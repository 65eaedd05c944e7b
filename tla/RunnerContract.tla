--------------------------- MODULE RunnerContract ---------------------------
(***************************************************************************)
(* What a ProcessRunner promises the registry about one child.  It has at  *)
(* most one child; when that child is over, its end is reported at most    *)
(* once, either at once or after the rest of its output was read; and the  *)
(* report may be given up, by a stop that cancels the readers or by a      *)
(* reader that fails, but only once the child is over.                     *)
(***************************************************************************)

VARIABLES
    child,      \* "none", "alive" or "dead"
    report      \* "none", "due", "draining", "made" or "dropped"

vars == <<child, report>>

Init == child = "none" /\ report = "none"

Spawn ==
    /\ child = "none"
    /\ child' = "alive"
    /\ report' = "due"

Exit ==
    /\ child = "alive"
    /\ child' = "dead"
    /\ UNCHANGED report

Drain ==
    /\ child = "dead"
    /\ report = "due"
    /\ report' = "draining"
    /\ UNCHANGED child

Report ==
    /\ child = "dead"
    /\ report \in {"due", "draining"}
    /\ report' = "made"
    /\ UNCHANGED child

\* A stop that cancels the readers drops a report that is due; one being
\* prepared is dropped only by a failing reader.
GiveUp ==
    /\ child = "dead"
    /\ report \in {"due", "draining"}
    /\ report' = "dropped"
    /\ UNCHANGED child

Next == Spawn \/ Exit \/ Drain \/ Report \/ GiveUp

Spec == Init /\ [][Next]_vars

=============================================================================
