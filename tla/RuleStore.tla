------------------------------ MODULE RuleStore ------------------------------
(***************************************************************************)
(* What the rules tools look like to an agent: one list of rules for each  *)
(* family, to which a set adds one rule at the end and from which only a   *)
(* clear takes rules, all those of the families it names in one step.      *)
(* A rule is named after the request that sets it.                         *)
(***************************************************************************)
EXTENDS Sequences

CONSTANTS Requests, Families

VARIABLES
    rules,      \* the list of each family
    used        \* the requests that have set their rule

Init ==
    /\ rules = [f \in Families |-> <<>>]
    /\ used = {}

Set(r, f) ==
    /\ r \notin used
    /\ used' = used \cup {r}
    /\ rules' = [rules EXCEPT ![f] = Append(@, r)]

Clear(F) ==
    /\ rules' = [f \in Families |-> IF f \in F THEN <<>> ELSE rules[f]]
    /\ UNCHANGED used

Next ==
    \/ \E r \in Requests, f \in Families : Set(r, f)
    \/ \E F \in SUBSET Families : Clear(F)

Spec == Init /\ [][Next]_<<rules, used>>

==============================================================================
