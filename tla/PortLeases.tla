----------------------------- MODULE PortLeases -----------------------------
(***************************************************************************)
(* What the registry promises about ports, without its table, its          *)
(* coroutines and its errors: a session acquires all its ports at once,    *)
(* only when nobody holds any of them; it then gets a child or not; while  *)
(* it has one it keeps every port; and it gives the ports back when, or    *)
(* some time after, the child is gone.  SessionRegistry implements this.   *)
(***************************************************************************)
CONSTANTS Sessions, Ports

VARIABLES
    state,      \* of each session: "new", "granted", "live" or "over"
    held        \* the ports it holds

vars == <<state, held>>

Init ==
    /\ state = [s \in Sessions |-> "new"]
    /\ held = [s \in Sessions |-> {}]

Acquire(s, P) ==
    /\ state[s] = "new"
    /\ \A t \in Sessions : held[t] \cap P = {}
    /\ state' = [state EXCEPT ![s] = "granted"]
    /\ held' = [held EXCEPT ![s] = P]

Launch(s) ==
    /\ state[s] = "granted"
    /\ state' = [state EXCEPT ![s] = "live"]
    /\ UNCHANGED held

\* The child is gone, or there will be none.
End(s) ==
    /\ state[s] \in {"granted", "live"}
    /\ state' = [state EXCEPT ![s] = "over"]
    /\ held' \in {held, [held EXCEPT ![s] = {}]}

Release(s) ==
    /\ state[s] = "over"
    /\ held' = [held EXCEPT ![s] = {}]
    /\ UNCHANGED state

Next ==
    \E s \in Sessions :
        \/ \E P \in SUBSET Ports : Acquire(s, P)
        \/ Launch(s)
        \/ End(s)
        \/ Release(s)

Spec == Init /\ [][Next]_vars

\* No two sessions ever hold the same port.
Exclusive ==
    \A s, t \in Sessions : s # t => held[s] \cap held[t] = {}

=============================================================================
