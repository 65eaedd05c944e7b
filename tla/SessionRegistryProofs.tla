----------------------- MODULE SessionRegistryProofs -----------------------
(***************************************************************************)
(* Proofs about SessionRegistry, for any number of sessions, ports and     *)
(* callers and any disturbances.                                           *)
(*                                                                         *)
(* None of the safety properties is inductive as it stands.  IInv adds     *)
(* what the code never writes down: how far start() got and whether there  *)
(* is a child agree; a session whose child is alive or being spawned holds *)
(* the lease on all its ports and, before a shutdown, is in the table; a   *)
(* caller waiting in runner.stop() waits for a session that is STOPPING or *)
(* STOPPED; and shutdown_all's snapshot covers the table while it runs.    *)
(***************************************************************************)
EXTENDS SessionRegistry, TLAPS

\* The session has, or is about to get, a live child.
Pending(s) == start[s] = "spawning" \/ child[s] = "alive"

PhasesAgree ==
    \A s \in Sessions :
        /\ start[s] = "done" <=> child[s] # "none"
        /\ s \in registered => start[s] \in {"spawning", "done"}

PendingHoldsLease ==
    \A s \in Sessions : Pending(s) => leases[s] = listenPorts[s]

PendingIsListed ==
    \A s \in Sessions : Pending(s) /\ s \notin registered => shutdown

PendingApart ==
    \A s, t \in Sessions :
        s # t /\ Pending(s) /\ Pending(t) => listenPorts[s] \cap listenPorts[t] = {}

WaitersKnow ==
    \A c \in Calls :
        pc[c] \in Waiting =>
            /\ target[c] \in Sessions
            /\ child[target[c]] # "none"
            /\ status[target[c]] \in {"stopping", "stopped"}
            /\ ~ok[c]

SweepersKnow ==
    \A c \in Calls :
        /\ pc[c] = "sweep" => op[c] = "shutdown" /\ ~ok[c]
        /\ pc[c] # "idle" /\ op[c] = "shutdown" => shutdown /\ registered \subseteq todo[c]

FailureWasReported ==
    \A s \in registered : status[s] = "failed" => watch[s] = "done"

OkMeansDead ==
    \A c \in Calls :
        ok[c] /\ op[c] # "shutdown" =>
            /\ target[c] \in Sessions
            /\ child[target[c]] = "dead"
            /\ op[c] = "remove" => target[c] \notin registered

IInv ==
    /\ TypeOK
    /\ PhasesAgree
    /\ LeaseExclusive
    /\ PendingHoldsLease
    /\ PendingIsListed
    /\ PendingApart
    /\ WaitersKnow
    /\ SweepersKnow
    /\ FailureWasReported
    /\ OkMeansDead
    /\ VerdictIsReal

LEMMA InitHolds == Init => IInv
<1> SUFFICES ASSUME Init PROVE IInv
  OBVIOUS
<1>1. TypeOK
  BY DEF Init, TypeOK, Statuses, ExitCodes, Operations, Waiting
<1>2. PhasesAgree /\ LeaseExclusive /\ FailureWasReported /\ VerdictIsReal
  BY DEF Init, PhasesAgree, LeaseExclusive, FailureWasReported, VerdictIsReal
<1>3. PendingHoldsLease /\ PendingIsListed /\ PendingApart
  BY DEF Init, PendingHoldsLease, PendingIsListed, PendingApart, Pending
<1>4. WaitersKnow /\ SweepersKnow /\ OkMeansDead
  BY DEF Init, WaitersKnow, SweepersKnow, OkMeansDead, Waiting
<1> QED BY <1>1, <1>2, <1>3, <1>4 DEF IInv

\* What runner.stop() brings about when it returns keeps the invariant,
\* whichever of stop, remove and shutdown_all had called it.
LEMMA StopCompletion ==
    ASSUME IInv,
           NEW c \in Calls, NEW o \in Operations, NEW s \in Sessions,
           child[s] = "dead",
           o = "shutdown" => pc[c] # "idle" /\ op[c] = "shutdown" /\ ~ok[c],
           StopCompletes(c, o, s)
    PROVE  IInv'
<1> USE DEF StopCompletes, RecordStop, CancelReaders, Return, Drop,
            Statuses, ExitCodes, Operations, Waiting, Terminal
<1>1. TypeOK'
  <2> USE DEF IInv, TypeOK
  <2>1. (shutdown \in BOOLEAN /\ registered \in SUBSET Sessions /\ dirs \in SUBSET Sessions)'
    BY DEF tableVars
  <2>2. (/\ status \in [Sessions -> Statuses]
         /\ exitCode \in [Sessions -> ExitCodes \cup {"none"}]
         /\ listenPorts \in [Sessions -> SUBSET Ports]
         /\ leases \in [Sessions -> SUBSET Ports])'
    OBVIOUS
  <2>3. (/\ start \in [Sessions -> {"idle", "spawning", "done", "refused", "failed"}]
         /\ child \in [Sessions -> {"none", "alive", "dead"}]
         /\ code \in [Sessions -> ExitCodes]
         /\ watch \in [Sessions -> {"none", "waiting", "draining", "done"}])'
    OBVIOUS
  <2>4. (/\ pc \in [Calls -> {"idle", "sweep"} \cup Waiting]
         /\ op \in [Calls -> Operations]
         /\ target \in [Calls -> Sessions \cup {NoSession}]
         /\ force \in [Calls -> BOOLEAN]
         /\ todo \in [Calls -> SUBSET Sessions]
         /\ ok \in [Calls -> BOOLEAN])'
    <3>1. CASE o = "shutdown"
      BY <3>1
    <3>2. CASE o # "shutdown"
      <4>1. Return(c, o, s)
        BY <3>2
      <4>2. pc' \in [Calls -> {"idle", "sweep"} \cup Waiting] /\ op' \in [Calls -> Operations]
        BY <4>1
      <4>3. target' \in [Calls -> Sessions \cup {NoSession}] /\ force' \in [Calls -> BOOLEAN]
        BY <4>1
      <4>4. todo' \in [Calls -> SUBSET Sessions] /\ ok' \in [Calls -> BOOLEAN]
        BY <4>1
      <4> QED BY <4>2, <4>3, <4>4
    <3> QED BY <3>1, <3>2
  <2> QED BY <2>1, <2>2, <2>3, <2>4
<1>2. PhasesAgree' /\ LeaseExclusive'
  BY DEF IInv, TypeOK, PhasesAgree, LeaseExclusive, tableVars
<1>3. PendingHoldsLease' /\ PendingIsListed' /\ PendingApart'
  BY DEF IInv, TypeOK, PhasesAgree, PendingHoldsLease, PendingIsListed, PendingApart,
         Pending, tableVars
<1>4. WaitersKnow'
  BY DEF IInv, TypeOK, WaitersKnow
<1>5. SweepersKnow'
  BY DEF IInv, TypeOK, SweepersKnow, tableVars
<1>6. FailureWasReported' /\ VerdictIsReal'
  BY DEF IInv, TypeOK, FailureWasReported, VerdictIsReal, tableVars
<1>7. OkMeansDead'
  BY DEF IInv, TypeOK, OkMeansDead, tableVars
<1> QED BY <1>1, <1>2, <1>3, <1>4, <1>5, <1>6, <1>7 DEF IInv

\* start(), from admission to its return or its exception.
LEMMA StartStep ==
    ASSUME IInv, NEW s \in Sessions, StartSteps(s)
    PROVE  IInv'
<1> USE DEF IInv, TypeOK, PhasesAgree, LeaseExclusive, PendingHoldsLease,
            PendingIsListed, PendingApart, Pending, WaitersKnow, SweepersKnow,
            FailureWasReported, OkMeansDead, VerdictIsReal,
            Statuses, ExitCodes, Operations, Waiting, Terminal,
            vars, tableVars, entryVars, runnerVars, callVars
<1>1. ASSUME NEW P \in SUBSET Ports, StartAdmitted(s, P) PROVE IInv'
  BY <1>1 DEF StartAdmitted, Admits, PortInUse, LoopFree
<1>2. CASE StartRefused(s)
  BY <1>2 DEF StartRefused, LoopFree
<1>3. CASE StartConfigFails(s)
  BY <1>3 DEF StartConfigFails, LoopFree
<1>4. CASE SpawnSucceeds(s)
  BY <1>4 DEF SpawnSucceeds, LoopFree
<1>5. CASE SpawnFails(s)
  BY <1>5 DEF SpawnFails, LoopFree
<1> QED BY <1>1, <1>2, <1>3, <1>4, <1>5 DEF StartSteps

\* The child and its watcher.
LEMMA ChildStep ==
    ASSUME IInv, NEW s \in Sessions, ChildSteps(s)
    PROVE  IInv'
<1> USE DEF IInv, TypeOK, PhasesAgree, LeaseExclusive, PendingHoldsLease,
            PendingIsListed, PendingApart, Pending, WaitersKnow, SweepersKnow,
            FailureWasReported, OkMeansDead, VerdictIsReal,
            Statuses, ExitCodes, Operations, Waiting, Terminal,
            vars, tableVars, entryVars, runnerVars, callVars
<1>1. CASE ChildExits(s)
  BY <1>1 DEF ChildExits
<1>2. CASE WatchDrains(s)
  BY <1>2 DEF WatchDrains, LoopFree
<1>3. CASE OnExit(s)
  <2>1. /\ ExitStatus(s) \in Statuses
        /\ status[s] \in {"stopping", "stopped"} => ExitStatus(s) = status[s]
    BY DEF ExitStatus
  <2>2. CASE s \notin registered
    BY <1>3, <2>2 DEF OnExit
  <2>3. CASE s \in registered
    BY <1>3, <2>1, <2>3 DEF OnExit
  <2> QED BY <2>2, <2>3
<1>4. CASE DrainFails(s)
  BY <1>4 DEF DrainFails, LoopFree
<1> QED BY <1>1, <1>2, <1>3, <1>4 DEF ChildSteps

\* stop() and remove() up to their first await.
LEMMA CallStep ==
    ASSUME IInv, NEW c \in Calls, NEW o \in {"stop", "remove"},
           NEW s \in Sessions, NEW f \in BOOLEAN, Call(c, o, s, f)
    PROVE  IInv'
<1>1. LoopFree /\ pc[c] = "idle"
  BY DEF Call
<1>2. CASE CallFindsDead(c, o, s)
  BY <1>1, <1>2, StopCompletion DEF CallFindsDead, Operations
<1> USE DEF IInv, TypeOK, PhasesAgree, LeaseExclusive, PendingHoldsLease,
            PendingIsListed, PendingApart, Pending, WaitersKnow, SweepersKnow,
            FailureWasReported, OkMeansDead, VerdictIsReal,
            Statuses, ExitCodes, Operations, Waiting, Terminal,
            vars, tableVars, entryVars, runnerVars, callVars
<1>3. CASE CallFindsNothing(c, o, s)
  BY <1>1, <1>3 DEF CallFindsNothing, Raise
<1>4. CASE CallFindsTerminal(c, o, s)
  BY <1>1, <1>4 DEF CallFindsTerminal, Settled, Return, Drop
<1>5. CASE CallFindsUnspawned(c, o, s)
  BY <1>1, <1>5 DEF CallFindsUnspawned, Settled, StopBegins, Raise
<1>6. CASE CallSignals(c, o, s, f)
  BY <1>1, <1>6 DEF CallSignals, Settled, StopBegins
<1> QED BY <1>2, <1>3, <1>4, <1>5, <1>6 DEF Call

\* The awaits of runner.stop().
LEMMA WaitStep ==
    ASSUME IInv, NEW c \in Calls,
           ChildGone(c) \/ Terminate(c) \/ Kill(c) \/ GiveUp(c) \/ CancelCall(c)
    PROVE  IInv'
<1>1. CASE ChildGone(c)
  <2>1. /\ target[c] \in Sessions
        /\ op[c] \in Operations
        /\ pc[c] # "idle"
        /\ ~ok[c]
    BY <1>1 DEF ChildGone, IInv, TypeOK, WaitersKnow, Waiting
  <2> QED BY <1>1, <2>1, StopCompletion DEF ChildGone
<1> USE DEF IInv, TypeOK, PhasesAgree, LeaseExclusive, PendingHoldsLease,
            PendingIsListed, PendingApart, Pending, WaitersKnow, SweepersKnow,
            FailureWasReported, OkMeansDead, VerdictIsReal,
            Statuses, ExitCodes, Operations, Waiting, Terminal,
            vars, tableVars, entryVars, runnerVars, callVars
<1>2. CASE Terminate(c)
  BY <1>2 DEF Terminate
<1>3. CASE Kill(c)
  BY <1>3 DEF Kill
<1>4. CASE GiveUp(c)
  BY <1>4 DEF GiveUp, Raise
<1>5. CASE CancelCall(c)
  BY <1>5 DEF CancelCall, Raise
<1> QED BY <1>1, <1>2, <1>3, <1>4, <1>5

\* shutdown_all().
LEMMA SweepStep ==
    ASSUME IInv, NEW c \in Calls, SweepSteps(c)
    PROVE  IInv'
<1>1. ASSUME NEW s \in Sessions, SweepsDead(c, s) PROVE IInv'
  <2>1. /\ child[s] = "dead"
        /\ pc[c] = "sweep"
        /\ op[c] = "shutdown"
        /\ ~ok[c]
        /\ StopCompletes(c, "shutdown", s)
    BY <1>1 DEF SweepsDead, Visits, IInv, SweepersKnow
  <2> QED BY <2>1, StopCompletion DEF Operations
<1> USE DEF IInv, TypeOK, PhasesAgree, LeaseExclusive, PendingHoldsLease,
            PendingIsListed, PendingApart, Pending, WaitersKnow, SweepersKnow,
            FailureWasReported, OkMeansDead, VerdictIsReal,
            Statuses, ExitCodes, Operations, Waiting, Terminal,
            vars, tableVars, entryVars, runnerVars, callVars
<1>2. ASSUME NEW s \in Sessions, SweepsTerminal(c, s) PROVE IInv'
  BY <1>2 DEF SweepsTerminal, Visits, Settled, Drop
<1>3. ASSUME NEW s \in Sessions, SweepsUnspawned(c, s) PROVE IInv'
  BY <1>3 DEF SweepsUnspawned, Visits, Settled, Drop
<1>4. ASSUME NEW s \in Sessions, SweepSignals(c, s) PROVE IInv'
  BY <1>4 DEF SweepSignals, Visits, Settled, StopBegins
<1>5. CASE SweepBegins(c)
  BY <1>5 DEF SweepBegins, LoopFree
<1>6. CASE SweepEnds(c)
  BY <1>6 DEF SweepEnds, Return
<1>7. CASE SweepAborts(c)
  BY <1>7 DEF SweepAborts, Raise, Drop, LoopFree
<1> QED BY <1>1, <1>2, <1>3, <1>4, <1>5, <1>6, <1>7 DEF SweepSteps

LEMMA StutterStep == IInv /\ UNCHANGED vars => IInv'
BY DEF IInv, TypeOK, PhasesAgree, LeaseExclusive, PendingHoldsLease,
            PendingIsListed, PendingApart, Pending, WaitersKnow, SweepersKnow,
            FailureWasReported, OkMeansDead, VerdictIsReal,
            Statuses, ExitCodes, Operations, Waiting, Terminal,
            vars, tableVars, entryVars, runnerVars, callVars

THEOREM Invariance == Spec => []IInv
<1>1. IInv /\ [Next]_vars => IInv'
  <2> SUFFICES ASSUME IInv, [Next]_vars PROVE IInv'
    OBVIOUS
  <2>1. CASE \E s \in Sessions : StartSteps(s) \/ ChildSteps(s)
    BY <2>1, StartStep, ChildStep
  <2>2. ASSUME NEW c \in Calls, CallSteps(c) PROVE IInv'
    BY <2>2, CallStep, WaitStep DEF CallSteps, Stop, Remove
  <2>3. ASSUME NEW c \in Calls, SweepSteps(c) PROVE IInv'
    BY <2>3, SweepStep
  <2>4. CASE UNCHANGED vars
    BY <2>4, StutterStep
  <2> QED BY <2>1, <2>2, <2>3, <2>4 DEF Next
<1> QED BY <1>1, InitHolds, PTL DEF Spec

----------------------------------------------------------------------------
(* The properties, for every instance *)

\* Every variable keeps its type.
THEOREM TypeCorrect == Spec => []TypeOK
<1>1. IInv => TypeOK
  BY DEF IInv
<1> QED BY <1>1, Invariance, PTL

\* No port is ever leased by two listed sessions.
THEOREM LeasesNeverOverlap == Spec => []LeaseExclusive
<1>1. IInv => LeaseExclusive
  BY DEF IInv
<1> QED BY <1>1, Invariance, PTL

\* Two live children never have a port in common.
THEOREM LivePortsNeverClash == Spec => []NoPortClash
<1>1. IInv => NoPortClash
  BY DEF IInv, PendingApart, Pending, NoPortClash
<1> QED BY <1>1, Invariance, PTL

\* A live child keeps the lease on every port it was started with.
THEOREM LeaseOutlivesChild == Spec => []LiveChildHoldsLease
<1>1. IInv => LiveChildHoldsLease
  BY DEF IInv, PendingHoldsLease, Pending, LiveChildHoldsLease
<1> QED BY <1>1, Invariance, PTL

\* A terminal status in the table tells the truth about the child.
THEOREM VerdictsAreReal == Spec => []VerdictIsReal
<1>1. IInv => VerdictIsReal
  BY DEF IInv
<1> QED BY <1>1, Invariance, PTL

\* A stop or remove that returned left no child behind.
THEOREM OkMeansGoneAlways == Spec => []OkMeansGone
<1>1. IInv => OkMeansGone
  BY DEF IInv, OkMeansDead, OkMeansGone
<1> QED BY <1>1, Invariance, PTL

\* Only a shutdown can lose track of a live child.
THEOREM OrphansComeFromShutdown == Spec => []OrphansOnlyAfterShutdown
<1>1. IInv => OrphansOnlyAfterShutdown
  BY DEF IInv, PendingIsListed, Pending, OrphansOnlyAfterShutdown
<1> QED BY <1>1, Invariance, PTL

\* shutdown_all's loop empties the table; its last clear() removes nothing.
THEOREM SweepIsComplete == Spec => []SweepMissesNothing
<1>1. IInv => SweepMissesNothing
  BY DEF IInv, SweepersKnow, SweepMissesNothing
<1> QED BY <1>1, Invariance, PTL

\* A directory without its session is that of a start that failed before there
\* was an entry (core/session.py, SessionRegistry.start).
THEOREM DirectoriesAreTracked == Spec => []DirectoriesTracked
<1>1. Init => DirectoriesTracked
  BY DEF Init, DirectoriesTracked
<1>2. DirectoriesTracked /\ IInv /\ [Next]_vars => DirectoriesTracked'
  <2> SUFFICES ASSUME DirectoriesTracked, IInv, [Next]_vars PROVE DirectoriesTracked'
    OBVIOUS
  <2>1. ASSUME NEW s \in Sessions,
               UNCHANGED start \/ (start[s] = "spawning" /\ s \notin registered'
                                    /\ start' = [start EXCEPT ![s] = "failed"]),
               UNCHANGED tableVars \/ Drop(s)
        PROVE  DirectoriesTracked'
    BY <2>1 DEF DirectoriesTracked, Drop, tableVars, IInv, TypeOK
  <2>2. ASSUME NEW s \in Sessions, StartSteps(s) PROVE DirectoriesTracked'
    <3>1. CASE SpawnFails(s)
      BY <2>1, <3>1 DEF SpawnFails, Drop
    <3>2. CASE SpawnSucceeds(s) \/ StartRefused(s) \/ StartConfigFails(s)
      BY <3>2 DEF SpawnSucceeds, StartRefused, StartConfigFails, DirectoriesTracked, tableVars,
                  IInv, TypeOK
    <3>3. CASE \E P \in SUBSET Ports : StartAdmitted(s, P)
      BY <3>3 DEF StartAdmitted, DirectoriesTracked, IInv, TypeOK
    <3> QED BY <2>2, <3>1, <3>2, <3>3 DEF StartSteps
  <2>3. ASSUME NEW s \in Sessions, ChildSteps(s) PROVE DirectoriesTracked'
    BY <2>1, <2>3 DEF ChildSteps, ChildExits, WatchDrains, OnExit, DrainFails
  <2>4. ASSUME NEW c \in Calls, NEW o, NEW s \in Sessions, StopCompletes(c, o, s)
        PROVE  DirectoriesTracked'
    BY <2>1, <2>4 DEF StopCompletes
  <2>5. ASSUME NEW c \in Calls, NEW o, NEW s \in Sessions, NEW f, Call(c, o, s, f)
        PROVE  DirectoriesTracked'
    BY <2>1, <2>4, <2>5 DEF Call, CallFindsNothing, CallFindsTerminal, CallFindsUnspawned,
                            CallFindsDead, CallSignals
  <2>6. ASSUME NEW c \in Calls, CallSteps(c) PROVE DirectoriesTracked'
    <3>1. CASE ChildGone(c)
      BY <2>4, <3>1 DEF ChildGone, IInv, TypeOK, WaitersKnow
    <3>2. CASE Terminate(c) \/ Kill(c) \/ GiveUp(c) \/ CancelCall(c)
      BY <3>2 DEF Terminate, Kill, GiveUp, CancelCall, DirectoriesTracked, tableVars
    <3> QED BY <2>5, <2>6, <3>1, <3>2 DEF CallSteps, Stop, Remove
  <2>7. ASSUME NEW c \in Calls, SweepSteps(c) PROVE DirectoriesTracked'
    <3>1. ASSUME NEW s \in Sessions,
                 SweepsTerminal(c, s) \/ SweepsUnspawned(c, s) \/ SweepsDead(c, s)
                 \/ SweepSignals(c, s)
          PROVE  DirectoriesTracked'
      BY <2>1, <2>4, <3>1 DEF SweepsTerminal, SweepsUnspawned, SweepsDead, SweepSignals
    <3>2. CASE SweepBegins(c) \/ SweepEnds(c) \/ SweepAborts(c)
      BY <3>2 DEF SweepBegins, SweepEnds, SweepAborts, Drop, DirectoriesTracked, tableVars
    <3> QED BY <2>7, <3>1, <3>2 DEF SweepSteps
  <2>8. CASE UNCHANGED vars
    BY <2>8 DEF vars, tableVars, DirectoriesTracked
  <2> QED BY <2>2, <2>3, <2>6, <2>7, <2>8 DEF Next
<1> QED BY <1>1, <1>2, Invariance, PTL DEF Spec

\* What TerminalIsFinal asks of one step.
VerdictsKept == \A s \in registered : status[s] \in Terminal => status'[s] = status[s]

LEMMA CallKeepsVerdicts ==
    ASSUME IInv, NEW c \in Calls, CallSteps(c)
    PROVE  VerdictsKept
<1> USE DEF IInv, TypeOK, WaitersKnow, VerdictsKept, StopBegins, StopCompletes,
            RecordStop, Settled, Terminal, entryVars
<1>1. ASSUME NEW s \in Sessions, NEW o \in Operations, NEW f \in BOOLEAN, Call(c, o, s, f)
      PROVE  VerdictsKept
  BY <1>1 DEF Call, CallFindsNothing, CallFindsTerminal, CallFindsUnspawned,
              CallFindsDead, CallSignals
<1>2. CASE \E s \in Sessions, f \in BOOLEAN : Stop(c, s, f)
  BY <1>1, <1>2 DEF Stop, Operations
<1>3. CASE \E s \in Sessions : Remove(c, s)
  BY <1>1, <1>3 DEF Remove, Operations
<1>4. CASE ChildGone(c) \/ Terminate(c) \/ Kill(c) \/ GiveUp(c) \/ CancelCall(c)
  BY <1>4 DEF ChildGone, Terminate, Kill, GiveUp, CancelCall, Waiting
<1> QED BY <1>2, <1>3, <1>4 DEF CallSteps

\* The status of a stopped or failed session in the table never changes.
THEOREM TerminalStaysFinal == Spec => TerminalIsFinal
<1>1. IInv /\ [Next]_vars => [VerdictsKept]_vars
  <2> SUFFICES ASSUME IInv, Next PROVE VerdictsKept
    OBVIOUS
  <2>1. ASSUME NEW s \in Sessions, StartSteps(s) PROVE VerdictsKept
    BY <2>1 DEF IInv, TypeOK, PhasesAgree, VerdictIsReal, VerdictsKept, Terminal, entryVars,
                StartSteps, StartAdmitted, StartRefused, StartConfigFails,
                SpawnSucceeds, SpawnFails
  <2>2. ASSUME NEW s \in Sessions, ChildSteps(s) PROVE VerdictsKept
    BY <2>2 DEF IInv, TypeOK, FailureWasReported, VerdictIsReal, VerdictsKept, Terminal,
                entryVars, ChildSteps, ChildExits, WatchDrains, OnExit, ExitStatus, DrainFails
  <2>3. ASSUME NEW c \in Calls, SweepSteps(c) PROVE VerdictsKept
    BY <2>3 DEF IInv, TypeOK, VerdictsKept, Terminal, Settled, StopBegins, StopCompletes,
                RecordStop, entryVars, SweepSteps, SweepsTerminal, SweepsUnspawned,
                SweepsDead, SweepSignals, Visits, SweepBegins, SweepEnds, SweepAborts
  <2> QED BY <2>1, <2>2, <2>3, CallKeepsVerdicts DEF Next
<1>2. TerminalIsFinal <=> [][VerdictsKept]_vars
  BY DEF TerminalIsFinal, VerdictsKept
<1> QED BY <1>1, <1>2, Invariance, PTL DEF Spec

----------------------------------------------------------------------------
(* Without the two disturbances that make orphans there are none. *)

\* A shutdown does not meet a start that awaits its spawn.
QuietShutdown == shutdown => \A s \in Sessions : start[s] # "spawning"

QuietInv == QuietShutdown /\ NoOrphan

LEMMA CallKeepsQuiet ==
    ASSUME IInv, QuietInv, NEW c \in Calls, CallSteps(c)
    PROVE  QuietInv'
<1> USE DEF IInv, TypeOK, VerdictIsReal, QuietInv, QuietShutdown, NoOrphan,
            StopCompletes, Settled, Drop, Terminal, tableVars, runnerVars
<1>1. ASSUME NEW s \in Sessions, NEW o \in Operations, NEW f \in BOOLEAN, Call(c, o, s, f)
      PROVE  QuietInv'
  BY <1>1 DEF Call, CallFindsNothing, CallFindsTerminal, CallFindsUnspawned,
              CallFindsDead, CallSignals
<1>2. CASE \E s \in Sessions, f \in BOOLEAN : Stop(c, s, f)
  BY <1>1, <1>2 DEF Stop, Operations
<1>3. CASE \E s \in Sessions : Remove(c, s)
  BY <1>1, <1>3 DEF Remove, Operations
<1>4. CASE ChildGone(c) \/ Terminate(c) \/ Kill(c) \/ GiveUp(c) \/ CancelCall(c)
  BY <1>4 DEF ChildGone, Terminate, Kill, GiveUp, CancelCall
<1> QED BY <1>2, <1>3, <1>4 DEF CallSteps

\* When no shutdown overlaps a start or is cancelled, every live child is
\* managed by an entry of the table.
THEOREM NoOrphanInQuiet ==
    ASSUME "overlap" \notin Disturbances, "abort" \notin Disturbances
    PROVE  Spec => []NoOrphan
<1>1. Init => QuietInv
  BY DEF Init, QuietInv, QuietShutdown, NoOrphan
<1>2. IInv /\ QuietInv /\ [Next]_vars => QuietInv'
  <2> SUFFICES ASSUME IInv, QuietInv, [Next]_vars PROVE QuietInv'
    OBVIOUS
  <2>1. ASSUME NEW s \in Sessions, StartSteps(s) PROVE QuietInv'
    BY <2>1 DEF IInv, TypeOK, PhasesAgree, PendingIsListed, Pending,
                QuietInv, QuietShutdown, NoOrphan, tableVars, runnerVars,
                StartSteps, StartAdmitted, Admits, StartRefused, StartConfigFails,
                SpawnSucceeds, SpawnFails
  <2>2. ASSUME NEW s \in Sessions, ChildSteps(s) PROVE QuietInv'
    BY <2>2 DEF IInv, TypeOK, QuietInv, QuietShutdown, NoOrphan, tableVars,
                ChildSteps, ChildExits, WatchDrains, OnExit, DrainFails
  <2>3. ASSUME NEW c \in Calls, NEW s \in Sessions,
               SweepsTerminal(c, s) \/ SweepsUnspawned(c, s)
                   \/ SweepsDead(c, s) \/ SweepSignals(c, s)
        PROVE  QuietInv'
    BY <2>3 DEF IInv, TypeOK, VerdictIsReal, QuietInv, QuietShutdown, NoOrphan,
                StopCompletes, Settled, Drop, Terminal, tableVars, runnerVars,
                SweepsTerminal, SweepsUnspawned, SweepsDead, SweepSignals, Visits
  <2>4. ASSUME NEW c \in Calls, SweepBegins(c) \/ SweepEnds(c) \/ SweepAborts(c)
        PROVE  QuietInv'
    BY <2>4 DEF IInv, TypeOK, SweepersKnow, QuietInv, QuietShutdown, NoOrphan,
                tableVars, runnerVars, SweepBegins, SweepEnds, SweepAborts
  <2>5. ASSUME NEW c \in Calls, SweepSteps(c) PROVE QuietInv'
    BY <2>3, <2>4, <2>5 DEF SweepSteps
  <2>6. CASE UNCHANGED vars
    BY <2>6 DEF QuietInv, QuietShutdown, NoOrphan, vars, tableVars, runnerVars
  <2> QED BY <2>1, <2>2, <2>5, <2>6, CallKeepsQuiet DEF Next
<1>3. QuietInv => NoOrphan
  BY DEF QuietInv
<1> QED BY <1>1, <1>2, <1>3, Invariance, PTL DEF Spec

----------------------------------------------------------------------------
(* SessionRegistry implements PortLeases *)

Apart == \A s, t \in Sessions :
             s # t /\ Holds(s) /\ Holds(t) => leases[s] \cap leases[t] = {}

AbstractState == [s \in Sessions |-> LeaseState(s)]
AbstractHeld == [s \in Sessions |-> IF Holds(s) THEN leases[s] ELSE {}]

\* A step that leaves the abstract state of all sessions but s alone is a
\* step of PortLeases if it is one for s.
LEMMA OneSessionSteps ==
    ASSUME NEW s \in Sessions,
           \A t \in Sessions \ {s} :
               AbstractState'[t] = AbstractState[t] /\ AbstractHeld'[t] = AbstractHeld[t],
           \/ /\ AbstractState[s] = "new"
              /\ AbstractState'[s] = "granted"
              /\ AbstractHeld'[s] \in SUBSET Ports
              /\ \A t \in Sessions : AbstractHeld[t] \cap AbstractHeld'[s] = {}
           \/ /\ AbstractState[s] = "granted"
              /\ AbstractState'[s] = "live"
              /\ AbstractHeld'[s] = AbstractHeld[s]
           \/ /\ AbstractState[s] \in {"granted", "live"}
              /\ AbstractState'[s] = "over"
              /\ AbstractHeld'[s] \in {AbstractHeld[s], {}}
           \/ /\ AbstractState[s] = "over"
              /\ AbstractState'[s] = "over"
              /\ AbstractHeld'[s] = {}
           \/ /\ AbstractState'[s] = AbstractState[s]
              /\ AbstractHeld'[s] = AbstractHeld[s]
    PROVE  [PL!Next]_PL!vars
<1> DEFINE as == AbstractState
           ah == AbstractHeld
<1>1. as' = [as EXCEPT ![s] = as'[s]] /\ ah' = [ah EXCEPT ![s] = ah'[s]]
  BY DEF AbstractState, AbstractHeld
<1>2. CASE /\ as[s] = "new"
           /\ as'[s] = "granted"
           /\ ah'[s] \in SUBSET Ports
           /\ \A t \in Sessions : ah[t] \cap ah'[s] = {}
  <2>1. PICK P \in SUBSET Ports : P = ah'[s]
    BY <1>2
  <2>2. PL!Acquire(s, P)
    BY <1>1, <1>2, <2>1 DEF PL!Acquire, AbstractState, AbstractHeld
  <2> QED BY <2>2 DEF PL!Next
<1>3. CASE as[s] = "granted" /\ as'[s] = "live" /\ ah'[s] = ah[s]
  <2>1. PL!Launch(s)
    BY <1>1, <1>3 DEF PL!Launch, AbstractState, AbstractHeld
  <2> QED BY <2>1 DEF PL!Next
<1>4. CASE as[s] \in {"granted", "live"} /\ as'[s] = "over" /\ ah'[s] \in {ah[s], {}}
  <2>1. PL!End(s)
    BY <1>1, <1>4 DEF PL!End, AbstractState, AbstractHeld
  <2> QED BY <2>1 DEF PL!Next
<1>5. CASE as[s] = "over" /\ as'[s] = "over" /\ ah'[s] = {}
  <2>1. PL!Release(s)
    BY <1>1, <1>5 DEF PL!Release, AbstractState, AbstractHeld
  <2> QED BY <2>1 DEF PL!Next
<1>6. CASE as'[s] = as[s] /\ ah'[s] = ah[s]
  BY <1>1, <1>6 DEF PL!vars, AbstractState, AbstractHeld
<1> QED BY <1>2, <1>3, <1>4, <1>5, <1>6


LEMMA StartMaps ==
    ASSUME IInv, Apart, NEW s \in Sessions, StartSteps(s)
    PROVE  [PL!Next]_PL!vars /\ Apart'
<1> USE DEF IInv, TypeOK, PhasesAgree, Apart, Holds, LeaseState,
            AbstractState, AbstractHeld, tableVars, entryVars, runnerVars
<1>1. ASSUME NEW P \in SUBSET Ports, StartAdmitted(s, P)
      PROVE  [PL!Next]_PL!vars /\ Apart'
  <2>1. \A t \in Sessions : Holds(t) => t \in registered
    BY <1>1 DEF StartAdmitted, Admits, PendingIsListed, Pending
  <2>2. AbstractState[s] = "new" /\ AbstractState'[s] = "granted" /\ AbstractHeld'[s] = P
    BY <1>1 DEF StartAdmitted
  <2>3. \A t \in Sessions : AbstractHeld[t] \cap P = {}
    BY <1>1, <2>1 DEF StartAdmitted, Admits, PortInUse
  <2>4. \A t \in Sessions \ {s} :
            AbstractState'[t] = AbstractState[t] /\ AbstractHeld'[t] = AbstractHeld[t]
    BY <1>1 DEF StartAdmitted
  <2>5. Apart'
    BY <1>1, <2>3, <2>4 DEF StartAdmitted
  <2> QED BY <2>2, <2>3, <2>4, <2>5, OneSessionSteps
<1>2. CASE StartRefused(s) \/ StartConfigFails(s)
  BY <1>2, OneSessionSteps DEF StartRefused, StartConfigFails
<1>3. CASE SpawnSucceeds(s)
  BY <1>3, OneSessionSteps DEF SpawnSucceeds
<1>4. CASE SpawnFails(s)
  BY <1>4, OneSessionSteps DEF SpawnFails
<1> QED BY <1>1, <1>2, <1>3, <1>4 DEF StartSteps

LEMMA ChildMaps ==
    ASSUME IInv, Apart, NEW s \in Sessions, ChildSteps(s)
    PROVE  [PL!Next]_PL!vars /\ Apart'
<1> USE DEF IInv, TypeOK, PhasesAgree, Apart, Holds, LeaseState,
            AbstractState, AbstractHeld, tableVars, entryVars, runnerVars
<1>1. CASE ChildExits(s)
  BY <1>1, OneSessionSteps DEF ChildExits
<1>2. CASE WatchDrains(s) \/ OnExit(s) \/ DrainFails(s)
  BY <1>2, OneSessionSteps DEF WatchDrains, OnExit, DrainFails
<1> QED BY <1>1, <1>2 DEF ChildSteps

\* A completed stop, of whichever operation, releases the leases.
LEMMA CompletionMaps ==
    ASSUME IInv, Apart, NEW c \in Calls, NEW o \in Operations, NEW s \in Sessions,
           child[s] = "dead", StopCompletes(c, o, s)
    PROVE  [PL!Next]_PL!vars /\ Apart'
<1> USE DEF IInv, TypeOK, PhasesAgree, Apart, Holds, LeaseState,
            AbstractState, AbstractHeld, tableVars, entryVars, runnerVars
<1>1. AbstractState[s] = "over" /\ AbstractState'[s] = "over" /\ AbstractHeld'[s] = {}
  BY DEF StopCompletes, RecordStop, Drop
<1>2. \A t \in Sessions \ {s} :
          AbstractState'[t] = AbstractState[t] /\ AbstractHeld'[t] = AbstractHeld[t]
  BY DEF StopCompletes, RecordStop, Drop
<1>3. Apart'
  BY DEF StopCompletes, RecordStop, Drop
<1> QED BY <1>1, <1>2, <1>3, OneSessionSteps

LEMMA CallMaps ==
    ASSUME IInv, Apart, NEW c \in Calls, NEW o \in {"stop", "remove"},
           NEW s \in Sessions, NEW f \in BOOLEAN, Call(c, o, s, f)
    PROVE  [PL!Next]_PL!vars /\ Apart'
<1>1. CASE CallFindsDead(c, o, s)
  BY <1>1, CompletionMaps DEF CallFindsDead, Operations
<1> USE DEF IInv, TypeOK, PhasesAgree, Apart, Holds, LeaseState,
            AbstractState, AbstractHeld, tableVars, entryVars, runnerVars
<1>2. CASE CallFindsTerminal(c, o, s)
  BY <1>2, OneSessionSteps DEF CallFindsTerminal, VerdictIsReal, Settled, Drop
<1>3. CASE CallFindsNothing(c, o, s) \/ CallFindsUnspawned(c, o, s) \/ CallSignals(c, o, s, f)
  BY <1>3, OneSessionSteps DEF CallFindsNothing, CallFindsUnspawned, CallSignals, StopBegins
<1> QED BY <1>1, <1>2, <1>3 DEF Call

LEMMA WaitMaps ==
    ASSUME IInv, Apart, NEW c \in Calls,
           ChildGone(c) \/ Terminate(c) \/ Kill(c) \/ GiveUp(c) \/ CancelCall(c)
    PROVE  [PL!Next]_PL!vars /\ Apart'
<1>1. CASE ChildGone(c)
  BY <1>1, CompletionMaps DEF ChildGone, IInv, TypeOK, WaitersKnow
<1>2. CASE Terminate(c) \/ Kill(c) \/ GiveUp(c) \/ CancelCall(c)
  BY <1>2 DEF Terminate, Kill, GiveUp, CancelCall, Apart, Holds, LeaseState, PL!vars,
              tableVars, entryVars, runnerVars
<1> QED BY <1>1, <1>2

LEMMA SweepMaps ==
    ASSUME IInv, Apart, NEW c \in Calls, SweepSteps(c)
    PROVE  [PL!Next]_PL!vars /\ Apart'
<1>1. ASSUME NEW s \in Sessions, SweepsDead(c, s)
      PROVE  [PL!Next]_PL!vars /\ Apart'
  BY <1>1, CompletionMaps DEF SweepsDead, Operations
<1> USE DEF IInv, TypeOK, PhasesAgree, Apart, Holds, LeaseState,
            AbstractState, AbstractHeld, tableVars, entryVars, runnerVars
<1>2. ASSUME NEW s \in Sessions, SweepsTerminal(c, s)
      PROVE  [PL!Next]_PL!vars /\ Apart'
  BY <1>2, OneSessionSteps DEF SweepsTerminal, Visits, VerdictIsReal, Settled, Drop
<1>3. ASSUME NEW s \in Sessions, SweepsUnspawned(c, s) \/ SweepSignals(c, s)
      PROVE  [PL!Next]_PL!vars /\ Apart'
  BY <1>3, OneSessionSteps DEF SweepsUnspawned, SweepSignals, Visits, StopBegins, Drop
<1>4. CASE SweepBegins(c)
  BY <1>4 DEF SweepBegins, PL!vars
<1>5. CASE SweepEnds(c)
  BY <1>5 DEF SweepEnds, SweepersKnow, PL!vars
<1>6. CASE SweepAborts(c)
  BY <1>6, OneSessionSteps DEF SweepAborts, WaitersKnow, Drop
<1> QED BY <1>1, <1>2, <1>3, <1>4, <1>5, <1>6 DEF SweepSteps

\* Seen through LeaseState and Holds, the registry only ever acquires ports
\* nobody holds, and gives none back while the child lives.
THEOREM RegistryImplementsPortLeases == Spec => ImplementsPortLeases
<1>1. Init => PL!Init /\ Apart
  BY DEF Init, PL!Init, Apart, LeaseState, Holds
<1>2. IInv /\ Apart /\ [Next]_vars => [PL!Next]_PL!vars /\ Apart'
  <2> SUFFICES ASSUME IInv, Apart, [Next]_vars PROVE [PL!Next]_PL!vars /\ Apart'
    OBVIOUS
  <2>1. CASE \E s \in Sessions : StartSteps(s) \/ ChildSteps(s)
    BY <2>1, StartMaps, ChildMaps
  <2>2. ASSUME NEW c \in Calls, CallSteps(c) PROVE [PL!Next]_PL!vars /\ Apart'
    BY <2>2, CallMaps, WaitMaps DEF CallSteps, Stop, Remove
  <2>3. ASSUME NEW c \in Calls, SweepSteps(c) PROVE [PL!Next]_PL!vars /\ Apart'
    BY <2>3, SweepMaps
  <2>4. CASE UNCHANGED vars
    BY <2>4 DEF vars, tableVars, entryVars, runnerVars, PL!vars, Apart, Holds, LeaseState
  <2> QED BY <2>1, <2>2, <2>3, <2>4 DEF Next
<1> QED BY <1>1, <1>2, Invariance, PTL DEF Spec, PL!Spec, ImplementsPortLeases

============================================================================
