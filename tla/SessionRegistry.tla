-------------------------- MODULE SessionRegistry --------------------------
(***************************************************************************)
(* The session registry of the server: the table of managed mitmproxy      *)
(* subprocesses, their port leases and their private directories, with the *)
(* coroutines that start, stop, remove and sweep sessions running          *)
(* interleaved on one asyncio event loop and the children dying whenever   *)
(* they please.                                                            *)
(*                                                                         *)
(* One action is one stretch of a coroutine between two of its awaits, so  *)
(* an action is atomic exactly where the event loop makes it so.  The one  *)
(* stretch spread over several actions is the loop body of shutdown_all:   *)
(* while a call's pc is "sweep" it holds the event loop (LoopFree) and     *)
(* only the operating system moves.                                        *)
(***************************************************************************)
EXTENDS Naturals, FiniteSets

CONSTANTS
    Sessions,       \* the session ids start() can hand out, one per admitted start
    Ports,          \* TCP ports a session can ask for
    Calls,          \* concurrent callers of stop, remove and shutdown_all
    NoSession,      \* the target of a caller that is not stopping a session
    Disturbances    \* what the environment may do, see AllDisturbances

(***************************************************************************)
(* "cancel"    a caller abandons start, stop or remove (CancelledError)    *)
(* "abort"     the task running shutdown_all is cancelled                  *)
(* "overlap"   shutdown_all begins while a start still awaits its spawn    *)
(* "longline"  a child prints a line longer than the stream reader's limit *)
(* "disk"      writing config.yaml fails                                   *)
(***************************************************************************)
AllDisturbances == {"cancel", "abort", "overlap", "longline", "disk"}

ASSUME DisturbancesAssumption == Disturbances \subseteq AllDisturbances
ASSUME NoSessionAssumption == NoSession \notin Sessions

Statuses == {"absent", "starting", "running", "stopping", "stopped", "failed"}
Terminal == {"stopped", "failed"}
ExitCodes == {"zero", "nonzero"}
Operations == {"stop", "remove", "shutdown"}
Waiting == {"sigint", "sigterm", "sigkill"}

VARIABLES
    shutdown,       \* SessionRegistry._shutdown
    registered,     \* the keys of SessionRegistry._entries
    status,         \* _Entry.state.status (an entry outlives its registration)
    exitCode,       \* _Entry.state.exit_code
    listenPorts,    \* _Entry.state.listen_ports
    leases,         \* _Entry.leased_ports
    dirs,           \* sessions whose directory exists on disk
    start,          \* where the start() that made each session is
    child,          \* the subprocess: not spawned, alive, dead and reaped
    code,           \* its exit code once dead
    watch,          \* the runner's _watch task
    pc,             \* where each caller is
    op,             \* what it called
    target,         \* the session it is stopping
    force,          \* its force flag
    todo,           \* shutdown_all's snapshot of ids not yet visited
    ok              \* its last call returned, it did not raise

entryVars == <<status, exitCode, listenPorts, leases>>
tableVars == <<registered, dirs>>
runnerVars == <<child, code, watch>>
callVars == <<pc, op, target, force, todo, ok>>
vars == <<shutdown, tableVars, entryVars, start, runnerVars, callVars>>

TypeOK ==
    /\ shutdown \in BOOLEAN
    /\ registered \in SUBSET Sessions
    /\ status \in [Sessions -> Statuses]
    /\ exitCode \in [Sessions -> ExitCodes \cup {"none"}]
    /\ listenPorts \in [Sessions -> SUBSET Ports]
    /\ leases \in [Sessions -> SUBSET Ports]
    /\ dirs \in SUBSET Sessions
    /\ start \in [Sessions -> {"idle", "spawning", "done", "refused", "failed"}]
    /\ child \in [Sessions -> {"none", "alive", "dead"}]
    /\ code \in [Sessions -> ExitCodes]
    /\ watch \in [Sessions -> {"none", "waiting", "draining", "done"}]
    /\ pc \in [Calls -> {"idle", "sweep"} \cup Waiting]
    /\ op \in [Calls -> Operations]
    /\ target \in [Calls -> Sessions \cup {NoSession}]
    /\ force \in [Calls -> BOOLEAN]
    /\ todo \in [Calls -> SUBSET Sessions]
    /\ ok \in [Calls -> BOOLEAN]

Init ==
    /\ shutdown = FALSE
    /\ registered = {}
    /\ status = [s \in Sessions |-> "absent"]
    /\ exitCode = [s \in Sessions |-> "none"]
    /\ listenPorts = [s \in Sessions |-> {}]
    /\ leases = [s \in Sessions |-> {}]
    /\ dirs = {}
    /\ start = [s \in Sessions |-> "idle"]
    /\ child = [s \in Sessions |-> "none"]
    /\ code = [s \in Sessions |-> "zero"]
    /\ watch = [s \in Sessions |-> "none"]
    /\ pc = [c \in Calls |-> "idle"]
    /\ op = [c \in Calls |-> "stop"]
    /\ target = [c \in Calls |-> NoSession]
    /\ force = [c \in Calls |-> FALSE]
    /\ todo = [c \in Calls |-> {}]
    /\ ok = [c \in Calls |-> FALSE]

(***************************************************************************)
(* Some definitions below are preceded by faulty variants of themselves,   *)
(* marked "Variant": each makes a mistake one could make in that code, and *)
(* each breaks the property it names.                                      *)
(***************************************************************************)

\* No coroutine is between two awaits: the event loop may run another one.
LoopFree == \A c \in Calls : pc[c] # "sweep"

----------------------------------------------------------------------------
(* start() *)

\* Variant, breaks LeaseExclusive: only running sessions count.
PortInUseByRunning(p) ==
    \E s \in registered : status[s] = "running" /\ p \in leases[s]

\* Variant, breaks NoPortClash: sessions being stopped do not count.
PortInUseUnlessStopping(p) ==
    \E s \in registered : status[s] # "stopping" /\ p \in leases[s]

\* A port that some registered entry leases cannot be leased again.
PortInUse(p) == \E s \in registered : p \in leases[s]

\* Variant, breaks SweepMissesNothing: no shutdown check.
AdmitsAlways(P) == \A p \in P : ~PortInUse(p)

Admits(P) ==
    /\ ~shutdown
    /\ \A p \in P : ~PortInUse(p)

\* Admission.  Checks, directory, entry and lease happen without an await.
\* The bind probe and the validity of the request are the environment's
\* choice: whatever they answer, StartRefused is possible as well.
StartAdmitted(s, P) ==
    /\ LoopFree
    /\ start[s] = "idle"
    /\ Admits(P)
    /\ start' = [start EXCEPT ![s] = "spawning"]
    /\ registered' = registered \cup {s}
    /\ dirs' = dirs \cup {s}
    /\ status' = [status EXCEPT ![s] = "starting"]
    /\ listenPorts' = [listenPorts EXCEPT ![s] = P]
    /\ leases' = [leases EXCEPT ![s] = P]
    /\ UNCHANGED <<shutdown, exitCode, runnerVars, callVars>>

\* Registry shut down, reserved option, privileged mode, mismatched hosts,
\* leased or occupied port: all raise before anything is created.
StartRefused(s) ==
    /\ LoopFree
    /\ start[s] = "idle"
    /\ start' = [start EXCEPT ![s] = "refused"]
    /\ UNCHANGED <<shutdown, tableVars, entryVars, runnerVars, callVars>>

\* The directory exists already when write_config raises.
StartConfigFails(s) ==
    /\ "disk" \in Disturbances
    /\ LoopFree
    /\ start[s] = "idle"
    /\ ~shutdown
    /\ start' = [start EXCEPT ![s] = "refused"]
    /\ dirs' = dirs \cup {s}
    /\ UNCHANGED <<shutdown, registered, entryVars, runnerVars, callVars>>

\* create_subprocess_exec returns; start() runs on to its return statement
\* and overwrites whatever status the entry got in the meantime.
SpawnSucceeds(s) ==
    /\ LoopFree
    /\ start[s] = "spawning"
    /\ start' = [start EXCEPT ![s] = "done"]
    /\ child' = [child EXCEPT ![s] = "alive"]
    /\ watch' = [watch EXCEPT ![s] = "waiting"]
    /\ status' = [status EXCEPT ![s] = "running"]
    /\ UNCHANGED <<shutdown, tableVars, exitCode, listenPorts, leases, code, callVars>>

\* Variant, breaks DirectoriesTracked: the directory is forgotten.
SpawnFailsKeepingDirectory(s) ==
    /\ LoopFree
    /\ start[s] = "spawning"
    /\ start' = [start EXCEPT ![s] = "failed"]
    /\ registered' = registered \ {s}
    /\ UNCHANGED <<shutdown, dirs, entryVars, runnerVars, callVars>>

\* OSError, ValueError or CancelledError (asyncio kills and reaps a
\* half-made child itself): start() undoes its registration.
SpawnFails(s) ==
    /\ LoopFree
    /\ start[s] = "spawning"
    /\ start' = [start EXCEPT ![s] = "failed"]
    /\ registered' = registered \ {s}
    /\ dirs' = dirs \ {s}
    /\ UNCHANGED <<shutdown, entryVars, runnerVars, callVars>>

----------------------------------------------------------------------------
(* ProcessRunner.stop() and what its callers do when it returns *)

\* _finish cancels the readers.  A _watch still awaiting the process dies
\* without notifying; one already draining swallows the cancellation.
CancelReaders(s) ==
    watch' = [watch EXCEPT ![s] = IF @ = "waiting" THEN "done" ELSE @]

\* Variant, breaks OkMeansGone: a session being stopped counts as stopped.
SettledOrStopping(s) == status[s] \in Terminal \cup {"stopping"}

\* The session needs no stopping any more.
Settled(s) == status[s] \in Terminal

\* Variant, breaks LiveChildHoldsLease: the ports are released too early.
StopBeginsReleasing(s) ==
    /\ status' = [status EXCEPT ![s] = "stopping"]
    /\ leases' = [leases EXCEPT ![s] = {}]
    /\ UNCHANGED <<exitCode, listenPorts>>

\* The entry when runner.stop() is called.
StopBegins(s) ==
    /\ status' = [status EXCEPT ![s] = "stopping"]
    /\ UNCHANGED <<exitCode, listenPorts, leases>>

\* The entry after runner.stop() returned: exit code, STOPPED, leases gone.
RecordStop(s) ==
    /\ CancelReaders(s)
    /\ exitCode' = [exitCode EXCEPT ![s] = code[s]]
    /\ status' = [status EXCEPT ![s] = "stopped"]
    /\ leases' = [leases EXCEPT ![s] = {}]
    /\ UNCHANGED listenPorts

\* Directory cleanup and _entries.pop.
Drop(s) ==
    /\ registered' = registered \ {s}
    /\ dirs' = dirs \ {s}

\* Call c, an operation o on s, returns.
Return(c, o, s) ==
    /\ pc' = [pc EXCEPT ![c] = "idle"]
    /\ op' = [op EXCEPT ![c] = o]
    /\ target' = [target EXCEPT ![c] = s]
    /\ force' = [force EXCEPT ![c] = FALSE]
    /\ todo' = [todo EXCEPT ![c] = {}]
    /\ ok' = [ok EXCEPT ![c] = TRUE]

\* Call c raises; which error it is does not matter below.
Raise(c) ==
    /\ pc' = [pc EXCEPT ![c] = "idle"]
    /\ op' = [op EXCEPT ![c] = "stop"]
    /\ target' = [target EXCEPT ![c] = NoSession]
    /\ force' = [force EXCEPT ![c] = FALSE]
    /\ todo' = [todo EXCEPT ![c] = {}]
    /\ ok' = [ok EXCEPT ![c] = FALSE]

\* The rest of operation o of call c once runner.stop() has returned for s:
\* stop returns, remove drops the entry, the sweep drops it and goes on.
StopCompletes(c, o, s) ==
    /\ RecordStop(s)
    /\ \/ /\ o = "stop"
          /\ Return(c, o, s)
          /\ UNCHANGED tableVars
       \/ /\ o = "remove"
          /\ Return(c, o, s)
          /\ Drop(s)
       \/ /\ o = "shutdown"
          /\ Drop(s)
          /\ pc' = [pc EXCEPT ![c] = "sweep"]
          /\ target' = [target EXCEPT ![c] = NoSession]
          /\ todo' = [todo EXCEPT ![c] = @ \ {s}]
          /\ UNCHANGED <<op, force, ok>>
    /\ UNCHANGED <<shutdown, start, child, code>>

----------------------------------------------------------------------------
(* stop() and remove() up to their first await *)

\* SESSION_NOT_FOUND.
CallFindsNothing(c, o, s) ==
    /\ s \notin registered
    /\ Raise(c)
    /\ UNCHANGED <<shutdown, tableVars, entryVars, start, runnerVars>>

\* stop() on a stopped or failed session returns at once and touches
\* nothing; remove() skips the stop and drops the entry.
CallFindsTerminal(c, o, s) ==
    /\ s \in registered
    /\ Settled(s)
    /\ Return(c, o, s)
    /\ \/ o = "stop" /\ UNCHANGED tableVars
       \/ o = "remove" /\ Drop(s)
    /\ UNCHANGED <<shutdown, entryVars, start, runnerVars>>

\* The spawn is still awaited: runner.stop() raises "process not started"
\* after the status became STOPPING.
CallFindsUnspawned(c, o, s) ==
    /\ s \in registered
    /\ ~Settled(s)
    /\ child[s] = "none"
    /\ StopBegins(s)
    /\ Raise(c)
    /\ UNCHANGED <<shutdown, tableVars, start, runnerVars>>

\* The child is reaped already but _watch has not reported it.
CallFindsDead(c, o, s) ==
    /\ s \in registered
    /\ ~Settled(s)
    /\ child[s] = "dead"
    /\ StopCompletes(c, o, s)

\* Variant, breaks NoOrphan: remove drops the entry before the wait.
CallSignalsDropping(c, o, s, f) ==
    /\ s \in registered
    /\ ~Settled(s)
    /\ child[s] = "alive"
    /\ StopBegins(s)
    /\ IF o = "remove" THEN Drop(s) ELSE UNCHANGED tableVars
    /\ pc' = [pc EXCEPT ![c] = "sigint"]
    /\ op' = [op EXCEPT ![c] = o]
    /\ target' = [target EXCEPT ![c] = s]
    /\ force' = [force EXCEPT ![c] = f]
    /\ ok' = [ok EXCEPT ![c] = FALSE]
    /\ UNCHANGED <<shutdown, start, runnerVars, todo>>

\* SIGINT is sent and the wait for the child begins.
CallSignals(c, o, s, f) ==
    /\ s \in registered
    /\ ~Settled(s)
    /\ child[s] = "alive"
    /\ StopBegins(s)
    /\ pc' = [pc EXCEPT ![c] = "sigint"]
    /\ op' = [op EXCEPT ![c] = o]
    /\ target' = [target EXCEPT ![c] = s]
    /\ force' = [force EXCEPT ![c] = f]
    /\ ok' = [ok EXCEPT ![c] = FALSE]
    /\ UNCHANGED <<shutdown, tableVars, start, runnerVars, todo>>

Call(c, o, s, f) ==
    /\ LoopFree
    /\ pc[c] = "idle"
    /\ \/ CallFindsNothing(c, o, s)
       \/ CallFindsTerminal(c, o, s)
       \/ CallFindsUnspawned(c, o, s)
       \/ CallFindsDead(c, o, s)
       \/ CallSignals(c, o, s, f)

Stop(c, s, f) == Call(c, "stop", s, f)

Remove(c, s) == Call(c, "remove", s, TRUE)

----------------------------------------------------------------------------
(* the awaits of ProcessRunner.stop(), whoever called it *)

\* proc.wait() returns.
ChildGone(c) ==
    /\ LoopFree
    /\ pc[c] \in Waiting
    /\ child[target[c]] = "dead"
    /\ StopCompletes(c, op[c], target[c])

\* The wait after SIGINT times out: SIGTERM.  A child that died is possibly
\* not reaped yet, so a timeout may come late.
Terminate(c) ==
    /\ LoopFree
    /\ pc[c] = "sigint"
    /\ pc' = [pc EXCEPT ![c] = "sigterm"]
    /\ UNCHANGED <<shutdown, tableVars, entryVars, start, runnerVars,
                   op, target, force, todo, ok>>

\* Variant, breaks CallReturns: SIGTERM is sent again.
KillBySigterm(c) ==
    /\ LoopFree
    /\ pc[c] = "sigterm"
    /\ force[c]
    /\ UNCHANGED vars

\* The wait after SIGTERM times out and force is set: SIGKILL.
Kill(c) ==
    /\ LoopFree
    /\ pc[c] = "sigterm"
    /\ force[c]
    /\ pc' = [pc EXCEPT ![c] = "sigkill"]
    /\ UNCHANGED <<shutdown, tableVars, entryVars, start, runnerVars,
                   op, target, force, todo, ok>>

\* Variant, breaks VerdictIsReal: a stop that timed out is recorded.
GiveUpRecording(c) ==
    /\ LoopFree
    /\ pc[c] = "sigterm"
    /\ ~force[c]
    /\ RecordStop(target[c])
    /\ Raise(c)
    /\ UNCHANGED <<shutdown, tableVars, start, child, code>>

\* The wait after SIGTERM times out and force is not set: TimeoutError_.
\* The session stays in STOPPING.
GiveUp(c) ==
    /\ LoopFree
    /\ pc[c] = "sigterm"
    /\ ~force[c]
    /\ Raise(c)
    /\ UNCHANGED <<shutdown, tableVars, entryVars, start, runnerVars>>

\* Variant, breaks OrphansOnlyAfterShutdown: remove cleans up regardless.
CancelCallDropping(c) ==
    /\ "cancel" \in Disturbances
    /\ LoopFree
    /\ pc[c] \in Waiting
    /\ op[c] # "shutdown"
    /\ IF op[c] = "remove" THEN Drop(target[c]) ELSE UNCHANGED tableVars
    /\ Raise(c)
    /\ UNCHANGED <<shutdown, entryVars, start, runnerVars>>

\* CancelledError at the await: stop and remove just unwind.
CancelCall(c) ==
    /\ "cancel" \in Disturbances
    /\ LoopFree
    /\ pc[c] \in Waiting
    /\ op[c] # "shutdown"
    /\ Raise(c)
    /\ UNCHANGED <<shutdown, tableVars, entryVars, start, runnerVars>>

----------------------------------------------------------------------------
(* shutdown_all() *)

\* Variant, breaks ShutdownClears: the children are asked, not forced.
SweepBeginsGently(c) ==
    /\ LoopFree
    /\ pc[c] = "idle"
    /\ "overlap" \in Disturbances \/ \A s \in Sessions : start[s] # "spawning"
    /\ shutdown' = TRUE
    /\ pc' = [pc EXCEPT ![c] = "sweep"]
    /\ op' = [op EXCEPT ![c] = "shutdown"]
    /\ target' = [target EXCEPT ![c] = NoSession]
    /\ todo' = [todo EXCEPT ![c] = registered]
    /\ ok' = [ok EXCEPT ![c] = FALSE]
    /\ UNCHANGED <<force, tableVars, entryVars, start, runnerVars>>

\* The flag and the snapshot of the ids.
SweepBegins(c) ==
    /\ LoopFree
    /\ pc[c] = "idle"
    /\ "overlap" \in Disturbances \/ \A s \in Sessions : start[s] # "spawning"
    /\ shutdown' = TRUE
    /\ pc' = [pc EXCEPT ![c] = "sweep"]
    /\ op' = [op EXCEPT ![c] = "shutdown"]
    /\ force' = [force EXCEPT ![c] = TRUE]
    /\ target' = [target EXCEPT ![c] = NoSession]
    /\ todo' = [todo EXCEPT ![c] = registered]
    /\ ok' = [ok EXCEPT ![c] = FALSE]
    /\ UNCHANGED <<tableVars, entryVars, start, runnerVars>>

\* The next id whose entry still exists.
Visits(c, s) ==
    /\ pc[c] = "sweep"
    /\ s \in todo[c] \cap registered

SweepsTerminal(c, s) ==
    /\ Visits(c, s)
    /\ Settled(s)
    /\ leases' = [leases EXCEPT ![s] = {}]
    /\ Drop(s)
    /\ todo' = [todo EXCEPT ![c] = @ \ {s}]
    /\ UNCHANGED <<shutdown, status, exitCode, listenPorts, start, runnerVars,
                   pc, op, target, force, ok>>

\* runner.stop() raises "process not started": FAILED, dropped all the same.
SweepsUnspawned(c, s) ==
    /\ Visits(c, s)
    /\ ~Settled(s)
    /\ child[s] = "none"
    /\ status' = [status EXCEPT ![s] = "failed"]
    /\ Drop(s)
    /\ todo' = [todo EXCEPT ![c] = @ \ {s}]
    /\ UNCHANGED <<shutdown, exitCode, listenPorts, leases, start, runnerVars,
                   pc, op, target, force, ok>>

SweepsDead(c, s) ==
    /\ Visits(c, s)
    /\ ~Settled(s)
    /\ child[s] = "dead"
    /\ StopCompletes(c, "shutdown", s)

SweepSignals(c, s) ==
    /\ Visits(c, s)
    /\ ~Settled(s)
    /\ child[s] = "alive"
    /\ StopBegins(s)
    /\ pc' = [pc EXCEPT ![c] = "sigint"]
    /\ target' = [target EXCEPT ![c] = s]
    /\ UNCHANGED <<shutdown, tableVars, start, runnerVars, op, force, todo, ok>>

\* Every id of the snapshot visited or gone: clear what is left and return.
SweepEnds(c) ==
    /\ pc[c] = "sweep"
    /\ todo[c] \cap registered = {}
    /\ dirs' = dirs \ registered
    /\ registered' = {}
    /\ Return(c, "shutdown", NoSession)
    /\ UNCHANGED <<shutdown, entryVars, start, runnerVars>>

\* CancelledError at the await: the finally clause drops the session being
\* stopped, its child alive or not, and the sweep is over.
SweepAborts(c) ==
    /\ "abort" \in Disturbances
    /\ LoopFree
    /\ pc[c] \in Waiting
    /\ op[c] = "shutdown"
    /\ Drop(target[c])
    /\ Raise(c)
    /\ UNCHANGED <<shutdown, entryVars, start, runnerVars>>

----------------------------------------------------------------------------
(* the child and the task that watches it *)

Killed(s) == \E c \in Calls : pc[c] = "sigkill" /\ target[c] = s

\* A child exits on its own, on a signal, or is killed from outside.
ChildExits(s) ==
    /\ child[s] = "alive"
    /\ child' = [child EXCEPT ![s] = "dead"]
    /\ code' \in {[code EXCEPT ![s] = x] : x \in IF Killed(s) THEN {"nonzero"} ELSE ExitCodes}
    /\ UNCHANGED <<shutdown, tableVars, entryVars, start, watch, callVars>>

\* proc.wait() returned and a reader has output left: _drain_tail awaits it.
WatchDrains(s) ==
    /\ LoopFree
    /\ watch[s] = "waiting"
    /\ child[s] = "dead"
    /\ watch' = [watch EXCEPT ![s] = "draining"]
    /\ UNCHANGED <<shutdown, tableVars, entryVars, start, child, code, callVars>>

\* Variant, breaks TypeOK: the code is published for the status.
ExitStatusRaw(s) == code[s]

\* Variant, breaks TerminalIsFinal: a stop in progress or over is ignored.
ExitStatusIgnoringStop(s) == IF code[s] = "zero" THEN "stopped" ELSE "failed"

\* Variant, breaks DeathIsReported: only a clean exit is reported.
ExitStatusCleanOnly(s) == IF code[s] = "zero" THEN "stopped" ELSE status[s]

\* The status after the exit was reported.
ExitStatus(s) ==
    IF status[s] \in {"stopping", "stopped"} THEN status[s]
    ELSE IF code[s] = "zero" THEN "stopped" ELSE "failed"

\* The readers are done and _watch calls the registry's _on_exit.
OnExit(s) ==
    /\ LoopFree
    /\ watch[s] \in {"waiting", "draining"}
    /\ child[s] = "dead"
    /\ watch' = [watch EXCEPT ![s] = "done"]
    /\ IF s \notin registered
       THEN UNCHANGED <<exitCode, status>>
       ELSE /\ exitCode' = [exitCode EXCEPT ![s] = code[s]]
            /\ status' = [status EXCEPT ![s] = ExitStatus(s)]
    /\ UNCHANGED <<shutdown, tableVars, listenPorts, leases, start, child, code, callVars>>

\* The reader being awaited raises ValueError on an overlong line and takes
\* _watch down with it: nobody is notified.
DrainFails(s) ==
    /\ "longline" \in Disturbances
    /\ LoopFree
    /\ watch[s] = "draining"
    /\ watch' = [watch EXCEPT ![s] = "done"]
    /\ UNCHANGED <<shutdown, tableVars, entryVars, start, child, code, callVars>>

----------------------------------------------------------------------------

StartSteps(s) ==
    \/ \E P \in SUBSET Ports : StartAdmitted(s, P)
    \/ StartRefused(s)
    \/ StartConfigFails(s)
    \/ SpawnSucceeds(s)
    \/ SpawnFails(s)

SweepSteps(c) ==
    \/ SweepBegins(c)
    \/ \E s \in Sessions : \/ SweepsTerminal(c, s)
                           \/ SweepsUnspawned(c, s)
                           \/ SweepsDead(c, s)
                           \/ SweepSignals(c, s)
    \/ SweepEnds(c)
    \/ SweepAborts(c)

CallSteps(c) ==
    \/ \E s \in Sessions, f \in BOOLEAN : Stop(c, s, f)
    \/ \E s \in Sessions : Remove(c, s)
    \/ ChildGone(c)
    \/ Terminate(c)
    \/ Kill(c)
    \/ GiveUp(c)
    \/ CancelCall(c)

ChildSteps(s) == ChildExits(s) \/ WatchDrains(s) \/ OnExit(s) \/ DrainFails(s)

Next ==
    \/ \E s \in Sessions : StartSteps(s) \/ ChildSteps(s)
    \/ \E c \in Calls : CallSteps(c) \/ SweepSteps(c)

Spec == Init /\ [][Next]_vars

----------------------------------------------------------------------------
(* Fairness: the event loop runs every callback that is ready (its ready   *)
(* queue is FIFO), timers fire, a spawn attempt ends, and a child that was *)
(* sent SIGKILL dies.  Nobody is obliged to call anything, and a child     *)
(* that was not killed may live for ever.                                  *)

SpawnEnds(s) == SpawnSucceeds(s) \/ SpawnFails(s)
WatchSteps(s) == WatchDrains(s) \/ OnExit(s)
WaitEnds(c) == ChildGone(c) \/ Terminate(c) \/ Kill(c) \/ GiveUp(c)
SweepContinues(c) ==
    \/ \E s \in Sessions : \/ SweepsTerminal(c, s)
                           \/ SweepsUnspawned(c, s)
                           \/ SweepsDead(c, s)
                           \/ SweepSignals(c, s)
    \/ SweepEnds(c)
KilledExits(s) == Killed(s) /\ ChildExits(s)

Fairness ==
    /\ \A s \in Sessions : /\ SF_vars(SpawnEnds(s))
                           /\ SF_vars(WatchSteps(s))
                           /\ WF_vars(KilledExits(s))
    /\ \A c \in Calls : /\ SF_vars(WaitEnds(c))
                        /\ WF_vars(SweepContinues(c))

FairSpec == Spec /\ Fairness

----------------------------------------------------------------------------
(* Safety *)

\* No port is leased by two sessions of the table: start() checks and
\* registers without an await in between, and nothing but start() leases.
LeaseExclusive ==
    \A s, t \in registered : s # t => leases[s] \cap leases[t] = {}

\* Two children never live at the same time with a port in common, not even
\* one that shutdown_all, a cancelled call or a failed stop lost track of.
NoPortClash ==
    \A s, t \in Sessions :
        s # t /\ child[s] = "alive" /\ child[t] = "alive"
            => listenPorts[s] \cap listenPorts[t] = {}

\* A lease is given up only after its child is dead: whoever is told that a
\* port is free does not compete with a session that is still stopping.
LiveChildHoldsLease ==
    \A s \in Sessions : child[s] = "alive" => leases[s] = listenPorts[s]

\* A listed session shown as stopped or failed has no process any more and
\* shows the code that process exited with, whatever timed out, was
\* cancelled or stopped it concurrently.
VerdictIsReal ==
    \A s \in registered :
        status[s] \in Terminal => child[s] = "dead" /\ exitCode[s] = code[s]

\* A stop or remove that returned without an error left no process behind,
\* and after a remove the session is not listed.
OkMeansGone ==
    \A c \in Calls :
        ok[c] /\ op[c] # "shutdown"
            => /\ child[target[c]] = "dead"
               /\ op[c] = "remove" => target[c] \notin registered

\* A live child that no entry manages is the work of a shutdown only.
OrphansOnlyAfterShutdown ==
    \A s \in Sessions : child[s] = "alive" /\ s \notin registered => shutdown

\* Every live child is managed by an entry of the table.
NoOrphan ==
    \A s \in Sessions : child[s] = "alive" => s \in registered

\* The clean-up after shutdown_all's loop never has anything to do.
SweepMissesNothing ==
    \A c \in Calls :
        pc[c] = "sweep" /\ todo[c] \cap registered = {} => registered = {}

\* Every listed session has its directory, and every directory its listed
\* session, but for those of starts that failed before they had an entry.
DirectoriesTracked ==
    /\ registered \subseteq dirs
    /\ \A s \in dirs \ registered : start[s] = "refused"

\* A listed session that stopped or failed stays what it is: no late
\* on_exit, second stop or sweep rewrites the verdict.
TerminalIsFinal ==
    [][\A s \in registered : status[s] \in Terminal => status'[s] = status[s]]_vars

----------------------------------------------------------------------------
(* The registry implements PortLeases *)

LeaseState(s) ==
    IF start[s] \in {"idle", "refused"} THEN "new"
    ELSE IF start[s] = "spawning" THEN "granted"
    ELSE IF child[s] = "alive" THEN "live" ELSE "over"

\* A session holds its leases while the table knows it, and a session the
\* table lost holds them for as long as it has, or will have, a child.
Holds(s) == s \in registered \/ LeaseState(s) \in {"granted", "live"}

PL == INSTANCE PortLeases WITH
          state <- [s \in Sessions |-> LeaseState(s)],
          held  <- [s \in Sessions |-> IF Holds(s) THEN leases[s] ELSE {}]

\* Every behaviour of the registry is one that PortLeases allows.
ImplementsPortLeases == PL!Spec

----------------------------------------------------------------------------
(* Liveness, under FairSpec *)

\* Every stop, remove and shutdown_all ends, by success or by an error.
CallReturns == \A c \in Calls : pc[c] # "idle" ~> pc[c] = "idle"

\* A session whose child died does not stay RUNNING.
DeathIsReported ==
    \A s \in Sessions :
        status[s] = "running" /\ child[s] = "dead" ~> status[s] # "running"

\* Once shutdown has begun every child dies and the table is empty.
ShutdownClears ==
    shutdown ~> [](registered = {} /\ \A s \in Sessions : child[s] # "alive")

----------------------------------------------------------------------------
(* What the documentation says of stop(), see the runs that refute it *)

\* A stop that succeeded released the session's ports.
StopReleasesPorts ==
    \A c \in Calls : ok[c] /\ op[c] = "stop" => leases[target[c]] = {}

============================================================================
