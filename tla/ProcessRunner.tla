--------------------------- MODULE ProcessRunner ---------------------------
(***************************************************************************)
(* One ProcessRunner: the child, the two pipes it writes to, the two       *)
(* reader tasks and the watcher task on the event loop, and any number of  *)
(* concurrent stop() and aclose() calls escalating from SIGINT to SIGKILL. *)
(*                                                                         *)
(* The asyncio side is modelled from how process.py uses it.  returncode   *)
(* is set when the loop reaps the child; a wait() begun before that        *)
(* returns only after both pipes reached their end as well, a later one at *)
(* once.  A pipe nobody reads any more is paused when its buffer is full,  *)
(* and a paused pipe never reaches its end.                                *)
(***************************************************************************)
EXTENDS Naturals, FiniteSets, RingBuffer

CONSTANTS
    Calls,          \* concurrent callers of stop and aclose
    Capacity,       \* of the log
    MaxLines,       \* lines the child writes to each stream (a bound)
    LongLines       \* may a line exceed the stream reader's limit?

ASSUME CapacityAssumption == Capacity \in Nat \ {0}
ASSUME MaxLinesAssumption == MaxLines \in Nat
ASSUME LongLinesAssumption == LongLines \in BOOLEAN

Streams == {"stdout", "stderr"}
Waiting == {"sigint", "sigterm", "sigkill"}
Ended == {"done", "failed", "cancelled"}    \* of a task

VARIABLES
    child,      \* "none", "alive", "exited" and, once returncode is set, "reaped"
    killed,     \* SIGKILL was sent
    written,    \* lines the child wrote to each stream
    read,       \* lines the reader of each stream took
    long,       \* the number of the overlong line of each stream, 0 if none
    paused,     \* the pipe of each stream is paused for good
    eof,        \* the pipe of each stream reached its end
    drain,      \* the _drain task of each stream
    watch,      \* the _watch task
    notified,   \* on_exit was called
    log,        \* the ring buffer
    pc,         \* of each caller
    op,         \* "stop" or "aclose"
    force,      \* its force flag
    ok          \* its last call returned, it did not raise

osVars == <<child, killed, written, long, paused, eof>>
taskVars == <<read, drain, watch, notified, log>>
callVars == <<pc, op, force, ok>>
vars == <<osVars, taskVars, callVars>>

Record(s, n) == [stream |-> s, line |-> n]

TypeOK ==
    /\ child \in {"none", "alive", "exited", "reaped"}
    /\ killed \in BOOLEAN
    /\ written \in [Streams -> 0 .. MaxLines]
    /\ read \in [Streams -> 0 .. MaxLines]
    /\ long \in [Streams -> 0 .. MaxLines]
    /\ paused \in [Streams -> BOOLEAN]
    /\ eof \in [Streams -> BOOLEAN]
    /\ drain \in [Streams -> {"off", "reading"} \cup Ended]
    /\ watch \in {"off", "waiting", "tail stdout", "tail stderr", "cut"} \cup Ended
    /\ notified \in BOOLEAN
    /\ log \in Seq([stream : Streams, line : 1 .. MaxLines])
    /\ Len(log) <= Capacity
    /\ pc \in [Calls -> {"idle", "joining"} \cup Waiting]
    /\ op \in [Calls -> {"stop", "aclose"}]
    /\ force \in [Calls -> BOOLEAN]
    /\ ok \in [Calls -> BOOLEAN]

Init ==
    /\ child = "none"
    /\ killed = FALSE
    /\ written = [s \in Streams |-> 0]
    /\ read = [s \in Streams |-> 0]
    /\ long = [s \in Streams |-> 0]
    /\ paused = [s \in Streams |-> FALSE]
    /\ eof = [s \in Streams |-> FALSE]
    /\ drain = [s \in Streams |-> "off"]
    /\ watch = "off"
    /\ notified = FALSE
    /\ log = <<>>
    /\ pc = [c \in Calls |-> "idle"]
    /\ op = [c \in Calls |-> "stop"]
    /\ force = [c \in Calls |-> FALSE]
    /\ ok = [c \in Calls |-> FALSE]

\* A wait() begun before the child was reaped returns.
WaitOver == child = "reaped" /\ \A s \in Streams : eof[s]

----------------------------------------------------------------------------
(* the child and its pipes *)

\* create_subprocess_exec returned: the three tasks are created.
Start ==
    /\ child = "none"
    /\ child' = "alive"
    /\ drain' = [s \in Streams |-> "reading"]
    /\ watch' = "waiting"
    /\ UNCHANGED <<killed, written, long, paused, eof, read, notified, log, callVars>>

Write(s) ==
    /\ child = "alive"
    /\ written[s] < MaxLines
    /\ ~paused[s]
    /\ written' = [written EXCEPT ![s] = @ + 1]
    /\ \/ UNCHANGED long
       \/ /\ LongLines
          /\ long[s] = 0
          /\ long' = [long EXCEPT ![s] = written[s] + 1]
    /\ UNCHANGED <<child, killed, paused, eof, taskVars, callVars>>

\* Nobody reads the stream: its buffer fills up with what the child wrote.
\* After a cancellation that takes overlong lines, the child being dead.
Pause(s) ==
    /\ \/ drain[s] = "failed"
       \/ LongLines /\ drain[s] = "cancelled"
    /\ ~paused[s]
    /\ ~eof[s]
    /\ paused' = [paused EXCEPT ![s] = TRUE]
    /\ UNCHANGED <<child, killed, written, long, eof, taskVars, callVars>>

Exit ==
    /\ child = "alive"
    /\ child' = "exited"
    /\ UNCHANGED <<killed, written, long, paused, eof, taskVars, callVars>>

Reap ==
    /\ child = "exited"
    /\ child' = "reaped"
    /\ UNCHANGED <<killed, written, long, paused, eof, taskVars, callVars>>

Eof(s) ==
    /\ child \in {"exited", "reaped"}
    /\ ~paused[s]
    /\ ~eof[s]
    /\ eof' = [eof EXCEPT ![s] = TRUE]
    /\ UNCHANGED <<child, killed, written, long, paused, taskVars, callVars>>

----------------------------------------------------------------------------
(* the reader tasks *)

\* readline() returned a line.
Drain(s) ==
    /\ drain[s] = "reading"
    /\ read[s] < written[s]
    /\ long[s] # read[s] + 1
    /\ read' = [read EXCEPT ![s] = @ + 1]
    /\ log' = Push(log, Capacity, Record(s, read[s] + 1))
    /\ UNCHANGED <<osVars, drain, watch, notified, callVars>>

\* readline() raised ValueError: the task is over.
DrainFails(s) ==
    /\ drain[s] = "reading"
    /\ read[s] < written[s]
    /\ long[s] = read[s] + 1
    /\ drain' = [drain EXCEPT ![s] = "failed"]
    /\ UNCHANGED <<osVars, read, watch, notified, log, callVars>>

\* readline() returned nothing: the end of the stream.
DrainEnds(s) ==
    /\ drain[s] = "reading"
    /\ eof[s]
    /\ read[s] = written[s]
    /\ drain' = [drain EXCEPT ![s] = "done"]
    /\ UNCHANGED <<osVars, read, watch, notified, log, callVars>>

----------------------------------------------------------------------------
(* the watcher task *)

\* Variant, breaks NoticeAfterTail: only the first reader is awaited.
TailStdoutOnly(s) ==
    IF s = "stdout" /\ drain["stdout"] = "reading" THEN "tail stdout" ELSE "done"

\* Variant, breaks DeathIsNoticed: _watch, a reader itself, is awaited too
\* and the task raises.
TailAndItself(s) ==
    IF s = "stdout" /\ drain["stdout"] = "reading" THEN "tail stdout"
    ELSE IF drain["stderr"] = "reading" THEN "tail stderr"
    ELSE "failed"

\* Where _drain_tail, having come to stream s, suspends next: at a reader
\* that is not over, else it is through.
TailFrom(s) ==
    IF s = "stdout" /\ drain["stdout"] = "reading" THEN "tail stdout"
    ELSE IF drain["stderr"] = "reading" THEN "tail stderr"
    ELSE "done"

\* _watch goes on to w, and through with the tail it calls on_exit.
WatchGoesTo(w) ==
    /\ watch' = w
    /\ notified' = (notified \/ w = "done")
    /\ UNCHANGED <<osVars, read, drain, log, callVars>>

\* proc.wait() returned.
WatchWakes ==
    /\ watch = "waiting"
    /\ WaitOver
    /\ WatchGoesTo(TailFrom("stdout"))

\* The reader it awaits is over; a reader's error is the watcher's own.
WatchTails ==
    \/ /\ watch = "tail stdout"
       /\ \/ drain["stdout"] = "done" /\ WatchGoesTo(TailFrom("stderr"))
          \/ drain["stdout"] = "failed" /\ WatchGoesTo("failed")
    \/ /\ watch = "tail stderr"
       /\ \/ drain["stderr"] = "done" /\ WatchGoesTo("done")
          \/ drain["stderr"] = "failed" /\ WatchGoesTo("failed")

\* A cancellation met it in the tail, was suppressed, and left no reader to
\* await.
WatchCut ==
    /\ watch = "cut"
    /\ WatchGoesTo("done")

----------------------------------------------------------------------------
(* stop() and aclose().  On a runner without a child the one raises, the   *)
(* other returns, and nothing changes.                                     *)

\* Variant, breaks StopLeavesNothing: the watcher is not cancelled.
CancelDrainsOnly ==
    /\ drain' = [s \in Streams |-> IF drain[s] = "reading" THEN "cancelled" ELSE drain[s]]
    /\ UNCHANGED <<read, watch, notified, log>>

\* Every task not over is cancelled.  It ends the watcher at proc.wait() and
\* is suppressed in _drain_tail.
CancelReaders ==
    /\ drain' = [s \in Streams |-> IF drain[s] = "reading" THEN "cancelled" ELSE drain[s]]
    /\ watch' = CASE watch = "waiting" -> "cancelled"
                  [] watch \in {"tail stdout", "tail stderr"} -> "cut"
                  [] OTHER -> watch
    /\ UNCHANGED <<read, notified, log>>

\* The child is known to be gone: stop returns, aclose joins the tasks.
Finish(c, o) ==
    /\ CancelReaders
    /\ pc' = [pc EXCEPT ![c] = IF o = "stop" THEN "idle" ELSE "joining"]
    /\ op' = [op EXCEPT ![c] = o]
    /\ ok' = [ok EXCEPT ![c] = o = "stop"]
    /\ UNCHANGED <<osVars, force>>

\* returncode is set already.
CallFindsReaped(c, o) ==
    /\ pc[c] = "idle"
    /\ child = "reaped"
    /\ Finish(c, o)

\* Variant, breaks ImplementsContract: the readers go before the child.
CallCancelsAndSignals(c, o, f) ==
    /\ pc[c] = "idle"
    /\ child \in {"alive", "exited"}
    /\ CancelReaders
    /\ pc' = [pc EXCEPT ![c] = "sigint"]
    /\ op' = [op EXCEPT ![c] = o]
    /\ force' = [force EXCEPT ![c] = f]
    /\ ok' = [ok EXCEPT ![c] = FALSE]
    /\ UNCHANGED osVars

\* SIGINT, which the child may ignore.
CallSignals(c, o, f) ==
    /\ pc[c] = "idle"
    /\ child \in {"alive", "exited"}
    /\ pc' = [pc EXCEPT ![c] = "sigint"]
    /\ op' = [op EXCEPT ![c] = o]
    /\ force' = [force EXCEPT ![c] = f]
    /\ ok' = [ok EXCEPT ![c] = FALSE]
    /\ UNCHANGED <<osVars, taskVars>>

Stop(c, f) == CallFindsReaped(c, "stop") \/ CallSignals(c, "stop", f)

Aclose(c) == CallFindsReaped(c, "aclose") \/ CallSignals(c, "aclose", TRUE)

WaitReturns(c) ==
    /\ pc[c] \in Waiting
    /\ WaitOver
    /\ Finish(c, op[c])

\* The first wait_for times out.  SIGTERM, unless returncode is set by now:
\* then nothing is sent and the second wait returns at once.
FirstTimeout(c) ==
    /\ pc[c] = "sigint"
    /\ IF child = "reaped"
       THEN Finish(c, op[c])
       ELSE /\ pc' = [pc EXCEPT ![c] = "sigterm"]
            /\ UNCHANGED <<osVars, taskVars, op, force, ok>>

\* Variant, breaks CallReturns: the last signal can be ignored as well.
SecondTimeoutNoKill(c) ==
    /\ pc[c] = "sigterm"
    /\ force[c]
    /\ IF child = "reaped"
       THEN Finish(c, op[c])
       ELSE /\ pc' = [pc EXCEPT ![c] = "sigkill"]
            /\ UNCHANGED <<osVars, taskVars, op, force, ok>>

\* The second times out and force is set: SIGKILL and a wait without limit.
SecondTimeout(c) ==
    /\ pc[c] = "sigterm"
    /\ force[c]
    /\ IF child = "reaped"
       THEN Finish(c, op[c])
       ELSE /\ pc' = [pc EXCEPT ![c] = "sigkill"]
            /\ killed' = TRUE
            /\ UNCHANGED <<child, written, long, paused, eof, taskVars, op, force, ok>>

\* It times out and force is not set: TimeoutError_.
GiveUp(c) ==
    /\ pc[c] = "sigterm"
    /\ ~force[c]
    /\ pc' = [pc EXCEPT ![c] = "idle"]
    /\ UNCHANGED <<osVars, taskVars, op, force, ok>>

\* CancelledError at the await.
CancelCall(c) ==
    /\ pc[c] \in Waiting
    /\ pc' = [pc EXCEPT ![c] = "idle"]
    /\ UNCHANGED <<osVars, taskVars, op, force, ok>>

\* Every task aclose awaits is over.
Joined(c) ==
    /\ pc[c] = "joining"
    /\ watch \in Ended
    /\ \A s \in Streams : drain[s] \in Ended
    /\ pc' = [pc EXCEPT ![c] = "idle"]
    /\ ok' = [ok EXCEPT ![c] = TRUE]
    /\ UNCHANGED <<osVars, taskVars, op, force>>

----------------------------------------------------------------------------

StreamSteps(s) ==
    Write(s) \/ Pause(s) \/ Eof(s) \/ Drain(s) \/ DrainFails(s) \/ DrainEnds(s)

WatchSteps == WatchWakes \/ WatchTails \/ WatchCut

CallSteps(c) ==
    \/ \E f \in BOOLEAN : Stop(c, f)
    \/ Aclose(c)
    \/ WaitReturns(c)
    \/ FirstTimeout(c)
    \/ SecondTimeout(c)
    \/ GiveUp(c)
    \/ CancelCall(c)
    \/ Joined(c)

Next ==
    \/ Start \/ Exit \/ Reap \/ WatchSteps
    \/ \E s \in Streams : StreamSteps(s)
    \/ \E c \in Calls : CallSteps(c)

Spec == Init /\ [][Next]_vars

----------------------------------------------------------------------------
(* Fairness: the loop runs what is ready and reads what arrived, timers    *)
(* fire, and a child that was sent SIGKILL dies.  A child not killed may   *)
(* live, and an unread one write, for ever.                                *)

ReaderSteps(s) == Drain(s) \/ DrainFails(s) \/ DrainEnds(s)
CallContinues(c) ==
    WaitReturns(c) \/ FirstTimeout(c) \/ SecondTimeout(c) \/ GiveUp(c) \/ Joined(c)

Fairness ==
    /\ WF_vars(killed /\ Exit)
    /\ WF_vars(Reap)
    /\ WF_vars(WatchSteps)
    /\ \A s \in Streams : WF_vars(Eof(s)) /\ WF_vars(ReaderSteps(s))
    /\ \A c \in Calls : WF_vars(CallContinues(c))

FairSpec == Spec /\ Fairness

----------------------------------------------------------------------------
(* Safety *)

\* on_exit is called only after the child is reaped and all its output is in
\* the log, but for a reader that failed or that a stop cancelled.
NoticeAfterTail ==
    notified =>
        /\ child = "reaped"
        /\ \A s \in Streams : read[s] = written[s] \/ drain[s] \in {"failed", "cancelled"}

\* The lines of the same stream that follow the record at i.
Following(i) == {log[j].line : j \in {k \in i + 1 .. Len(log) : log[k].stream = log[i].stream}}

\* Two tasks append to one deque: it holds the newest records of each
\* stream, in order and without a gap, and has dropped none it had room for.
LogIsNewest ==
    LET total == read["stdout"] + read["stderr"] IN
    /\ Len(log) = IF total < Capacity THEN total ELSE Capacity
    /\ \A i \in DOMAIN log :
           /\ log[i].line <= read[log[i].stream]
           /\ Following(i) = log[i].line + 1 .. read[log[i].stream]

\* The places in the log of the records asked for.
AskedFor(stream) == {k \in DOMAIN log : stream \in {"both", log[k].stream}}

\* The i-th record shown is the one with only those not shown and i - 1 shown
\* ones before it.
ShowsNewest(stream, limit) ==
    LET asked == AskedFor(stream)
        snap == Snapshot(log, stream, limit)
        older == Cardinality(asked) - Len(snap)
    IN  /\ Len(snap) = IF Cardinality(asked) < limit THEN Cardinality(asked) ELSE limit
        /\ \A i \in DOMAIN snap : \E k \in asked :
               snap[i] = log[k] /\ Cardinality({m \in asked : m <= k}) = older + i

\* snapshot(stream, limit), with a stream or without, returns the newest records
\* asked for, the newest last, and limit of them if there are as many, for a
\* limit of at least one (process.py:57-68).
SnapshotIsNewest ==
    \A stream \in Streams \cup {"both"}, limit \in 1 .. Capacity + 1 : ShowsNewest(stream, limit)

\* A stop that returned left no child and no reader behind and no watcher
\* that still waits; an aclose that returned left no task at all.
StopLeavesNothing ==
    \A c \in Calls :
        ok[c] =>
            /\ child = "reaped"
            /\ \A s \in Streams : drain[s] \in Ended
            /\ watch \notin {"off", "waiting"}
            /\ op[c] = "aclose" => watch \in Ended

----------------------------------------------------------------------------
(* The runner implements RunnerContract *)

Reports ==
    CASE watch = "off" -> "none"
      [] watch = "waiting" -> "due"
      [] watch \in {"tail stdout", "tail stderr", "cut"} -> "draining"
      [] watch = "done" -> "made"
      [] OTHER -> "dropped"

RC == INSTANCE RunnerContract WITH
          child  <- IF child \in {"none", "alive"} THEN child ELSE "dead",
          report <- Reports

\* Whatever order the pipes, the tasks and the stops run in, the registry
\* sees what RunnerContract promises.
ImplementsContract == RC!Spec

----------------------------------------------------------------------------
(* Liveness, under FairSpec *)

\* The end of a child is reported, unless a stop took over and cancelled
\* the watcher.
DeathIsNoticed == child = "exited" ~> watch \in {"done", "cancelled"}

\* Every stop and aclose ends, by success or by TimeoutError_.
CallReturns == \A c \in Calls : pc[c] # "idle" ~> pc[c] = "idle"

----------------------------------------------------------------------------
(* What the documentation says, see the runs that refute it *)

\* A stop with force ends: no child is left that it still waits for.
ForcedStopReturns ==
    \A c \in Calls : pc[c] # "idle" /\ force[c] ~> pc[c] = "idle"

============================================================================
