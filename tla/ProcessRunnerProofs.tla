------------------------ MODULE ProcessRunnerProofs ------------------------
(***************************************************************************)
(* Proofs about ProcessRunner, for any number of callers, any capacity and *)
(* any amount of output, with and without overlong lines.                  *)
(*                                                                         *)
(* The invariant IInv says how the child, its pipes and the three tasks    *)
(* keep pace: the watcher leaves proc.wait() only when the child is        *)
(* reaped, a reader is through only at the end of its pipe, and a watcher  *)
(* past a reader has seen that reader end.                                 *)
(***************************************************************************)
EXTENDS ProcessRunner, ListsProofs

LogTyped ==
    /\ log \in Seq([stream : Streams, line : 1 .. MaxLines])
    /\ Len(log) <= Capacity

Counted ==
    /\ written \in [Streams -> 0 .. MaxLines]
    /\ read \in [Streams -> 0 .. MaxLines]
    /\ long \in [Streams -> 0 .. MaxLines]

Typed ==
    /\ child \in {"none", "alive", "exited", "reaped"}
    /\ killed \in BOOLEAN
    /\ paused \in [Streams -> BOOLEAN]
    /\ eof \in [Streams -> BOOLEAN]
    /\ drain \in [Streams -> {"off", "reading"} \cup Ended]
    /\ watch \in {"off", "waiting", "tail stdout", "tail stderr", "cut"} \cup Ended
    /\ notified \in BOOLEAN
    /\ pc \in [Calls -> {"idle", "joining"} \cup Waiting]
    /\ op \in [Calls -> {"stop", "aclose"}]
    /\ force \in [Calls -> BOOLEAN]
    /\ ok \in [Calls -> BOOLEAN]

TasksStarted ==
    /\ child = "none" <=> watch = "off"
    /\ \A s \in Streams : child = "none" <=> drain[s] = "off"

\* Nothing is written after the end of a pipe; nothing is read unwritten.
PipesAgree ==
    \A s \in Streams :
        /\ eof[s] => child \in {"exited", "reaped"}
        /\ read[s] <= written[s]
        /\ drain[s] = "done" => eof[s] /\ read[s] = written[s]
        /\ drain[s] = "cancelled" => child = "reaped"

WatchAgrees ==
    /\ watch \notin {"off", "waiting"} => child = "reaped"
    /\ watch = "tail stderr" => drain["stdout"] \in Ended
    /\ watch \in {"cut", "done"} => \A s \in Streams : drain[s] \in Ended
    /\ notified = TRUE => watch = "done"

\* The tasks as a stop leaves them.
Quiet ==
    /\ child = "reaped"
    /\ \A s \in Streams : drain[s] \in Ended
    /\ watch \notin {"off", "waiting"}

CallsAgree ==
    \A c \in Calls :
        /\ pc[c] # "idle" => child # "none"
        /\ pc[c] = "joining" => Quiet
        /\ ok[c] => Quiet /\ (op[c] = "aclose" => watch \in Ended)

IInv == LogTyped /\ Counted /\ Typed /\ TasksStarted /\ PipesAgree /\ WatchAgrees /\ CallsAgree

----------------------------------------------------------------------------
(* The ring buffer *)

\* A buffer within its capacity stays within it, and the record just pushed
\* is its newest.
LEMMA Pushing ==
    ASSUME NEW S, NEW buffer \in Seq(S), NEW capacity \in Nat \ {0},
           Len(buffer) <= capacity, NEW record \in S
    PROVE  /\ Push(buffer, capacity, record) \in Seq(S)
           /\ Len(Push(buffer, capacity, record)) <= capacity
           /\ Len(Push(buffer, capacity, record)) > 0
           /\ Push(buffer, capacity, record)[Len(Push(buffer, capacity, record))] = record
<1>1. CASE Len(buffer) < capacity
  BY <1>1 DEF Push
<1>2. CASE Len(buffer) >= capacity
  <2>1. Tail(buffer) \in Seq(S) /\ Len(Tail(buffer)) = Len(buffer) - 1
    BY <1>2
  <2> QED BY <1>2, <2>1 DEF Push
<1> QED BY <1>1, <1>2

----------------------------------------------------------------------------
(* The invariant *)

LEMMA InitHolds == Init => IInv
<1> SUFFICES ASSUME Init PROVE IInv
  OBVIOUS
<1>1. Typed
  BY DEF Init, Typed
<1>2. Counted
  BY MaxLinesAssumption DEF Init, Counted
<1>3. LogTyped
  BY CapacityAssumption DEF Init, LogTyped
<1>4. TasksStarted /\ PipesAgree /\ WatchAgrees /\ CallsAgree
  BY DEF Init, TasksStarted, PipesAgree, WatchAgrees, CallsAgree
<1> QED BY <1>1, <1>2, <1>3, <1>4 DEF IInv

\* What a step leaves alone it does not disturb.
LEMMA Undisturbed ==
    /\ LogTyped /\ UNCHANGED log => LogTyped'
    /\ Counted /\ UNCHANGED <<written, read, long>> => Counted'
    /\ TasksStarted /\ UNCHANGED <<child, drain, watch>> => TasksStarted'
    /\ PipesAgree /\ UNCHANGED <<child, eof, read, written, drain>> => PipesAgree'
    /\ WatchAgrees /\ UNCHANGED <<child, watch, drain, notified>> => WatchAgrees'
    /\ CallsAgree /\ UNCHANGED <<child, drain, watch, callVars>> => CallsAgree'
<1>1. LogTyped /\ UNCHANGED log => LogTyped'
  BY DEF LogTyped
<1>2. Counted /\ UNCHANGED <<written, read, long>> => Counted'
  BY DEF Counted
<1>3. TasksStarted /\ UNCHANGED <<child, drain, watch>> => TasksStarted'
  BY DEF TasksStarted
<1>4. PipesAgree /\ UNCHANGED <<child, eof, read, written, drain>> => PipesAgree'
  BY DEF PipesAgree
<1>5. WatchAgrees /\ UNCHANGED <<child, watch, drain, notified>> => WatchAgrees'
  BY DEF WatchAgrees
<1>6. CallsAgree /\ UNCHANGED <<child, drain, watch, callVars>> => CallsAgree'
  BY DEF CallsAgree, Quiet, callVars
<1> QED BY <1>1, <1>2, <1>3, <1>4, <1>5, <1>6

LEMMA ChildStep ==
    ASSUME IInv, Start \/ Exit \/ Reap
    PROVE  IInv'
<1>1. Typed'
  BY DEF IInv, Typed, Start, Exit, Reap, taskVars, callVars, Ended
<1>2. UNCHANGED <<log, written, read, long, eof, notified, callVars>>
  BY DEF Start, Exit, Reap, taskVars, callVars
<1>3. LogTyped' /\ Counted'
  BY <1>2, Undisturbed DEF IInv
<1>4. CASE Start
  <2>1. /\ child = "none" /\ child' = "alive" /\ watch' = "waiting"
        /\ drain' = [s \in Streams |-> "reading"]
    BY <1>4 DEF Start
  <2>2. notified = FALSE
    BY <2>1 DEF IInv, Typed, TasksStarted, WatchAgrees, Ended
  <2>3. TasksStarted' /\ WatchAgrees'
    BY <1>2, <2>1, <2>2 DEF TasksStarted, WatchAgrees
  <2>4. PipesAgree'
    BY <1>2, <2>1 DEF IInv, PipesAgree
  <2>5. CallsAgree'
    BY <1>2, <2>1 DEF IInv, CallsAgree, Quiet, callVars
  <2> QED BY <1>1, <1>3, <2>3, <2>4, <2>5 DEF IInv
<1>5. CASE Exit \/ Reap
  <2>1. /\ child # "none" /\ child # "reaped" /\ child' \in {"exited", "reaped"}
        /\ UNCHANGED <<drain, watch>>
    BY <1>5 DEF Exit, Reap, taskVars
  <2>2. TasksStarted'
    BY <2>1 DEF IInv, TasksStarted
  <2>3. WatchAgrees'
    BY <1>2, <2>1 DEF IInv, WatchAgrees
  <2>4. PipesAgree'
    BY <1>2, <2>1 DEF IInv, PipesAgree
  <2>5. CallsAgree'
    BY <1>2, <2>1 DEF IInv, CallsAgree, Quiet, callVars
  <2> QED BY <1>1, <1>3, <2>2, <2>3, <2>4, <2>5 DEF IInv
<1> QED BY <1>4, <1>5

LEMMA PipeStep ==
    ASSUME IInv, NEW s \in Streams, Write(s) \/ Pause(s) \/ Eof(s)
    PROVE  IInv'
<1>1. UNCHANGED <<child, drain, watch, notified, read, log, callVars>>
  BY DEF Write, Pause, Eof, taskVars
<1>2. LogTyped' /\ TasksStarted' /\ WatchAgrees' /\ CallsAgree'
  BY <1>1, Undisturbed DEF IInv
<1>3. Typed'
  BY DEF IInv, Typed, Write, Pause, Eof, taskVars, callVars
<1>4. Counted' /\ PipesAgree'
  <2>1. \A t \in Streams : written[t] \in Nat /\ read[t] \in Nat
    BY MaxLinesAssumption DEF IInv, Counted
  <2>2. CASE Write(s)
    <3>1. written[s] + 1 \in 0 .. MaxLines
      BY <2>1, <2>2, MaxLinesAssumption DEF Write
    <3>2. written' = [written EXCEPT ![s] = written[s] + 1]
          /\ (long' = long \/ long' = [long EXCEPT ![s] = written[s] + 1])
      BY <2>2 DEF Write
    <3>3. Counted'
      BY <1>1, <3>1, <3>2 DEF IInv, Counted
    <3>4. child = "alive" /\ UNCHANGED eof
      BY <2>2 DEF Write
    <3>5. \A t \in Streams : written'[t] = IF t = s THEN written[s] + 1 ELSE written[t]
      BY <3>2 DEF IInv, Counted
    <3> QED BY <1>1, <2>1, <3>3, <3>4, <3>5 DEF IInv, PipesAgree
  <2>3. CASE Pause(s)
    BY <1>1, <2>3, Undisturbed DEF IInv, Pause
  <2>4. CASE Eof(s)
    <3>1. /\ child \in {"exited", "reaped"}
          /\ eof' = [eof EXCEPT ![s] = TRUE]
          /\ UNCHANGED <<written, long>>
      BY <2>4 DEF Eof
    <3>2. \A t \in Streams : eof'[t] = IF t = s THEN TRUE ELSE eof[t]
      BY <3>1 DEF IInv, Typed
    <3> QED BY <1>1, <3>1, <3>2, Undisturbed DEF IInv, PipesAgree
  <2> QED BY <2>2, <2>3, <2>4
<1> QED BY <1>2, <1>3, <1>4 DEF IInv

LEMMA DrainStep ==
    ASSUME IInv, NEW s \in Streams, Drain(s)
    PROVE  IInv'
<1>1. /\ drain[s] = "reading" /\ read[s] < written[s]
      /\ read' = [read EXCEPT ![s] = read[s] + 1]
      /\ log' = Push(log, Capacity, Record(s, read[s] + 1))
      /\ UNCHANGED <<child, killed, written, long, paused, eof, drain, watch, notified, callVars>>
  BY DEF Drain, osVars
<1>2. \A t \in Streams : written[t] \in 0 .. MaxLines /\ read[t] \in Nat
  BY MaxLinesAssumption DEF IInv, Counted
<1>3. read[s] + 1 \in 1 .. MaxLines
  BY <1>1, <1>2, MaxLinesAssumption
<1>4. Counted'
  BY <1>1, <1>3, MaxLinesAssumption DEF IInv, Counted
<1>5. LogTyped'
  <2>1. Record(s, read[s] + 1) \in [stream : Streams, line : 1 .. MaxLines]
    BY <1>3 DEF Record
  <2> QED BY <1>1, <2>1, Pushing, CapacityAssumption DEF IInv, LogTyped
<1>6. Typed'
  BY <1>1 DEF IInv, Typed, callVars
<1>7. TasksStarted' /\ WatchAgrees' /\ CallsAgree'
  BY <1>1, Undisturbed DEF IInv
<1>8. PipesAgree'
  <2>1. \A t \in Streams : read'[t] = IF t = s THEN read[s] + 1 ELSE read[t]
    BY <1>1 DEF IInv, Counted
  <2>2. read[s] + 1 <= written[s]
    BY <1>1, <1>2
  <2> QED BY <1>1, <2>1, <2>2 DEF IInv, PipesAgree
<1> QED BY <1>4, <1>5, <1>6, <1>7, <1>8 DEF IInv

LEMMA DrainEndStep ==
    ASSUME IInv, NEW s \in Streams, DrainFails(s) \/ DrainEnds(s)
    PROVE  IInv'
<1>1. /\ drain[s] = "reading"
      /\ UNCHANGED <<child, killed, written, long, paused, eof, read, watch, notified, log, callVars>>
  BY DEF DrainFails, DrainEnds, osVars
<1>2. /\ drain'[s] \in {"done", "failed"}
      /\ drain'[s] = "done" => eof[s] /\ read[s] = written[s]
      /\ \A t \in Streams : t # s => drain'[t] = drain[t]
      /\ drain' \in [Streams -> {"off", "reading"} \cup Ended]
  BY DEF IInv, Typed, DrainFails, DrainEnds, Ended
<1>3. Typed'
  BY <1>1, <1>2 DEF IInv, Typed, callVars
<1>4. LogTyped' /\ Counted'
  BY <1>1, Undisturbed DEF IInv
<1>5. TasksStarted'
  BY <1>1, <1>2 DEF IInv, TasksStarted
<1>6. PipesAgree'
  BY <1>1, <1>2 DEF IInv, PipesAgree
<1>7. \A t \in Streams : drain[t] \in Ended => drain'[t] \in Ended
  BY <1>1, <1>2 DEF Ended
<1>8. WatchAgrees'
  BY <1>1, <1>7 DEF IInv, WatchAgrees, Streams
<1>9. CallsAgree'
  BY <1>1, <1>7 DEF IInv, CallsAgree, Quiet, callVars
<1> QED BY <1>3, <1>4, <1>5, <1>6, <1>8, <1>9 DEF IInv

LEMMA StreamStep ==
    ASSUME IInv, NEW s \in Streams, StreamSteps(s)
    PROVE  IInv'
  BY PipeStep, DrainStep, DrainEndStep DEF StreamSteps

\* Where the watcher may go once the child is reaped.
LEMMA WatchGoes ==
    ASSUME IInv, NEW w \in {"tail stdout", "tail stderr"} \cup Ended, WatchGoesTo(w),
           child = "reaped", watch \notin {"off"} \cup Ended,
           w = "tail stderr" => drain["stdout"] \in Ended,
           w = "done" => \A s \in Streams : drain[s] \in Ended
    PROVE  IInv'
<1>1. /\ watch' = w /\ notified' = (notified \/ w = "done")
      /\ UNCHANGED <<child, killed, written, long, paused, eof, read, drain, log, callVars>>
  BY DEF WatchGoesTo, osVars
<1>2. notified = FALSE
  BY DEF IInv, Typed, WatchAgrees, Ended
<1>3. w \notin {"off", "waiting", "cut"}
  BY DEF Ended
<1>4. Typed'
  BY <1>1 DEF IInv, Typed, callVars
<1>5. LogTyped' /\ Counted' /\ PipesAgree'
  BY <1>1, Undisturbed DEF IInv
<1>6. TasksStarted'
  BY <1>1, <1>3 DEF IInv, TasksStarted
<1>7. WatchAgrees'
  BY <1>1, <1>2, <1>3 DEF WatchAgrees
<1>8. CallsAgree'
  BY <1>1, <1>3 DEF IInv, CallsAgree, Quiet, callVars
<1> QED BY <1>4, <1>5, <1>6, <1>7, <1>8 DEF IInv

LEMMA WatchStep ==
    ASSUME IInv, WatchSteps
    PROVE  IInv'
<1>1. \A s \in Streams : child # "none" => drain[s] = "reading" \/ drain[s] \in Ended
  BY DEF IInv, Typed, TasksStarted
<1>2. TailFrom("stdout") \in {"tail stdout", "tail stderr", "done"}
  BY DEF TailFrom
<1>3. CASE WatchWakes
  BY <1>1, <1>2, <1>3, WatchGoes DEF WatchWakes, WaitOver, TailFrom, Streams, Ended
<1>4. CASE WatchTails
  BY <1>1, <1>4, WatchGoes
     DEF IInv, WatchAgrees, WatchTails, TailFrom, Streams, Ended
<1>5. CASE WatchCut
  BY <1>5, WatchGoes DEF IInv, WatchAgrees, WatchCut, Ended
<1> QED BY <1>3, <1>4, <1>5 DEF WatchSteps

\* Once the child is reaped, cancelling the readers leaves the tasks quiet.
LEMMA FinishStep ==
    ASSUME IInv, child = "reaped", NEW c \in Calls, NEW o \in {"stop", "aclose"}, Finish(c, o)
    PROVE  IInv'
<1>1. /\ drain' = [s \in Streams |-> IF drain[s] = "reading" THEN "cancelled" ELSE drain[s]]
      /\ watch' = CASE watch = "waiting" -> "cancelled"
                    [] watch \in {"tail stdout", "tail stderr"} -> "cut"
                    [] OTHER -> watch
      /\ pc' = [pc EXCEPT ![c] = IF o = "stop" THEN "idle" ELSE "joining"]
      /\ op' = [op EXCEPT ![c] = o]
      /\ ok' = [ok EXCEPT ![c] = o = "stop"]
      /\ UNCHANGED <<child, killed, written, long, paused, eof, read, notified, log, force>>
  BY DEF Finish, CancelReaders, osVars
<1>2. \A s \in Streams : drain[s] = "reading" \/ drain[s] \in Ended
  BY DEF IInv, Typed, TasksStarted
<1>3. \A s \in Streams : /\ drain'[s] \in Ended
                         /\ drain[s] \in Ended => drain'[s] = drain[s]
                         /\ drain'[s] = "done" => drain[s] = "done"
  BY <1>1, <1>2 DEF Ended
<1>4. watch # "off"
  BY DEF IInv, TasksStarted
<1>5. /\ watch' \in {"cut"} \cup Ended
      /\ watch \in Ended => watch' = watch
      /\ watch' = "done" => watch = "done"
  BY <1>1, <1>4 DEF IInv, Typed, Ended
<1>6. Quiet'
  BY <1>1, <1>3, <1>5 DEF Quiet, Ended
<1>7. Typed'
  <2>1. drain' \in [Streams -> {"off", "reading"} \cup Ended]
    BY <1>1, <1>3
  <2> QED BY <1>1, <1>5, <2>1 DEF IInv, Typed
<1>8. LogTyped' /\ Counted'
  BY <1>1, Undisturbed DEF IInv
<1>9. TasksStarted'
  BY <1>1, <1>3, <1>5 DEF TasksStarted, Ended
<1>10. PipesAgree'
  BY <1>1, <1>3 DEF IInv, PipesAgree
<1>11. WatchAgrees'
  BY <1>1, <1>3, <1>5 DEF IInv, WatchAgrees, Ended
<1>12. CallsAgree'
  <2>1. \A d \in Calls : ok'[d] /\ op'[d] = "aclose" => ok[d] /\ op[d] = "aclose"
    BY <1>1 DEF IInv, Typed
  <2> QED BY <1>1, <1>5, <1>6, <2>1 DEF IInv, CallsAgree, Quiet
<1> QED BY <1>7, <1>8, <1>9, <1>10, <1>11, <1>12 DEF IInv

\* A step of a call that only moves the call.
LEMMA CallMoves ==
    ASSUME IInv, NEW c \in Calls,
           \/ \E o \in {"stop", "aclose"}, f \in BOOLEAN : CallSignals(c, o, f)
           \/ FirstTimeout(c) /\ child # "reaped"
           \/ SecondTimeout(c) /\ child # "reaped"
           \/ GiveUp(c) \/ CancelCall(c) \/ Joined(c)
    PROVE  IInv'
<1>1. UNCHANGED <<child, written, long, paused, eof, taskVars>>
  BY DEF CallSignals, FirstTimeout, SecondTimeout, GiveUp, CancelCall, Joined, osVars
<1>2. Typed'
  <2>1. Typed
    BY DEF IInv
  <2>2. ASSUME NEW o \in {"stop", "aclose"}, NEW f \in BOOLEAN, CallSignals(c, o, f) PROVE Typed'
    BY <1>1, <2>1, <2>2 DEF Typed, CallSignals, osVars, taskVars, Waiting
  <2>3. CASE FirstTimeout(c) /\ child # "reaped"
    BY <1>1, <2>1, <2>3 DEF Typed, FirstTimeout, osVars, taskVars, Waiting
  <2>4. CASE SecondTimeout(c) /\ child # "reaped"
    BY <1>1, <2>1, <2>4 DEF Typed, SecondTimeout, osVars, taskVars, Waiting
  <2>5. CASE GiveUp(c) \/ CancelCall(c) \/ Joined(c)
    BY <1>1, <2>1, <2>5 DEF Typed, GiveUp, CancelCall, Joined, osVars, taskVars, Waiting
  <2> QED BY <2>2, <2>3, <2>4, <2>5
<1>3. LogTyped' /\ Counted' /\ TasksStarted' /\ PipesAgree' /\ WatchAgrees'
  BY <1>1, Undisturbed DEF IInv, taskVars
<1>4. /\ child # "none"
      /\ \A d \in Calls : /\ pc'[d] = "joining" => pc[d] = "joining"
                          /\ ok'[d] => \/ ok[d] /\ op'[d] = op[d]
                                       \/ pc[d] = "joining" /\ watch \in Ended
  BY DEF IInv, Typed, CallsAgree, CallSignals, FirstTimeout, SecondTimeout, GiveUp,
         CancelCall, Joined, Waiting
<1>5. CallsAgree'
  BY <1>1, <1>4 DEF IInv, CallsAgree, Quiet, taskVars
<1> QED BY <1>2, <1>3, <1>5 DEF IInv

\* Every step of a call finishes it with the child reaped or only moves it.
LEMMA CallCases ==
    ASSUME IInv, NEW c \in Calls, CallSteps(c)
    PROVE  \/ \E o \in {"stop", "aclose"} : child = "reaped" /\ Finish(c, o)
           \/ \E o \in {"stop", "aclose"}, f \in BOOLEAN : CallSignals(c, o, f)
           \/ FirstTimeout(c) /\ child # "reaped"
           \/ SecondTimeout(c) /\ child # "reaped"
           \/ GiveUp(c) \/ CancelCall(c) \/ Joined(c)
  BY DEF IInv, Typed, CallSteps, Stop, Aclose, CallFindsReaped, WaitReturns, WaitOver,
         FirstTimeout, SecondTimeout

LEMMA CallStep ==
    ASSUME IInv, NEW c \in Calls, CallSteps(c)
    PROVE  IInv'
  BY CallCases, FinishStep, CallMoves

\* IInv holds in every reachable state of the runner.
THEOREM Invariance == Spec => []IInv
<1>1. IInv /\ [Next]_vars => IInv'
  <2> SUFFICES ASSUME IInv, [Next]_vars PROVE IInv'
    OBVIOUS
  <2>1. CASE UNCHANGED vars
    <3>1. Typed'
      BY <2>1 DEF vars, osVars, taskVars, callVars, IInv, Typed
    <3> QED BY <2>1, <3>1, Undisturbed DEF vars, osVars, taskVars, IInv
  <2> QED BY <2>1, ChildStep, WatchStep, StreamStep, CallStep DEF Next
<1> QED BY <1>1, InitHolds, PTL DEF Spec

\* Every variable keeps its type and the log its capacity.
THEOREM TypeCorrect == Spec => []TypeOK
<1>1. IInv => TypeOK
  BY DEF IInv, LogTyped, Counted, Typed, TypeOK
<1> QED BY <1>1, Invariance, PTL

\* on_exit is called after the child is reaped and its output read, except
\* where a reader failed or was cancelled (ProcessRunner._watch).
THEOREM NoticesComeAfterTail == Spec => []NoticeAfterTail
<1>1. IInv => NoticeAfterTail
  BY DEF IInv, WatchAgrees, PipesAgree, NoticeAfterTail, Ended
<1> QED BY <1>1, Invariance, PTL

\* A stop or aclose that returned left no child and no task at work
\* (ProcessRunner._finish and aclose).
THEOREM StopsLeaveNothing == Spec => []StopLeavesNothing
<1>1. IInv => StopLeavesNothing
  BY DEF IInv, CallsAgree, Quiet, StopLeavesNothing
<1> QED BY <1>1, Invariance, PTL

----------------------------------------------------------------------------
(* The log *)

\* Which record is where after a push: every one moves down by what was
\* dropped, and the new one comes last.
Dropped(buffer, capacity) == IF Len(buffer) < capacity THEN 0 ELSE 1

LEMMA PushedAt ==
    ASSUME NEW S, NEW buffer \in Seq(S), NEW capacity \in Nat \ {0},
           Len(buffer) <= capacity, NEW record \in S
    PROVE  LET pushed == Push(buffer, capacity, record)
               gone == Dropped(buffer, capacity)
           IN  /\ Len(pushed) = Len(buffer) + 1 - gone
               /\ \A i \in 1 .. Len(buffer) - gone : pushed[i] = buffer[i + gone]
               /\ pushed[Len(buffer) + 1 - gone] = record
<1>1. CASE Len(buffer) < capacity
  BY <1>1 DEF Push, Dropped
<1>2. CASE Len(buffer) >= capacity
  <2> DEFINE rest == Tail(buffer)
  <2>1. /\ rest \in Seq(S)
        /\ Len(rest) = Len(buffer) - 1
        /\ \A i \in 1 .. Len(buffer) - 1 : rest[i] = buffer[i + 1]
    BY <1>2
  <2>2. Push(buffer, capacity, record) = Append(rest, record) /\ Dropped(buffer, capacity) = 1
    BY <1>2 DEF Push, Dropped
  <2> HIDE DEF rest
  <2>3. /\ Len(Append(rest, record)) = Len(rest) + 1
        /\ \A i \in 1 .. Len(rest) : Append(rest, record)[i] = rest[i]
        /\ Append(rest, record)[Len(rest) + 1] = record
    BY <2>1
  <2>4. Len(buffer) \in Nat
    OBVIOUS
  <2> QED BY <2>1, <2>2, <2>3, <2>4
<1> QED BY <1>1, <1>2

\* Seen from a record that stays, a push adds the new line or nothing.
LEMMA FollowingGrows ==
    ASSUME NEW gone \in {0, 1}, Len(log) \in Nat, Len(log') = Len(log) + 1 - gone,
           \A j \in 1 .. Len(log) - gone : log'[j] = log[j + gone],
           NEW i \in 1 .. Len(log) - gone,
           NEW last, last = log'[Len(log')]
    PROVE  Following(i)' = Following(i + gone) \cup
               (IF last.stream = log[i + gone].stream THEN {last.line} ELSE {})
<1>1. i + gone \in 1 .. Len(log) /\ log'[i] = log[i + gone]
  OBVIOUS
<1>2. ASSUME NEW x \in Following(i)'
      PROVE  x \in Following(i + gone) \/ (last.stream = log[i + gone].stream /\ x = last.line)
  <2>1. PICK j \in i + 1 .. Len(log') : log'[j].stream = log'[i].stream /\ x = log'[j].line
    BY DEF Following
  <2>2. CASE j = Len(log')
    BY <1>1, <2>1, <2>2
  <2>3. CASE j # Len(log')
    <3>1. j \in 1 .. Len(log) - gone /\ j + gone \in i + gone + 1 .. Len(log)
      <4>1. CASE gone = 0
        BY <2>1, <2>3, <4>1
      <4>2. CASE gone = 1
        BY <2>1, <2>3, <4>2
      <4> QED BY <4>1, <4>2
    <3>2. log'[j] = log[j + gone]
      BY <3>1
    <3> QED BY <1>1, <2>1, <3>1, <3>2 DEF Following
  <2> QED BY <2>2, <2>3
<1>3. ASSUME NEW x \in Following(i + gone) PROVE x \in Following(i)'
  <2>1. PICK j \in i + gone + 1 .. Len(log) :
            log[j].stream = log[i + gone].stream /\ x = log[j].line
    BY DEF Following
  <2>2. \E k \in i + 1 .. Len(log) - gone : k + gone = j
    <3>1. j - gone \in i + 1 .. Len(log) - gone /\ (j - gone) + gone = j
      BY <2>1
    <3> QED BY <3>1
  <2>3. PICK k \in i + 1 .. Len(log) - gone : k + gone = j
    BY <2>2
  <2>4. k \in i + 1 .. Len(log') /\ log'[k] = log[j]
    BY <2>3
  <2> QED BY <1>1, <2>1, <2>4 DEF Following
<1>4. last.stream = log[i + gone].stream => last.line \in Following(i)'
  <2>1. Len(log') \in i + 1 .. Len(log')
    OBVIOUS
  <2> QED BY <1>1, <2>1 DEF Following
<1> QED BY <1>2, <1>3, <1>4

LEMMA DrainKeepsLog ==
    ASSUME IInv, LogIsNewest, NEW s \in Streams, Drain(s)
    PROVE  LogIsNewest'
<1> DEFINE n == Len(log)
           r == Record(s, read[s] + 1)
           gone == Dropped(log, Capacity)
           All == [stream : Streams, line : 1 .. MaxLines]
<1>1. /\ read' = [read EXCEPT ![s] = read[s] + 1]
      /\ log' = Push(log, Capacity, r)
      /\ read[s] < written[s]
  BY DEF Drain
<1>2. /\ read \in [Streams -> Nat]
      /\ read[s] + 1 \in 1 .. MaxLines
      /\ Capacity \in Nat \ {0}
      /\ log \in Seq(All)
      /\ n \in Nat
      /\ n <= Capacity
  BY <1>1, MaxLinesAssumption, CapacityAssumption DEF IInv, Counted, LogTyped
<1>3. r \in All /\ r.stream = s /\ r.line = read[s] + 1
  BY <1>2 DEF Record
<1>4. \A i \in 1 .. n : log[i].stream \in Streams /\ log[i].line \in Nat
  <2>1. \A i \in 1 .. n : log[i] \in All
    <3> HIDE DEF All
    <3> QED BY <1>2
  <2>2. \A e \in All : e.stream \in Streams /\ e.line \in Nat
    BY MaxLinesAssumption
  <2> QED BY <2>1, <2>2
<1>5. gone \in {0, 1} /\ gone = IF n < Capacity THEN 0 ELSE 1
  BY DEF Dropped
<1> HIDE DEF r, All
<1>6. /\ Len(log') = n + 1 - gone
      /\ \A i \in 1 .. n - gone : log'[i] = log[i + gone]
      /\ log'[Len(log')] = r
  BY <1>1, <1>2, <1>3, PushedAt
<1>7. log' \in Seq(All)
  BY <1>1, <1>2, <1>3, Pushing
<1> HIDE DEF gone
<1>8. \A t \in Streams : read'[t] = IF t = s THEN read[s] + 1 ELSE read[t]
  BY <1>1, <1>2
<1>9. LET total == read'["stdout"] + read'["stderr"]
      IN  Len(log') = IF total < Capacity THEN total ELSE Capacity
  BY <1>2, <1>5, <1>6, <1>8 DEF LogIsNewest, Streams
<1>10. ASSUME NEW i \in 1 .. Len(log')
       PROVE  /\ log'[i].line <= read'[log'[i].stream]
              /\ Following(i)' = log'[i].line + 1 .. read'[log'[i].stream]
  <2>1. CASE i = Len(log')
    <3>1. Following(i)' = {}
      BY <1>2, <1>5, <1>6, <2>1 DEF Following
    <3>2. log'[i].stream = s /\ log'[i].line = read[s] + 1 /\ read'[s] = read[s] + 1
      BY <1>3, <1>6, <1>8, <2>1
    <3> QED BY <1>2, <3>1, <3>2
  <2>2. CASE i # Len(log')
    <3> DEFINE t == log[i + gone].stream
               m == log[i + gone].line
    <3>1. i \in 1 .. n - gone /\ i + gone \in 1 .. n
      BY <1>2, <1>5, <1>6, <2>2
    <3>2. log'[i].line = m /\ log'[i].stream = t /\ t \in Streams /\ m \in Nat
      BY <1>4, <1>6, <3>1
    <3>3. m <= read[t] /\ Following(i + gone) = m + 1 .. read[t]
      BY <1>2, <3>1 DEF LogIsNewest
    <3>4. Following(i)' = Following(i + gone) \cup IF s = t THEN {read[s] + 1} ELSE {}
      BY <1>2, <1>3, <1>5, <1>6, <3>1, FollowingGrows
    <3> HIDE DEF t, m
    <3>5. read[t] \in Nat
      BY <1>2, <3>2
    <3>6. CASE t = s
      BY <1>8, <3>2, <3>3, <3>4, <3>5, <3>6
    <3>7. CASE t # s
      BY <1>8, <3>2, <3>3, <3>4, <3>5, <3>7
    <3> QED BY <3>6, <3>7
  <2> QED BY <2>1, <2>2
<1>11. DOMAIN log' = 1 .. Len(log')
  BY <1>7
<1> QED BY <1>9, <1>10, <1>11 DEF LogIsNewest

\* What the runner keeps of the output is its end, whatever the order in
\* which the two readers append to the deque (RingBuffer.append).
THEOREM LogsAreNewest == Spec => []LogIsNewest
<1>1. Init => LogIsNewest
  BY CapacityAssumption DEF Init, LogIsNewest, Streams
<1>2. IInv /\ LogIsNewest /\ [Next]_vars => LogIsNewest'
  <2> SUFFICES ASSUME IInv, LogIsNewest, [Next]_vars PROVE LogIsNewest'
    OBVIOUS
  <2>1. CASE \E s \in Streams : Drain(s)
    BY <2>1, DrainKeepsLog
  <2>2. CASE Start
    BY <2>2 DEF Start, LogIsNewest, Following
  <2>3. CASE ~Start /\ ~\E s \in Streams : Drain(s)
    <3>1. UNCHANGED <<read, log>>
      <4>1. CASE UNCHANGED vars
        BY <4>1 DEF vars, taskVars
      <4>2. CASE Exit \/ Reap \/ WatchSteps
        BY <4>2 DEF Exit, Reap, WatchSteps, WatchWakes, WatchTails, WatchCut, WatchGoesTo, taskVars
      <4>3. CASE \E s \in Streams : StreamSteps(s)
        BY <2>3, <4>3 DEF StreamSteps, Write, Pause, Eof, DrainFails, DrainEnds, taskVars
      <4>4. CASE \E c \in Calls : CallSteps(c)
        BY <4>4, CallCases
           DEF Finish, CancelReaders, CallSignals, FirstTimeout, SecondTimeout, GiveUp, CancelCall,
               Joined, taskVars
      <4> QED BY <2>3, <4>1, <4>2, <4>3, <4>4 DEF Next
    <3> QED BY <3>1 DEF LogIsNewest, Following
  <2> QED BY <2>1, <2>2, <2>3
<1> QED BY <1>1, <1>2, Invariance, PTL DEF Spec

----------------------------------------------------------------------------
(* snapshots *)

\* items[-limit:] is what is left from some place on.
LEMMA LastItemsShow ==
    ASSUME NEW A, NEW items \in Seq(A), NEW limit \in Nat \ {0}
    PROVE  \E first \in 0 .. Len(items) :
               /\ first = IF limit > Len(items) THEN 0 ELSE Len(items) - limit
               /\ DOMAIN LastItems(items, limit) = 1 .. Len(items) - first
               /\ Len(LastItems(items, limit)) = Len(items) - first
               /\ \A i \in 1 .. Len(items) - first : LastItems(items, limit)[i] = items[first + i]
<1> DEFINE n == Len(items)
           first == IF limit > n THEN 0 ELSE n - limit
<1>1. n \in Nat /\ first \in 0 .. n
  OBVIOUS
<1>2. LastItems(items, limit) = SubSeq(items, first + 1, n)
  BY DEF LastItems
<1> HIDE DEF first
<1>3. /\ SubSeq(items, first + 1, n) \in Seq(A)
      /\ Len(SubSeq(items, first + 1, n)) = n - first
      /\ \A i \in 1 .. n - first : SubSeq(items, first + 1, n)[i] = items[first + i]
  BY <1>1
<1>4. DOMAIN SubSeq(items, first + 1, n) = 1 .. n - first
  BY <1>3
<1> QED BY <1>1, <1>2, <1>3, <1>4 DEF first

\* The list comprehension picks the records asked for as they stand in the log.
LEMMA SelectedInLog ==
    ASSUME TypeOK, NEW stream
    PROVE  LET items == Selected(log, {r \in ToSet(log) : stream \in {"both", r.stream}}) IN
           /\ items \in Seq([stream : Streams, line : 1 .. MaxLines])
           /\ \E order : /\ Enumerates(order, Len(items), AskedFor(stream), Len(log))
                         /\ \A i \in 1 .. Len(items) : items[i] = log[order[i]]
<1> DEFINE A == [stream : Streams, line : 1 .. MaxLines]
           passing == {r \in ToSet(log) : stream \in {"both", r.stream}}
           items == Selected(log, passing)
<1>1. log \in Seq(A)
  BY DEF TypeOK
<1>2. DOMAIN log = 1 .. Len(log) /\ Len(log) \in Nat
  <2> HIDE DEF A
  <2> QED BY <1>1
<1>3. \A i \in 1 .. Len(log) : log[i] \in passing <=> i \in AskedFor(stream)
  BY <1>2 DEF ToSet, AskedFor
<1> HIDE DEF A, passing, items
<1>4. items \in Seq(A) /\ \E order : InOrder(order, items, log, passing, Len(log))
  BY <1>1, SelectedInOrder DEF items
<1>5. PICK order : InOrder(order, items, log, passing, Len(log))
  BY <1>4
<1>6. /\ order \in [1 .. Len(items) -> 1 .. Len(log)]
      /\ \A i, j \in 1 .. Len(items) : i < j => order[i] < order[j]
      /\ \A i \in 1 .. Len(items) : items[i] = log[order[i]] /\ log[order[i]] \in passing
      /\ \A p \in 1 .. Len(log) : log[p] \in passing => \E i \in 1 .. Len(items) : order[i] = p
  BY <1>5 DEF InOrder
<1>7. Enumerates(order, Len(items), AskedFor(stream), Len(log))
  <2>1. \A i \in 1 .. Len(items) : order[i] \in AskedFor(stream)
    BY <1>3, <1>6
  <2>2. \A p \in 1 .. Len(log) : p \in AskedFor(stream) => \E i \in 1 .. Len(items) : order[i] = p
    BY <1>3, <1>6
  <2> QED BY <1>6, <2>1, <2>2 DEF Enumerates
<1> QED BY <1>4, <1>6, <1>7 DEF A, items, passing

LEMMA NewestAreShown ==
    ASSUME TypeOK, NEW stream, NEW limit \in Nat \ {0}
    PROVE  ShowsNewest(stream, limit)
<1> DEFINE asked == AskedFor(stream)
           snap == Snapshot(log, stream, limit)
           items == Selected(log, {r \in ToSet(log) : stream \in {"both", r.stream}})
           A == [stream : Streams, line : 1 .. MaxLines]
           n == Len(items)
<1>1. items \in Seq(A)
  BY SelectedInLog
<1>2. PICK order : /\ Enumerates(order, n, asked, Len(log))
                   /\ \A i \in 1 .. n : items[i] = log[order[i]]
  BY SelectedInLog
<1>3. snap = LastItems(items, limit)
  BY DEF Snapshot
<1>4. asked \subseteq 1 .. Len(log) /\ Len(log) \in Nat
  <2>1. log \in Seq(A)
    BY DEF TypeOK
  <2> HIDE DEF A
  <2> QED BY <2>1 DEF AskedFor
<1> HIDE DEF asked, items, snap, A
<1>5. n \in Nat
  BY <1>1
<1>6. PICK first \in 0 .. n :
          /\ first = IF limit > n THEN 0 ELSE n - limit
          /\ DOMAIN snap = 1 .. n - first
          /\ Len(snap) = n - first
          /\ \A i \in 1 .. n - first : snap[i] = items[first + i]
  <2>1. \E first \in 0 .. Len(items) :
            /\ first = IF limit > Len(items) THEN 0 ELSE Len(items) - limit
            /\ DOMAIN LastItems(items, limit) = 1 .. Len(items) - first
            /\ Len(LastItems(items, limit)) = Len(items) - first
            /\ \A i \in 1 .. Len(items) - first : LastItems(items, limit)[i] = items[first + i]
    BY <1>1, LastItemsShow
  <2> QED BY <1>3, <2>1, Zenon
<1>7. /\ Cardinality(UpTo(asked, Len(log))) = n
      /\ \A k \in 1 .. n : Cardinality(UpTo(asked, order[k])) = k
  <2> HIDE DEF n
  <2> QED BY <1>2, <1>4, <1>5, PlaceIsCount
<1>8. Cardinality(asked) = n
  <2>1. UpTo(asked, Len(log)) = asked
    BY <1>4 DEF UpTo
  <2> QED BY <1>7, <2>1
<1>9. /\ order \in [1 .. n -> 1 .. Len(log)]
      /\ \A i \in 1 .. n : order[i] \in asked
  BY <1>2 DEF Enumerates
<1> HIDE DEF n
<1>10. ASSUME NEW i \in DOMAIN snap
       PROVE  \E k \in asked : /\ snap[i] = log[k]
                               /\ Cardinality({m \in asked : m <= k})
                                      = Cardinality(asked) - Len(snap) + i
  <2>1. i \in 1 .. n - first /\ first + i \in 1 .. n
    BY <1>5, <1>6
  <2>2. PICK k \in asked : k = order[first + i]
    BY <1>9, <2>1
  <2>3. snap[i] = log[k]
    BY <1>2, <1>6, <2>1, <2>2 DEF n
  <2>4. {m \in asked : m <= k} = UpTo(asked, k)
    <3>1. PICK len \in Nat : asked \subseteq 1 .. len
      BY <1>4
    <3>2. k \in Nat
      BY <3>1
    <3>3. \A m \in asked : m \in Nat /\ 1 <= m
      BY <3>1
    <3>4. \A m \in asked : m <= k => m \in 1 .. k
      BY <3>2, <3>3
    <3>5. \A m \in 1 .. k : m <= k
      BY <3>2
    <3> QED BY <3>4, <3>5, Zenon DEF UpTo
  <2>5. Cardinality({m \in asked : m <= k}) = first + i
    BY <1>7, <2>1, <2>2, <2>4
  <2>6. Cardinality(asked) - Len(snap) + i = first + i
    BY <1>5, <1>6, <1>8
  <2> QED BY <2>3, <2>5, <2>6
<1>11. Len(snap) = IF Cardinality(asked) < limit THEN Cardinality(asked) ELSE limit
  BY <1>5, <1>6, <1>8
<1> QED BY <1>10, <1>11 DEF ShowsNewest, asked, snap

\* Whatever the readers append, what get_logs returns, of one stream or both
\* and with any limit, is the newest of the records asked for that the log
\* has, in the order they came (process.py:57-68).
THEOREM SnapshotsAreNewest ==
    Spec => [](/\ SnapshotIsNewest
               /\ \A stream \in Streams \cup {"both"}, limit \in Nat \ {0} :
                      ShowsNewest(stream, limit))
<1>1. TypeOK => \A stream \in Streams \cup {"both"}, limit \in Nat \ {0} : ShowsNewest(stream, limit)
  BY NewestAreShown
<1>2. 1 .. Capacity + 1 \subseteq Nat \ {0}
  BY CapacityAssumption
<1>3. TypeOK => SnapshotIsNewest
  BY <1>1, <1>2 DEF SnapshotIsNewest
<1> QED BY <1>1, <1>3, TypeCorrect, PTL

----------------------------------------------------------------------------
(* ProcessRunner implements RunnerContract *)

LEMMA ChildMaps ==
    ASSUME IInv, Start \/ Exit \/ Reap
    PROVE  [RC!Next]_RC!vars
<1>1. CASE Start
  BY <1>1 DEF Start, IInv, TasksStarted, RC!Next, RC!Spawn, Reports
<1>2. CASE Exit
  BY <1>2 DEF Exit, taskVars, RC!Next, RC!Exit, Reports
<1>3. CASE Reap
  BY <1>3 DEF Reap, taskVars, RC!vars, Reports
<1> QED BY <1>1, <1>2, <1>3

LEMMA WatchMaps ==
    ASSUME IInv, WatchSteps
    PROVE  [RC!Next]_RC!vars
<1>1. child = "reaped" /\ UNCHANGED child
  BY DEF IInv, WatchAgrees, WatchSteps, WatchWakes, WatchTails, WatchCut, WatchGoesTo,
         WaitOver, osVars
<1> QED BY <1>1 DEF WatchSteps, WatchWakes, WatchTails, WatchCut, WatchGoesTo, TailFrom,
                    RC!Next, RC!Drain, RC!Report, RC!GiveUp, RC!vars, Reports

LEMMA FinishMaps ==
    ASSUME IInv, child = "reaped", NEW c, NEW o, Finish(c, o)
    PROVE  [RC!Next]_RC!vars
  BY DEF Finish, CancelReaders, osVars, RC!Next, RC!GiveUp, RC!vars, Reports

LEMMA StreamMaps ==
    ASSUME NEW s \in Streams, StreamSteps(s)
    PROVE  UNCHANGED RC!vars
<1>1. UNCHANGED <<child, watch>>
  BY DEF StreamSteps, Write, Pause, Eof, Drain, DrainFails, DrainEnds, taskVars, osVars
<1> QED BY <1>1 DEF RC!vars, Reports

LEMMA CallMaps ==
    ASSUME IInv, NEW c \in Calls, CallSteps(c)
    PROVE  [RC!Next]_RC!vars
<1>1. CASE \E o \in {"stop", "aclose"} : child = "reaped" /\ Finish(c, o)
  BY <1>1, FinishMaps
<1>2. CASE ~\E o \in {"stop", "aclose"} : child = "reaped" /\ Finish(c, o)
  <2>1. UNCHANGED <<child, watch>>
    BY <1>2, CallCases DEF CallSignals, FirstTimeout, SecondTimeout, GiveUp, CancelCall,
                           Joined, osVars, taskVars
  <2> QED BY <2>1 DEF RC!vars, Reports
<1> QED BY <1>1, <1>2

\* What the registry relies on: one child, reported at most once and only
\* when it is over, and a report given up only then.
THEOREM RunnerImplementsContract == Spec => ImplementsContract
<1>1. Init => RC!Init
  BY DEF Init, RC!Init, Reports
<1>2. IInv /\ [Next]_vars => [RC!Next]_RC!vars
  <2> SUFFICES ASSUME IInv, [Next]_vars PROVE [RC!Next]_RC!vars
    OBVIOUS
  <2>1. CASE UNCHANGED vars
    BY <2>1 DEF vars, osVars, taskVars, RC!vars, Reports
  <2> QED BY <2>1, ChildMaps, WatchMaps, StreamMaps, CallMaps DEF Next
<1> QED BY <1>1, <1>2, Invariance, PTL DEF Spec, RC!Spec, ImplementsContract

============================================================================
