# TLA+ models of mcp-security-mitmproxy

The repository is an MCP server that starts, watches, inspects and stops
mitmproxy subprocesses for an agent. Its difficult part is small and entirely
in one asyncio event loop: a table of sessions with port leases
(`core/session.py`), one runner per subprocess (`core/process.py`), and a
REST bridge that edits the rule lists of a running mitmweb
(`tools/rules.py`, `web_client/client.py`). The models in this directory are
about those three, about the strings the rules become (`rules/engine.py`,
`schemas/rules.py`), about the tools that read flows (`tools/mitmweb.py`,
`tools/core_tools.py`, `flows/manager.py`), and about the ports and hosts of the
tools that start a child (`tools/mitmdump.py`, `tools/mitmweb.py`,
`core/modes.py`); this file says what they cover, what TLC and TLAPS show of
them, and what they leave out. Paths below are relative to
`src/mcp_security_mitmproxy/` unless they start with `tests/` or `docs/`.

Contents: [the system](#the-system), [modules](#modules), [runs](#runs),
[bounds](#bounds), [fairness](#fairness), [what the code does against its
documentation](#what-the-code-does-against-its-documentation),
[proofs](#proofs), [not modelled](#not-modelled), [plan](#plan).

## The system

| Component | Source | State it keeps | Operations |
|---|---|---|---|
| Session registry | `core/session.py` | `_entries` (status, exit code, leased ports, directory, runner of each session), `_shutdown` | `start`, `stop`, `remove`, `shutdown_all`, `_on_exit`; read-only `get`, `list`, `logs`, `port_in_use` |
| Process runner | `core/process.py` | the child, two `_drain` tasks, one `_watch` task | `start`, `stop`, `aclose`, `wait` |
| Log ring buffer | `core/process.py` | a `deque(maxlen=…)` of tagged records | `append`, `snapshot` |
| Rules tools | `tools/rules.py` | none: the rules live in mitmweb's options | four `set` tools, `list`, `clear` |
| mitmweb client | `web_client/client.py`, `web_client/ws.py` | the XSRF token of one client | options, flows, commands, dump |
| Rules engine | `rules/engine.py`, `schemas/rules.py` | none | formatting and validating rule specs |
| Flow manager | `flows/manager.py` | none | read, find, filter, export flows |
| Session tools | `tools/mitmdump.py`, `tools/mitmweb.py`, `tools/core_tools.py` | none | checks, then one call of the registry or the client |
| Modes, paths, errors, redaction, schemas, configuration | `core/modes.py`, `core/paths.py`, `core/errors.py`, `core/redact.py`, `schemas/`, `config.py` | none | pure functions and declarations |
| Server and lifespan | `core/lifecycle.py`, `server.py` | the registry | calls `shutdown_all` when the server ends |

How they interact. A tool checks its input and calls the registry; `start`
creates a directory, an entry and a runner and awaits the spawn; the runner's
watcher task calls the registry back (`_on_exit`) when the child is over;
`stop`, `remove` and `shutdown_all` await `runner.stop`, which escalates from
SIGINT over SIGTERM to SIGKILL. The rules tools look a session up in the
registry once and then talk HTTP to the mitmweb it names.

What is hard. Everything is one event loop, so a stretch of code between two
awaits is atomic and nothing larger is. There are no locks. The hard cases are
therefore: two calls on one session or port interleaved at an await; a status
or a list read before an await and used after it; a child dying at any point
of this; a cancellation or a timeout at each await; an exit callback that
comes late, twice, or not at all; and a failed step in the middle of several.
`PROJECT.json` lists these hazards at their lines, with the properties that
watch them.

What makes each component right:

* **Registry**: no port is leased twice or given away under a live child; a
  terminal status is true and stays; success of stop and remove means that the
  child is gone; shutdown ends and leaves nothing; no child lives without an
  entry; no directory outlives its session.
* **Runner**: one child, reported at most once, after its output; a stop that
  returns leaves nothing running; every stop returns; the log is the newest
  output.
* **Rules**: a set adds one rule and takes none away; a clear takes only its
  families, and what it counted; a rule id names its rule; no rule ends up in
  another session.
* **Rules engine**: the formatted spec means to mitmproxy what the fields say,
  and a header value cannot grow a second line.
* **Session tools**: a tool answers from, and acts on, the session it was asked
  about; pages without a filter fit together, and counts are those of the
  flows there are. What a start
  leases, what it probes and what its child binds are the same, and the listed
  addresses lead to that child.

## Modules

```
PortLeases      <--refines--  SessionRegistry  <-- MCSessionRegistry, SessionRegistryProofs
RunnerContract  <--refines--  ProcessRunner    <-- MCProcessRunner,   ProcessRunnerProofs
RingBuffer      <--extends--  ProcessRunner
Lists           <--extends--  RingBuffer, InspectionTools      (ListsProofs)
RuleStore       <--refines--  RuleBridge       <-- MCRuleBridge,      RuleBridgeProofs
                              RuleSpec         <-- MCRuleSpec,        RuleSpecProofs
PortLeases      <--uses-----  InspectionTools  <-- MCInspectionTools, InspectionToolsProofs
PortLeases      <--uses-----  StartTools       <-- MCStartTools,      StartToolsProofs
```

`RunnerContract` is the joint between the first two models: it says what a
runner shows the registry of one child (spawned once; reported at most once,
when dead; the report given up only when dead). `ProcessRunner` is shown to
implement it, and the child, watcher and reader steps of `SessionRegistry`
are those of the contract. `PortLeases` is the joint between the registry and
the tools: `SessionRegistry` implements it, and `InspectionTools` and
`StartTools` use its steps for what the registry does.

An action is one stretch of a coroutine between two awaits. Definitions
preceded by a comment `Variant` are faulty copies of their neighbours; they
are part of no specification and serve to show that a property can fail.

### SessionRegistry

| In the model | In the code |
|---|---|
| `registered`, `status`, `exitCode`, `listenPorts`, `leases` | `_entries`, and of each `_Entry` the `state` and `leased_ports`; an entry outlives its registration, as coroutines hold references |
| `dirs` | the session directories on disk |
| `start[s]` | how far the `start()` that made `s` got |
| `child`, `code`, `watch` | the subprocess, its exit code and the runner's `_watch` task |
| `pc`, `op`, `target`, `force`, `todo`, `ok` | one caller of `stop`, `remove` or `shutdown_all`: where it waits, for which session, the sweep's snapshot, and whether its last call returned |
| `StartAdmitted`, `StartRefused`, `StartConfigFails` | `start` up to `await runner.start()`; the validity checks and the bind probe are a free choice |
| `SpawnSucceeds`, `SpawnFails` | the rest of `start` after the await, or its `except BaseException` |
| `Stop`, `Remove` (via `CallFinds…`, `CallSignals`) | `stop` and `remove` up to their first await |
| `ChildGone`, `Terminate`, `Kill`, `GiveUp`, `CancelCall` | what ends an await inside `runner.stop`, together with everything the caller does up to its next await |
| `SweepBegins`, `Sweeps…`, `SweepSignals`, `SweepEnds`, `SweepAborts` | `shutdown_all`; between two iterations it holds the loop (`LoopFree`) |
| `ChildExits`, `WatchDrains`, `OnExit`, `DrainFails` | the child, and the watcher's way to `_on_exit` |

`Disturbances` says which accidents the environment may cause: `cancel` (a
caller abandons start, stop or remove), `abort` (the task of `shutdown_all` is
cancelled), `overlap` (a shutdown begins while a start awaits its spawn),
`longline` (an overlong line ends a reader and with it the watcher) and `disk`
(writing `config.yaml` fails). `PortLeases` is the same system without table,
coroutines or errors: ports are acquired together and only when nobody holds
any of them, are kept while there is a child, and are given back some time
later.

### ProcessRunner and RingBuffer

`child`, `killed`, `written`, `long`, `paused` and `eof` are the operating
system's side and asyncio's transports; `read`, `drain`, `watch`, `notified`
and `log` are the reader and watcher tasks; `pc`, `op`, `force` and `ok` are
the callers of `stop` and `aclose`. Three facts of asyncio matter and are
written down as actions or guards:

* `Process.wait()` begun before the child is reaped returns only when both
  pipes are at their end too (`WaitOver`); begun later it returns at once
  (`CallFindsReaped`, and the `reaped` case of the timeouts);
* `StreamReader.readline()` raises `ValueError` on a line over 64 KiB, which
  ends the `_drain` task (`DrainFails`);
* a stream nobody reads pauses its transport when its buffer is full, and a
  paused transport never sees the end of the pipe (`Pause`, `Eof`).

A cancellation ends a watcher that is at `proc.wait()`, but is suppressed by
`_drain_tail` where it awaits a reader; that watcher goes on to call `on_exit`
(`CancelReaders`, `WatchCut`). The log is `RingBuffer`'s `Push` and `Snapshot`
over sequences of numbered lines; a snapshot is of one stream or of both. `aclose` has only tests as callers.

`Lists` holds what the code does with Python lists in more than one place:
`Selected`, a list comprehension with a condition.

### RuleBridge

A `Request` is one tool call, made at most once; a set's rule is named after
it. `Read`, `Handshake`, `Apply`, `Refuse`, `Written` and `Verify` are the GET,
the fetch of the XSRF token, mitmweb's handling of the PUT, its two kinds of
answers, and a clear's second GET; `Fail` is a timeout, a lost connection or a
cancellation at any await, after which the PUT may have been applied or not.
The client marks the token as loaded before it asks for it, and goes on without
one if that fails: its PUT is then `bare`. mitmweb refuses such a PUT, or takes
it where it was built without CSRF (`nocsrf`). A client lives for one tool call
with one PUT, so the cached token is never used twice. The payload of a PUT
holds only the families a request concerns, each as a whole list (`NewList`).
`server` is what answers at the session's web port: the session's mitmweb,
nobody, or, once the port was leased anew, the mitmweb of another session, whose
rules are `elsewhere` (`PortPasses`); each answers only to its own password
(`WebToken`, `Authorized`). A password is drawn for one session alone, unless
the agent gave the same `web_password` to both (`shared`, the variable `given`);
then a PUT can take effect in the other session (`strayed`). `Disturbances` may
contain, besides `shared` and `nocsrf`, `overlap` (requests with a family in
common run concurrently), `late` (a PUT takes effect after its client gave up)
and `down` (mitmweb stops). Without `overlap` requests with a common family take
turns, while requests on different families still interleave freely; this is
what an agent that waits for each answer does, not something the server
enforces. `RuleIdNamesRule` follows a `rule_id` until a clear that had read that
very rule takes it away (`ClearedAway`); a clear before the set excuses nothing.
`RuleStore` is the store an agent believes in: set and clear are single
steps. A rule is one value there; how it is spelt is the next module.

### RuleSpec

One rule from the fields of a tool call to what mitmproxy does with it:
`Valid` is the schema (`schemas/rules.py`), `Free`, `Chosen` and `Join` are
`select_delimiter` and `_join`, `Escape` is `_escape_backslashes`,
`HarmlessValue` is `_reject_control_bytes`; `Compile` and `Refuse` are the
`format_…_spec` functions with all of these. `Parse`, `Decode` and `Meaning`
are mitmproxy's `parse_spec`, its C-escape decoder and its addons, as far as
the engine relies on them; `Effect` is what the header addon makes of an empty
replacement, which it removes. The operation is part of the rule, so a set that
removes shows (`SetsNothing`). A text is a sequence of characters, and a character
is told apart from others only where some rule of the code does: the
separators, the backslash, the at-sign, the newline, and a letter that stands
for a newline after a backslash. That a pattern is a valid regular expression
and a filter a valid flow filter is taken for granted, and so is a local path
that the tool found in its allowlist.

### InspectionTools

Calls of the five tools that read flows or send a command, against sessions
whose ports come and go as `PortLeases` allows; `status` is what the registry
lists (`starting` to `ended`; STOPPING, STOPPED and FAILED are one value here,
as the tools only ask for RUNNING). `Call` is a tool up to its first await
(`Obstacle` the checks in their order, `ReadsFile` the two tools that read a
`save_path` and never await); `Read`, `Execute`, `FindDetail` and
`FetchContent` are a request as the mitmweb at the port serves it; `Fail` and
`MissContent` are a request that ends otherwise. `View` is the list mitmweb
holds: it grows at its end and is emptied by `view.clear`, the only allowed
command that changes it. `Page`, `FirstMatches` and `Export` are what the code
computes from a list of flows.

A flow is its session and its number, and may get its response later
(`Complete`); a filter expression may match it only before or only after that
(`Matching`, `MatchesNow`), as `~c`, `~s` and `~b` do, and is evaluated when it
is read. An answer holds the flows of the server that gave it, and the id a call
asks for may be that of any session's flow, so that a foreign answer would show.
Each session has a `save_path` of its own, in which a flow is written when it is
over; reading it may fail because mitmproxy has not created it or is in the
middle of a flow (`FileErrors`). The passwords of the sessions are any of
`Passwords`, equal ones included: a drawn one is unique, but a given
`web_password` is taken as it is (`tools/mitmweb.py:65`). The properties name
that exception: the `Peers` of a session are those with its port and its
password. Reading an arbitrary `flow_path` does not depend on sessions and is
left out.

### StartTools

| In the model | In the code |
|---|---|
| `request` | the input of `mitmdump_start`, `mitmweb_start` or `mitmdump_replay`, as far as ports, hosts, modes and checks go |
| `Acceptable` | the path and mode checks of the tools, up to the call of the registry |
| `Claims` | the ports passed to `registry.start`, each with the host `_resolve_port_host` finds for it |
| `Sockets` | what the child will bind, from `build_mode_args`, `build_listen_port_args` and `build_listen_host_arg` |
| `state`, `held`; `Start`, `Spawned`, `SpawnFails`, `Exits`, `StopReleases` | the registry, as `PortLeases` has it; `Start` includes `port_in_use` and the bind probe (`_check_port_free`) |
| `bound`, `foreign`; `Binds`, `BindFails`, `ForeignTakes`, `ForeignLeaves` | the sockets of the children and of other programs |

The same ports go three ways: to the lease, to the probe and to the command
line. `Claims` and `Sockets` are the two translations of one request, and
the properties say that they agree. What the code relies on of mitmproxy is
external: one `--listen-port` serves all modes, each kind of mode listens on
its own transports and has a default port where none is given, without
`--listen-host` it takes all interfaces, and it exits when it cannot listen. The
child binds its sockets one by one, long after the probe closed its own. Two
addresses clash when transport and port are equal and the hosts are, or one of
them is the address of all interfaces. A request that is refused may be made
again. `set_options` that name `listen_port` or the like are left out.

## Runs

| Run | Module and cfg | Checks | States |
|---|---|---|---|
| `registry_safety` | `MCSessionRegistry`, `RegistrySafety.cfg` | two sessions, two ports, two callers, all disturbances: `TypeOK`, `LeaseExclusive`, `NoPortClash`, `LiveChildHoldsLease`, `VerdictIsReal`, `OkMeansGone`, `OrphansOnlyAfterShutdown`, `SweepMissesNothing`, `DirectoriesTracked`, `TerminalIsFinal`, refinement of `PortLeases` | 823 480 |
| `registry_liveness` | `MCSessionRegistry`, `RegistryLiveness.cfg` | one session, two callers, cancellations: `NoOrphan`, and under fairness `CallReturns`, `DeathIsReported`, `ShutdownClears` | 4 024 |
| `runner_safety` | `MCProcessRunner`, `RunnerSafety.cfg` | two callers, overlong lines: `TypeOK`, `NoticeAfterTail`, `LogIsNewest`, `SnapshotIsNewest`, `StopLeavesNothing`, refinement of `RunnerContract` | 1 564 987 |
| `runner_liveness` | `MCProcessRunner`, `RunnerLiveness.cfg` | two callers, no overlong lines, under fairness: `DeathIsNoticed`, `CallReturns` | 78 197 |
| `rules_orderly` | `MCRuleBridge`, `RulesOrderly.cfg` | four requests, two families, mitmweb may stop and another take its port, with the same password or not, and take a bare PUT or not: `TypeOK`, `RuleIdNamesRule`, `RulesStayInSession`, `ClearAnswersTruly`, refinement of `RuleStore` | 3 020 875 |
| `rule_specs` | `MCRuleSpec`, `RuleSpecs.cfg` | every rule with short fields: `TypeOK`, `RuleMeansRequest`, `HeaderStaysOneLine` | 995 700 |
| `flow_answers` | `MCInspectionTools`, `FlowAnswers.cfg` | two sessions of mitmweb on one port, one of mitmdump, with equal or different passwords, a reading and a clearing call, responses that come late: `TypeOK`, `AnswersFromOwnSession`, `PageIsWindow`, `CommandsReachOwnSession`, `CountIsOfAll` | 5 503 225 |
| `start_ports` | `MCStartTools`, `StartPorts.cfg` | two sessions, each with one of twenty requests, and another program: `TypeOK`, `SessionsDontCompete`, `AdmittedCanListen`, `ListedPortsServe` | 121 737 |
| `lease_leak`, `shutdown_orphan`, `forced_stop`, `lost_rule` | | one property each, stated in the repository's documentation and violated by the code; see below | |

What the passing runs show, beyond their lists: a lease is safe although
nothing locks it, because check and registration have no await in between;
`start` overwriting the status after its await cannot falsify a listed verdict;
an entry in `STOPPING` after a timeout or a cancellation keeps its ports until
a later stop; the defensive clean-up at the end of `shutdown_all` is indeed
never needed; a suppressed cancellation makes the watcher report a child whose
stop already returned, but never twice and never before its end. Of the rules,
`rule_specs` shows that no choice of separator, even the backslash or the
at-sign at the end of the sweep, shifts a part or turns a text into a file
name; and that the two guards of a header value need each other: the check of
the decoded bytes looks at the value before it is escaped, and a newline after
a backslash is not among them. Of the inspection tools, `flow_answers` shows
that looking a session up only once is harmless although its port may change
hands, as long as the two sessions have different passwords, and that a page
without a filter is a window onto one list whenever it was fetched; `rules_orderly`
shows the same of a PUT that was prepared for one session and arrives at
another's mitmweb, and that a token that never came leaves no half-made rule. Of the
starts, `start_ports` shows that two sessions never want one address at ports
their requests name, although a second mode's port is leased and never used;
and `ListedPortsServe` holds even of replay, whose child listens on other hosts
than the registry lists, since loopback is among all interfaces and the port is
leased. The log (`LogIsNewest`) may lack the last lines when a stop cancels a
reader, but what it holds has no gap.

`DirectoriesTracked` says of every session directory that an entry will delete
it, with one exception: a directory whose `config.yaml` could not be written
stays behind (`core/session.py:263-265`), and this is the only way to leave one.
`NoOrphan` is checked without `overlap` and `abort`: `shutdown_orphan` shows
the former breaks it. The model of the registry takes it that a killed child is
reaped and its wait returns; `forced_stop` shows when that fails, so the
liveness of the registry is for children that print no overlong lines.
`CHECK_DEADLOCK FALSE` stands only in the cfgs of `RuleBridge`, where every
request is made once and all of them may be over, and in those of `RuleSpec`,
`InspectionTools` and `StartTools`, whose rule, calls and sessions come to an
end.

Each property of a passing run has a mutant in `PROJECT.json`: a plausible
mistake in one mapped definition with which the run finds the property
violated.

## Bounds

* **Two sessions and two ports** are what a conflict needs; every lease
  property speaks about two sessions. **Two callers** are what a race of
  stop, remove and shutdown needs, three coroutines with the start. A session
  id is used once, as uuid4 makes it; a port can pass from one session to the
  other, in either order. The proofs lift these bounds for every safety
  property of the run but not for liveness.
* **One session in `registry_liveness`**: a sweep with one entry, races of two
  callers on it, and a start; the fairness conditions do not couple sessions.
* **`Capacity = 2`, `MaxLines = 2`** on two streams: up to four records
  compete for two places, so the buffer wraps with every mixture of streams,
  and both readers can fail or lag. `Snapshot` is asked for every limit from 1 to
  `Capacity + 1`, of either stream and of both. `MaxLines` is a cap on what the child writes, not part of
  the code. `Capacity = 1`, `MaxLines = 1` for liveness still has a pipe whose
  end comes before or after its line is read.
* **Four requests on two families**: two writers in turn on one family, with
  another on the second and a clear of both; a longer history on one family
  meets no new case, since a request sees only the list as it is. The four
  families of the code behave alike. Whether the two sessions share a password
  is chosen at the start.
* **Six characters, filters of one, subjects of two and replacements of three**:
  together six places, so that the five separators can all be used up and the
  engine refuses; three characters hold a backslash with its neighbours on
  both sides. The proofs (`RulesMeanRequests`, `HeadersStayOneLine`) lift these
  bounds.
* **Two mitmwebs on one port, two flows in the one that is asked most, one in the
  other, which saves its flows**: the least for a port that changes hands, and
  for a page, a filter and a limit that leave something out. The filter matches
  one flow always and the other only while it has no response. One call asks any
  question, the other clears the view; calls do not meet in any other way. The
  proofs have none of these bounds.
* **Two sessions, two ports, three hosts, three kinds of modes** for
  `StartTools`: two requests that compete for a port, or name two; loopback,
  another address and all interfaces; a mode on TCP, one on UDP, and a
  privileged one. The twenty requests have no, one, two different or two equal
  ports, for one mode or two, from each tool; the child's default is the port
  that others name. Other programs hold one socket at a time, a cap; the proofs
  have none of these bounds but that one.
* **Symmetry** is used in `RegistrySafety` and `RulesOrderly`, over sets whose
  members nothing distinguishes, and in no liveness run.

## Fairness

`SessionRegistry!FairSpec`: a spawn attempt ends (strong fairness: the loop
may be held by a sweep in between), a watcher that can go on does, a wait that
can end ends, a sweep that holds the loop goes on, and a child that was sent
SIGKILL dies. Strong fairness on waits and watchers stands for asyncio's FIFO
ready queue: a callback that is ready is run although others keep getting
ready. Nobody has to call anything, and a child that is not killed may live
for ever.

`ProcessRunner!FairSpec`: weak fairness for each task and each caller (no
step of another task disables theirs for longer than it takes), for the
kernel's reaping and the end of a pipe nobody holds open, and for the death of
a killed child. There is no fairness for `Write`, `Pause`, `Start` or calls.

## What the code does against its documentation

1. `lease_leak`, `StopReleasesPorts` (`core/session.py:326`): a child that
   died by itself keeps its ports leased; stopping the session succeeds and
   does not release them, contrary to the description of the stop tool. No
   tool exposes `remove`, so they stay leased until the server ends.
2. `shutdown_orphan`, `NoOrphan` (`core/session.py:369`): a `shutdown_all`
   that meets a start awaiting its spawn drops the entry; the start then
   returns a live child that no entry manages, contrary to
   `core/lifecycle.py:4-6`.
3. `forced_stop`, `ForcedStopReturns` (`core/process.py:235`): after a line
   over 64 KiB ended a reader, the wait that follows SIGKILL never returns,
   and with it neither `stop(force=True)` nor `shutdown_all`.
4. `lost_rule`, `SetKeepsRules` (`tools/rules.py:110`): two overlapping sets
   on one family lose a rule and return the same rule id; a test calls the
   read-modify-write an append that keeps the existing rule.

Smaller things the models contain and no run of its own checks against a
document:

* a header set to the empty value, which the schema lets pass, compiles to the
  string that removes it (`rules/engine.py:128-131`), where
  `schemas/rules.py:50` says that a set "re-adds the value" and
  `docs/user-guide/02-tools-reference.md:284` that it replaces the header.
  `RuleMeansRequest` names it as its exception (`SetsNothing`);
* two sessions may be given one `web_password` (`tools/mitmweb.py:65`); a call
  under way while their port passes from one to the other then reads, changes
  or clears the wrong one. `RulesStayInSession`, `AnswersFromOwnSession` and
  `CommandsReachOwnSession` name it as their exception;
* pages of `mitmweb_get_flows` with an expression are each right for their
  moment (`CountIsOfAll`) but need not fit together: a flow whose response comes
  between two pages may stop matching, and the flows behind it move up
  (`web_client/client.py:158`). `PageIsWindow` is of pages without one;
* an inspection tool on a session of mitmdump answers `INTERNAL_ERROR`
  (`Obstacle`), since the client cannot be built from the URL
  `http://None:None` (`tools/mitmweb.py:158`);
* `stop` records `STOPPED` whatever the exit code (`core/session.py:331`), while
  `docs/user-guide/02-tools-reference.md:109` says `failed` on a non-zero exit;
* a request without `listen_port` leases nothing for its proxy
  (`core/modes.py:98`), so that it and a session that names mitmproxy's default
  port, or another such request, meet when the second child binds: "Lease proxy
  ports so two sessions never collide" (`core/session.py:6`) is true of named
  ports only, which is how `SessionsDontCompete` states it;
* `mitmdump_replay` passes no `--listen-host`: its child takes all interfaces,
  and a port that is taken on another one fails as a crash of the child, which
  the probe is meant to prevent (`docs/user-guide/02-tools-reference.md:144`, of
  mitmweb). `AdmittedCanListen` names it as its exception;
* a request that uses one port for its proxy and its web interface, or for two
  modes on one transport, is admitted and defeats itself (`BindFails`).

## Proofs

All theorems hold for every value of the constants under the modules' named
assumptions. No bound of the runs remains, and every session, caller and
request set may be infinite.

| Module | Assumptions, and why the code justifies them |
|---|---|
| `SessionRegistry` | `DisturbancesAssumption`, `NoSessionAssumption`: naming only |
| `ProcessRunner` | `CapacityAssumption`, `MaxLinesAssumption`, `LongLinesAssumption`: the ranges of settings and caps |
| `RuleBridge` | `DisturbancesAssumption`: naming only |
| `RuleSpec` | `DelimitersAssumption`, `EscapesAssumption`, `CharsAssumption`, `RequestsAssumption`: types. `BackslashAssumption`: a doubled backslash decodes to one, which is what `_escape_backslashes` relies on. `TokenAssumption`: a header name is made of token characters, and the backslash is none (`schemas/rules.py`). `ControlAssumption`: the backslash is printable, and the only control character that an escape can swallow is the newline after a backslash, for which the schema has a check of its own |
| `InspectionTools` | `KindsAssumption`, `PortAssumption`, `MaxFlowsAssumption`, `PasswordsAssumption`, `MatchingAssumption`, `AsksAssumption`: types. Passwords may be equal, and a filter may match a flow with or without its response |
| `StartTools` | `HostsAssumption`, `KindsAssumption`, `RequestsAssumption`: types, and that all interfaces are a host |

**SessionRegistryProofs.** None of the safety properties is inductive. `IInv`
adds what the code relies on without writing it: how far a start got agrees
with whether there is a child; a session with a live or coming child holds the
lease of all its ports, shares none of them with another such session and,
before a shutdown, is in the table; a waiting caller waits for a session in
`STOPPING` or `STOPPED`; a sweep's snapshot covers the table, since admission
is closed. From it follow `TypeOK` and the eight other invariants of
`registry_safety`, `TerminalIsFinal` as an action property, `NoOrphan` under
the assumption that neither `overlap` nor `abort` happens, and
`RegistryImplementsPortLeases`, where each action is shown to be a step of
`PortLeases` or a stutter.

**ProcessRunnerProofs.** `IInv` says how child, pipes and tasks keep pace: a
reader is through only at the end of its pipe with everything read; a reader
is cancelled only when the child is reaped; a watcher past a reader has seen
that reader end; and a call that joins or returned has left all tasks quiet.
From it follow `TypeOK` (with the capacity of the log, from the lemma
`Pushing`), `NoticeAfterTail`, `StopLeavesNothing`, and the refinement of
`RunnerContract`. `LogIsNewest` is inductive beside it: a push drops the oldest
record or none and the new one comes last (`PushedAt`), so from each record that
stays the lines that follow are those before, and perhaps the new one
(`FollowingGrows`). `SnapshotIsNewest` needs of the invariant only that the log
is a sequence: what passes the filter keeps its order (`SelectedInOrder`), and
the slice takes the end of it, so each record shown has as many of those asked
for before it as it should (`NewestAreShown`). The theorem says so of every
limit, not only of those the run asks for.

**RuleBridgeProofs.** `IInv` (typing, and where each rule can be) holds under
every disturbance and gives `TypeOK`; for `RulesStayHome`, a PUT that strays
shows that the two passwords are equal, and they are equal only if the agent
gave one to both (`StrayNeedsPassword`). The other theorems assume `Orderly`,
that neither `overlap` nor `late` is among the disturbances. Then `TurnInv` holds: requests with a common family take turns, so a request about
to write has read the lists as they are (`Fresh`), and the index a finished
set returned is right until a clear that read its rule (`Indexed`): a set writes
the list as it is and one rule more, and a clear that takes the rule away had
read it. A PUT that strays is a stutter of `RuleStore` (`StraysStutter`). `Fresh`
makes any other exactly a step of `RuleStore`, and a clear's count that of the rules it takes away; a
clear that waits for its second GET has emptied its families and nobody has
filled them since (`Emptied`). `SetsKeepRulesInTurn` is the claim that the run
`lost_rule` refutes, under this assumption: the run shows that it cannot be
dropped, the theorem that nothing else is needed, whatever requests fail and
wherever the port goes.

**RuleSpecProofs.** `JoinParses` is about texts of any length: the chosen
delimiter occurs in no part (`ChosenIsFree`), so the places where the joined
string is cut are those where `_join` put it, and the stretches between them
are the parts (`TwoPartsParse`, `ThreePartsParse`, from `Stretch`).
For the two map families, whose parts mitmproxy does not decode, this is the
whole way of a rule. The parts of the modify families are escaped before and
decoded after, both by a loop over the text. `EscapeRuns` and `ScanRuns` say
what the loops have after each character, and `EscapeGrows` that what is put out
is never taken back; `EscapedDecodes` goes through the text and keeps the decoder
in step with it: after the escape of *k* characters it has put out these *k* and
is in no escape.
`IInv` is `TypeOK`, `RuleMeansRequest` and what is known of a rule on its way
(`OnItsWay`): accepted by the schema, and joined from its parts.
`HeaderStaysOneLine` speaks of the value as mitmproxy loads it, which is the
text the agent gave, while `_reject_control_bytes` looks at that text decoded.
`ControlSurvives` closes the gap: decoding makes no control character vanish but
a newline after a backslash, and a raw newline the schema refuses.

**InspectionToolsProofs.** Whoever admits a call has the port and the password
of the session it is about (`AdmittedIsPeer`), which is all that the token
ensures. So a call reads the view of a peer, or its session's own file, which
holds flows of that session, captured before and each once (`FilesOwn`), and the
rest is arithmetic: `RightAnswer` says what the tools owe for a list of flows,
and `PageIsRight`, `FilteredIsRight` and `ExportIsRight` that this is what they
compute (a filtered list is its matching places in order, and the *k*-th of them
is the one up to which there are *k*: `PlaceIsCount`). The invariant is `TypeOK`,
`FilesOwn`, `AnswersFromOwnSession`, `PageIsWindow` and what a call that is under
way is about (`CallsFit`). A page without a filter that was right stays right
(`FineStays`), since captured flows only become more, and a view that has lost
nothing now had lost nothing before. A filtered one does not, as responses come;
so `CountIsOfAll` is about the step that reads, under this invariant, as is
`CommandsReachOwnSession`.
`RegistryKeepsPromise`, here and in StartToolsProofs, says that the sessions of
these models behave as `PortLeases` allows, which is what `SessionRegistry` is
proved to implement.

**ListsProofs.** What folds and selections return, for lists of any length. The
fold of the community modules is a recursive function on the sets of places of
a list; `FoldExists` shows that there is such a function, and `SelectedRuns`
that along the places 1 .. *k* it is the loop that the code has. Induction,
where one is needed, is over a set of numbers (`CountUp`), from the least number
outside it (`LeastNatural`).

**StartToolsProofs.** The sockets a request names are at ports among its claims
(the lease then keeps admitted sessions apart: `SessionsDontCompete`), and each
TCP socket is probed at its own host (`AdmittedCanListen`). `ListedPortsServe`
takes an invariant of the operating system besides: no two bound sockets
clash, and a child's are among those its request makes.

Only model-checked are the liveness properties, since the prover does no
`ENABLED`: `CallReturns` and `DeathIsReported` of the registry, its
`ShutdownClears`, and `CallReturns` and `DeathIsNoticed` of the runner. Every
invariant, action property and refinement of a passing run is a theorem, with
the disturbances of that run where it excludes some.

## Not modelled

* **The bind probe and the request checks of `start`** are a free choice
  between refusal and admission in `SessionRegistry`; `StartTools` has them.
* **`set_options` that move a child's sockets** (`schemas/mitmdump.py:38`): how
  mitmproxy orders them against the command line is its own affair.
* **Read-only accessors** (`get`, `list`, `logs`, `port_in_use` as a query).
* **Paths, errors, redaction, schemas, configuration, server wiring, prompts
  and resources**: stateless or declarative; the reasons are in
  `PROJECT.json`.
* **mitmproxy itself**, HTTP and the kernel appear only as what the code can
  see of them.
* **The mitmweb client's error codes**, redaction and the layout of summaries
  and of a flow's parts: the models tell apart which failures there are, and
  what a failed request has changed.

## Plan

Done, in this order because a wrong lease or a lost process does the most
harm: `SessionRegistry` with `PortLeases`; `ProcessRunner` with
`RunnerContract` and `RingBuffer`; `RuleBridge` with `RuleStore`; `RuleSpec`;
`InspectionTools`; `StartTools`; the proofs of all six.

What remains, should it become worth its price: `SessionRegistry` and
`ProcessRunner` in one state space. `RunnerContract` keeps them apart for now; a
common run would only repeat its steps.
