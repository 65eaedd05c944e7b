-------------------------- MODULE InspectionTools --------------------------
(***************************************************************************)
(* The tools that read flows: mitmweb_get_flows, mitmweb_get_flow_detail,  *)
(* mitm_execute_command (with view.clear, the command that changes what    *)
(* the others see), mitm_export_flow and mitm_filter_flows.                *)
(*                                                                         *)
(* A tool looks its session up once and then talks HTTP to a port.  By the *)
(* time the request arrives the session may be over and the port another   *)
(* session's; the registry is here as PortLeases says it behaves.          *)
(***************************************************************************)
EXTENDS Integers, Sequences, FiniteSets, Lists

CONSTANTS
    Sessions, Ports, Calls,
    Mitmweb,        \* the sessions of mitmweb; the others are of mitmdump
    Saving,         \* the sessions with a save_path, each its own
    Port,           \* the web_port of each session of mitmweb
    Passwords,      \* the web_passwords the sessions of mitmweb may have
    Matching,       \* the flows the filter expression matches: <<number, complete>>
    MaxFlows,       \* cap on the flows each session captures
    Asks            \* what each call may ask for

Tools == {"get_flows", "get_flow_detail", "execute_command", "export_flow", "filter_flows"}

\* Flows are numbered by the session that captured them.
Flow == [owner : Sessions, n : Nat]

\* flow is the one whose id is given, of whatever session; filtered whether
\* there is an expression.
Ask == [tool : Tools, session : Sessions, filtered : BOOLEAN,
        offset : Nat, limit : Nat \ {0}, flow : Flow]

ASSUME KindsAssumption == Mitmweb \subseteq Sessions /\ Saving \subseteq Sessions
ASSUME PortAssumption == Port \in [Mitmweb -> Ports]

\* They need not differ: the agent may give one password to two sessions.
ASSUME PasswordsAssumption == \A p \in Passwords : DOMAIN p = Mitmweb

\* Filters like ~c and ~s look at the response too.
ASSUME MatchingAssumption == Matching \subseteq Nat \X BOOLEAN
ASSUME MaxFlowsAssumption == MaxFlows \in [Sessions -> Nat]
ASSUME AsksAssumption == Asks \in [Calls -> SUBSET Ask]

VARIABLES
    state, held,    \* of PortLeases
    status,         \* "none", "starting", "running" or "ended", of each session
    captured,       \* how many flows each session has captured
    complete,       \* which of them have their response
    dropped,        \* how many of them its view has lost
    file,           \* the flows in its save_path, in the order written
    password,       \* of each session of mitmweb
    pc, ask, answer \* of each call

registryVars == <<state, held, status>>
flowVars == <<captured, complete, dropped, file>>
callVars == <<pc, ask, answer>>
vars == <<registryVars, flowVars, password, callVars>>

Registry == INSTANCE PortLeases

Codes == {"", "INVALID_INPUT", "SESSION_NOT_FOUND", "SESSION_NOT_RUNNING",
          "UPSTREAM_UNREACHABLE", "TIMEOUT", "INTERNAL_ERROR"}
Answer == [code : Codes, flows : Seq(Flow), total : Nat]

Failure(code) == [code |-> code, flows |-> <<>>, total |-> 0]
Success(flows, total) == [code |-> "", flows |-> flows, total |-> total]

TypeOK ==
    /\ state \in [Sessions -> {"new", "granted", "live", "over"}]
    /\ held \in [Sessions -> SUBSET Ports]
    /\ status \in [Sessions -> {"none", "starting", "running", "ended"}]
    /\ captured \in [Sessions -> Nat]
    /\ complete \in [Sessions -> SUBSET Nat]
    /\ dropped \in [Sessions -> Nat]
    /\ \A s \in Sessions : dropped[s] <= captured[s] /\ captured[s] <= MaxFlows[s]
    /\ file \in [Sessions -> Seq(Flow)]
    /\ password \in Passwords
    /\ pc \in [Calls -> {"idle", "request", "content", "done"}]
    /\ ask \in [Calls -> Ask]
    /\ answer \in [Calls -> Answer]

Init ==
    /\ Registry!Init
    /\ status = [s \in Sessions |-> "none"]
    /\ captured = [s \in Sessions |-> 0]
    /\ complete = [s \in Sessions |-> {}]
    /\ dropped = [s \in Sessions |-> 0]
    /\ file = [s \in Sessions |-> <<>>]
    /\ password \in Passwords
    /\ pc = [c \in Calls |-> "idle"]
    /\ ask \in {f \in [Calls -> UNION {Asks[c] : c \in Calls}] : \A c \in Calls : f[c] \in Asks[c]}
    /\ answer = [c \in Calls |-> Failure("")]

----------------------------------------------------------------------------
(* the registry *)

SetStatus(s, value) == status' = [status EXCEPT ![s] = value]

Start(s) ==
    /\ Registry!Acquire(s, IF s \in Mitmweb THEN {Port[s]} ELSE {})
    /\ SetStatus(s, "starting")

Spawned(s) ==
    /\ Registry!Launch(s)
    /\ SetStatus(s, "running")

SpawnFails(s) ==
    /\ state[s] = "granted"
    /\ Registry!End(s)
    /\ held'[s] = {}
    /\ SetStatus(s, "none")

\* The child dies; whoever notices comes later.
Exits(s) ==
    /\ state[s] = "live"
    /\ UNCHANGED <<held, status>>
    /\ Registry!End(s)

\* A stop begins, or the exit is noticed.
Ends(s) ==
    /\ status[s] = "running"
    /\ SetStatus(s, "ended")
    /\ UNCHANGED <<state, held>>

StopReleases(s) ==
    /\ status[s] = "ended"
    /\ held[s] # {}
    /\ Registry!Release(s)
    /\ UNCHANGED status

----------------------------------------------------------------------------
(* mitmproxy *)

Capture(s) ==
    /\ state[s] = "live"
    /\ captured[s] < MaxFlows[s]
    /\ captured' = [captured EXCEPT ![s] = @ + 1]
    /\ UNCHANGED <<complete, dropped, file>>

Written(s, n) == [owner |-> s, n |-> n] \in ToSet(file[s])

\* The response comes.
Complete(s, n) ==
    /\ state[s] = "live"
    /\ n <= captured[s] /\ n \notin complete[s] /\ ~Written(s, n)
    /\ complete' = [complete EXCEPT ![s] = @ \cup {n}]
    /\ UNCHANGED <<captured, dropped, file>>

\* A flow is written when it is over, in whatever order that happens, with its
\* response or without.
Write(s, n) ==
    /\ s \in Saving
    /\ state[s] = "live"
    /\ n <= captured[s] /\ ~Written(s, n)
    /\ file' = [file EXCEPT ![s] = Append(@, [owner |-> s, n |-> n])]
    /\ UNCHANGED <<captured, complete, dropped>>

\* The flows mitmweb shows, in the order they came.
View(s) == [i \in 1 .. captured[s] - dropped[s] |-> [owner |-> s, n |-> dropped[s] + i]]

\* Who answers requests to the port of s.
Servers(s) == {t \in Mitmweb : state[t] = "live" /\ Port[t] = Port[s]}

----------------------------------------------------------------------------
(* what a tool makes of flows *)

\* The expression is evaluated on the flow as it is now.
MatchesNow(f) == <<f.n, f.n \in complete[f.owner]>> \in Matching

Matches(flows, filtered) ==
    IF filtered THEN Selected(flows, {f \in ToSet(flows) : MatchesNow(f)}) ELSE flows

\* Python's items[first : last] for 0 <= first.
Slice(items, first, last) ==
    SubSeq(items, first + 1, IF last < Len(items) THEN last ELSE Len(items))

\* Variant, breaks PageIsWindow: the page ends at the limit, not that far
\* behind the offset.
PageToLimit(flows, a) ==
    LET found == Matches(flows, a.filtered)
    IN  Success(Slice(found, a.offset, a.limit), Len(found))

\* Variant, breaks TypeOK: the total is what is left after the offset.
PageAndRest(flows, a) ==
    LET found == Matches(flows, a.filtered)
    IN  Success(Slice(found, a.offset, a.offset + a.limit), Len(found) - a.offset)

\* get_flows: filter, count, then slice.
Page(flows, a) ==
    LET found == Matches(flows, a.filtered)
    IN  Success(Slice(found, a.offset, a.offset + a.limit), Len(found))

\* Variant, breaks CountIsOfAll: the loop stops at the limit.
CountToLimit(flows, a) ==
    LET page == Slice(Matches(flows, TRUE), 0, a.limit) IN Success(page, Len(page))

\* filter_flows: the first ones up to the limit, and the count of all.
FirstMatches(flows, a) ==
    LET found == Matches(flows, TRUE) IN Success(Slice(found, 0, a.limit), Len(found))

\* Whether the flow with the id asked for is among these.
Holds(flows, a) == a.flow \in ToSet(flows)

\* export_flow.
Export(flows, a) ==
    IF Holds(flows, a) THEN Success(<<a.flow>>, 1) ELSE Failure("INVALID_INPUT")

Offline == {"export_flow", "filter_flows"}

Evaluate(flows, a) ==
    IF a.tool = "export_flow" THEN Export(flows, a) ELSE FirstMatches(flows, a)

----------------------------------------------------------------------------
(* the tools *)

ReadsFile(a) == a.tool \in Offline /\ a.session \in Saving

\* The code of the first check that fails; without a web host the client
\* cannot be built.
Obstacle(a) ==
    IF status[a.session] = "none" THEN "SESSION_NOT_FOUND"
    ELSE IF a.tool \notin Offline /\ status[a.session] # "running" THEN "SESSION_NOT_RUNNING"
    ELSE IF ~ReadsFile(a) /\ a.session \notin Mitmweb THEN "INTERNAL_ERROR"
    ELSE ""

\* How reading the file fails: it ends in the middle of a flow that is being
\* written, or mitmproxy has not created it yet.
FileErrors(s) ==
    {Failure("INTERNAL_ERROR")} \cup IF file[s] = <<>> THEN {Failure("INVALID_INPUT")} ELSE {}

Answers(c, result) ==
    /\ pc' = [pc EXCEPT ![c] = "done"]
    /\ answer' = [answer EXCEPT ![c] = result]

\* Up to the first await, or to the answer where there is none.
Call(c) ==
    LET a == ask[c] IN
    /\ pc[c] = "idle"
    /\ \/ /\ Obstacle(a) # ""
          /\ Answers(c, Failure(Obstacle(a)))
       \/ /\ Obstacle(a) = "" /\ ReadsFile(a)
          /\ \E result \in {Evaluate(file[a.session], a)} \cup FileErrors(a.session) :
                 Answers(c, result)
       \/ /\ Obstacle(a) = "" /\ ~ReadsFile(a)
          /\ pc' = [pc EXCEPT ![c] = "request"]
          /\ UNCHANGED answer
    /\ UNCHANGED <<ask, flowVars>>

\* Variant, breaks AnswersFromOwnSession and CommandsReachOwnSession: one
\* token for all sessions.
SharedToken(s) == "token"

\* web_token, which the child is configured with and the client sends.
WebToken(s) == password[s]

\* t is at the port of the session and knows the token; otherwise it says 403.
Admitted(c, t) == t \in Servers(ask[c].session) /\ WebToken(t) = WebToken(ask[c].session)

Read(c, t) ==
    LET a == ask[c] IN
    /\ pc[c] = "request" /\ Admitted(c, t)
    /\ a.tool \in {"get_flows"} \cup Offline
    /\ Answers(c, IF a.tool = "get_flows" THEN Page(View(t), a) ELSE Evaluate(View(t), a))
    /\ UNCHANGED <<ask, flowVars>>

\* The command takes effect; its answer may be lost.
Execute(c, t) ==
    /\ pc[c] = "request" /\ Admitted(c, t)
    /\ ask[c].tool = "execute_command"
    /\ dropped' = [dropped EXCEPT ![t] = captured[t]]
    /\ \E result \in {Success(<<>>, 0), Failure("UPSTREAM_UNREACHABLE"), Failure("TIMEOUT")} :
           Answers(c, result)
    /\ UNCHANGED <<ask, captured, complete, file>>

\* get_flow_detail finds the flow in a first request ...
FindDetail(c, t) ==
    /\ pc[c] = "request" /\ Admitted(c, t)
    /\ ask[c].tool = "get_flow_detail"
    /\ IF Holds(View(t), ask[c])
       THEN /\ pc' = [pc EXCEPT ![c] = "content"]
            /\ answer' = [answer EXCEPT ![c] = Success(<<ask[c].flow>>, 1)]
       ELSE Answers(c, Failure("SESSION_NOT_RUNNING"))
    /\ UNCHANGED <<ask, flowVars>>

\* ... and asks for its content in another, of whoever is at the port by then,
\* which may fail without notice.
FetchContent(c, t) ==
    /\ pc[c] = "content" /\ Admitted(c, t)
    /\ \E i \in DOMAIN View(t) :
           /\ View(t)[i] = ask[c].flow
           /\ Answers(c, Success(Append(answer[c].flows, View(t)[i]), 1))
    /\ UNCHANGED <<ask, flowVars>>

MissContent(c) ==
    /\ pc[c] = "content"
    /\ Answers(c, answer[c])
    /\ UNCHANGED <<ask, flowVars>>

\* A timeout, nobody at the port, somebody who refuses the token, or a command
\* sent without the XSRF token, as the client could not get one.
Fail(c) ==
    /\ pc[c] = "request"
    /\ \E code \in {"UPSTREAM_UNREACHABLE", "TIMEOUT"} : Answers(c, Failure(code))
    /\ UNCHANGED <<ask, flowVars>>

----------------------------------------------------------------------------
RegistryStep(s) ==
    /\ \/ Start(s) \/ Spawned(s) \/ SpawnFails(s)
       \/ Exits(s) \/ Ends(s) \/ StopReleases(s)
    /\ UNCHANGED <<flowVars, password, callVars>>

CaptureStep(s) ==
    /\ Capture(s) \/ \E n \in 1 .. MaxFlows[s] : Complete(s, n) \/ Write(s, n)
    /\ UNCHANGED <<registryVars, password, callVars>>

CallStep(c) ==
    /\ \/ Call(c)
       \/ \E t \in Mitmweb : Read(c, t) \/ Execute(c, t) \/ FindDetail(c, t) \/ FetchContent(c, t)
       \/ MissContent(c)
       \/ Fail(c)
    /\ UNCHANGED <<registryVars, password>>

Next ==
    \/ \E s \in Sessions : RegistryStep(s) \/ CaptureStep(s)
    \/ \E c \in Calls : CallStep(c)

Spec == Init /\ [][Next]_vars

----------------------------------------------------------------------------
(* Safety *)

\* The sessions that a request meant for s may reach: s, and those that were
\* given the same port and the same web_password.
Peers(s) ==
    {s} \cup {t \in Mitmweb : s \in Mitmweb /\ Port[t] = Port[s] /\ password[t] = password[s]}

\* Whatever a call answers, also the content fetched in a second request, was
\* captured by the session it asked about, though the port it talks to may
\* have passed to another session meanwhile -- unless the agent gave that one
\* the same web_password, which nothing forbids (tools/mitmweb.py).
AnswersFromOwnSession ==
    \A c \in Calls : \A i \in DOMAIN answer[c].flows :
        answer[c].flows[i].owner \in Peers(ask[c].session)

\* A view is cleared only by a command for that very session, or for one of
\* the same port and web_password.
CommandsReachOwnSession ==
    [][\A s \in Sessions : dropped'[s] # dropped[s] =>
           \E c \in Calls : /\ pc[c] = "request" /\ pc'[c] = "done"
                            /\ ask[c].tool = "execute_command"
                            /\ s \in Peers(ask[c].session)]_vars

\* The pages of mitmweb_get_flows without an expression, fetched at different
\* times, fit together: as long as nothing was cleared, the i-th flow of a
\* page is the (offset + i)-th of the session, and a short page is the last of
\* total.  With an expression they need not: what it matches changes.
PageIsWindow ==
    \A c \in Calls :
        LET a == ask[c]
            flows == answer[c].flows
            total == answer[c].total
        IN  pc[c] = "done" /\ a.tool = "get_flows" /\ ~a.filtered /\ answer[c].code = ""
                /\ (\A t \in Peers(a.session) : dropped[t] = 0) =>
            \E t \in Peers(a.session) :
                /\ \A i \in DOMAIN flows : flows[i] = [owner |-> t, n |-> a.offset + i]
                /\ total <= captured[t]
                /\ Len(flows) <= a.limit
                /\ flows # <<>> => a.offset + Len(flows) <= total
                /\ Len(flows) < a.limit => total <= a.offset + Len(flows)

Filters(a) == a.tool = "filter_flows" \/ (a.tool = "get_flows" /\ a.filtered)

\* Of the flows of t that the call reads, those the expression matches now.
Found(a, t) ==
    {n \in 1 .. captured[t] :
        /\ <<n, n \in complete[t]>> \in Matching
        /\ IF ReadsFile(a) THEN Written(t, n) ELSE dropped[t] < n}

Skipped(a) == IF a.tool = "get_flows" THEN a.offset ELSE 0

\* With an expression, an answer is right for the moment it is read: its total
\* counts all matching flows, also those that the limit cuts off, it shows as
\* many as the limit leaves of them, each once, and a page of mitmweb_get_flows
\* those behind the offset in their order.
CountIsOfAll ==
    [][\A c \in Calls :
           LET a == ask[c]
               flows == answer'[c].flows
               total == answer'[c].total
               rest == total - Skipped(a)
           IN  pc[c] # "done" /\ pc'[c] = "done" /\ answer'[c].code = "" /\ Filters(a) =>
               \E t \in Peers(a.session) :
                   /\ total = Cardinality(Found(a, t))
                   /\ \A i \in DOMAIN flows :
                          /\ flows[i].owner = t /\ flows[i].n \in Found(a, t)
                          /\ a.tool = "get_flows" =>
                                 Cardinality({n \in Found(a, t) : n <= flows[i].n}) = a.offset + i
                   /\ \A i, j \in DOMAIN flows : flows[i] = flows[j] => i = j
                   /\ Len(flows) = IF rest <= 0 THEN 0
                                   ELSE IF a.limit < rest THEN a.limit ELSE rest]_vars

============================================================================
