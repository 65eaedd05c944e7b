----------------------------- MODULE RuleBridge -----------------------------
(***************************************************************************)
(* The rules tools over the REST bridge of one mitmweb session.  mitmproxy *)
(* keeps the rules of a family as one list option and replaces it whole,   *)
(* so a set reads the options, appends its rule and writes the list back,  *)
(* and a clear reads, counts, writes empty lists and reads again.  Before  *)
(* its PUT a client fetches the XSRF token that mitmweb asks for.  The     *)
(* tools await between these steps and take no lock, and look the session  *)
(* up only at the start.                                                   *)
(*                                                                         *)
(* A request is one tool call, made at most once; its rule is named after  *)
(* it.  Disturbances says what may go wrong:                               *)
(*   "overlap"  requests that concern a common family run concurrently     *)
(*   "late"     a write whose client gave up takes effect afterwards       *)
(*   "down"     mitmweb stops, and its port may become another session's   *)
(*   "shared"   the agent may give both sessions one web_password          *)
(*   "nocsrf"   mitmweb may take a PUT without the XSRF token              *)
(***************************************************************************)
EXTENDS Integers, Sequences

CONSTANTS
    Requests,
    Families,       \* rule types; any number behaves like the four
    Disturbances

AllDisturbances == {"overlap", "late", "down", "shared", "nocsrf"}

ASSUME DisturbancesAssumption == Disturbances \subseteq AllDisturbances

VARIABLES
    given,      \* the sessions that were given one and the same web_password
    server,     \* the mitmweb at the port: of the session, of another, or none
    options,    \* the session's list of rules for each family
    elsewhere,  \* those of the other session, which nobody asks to change
    phase,      \* of each request
    op,         \* "set", "clear" or "list"
    fams,       \* the families a request concerns
    seen,       \* the options it read
    put         \* its PUT: "sent" with a token, "bare" without; "strayed" elsewhere

vars == <<given, server, options, elsewhere, phase, op, fams, seen, put>>

Busy == {"read", "handshake", "write", "verify"}
Puts == {"none", "bare", "sent", "applied", "strayed", "refused"}
Both == {"own", "other"}
Lists == [Families -> Seq(Requests)]

\* The requests in a list.
Rules(list) == {list[i] : i \in DOMAIN list}

\* A list never names a request twice, nor a request of another family.
TypeOK ==
    /\ given \in SUBSET Both
    /\ server \in {"own", "other", "none"}
    /\ options \in Lists
    /\ elsewhere \in Lists
    /\ phase \in [Requests -> {"new", "done", "failed"} \cup Busy]
    /\ op \in [Requests -> {"set", "clear", "list"}]
    /\ fams \in [Requests -> SUBSET Families]
    /\ seen \in [Requests -> Lists]
    /\ put \in [Requests -> Puts]
    /\ \A f \in Families :
           /\ \A i, j \in DOMAIN options[f] : options[f][i] = options[f][j] => i = j
           /\ \A r \in Rules(options[f]) : op[r] = "set" /\ fams[r] = {f}

Empty == [f \in Families |-> <<>>]

Init ==
    /\ given \in IF "shared" \in Disturbances THEN {{}, Both} ELSE {{}}
    /\ server = "own"
    /\ options = Empty
    /\ elsewhere = Empty
    /\ phase = [r \in Requests |-> "new"]
    /\ op = [r \in Requests |-> "list"]
    /\ fams = [r \in Requests |-> {}]
    /\ seen = [r \in Requests |-> Empty]
    /\ put = [r \in Requests |-> "none"]

----------------------------------------------------------------------------

\* Variant, breaks RulesStayInSession: one token drawn for all sessions.
FixedToken(session) == "token"

\* The password of a session: the one it was given, or one drawn for it alone.
WebToken(session) == IF session \in given THEN "given" ELSE session

\* A client sends the password of the session its tool was asked about, and
\* whatever answers does so only to its own.
Authorized == server # "none" /\ WebToken("own") = WebToken(server)

Served == IF server = "own" THEN options ELSE elsewhere

\* Nobody else is at work on the families F.
Alone(r, F) ==
    \A q \in Requests \ {r} : phase[q] \in Busy => fams[q] \cap F = {}

\* The tool is called and the session looked up.  A session whose port is
\* another's is not RUNNING; one whose mitmweb just died may still be.
Begin(r, o, F) ==
    /\ phase[r] = "new"
    /\ "overlap" \in Disturbances \/ Alone(r, F)
    /\ op' = [op EXCEPT ![r] = o]
    /\ fams' = [fams EXCEPT ![r] = F]
    /\ \E next \in IF server = "other" THEN {"failed"} ELSE {"read", "failed"} :
           phase' = [phase EXCEPT ![r] = next]
    /\ UNCHANGED <<given, server, options, elsewhere, seen, put>>

BeginSet(r) == \E f \in Families : Begin(r, "set", {f})

\* rule_type names one family, or none of them, which means all.
BeginClear(r) ==
    \/ \E f \in Families : Begin(r, "clear", {f})
    \/ Begin(r, "clear", Families)

BeginList(r) == Begin(r, "list", {})

\* GET /options.  A list returns; a set or clear prepares its PUT.
Read(r) ==
    /\ phase[r] = "read"
    /\ Authorized
    /\ seen' = [seen EXCEPT ![r] = Served]
    /\ phase' = [phase EXCEPT ![r] = IF op[r] = "list" THEN "done" ELSE "handshake"]
    /\ UNCHANGED <<given, server, options, elsewhere, op, fams, put>>

\* How the PUT will be sent: GET /updates may fail or bring no token.
PutAfterFetch == IF Authorized THEN {"sent", "bare"} ELSE {"bare"}

\* The client asks for the token once; without one, for whatever reason, it
\* sends its PUT all the same.
Handshake(r) ==
    /\ phase[r] = "handshake"
    /\ phase' = [phase EXCEPT ![r] = "write"]
    /\ \E result \in PutAfterFetch : put' = [put EXCEPT ![r] = result]
    /\ UNCHANGED <<given, server, options, elsewhere, op, fams, seen>>

\* Variant, breaks ImplementsRuleStore: all the options read are written back.
NewListWhole(r, f) ==
    IF f \notin fams[r] THEN seen[r][f]
    ELSE IF op[r] = "set" THEN Append(seen[r][f], r) ELSE <<>>

\* Variant, breaks TypeOK: the rule is appended to the list extended already.
NewListTwice(r, f) ==
    IF f \notin fams[r] THEN options[f]
    ELSE IF op[r] = "set" THEN Append(Append(seen[r][f], r), r) ELSE <<>>

\* The list of family f after the PUT of r: only the families it concerns
\* are in the payload.
NewList(r, f) ==
    IF f \notin fams[r] THEN options[f]
    ELSE IF op[r] = "set" THEN Append(seen[r][f], r) ELSE <<>>

\* mitmweb handles the PUT, all its families in one update.
Apply(r) ==
    /\ Authorized
    /\ put[r] \in IF "nocsrf" \in Disturbances THEN {"sent", "bare"} ELSE {"sent"}
    /\ phase[r] = "write" \/ "late" \in Disturbances
    /\ IF server = "own"
       THEN /\ options' = [f \in Families |-> NewList(r, f)]
            /\ put' = [put EXCEPT ![r] = "applied"]
            /\ UNCHANGED elsewhere
       ELSE /\ elsewhere' = [f \in Families |->
                                IF f \in fams[r] THEN NewList(r, f) ELSE elsewhere[f]]
            /\ put' = [put EXCEPT ![r] = "strayed"]
            /\ UNCHANGED options
    /\ UNCHANGED <<given, server, phase, op, fams, seen>>

\* It answers 400, or 403 for want of the XSRF token or the right password.
Refuse(r) ==
    /\ server # "none"
    /\ phase[r] = "write"
    /\ put[r] \in {"sent", "bare"}
    /\ put' = [put EXCEPT ![r] = "refused"]
    /\ phase' = [phase EXCEPT ![r] = "failed"]
    /\ UNCHANGED <<given, server, options, elsewhere, op, fams, seen>>

\* The answer 200 arrives: a set returns, a clear reads once more.
Written(r) ==
    /\ phase[r] = "write"
    /\ put[r] \in {"applied", "strayed"}
    /\ phase' = [phase EXCEPT ![r] = IF op[r] = "set" THEN "done" ELSE "verify"]
    /\ UNCHANGED <<given, server, options, elsewhere, op, fams, seen, put>>

\* The GET that counts what is left after a clear.
Verify(r) ==
    /\ phase[r] = "verify"
    /\ Authorized
    /\ phase' = [phase EXCEPT ![r] = "done"]
    /\ UNCHANGED <<given, server, options, elsewhere, op, fams, seen, put>>

\* A timeout, a lost connection or a cancellation.  The PUT may be anywhere.
Fail(r) ==
    /\ phase[r] \in Busy
    /\ phase' = [phase EXCEPT ![r] = "failed"]
    /\ UNCHANGED <<given, server, options, elsewhere, op, fams, seen, put>>

Down ==
    /\ "down" \in Disturbances
    /\ server = "own"
    /\ server' = "none"
    /\ UNCHANGED <<given, options, elsewhere, phase, op, fams, seen, put>>

\* The session is stopped, and another mitmweb is started on its port.
PortPasses ==
    /\ server = "none"
    /\ server' = "other"
    /\ UNCHANGED <<given, options, elsewhere, phase, op, fams, seen, put>>

----------------------------------------------------------------------------

Next ==
    \/ \E r \in Requests :
          \/ BeginSet(r) \/ BeginClear(r) \/ BeginList(r)
          \/ Read(r) \/ Handshake(r) \/ Apply(r) \/ Refuse(r) \/ Written(r) \/ Verify(r) \/ Fail(r)
    \/ Down
    \/ PortPasses

Spec == Init /\ [][Next]_vars

----------------------------------------------------------------------------

\* Variant, breaks RuleIdNamesRule: the index of the last rule read.
RuleIndexOfLast(r, f) == Len(seen[r][f]) - 1

\* The index in the rule_id that a set returns, len(updated) - 1.
RuleIndex(r, f) == Len(seen[r][f])

\* A clear that took effect had read the rule of r in family f.
ClearedAway(r, f) ==
    \E q \in Requests : /\ op[q] = "clear" /\ f \in fams[q] /\ put[q] = "applied"
                        /\ r \in Rules(seen[q][f])

\* The rule_id a set returned names its rule, list indices starting at 0, until
\* a clear counts that very rule and takes it away; a clear that came before
\* the set is no excuse.  Not so if the set went to another session, or if
\* requests overlap or are late (SetKeepsRules).
RuleIdNamesRule ==
    \A r \in Requests, f \in Families :
        phase[r] = "done" /\ op[r] = "set" /\ f \in fams[r] /\ put[r] = "applied" =>
            \/ /\ RuleIndex(r, f) + 1 \in DOMAIN options[f]
               /\ options[f][RuleIndex(r, f) + 1] = r
            \/ ClearedAway(r, f)

\* No set or clear asked of one session takes effect in another, although a
\* request may be under way while the port changes hands, unless the agent
\* gave the two the same web_password.
RulesStayInSession ==
    elsewhere # Empty \/ (\E r \in Requests : put[r] = "strayed") => given = Both

\* Variant, breaks ClearAnswersTruly: all families count.
CountedInAll(r, f) == Len(seen[r][f])

\* How many rules of family f enter the cleared_count of a clear.
Counted(r, f) == IF f \in fams[r] THEN Len(seen[r][f]) ELSE 0

\* When calls on one family take turns, a clear counted the rules that its PUT
\* takes away, no more and no fewer, and finds none of them when it looks
\* again, provided the same mitmweb answers.
ClearAnswersTruly ==
    [][\A r \in Requests, f \in Families : op[r] = "clear" =>
           /\ put[r] # "applied" /\ put'[r] = "applied" =>
                  Len(options'[f]) = Len(options[f]) - Counted(r, f)
           /\ phase[r] = "verify" /\ phase'[r] = "done" /\ f \in fams[r] /\ server = "own" =>
                  options[f] = <<>>]_vars

RS == INSTANCE RuleStore WITH
          rules <- options,
          used  <- {r \in Requests : op[r] = "set" /\ put[r] = "applied"}

\* As long as requests on one family do not overlap and no write is late,
\* the bridge is the store that the agent takes it for, however many
\* requests on different families are under way.
ImplementsRuleStore == RS!Spec

\* What is there survives a set: only a clear takes rules away.
SetKeepsRules ==
    [][\A r \in Requests :
           op[r] = "set" /\ put[r] # "applied" /\ put'[r] = "applied" =>
               \A f \in Families : Rules(options[f]) \subseteq Rules(options'[f])]_vars

============================================================================
