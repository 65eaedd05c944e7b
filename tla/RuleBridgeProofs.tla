-------------------------- MODULE RuleBridgeProofs --------------------------
(***************************************************************************)
(* Proofs about RuleBridge, for any number of requests and families.       *)
(*                                                                         *)
(* Typing holds under every disturbance.  What RuleBridge says of rule ids *)
(* and of the abstract store holds when requests on one family take turns  *)
(* and no write is late: then a request about to write has seen the lists  *)
(* as they are (Fresh), because nobody else is busy on its families        *)
(* (TakeTurns).  That a write strays needs no such order: it takes         *)
(* sessions with one password.                                             *)
(***************************************************************************)
EXTENDS RuleBridge, TLAPS

\* No two places of a list hold the same request.
Distinct(list) == \A i, j \in DOMAIN list : list[i] = list[j] => i = j

\* A rule in a list was put there by its own request.
Placed(lists) ==
    \A f \in Families : /\ Distinct(lists[f])
                        /\ \A q \in Rules(lists[f]) : /\ op[q] = "set"
                                                      /\ fams[q] = {f}
                                                      /\ put[q] \in {"applied", "strayed"}

\* What was read is what was placed, the reader's own rule not among it.
SawPlaced ==
    \A r \in Requests : /\ Placed(seen[r])
                        /\ \A f \in Families : r \notin Rules(seen[r][f])

PhasesAgree ==
    \A r \in Requests :
        /\ phase[r] \in {"new", "read", "handshake"} => put[r] = "none"
        /\ phase[r] = "write" => put[r] \in {"bare", "sent", "applied", "strayed"}
        /\ put[r] = "strayed" => server = "other"
        /\ phase[r] \in {"handshake", "write"} \/ put[r] # "none" => op[r] # "list"
        /\ phase[r] = "verify" => op[r] = "clear" /\ put[r] \in {"applied", "strayed"}
        /\ op[r] = "set" => \E f \in Families : fams[r] = {f}
        /\ phase[r] = "done" /\ op[r] = "set" => put[r] \in {"applied", "strayed"}

Typed ==
    /\ given \in SUBSET Both
    /\ server \in {"own", "other", "none"}
    /\ options \in Lists
    /\ elsewhere \in Lists
    /\ phase \in [Requests -> {"new", "done", "failed"} \cup Busy]
    /\ op \in [Requests -> {"set", "clear", "list"}]
    /\ fams \in [Requests -> SUBSET Families]
    /\ seen \in [Requests -> Lists]
    /\ put \in [Requests -> Puts]

IInv == Typed /\ Placed(options) /\ Placed(elsewhere) /\ SawPlaced /\ PhasesAgree

----------------------------------------------------------------------------
(* Lists *)

\* Append puts its element last, keeps the others where they are, and keeps
\* a list distinct that does not hold the element yet.
LEMMA Appending ==
    ASSUME NEW list \in Seq(Requests), NEW r \in Requests
    PROVE  LET longer == Append(list, r) IN
           /\ longer \in Seq(Requests)
           /\ Len(list) + 1 \in DOMAIN longer
           /\ longer[Len(list) + 1] = r
           /\ \A i \in DOMAIN list : i \in DOMAIN longer /\ longer[i] = list[i]
           /\ Rules(longer) = Rules(list) \cup {r}
           /\ Distinct(list) /\ r \notin Rules(list) => Distinct(longer)
<1> DEFINE longer == Append(list, r)
<1>1. /\ longer \in Seq(Requests)
      /\ DOMAIN list = 1 .. Len(list)
      /\ DOMAIN longer = 1 .. Len(list) + 1
      /\ Len(list) \in Nat
      /\ longer[Len(list) + 1] = r
      /\ \A i \in 1 .. Len(list) : longer[i] = list[i]
  OBVIOUS
<1> HIDE DEF longer
<1>2. Rules(longer) = Rules(list) \cup {r}
  BY <1>1 DEF Rules
<1>3. ASSUME Distinct(list), r \notin Rules(list) PROVE Distinct(longer)
  BY <1>1, <1>3 DEF Distinct, Rules
<1> QED BY <1>1, <1>2, <1>3 DEF longer

----------------------------------------------------------------------------
(* Typing and placement, under any disturbance *)

LEMMA InitHolds == Init => IInv
  BY DEF Init, Both, Empty, IInv, Typed, Puts, Lists, Placed, Distinct, Rules, SawPlaced, PhasesAgree

LEMMA BeginAnyStep ==
    ASSUME IInv, NEW r \in Requests, NEW o \in {"set", "clear", "list"},
           NEW F \in SUBSET Families, Begin(r, o, F),
           o = "set" => \E f \in Families : F = {f}
    PROVE  IInv'
<1>1. Typed'
  BY DEF IInv, Typed, Begin, Busy
<1>2. PhasesAgree'
  BY DEF IInv, Typed, PhasesAgree, Begin
<1>3. \A q \in Requests : put[q] \in {"applied", "strayed"} => op'[q] = op[q] /\ fams'[q] = fams[q]
  BY DEF IInv, Typed, PhasesAgree, Begin
<1>4. /\ \A f \in Families : Rules(options[f]) \subseteq Requests /\ Rules(elsewhere[f]) \subseteq Requests
      /\ \A q \in Requests, f \in Families : Rules(seen[q][f]) \subseteq Requests
  BY DEF IInv, Typed, Lists, Rules
<1>5. UNCHANGED <<options, elsewhere, seen, put>>
  BY DEF Begin
<1>6. Placed(options)' /\ Placed(elsewhere)' /\ SawPlaced'
  BY <1>3, <1>4, <1>5 DEF IInv, SawPlaced, Placed
<1> QED BY <1>1, <1>2, <1>6 DEF IInv

LEMMA BeginStep ==
    ASSUME IInv, NEW r \in Requests, BeginSet(r) \/ BeginClear(r) \/ BeginList(r)
    PROVE  IInv'
<1>1. CASE BeginSet(r)
  BY <1>1, BeginAnyStep DEF BeginSet
<1>2. CASE BeginClear(r)
  BY <1>2, BeginAnyStep DEF BeginClear
<1>3. CASE BeginList(r)
  BY <1>3, BeginAnyStep DEF BeginList
<1> QED BY <1>1, <1>2, <1>3

LEMMA ReadStep ==
    ASSUME IInv, NEW r \in Requests, Read(r)
    PROVE  IInv'
<1>1. Served \in Lists /\ Placed(Served) /\ put[r] = "none"
  BY DEF IInv, Typed, PhasesAgree, Read, Served
<1>2. Typed' /\ PhasesAgree'
  BY <1>1 DEF IInv, Typed, PhasesAgree, Read, Busy
<1>3. UNCHANGED <<options, elsewhere, op, fams, put>> /\ seen' = [seen EXCEPT ![r] = Served]
  BY DEF Read
<1>4. Placed(options)' /\ Placed(elsewhere)'
  BY <1>3 DEF IInv, Placed
<1>5. \A f \in Families : r \notin Rules(Served[f])
  BY <1>1 DEF Placed
<1>6. ASSUME NEW q \in Requests PROVE seen'[q] = IF q = r THEN Served ELSE seen[q]
  BY <1>3 DEF IInv, Typed
<1> HIDE DEF Served
<1>7. SawPlaced'
  BY <1>1, <1>3, <1>5, <1>6 DEF IInv, Placed, SawPlaced
<1> QED BY <1>2, <1>4, <1>7 DEF IInv

\* The list of a family after a PUT.
LEMMA NewListPlaced ==
    ASSUME IInv, NEW r \in Requests, put[r] \in {"sent", "bare"}, NEW f \in Families
    PROVE  /\ NewList(r, f) \in Seq(Requests)
           /\ Distinct(NewList(r, f))
           /\ \A q \in Rules(NewList(r, f)) :
                  /\ op[q] = "set"
                  /\ fams[q] = {f}
                  /\ put[q] \in {"applied", "strayed"} \/ q = r
<1>1. CASE f \notin fams[r]
  BY <1>1 DEF IInv, Typed, Lists, Placed, NewList
<1>2. CASE f \in fams[r] /\ op[r] = "set"
  <2>1. fams[r] = {f}
    BY <1>2 DEF IInv, PhasesAgree
  <2>2. seen[r][f] \in Seq(Requests) /\ Distinct(seen[r][f]) /\ r \notin Rules(seen[r][f])
    BY DEF IInv, Typed, Lists, SawPlaced, Placed
  <2>3. \A q \in Rules(seen[r][f]) : op[q] = "set" /\ fams[q] = {f} /\ put[q] \in {"applied", "strayed"}
    BY DEF IInv, SawPlaced, Placed
  <2> QED BY <1>2, <2>1, <2>2, <2>3, Appending DEF NewList
<1>3. CASE f \in fams[r] /\ op[r] # "set"
  BY <1>3 DEF NewList, Distinct, Rules
<1> QED BY <1>1, <1>2, <1>3

LEMMA ApplyStep ==
    ASSUME IInv, NEW r \in Requests, Apply(r)
    PROVE  IInv'
<1>1. put[r] \in {"sent", "bare"} /\ server \in {"own", "other"}
  BY DEF IInv, Typed, Apply, Authorized
<1>2. UNCHANGED <<given, server, phase, op, fams, seen>>
  BY DEF Apply
<1>3. \E end \in {"applied", "strayed"} :
          put' = [put EXCEPT ![r] = end] /\ (end = "strayed" => server = "other")
  BY <1>1 DEF Apply
<1>4. \A f \in Families :
          /\ options'[f] \in {options[f], NewList(r, f)}
          /\ elsewhere'[f] \in {elsewhere[f], NewList(r, f)}
  BY DEF Apply, IInv, Typed, Lists
<1>5. options' \in Lists /\ elsewhere' \in Lists
  <2>1. \A f \in Families : NewList(r, f) \in Seq(Requests)
    BY <1>1, NewListPlaced
  <2>2. options \in Lists /\ elsewhere \in Lists
    BY DEF IInv, Typed
  <2>3. CASE server = "own"
    BY <2>1, <2>2, <2>3 DEF Apply, Lists
  <2>4. CASE server # "own"
    BY <2>1, <2>2, <2>4 DEF Apply, Lists
  <2> QED BY <2>3, <2>4
<1>6. Typed'
  BY <1>2, <1>3, <1>5 DEF IInv, Typed, Puts
<1>7. PhasesAgree'
  BY <1>1, <1>2, <1>3 DEF IInv, Typed, PhasesAgree
<1>8. \A q \in Requests : put[q] \in {"applied", "strayed"} \/ q = r => put'[q] \in {"applied", "strayed"}
  BY <1>3 DEF IInv, Typed
<1>9. \A f \in Families : /\ Rules(options'[f]) \subseteq Requests
                         /\ Rules(elsewhere'[f]) \subseteq Requests
  BY <1>5 DEF Lists, Rules
<1>10. ASSUME NEW f \in Families, NEW list \in {options'[f], elsewhere'[f]}
       PROVE  /\ Distinct(list)
              /\ \A q \in Rules(list) : /\ op[q] = "set" /\ fams[q] = {f}
                                        /\ put'[q] \in {"applied", "strayed"}
  <2>1. Rules(list) \subseteq Requests
    BY <1>9, <1>10
  <2>2. list \in {options[f], elsewhere[f]} \/ list = NewList(r, f)
    BY <1>4, <1>10
  <2>3. CASE list \in {options[f], elsewhere[f]}
    BY <1>8, <2>1, <2>3 DEF IInv, Placed
  <2>4. CASE list = NewList(r, f)
    BY <1>1, <1>8, <2>1, <2>4, NewListPlaced
  <2> QED BY <2>2, <2>3, <2>4
<1>11. Placed(options)' /\ Placed(elsewhere)'
  BY <1>2, <1>10 DEF Placed
<1>12. \A q \in Requests, f \in Families : Rules(seen[q][f]) \subseteq Requests
  BY DEF IInv, Typed, Lists, Rules
<1>13. SawPlaced'
  BY <1>2, <1>8, <1>12 DEF IInv, SawPlaced, Placed
<1> QED BY <1>6, <1>7, <1>11, <1>13 DEF IInv

LEMMA OtherStep ==
    ASSUME IInv, NEW r \in Requests, Handshake(r) \/ Refuse(r) \/ Written(r) \/ Verify(r) \/ Fail(r)
    PROVE  IInv'
<1>1. Typed' /\ PhasesAgree'
  BY DEF IInv, Typed, PhasesAgree, Handshake, PutAfterFetch, Refuse, Written, Verify, Fail, Busy, Puts
<1>2. \A q \in Requests : put[q] \in {"applied", "strayed"} => put'[q] = put[q]
  BY DEF IInv, Typed, PhasesAgree, Handshake, PutAfterFetch, Refuse, Written, Verify, Fail
<1>3. /\ \A f \in Families : Rules(options[f]) \subseteq Requests /\ Rules(elsewhere[f]) \subseteq Requests
      /\ \A q \in Requests, f \in Families : Rules(seen[q][f]) \subseteq Requests
  BY DEF IInv, Typed, Lists, Rules
<1>4. UNCHANGED <<options, elsewhere, seen, op, fams>>
  BY DEF Handshake, PutAfterFetch, Refuse, Written, Verify, Fail
<1>5. Placed(options)' /\ Placed(elsewhere)' /\ SawPlaced'
  BY <1>2, <1>3, <1>4 DEF IInv, SawPlaced, Placed
<1> QED BY <1>1, <1>5 DEF IInv

\* IInv holds in every reachable state, whatever is disturbed: see the
\* tools' read-modify-write in tools/rules.py.
THEOREM Invariance == Spec => []IInv
<1>1. IInv /\ [Next]_vars => IInv'
  <2> SUFFICES ASSUME IInv, [Next]_vars PROVE IInv'
    OBVIOUS
  <2>1. CASE Down \/ PortPasses
    BY <2>1 DEF Down, PortPasses, IInv, Typed, Placed, SawPlaced, PhasesAgree
  <2>2. CASE UNCHANGED vars
    BY <2>2 DEF vars, IInv, Typed, Placed, SawPlaced, PhasesAgree
  <2> QED BY <2>1, <2>2, BeginStep, ReadStep, ApplyStep, OtherStep DEF Next
<1> QED BY <1>1, InitHolds, PTL DEF Spec

\* Under any disturbance the lists of mitmweb name each request once at
\* most, and only requests of the list's own family.
THEOREM TypeCorrect == Spec => []TypeOK
<1>1. IInv => TypeOK
  BY DEF IInv, Typed, Placed, Distinct, TypeOK
<1> QED BY <1>1, Invariance, PTL

----------------------------------------------------------------------------
(* Requests on one family take turns and no write is late *)

Orderly == "overlap" \notin Disturbances /\ "late" \notin Disturbances

TakeTurns ==
    \A r, q \in Requests :
        r # q /\ phase[r] \in Busy /\ phase[q] \in Busy => fams[r] \cap fams[q] = {}

Fresh ==
    \A r \in Requests :
        phase[r] \in {"handshake", "write"} /\ put[r] # "applied" /\ server = "own" =>
            \A f \in fams[r] : seen[r][f] = options[f]

Indexed ==
    \A r \in Requests, f \in Families :
        op[r] = "set" /\ f \in fams[r] /\ put[r] = "applied" =>
            \/ /\ RuleIndex(r, f) + 1 \in DOMAIN options[f]
               /\ options[f][RuleIndex(r, f) + 1] = r
            \/ ClearedAway(r, f)

TurnInv == TakeTurns /\ Fresh /\ Indexed

LEMMA TurnInit == Init => TurnInv
  BY DEF Init, TurnInv, TakeTurns, Fresh, Indexed, Busy

LEMMA TurnBegin ==
    ASSUME Orderly, IInv, TurnInv, NEW r \in Requests,
           BeginSet(r) \/ BeginClear(r) \/ BeginList(r)
    PROVE  TurnInv'
<1>1. ASSUME NEW o, NEW F \in SUBSET Families, Begin(r, o, F) PROVE TurnInv'
  <2>1. TakeTurns'
    BY <1>1 DEF Orderly, IInv, Typed, TurnInv, TakeTurns, Begin, Alone, Busy
  <2>2. Fresh'
    BY <1>1 DEF IInv, Typed, TurnInv, Fresh, Begin
  <2>3. \A q \in Requests : put[q] = "applied" => q # r
    BY <1>1 DEF IInv, PhasesAgree, Begin
  <2>4. Indexed'
    BY <1>1, <2>3 DEF IInv, Typed, TurnInv, Indexed, ClearedAway, RuleIndex, Begin
  <2> QED BY <2>1, <2>2, <2>4 DEF TurnInv
<1>2. CASE BeginSet(r)
  BY <1>1, <1>2 DEF BeginSet
<1>3. CASE BeginClear(r)
  BY <1>1, <1>3 DEF BeginClear
<1>4. CASE BeginList(r)
  BY <1>1, <1>4 DEF BeginList
<1> QED BY <1>2, <1>3, <1>4

LEMMA TurnRead ==
    ASSUME IInv, TurnInv, NEW r \in Requests, Read(r)
    PROVE  TurnInv'
<1>1. TakeTurns'
  BY DEF IInv, Typed, TurnInv, TakeTurns, Read, Busy
<1>2. Fresh'
  BY DEF IInv, Typed, PhasesAgree, TurnInv, Fresh, Read, Served
<1>3. \A q \in Requests : put'[q] = "applied" => q # r /\ put[q] = "applied"
  BY DEF IInv, Typed, PhasesAgree, Read
<1>4. \A q \in Requests : put[q] = "applied" => put'[q] = "applied" /\ q # r
  BY DEF IInv, Typed, PhasesAgree, Read
<1>5. \A q \in Requests : q # r => seen'[q] = seen[q]
  BY DEF IInv, Typed, Read
<1>6. UNCHANGED <<options, op, fams>>
  BY DEF Read
<1>7. Indexed'
  BY <1>3, <1>4, <1>5, <1>6 DEF TurnInv, Indexed, ClearedAway, RuleIndex
<1> QED BY <1>1, <1>2, <1>7 DEF TurnInv

\* A write in turn extends or empties the lists as they are.
LEMMA WriteIsFresh ==
    ASSUME Orderly, IInv, TurnInv, NEW r \in Requests, Apply(r), server = "own",
           NEW f \in Families
    PROVE  options'[f] = IF f \notin fams[r] THEN options[f]
                         ELSE IF op[r] = "set" THEN Append(options[f], r) ELSE <<>>
<1>1. put[r] # "applied" /\ phase[r] = "write" /\ options'[f] = NewList(r, f)
  BY DEF Orderly, Apply
<1> QED BY <1>1 DEF TurnInv, Fresh, NewList

\* What a write does to the requests, here or elsewhere.
LEMMA WriteMarks ==
    ASSUME Orderly, IInv, NEW r \in Requests, Apply(r)
    PROVE  /\ phase[r] = "write" /\ put[r] \in {"sent", "bare"}
           /\ put'[r] = IF server = "own" THEN "applied" ELSE "strayed"
           /\ \A q \in Requests : q # r => put'[q] = put[q]
           /\ server # "own" => UNCHANGED options
           /\ UNCHANGED <<server, phase, op, fams, seen>>
<1>1. put' = [put EXCEPT ![r] = IF server = "own" THEN "applied" ELSE "strayed"]
  BY DEF Apply
<1>2. put[r] \in {"sent", "bare"} /\ phase[r] = "write"
  BY DEF Apply, Orderly
<1> QED BY <1>1, <1>2 DEF IInv, Typed, Apply

LEMMA TurnApply ==
    ASSUME Orderly, IInv, TurnInv, NEW r \in Requests, Apply(r)
    PROVE  TurnInv'
<1>1. /\ phase[r] = "write" /\ put[r] \in {"sent", "bare"}
      /\ put'[r] = IF server = "own" THEN "applied" ELSE "strayed"
      /\ \A q \in Requests : q # r => put'[q] = put[q]
      /\ server # "own" => UNCHANGED options
      /\ UNCHANGED <<server, phase, op, fams, seen>>
  BY WriteMarks
<1>2. TakeTurns'
  BY <1>1 DEF TurnInv, TakeTurns
<1>3. Fresh'
  <2> SUFFICES ASSUME NEW q \in Requests, phase[q] \in {"handshake", "write"}, q # r,
                      put[q] # "applied", server = "own",
                      NEW f \in fams[q]
               PROVE  seen[q][f] = options'[f]
    BY <1>1 DEF Fresh
  <2>1. f \notin fams[r] /\ f \in Families
    BY <1>1 DEF IInv, Typed, TurnInv, TakeTurns, Busy
  <2> QED BY <2>1, WriteIsFresh DEF TurnInv, Fresh
<1>4. CASE server # "own"
  <2>1. \A q \in Requests : put'[q] = "applied" <=> put[q] = "applied"
    BY <1>1, <1>4
  <2>2. UNCHANGED <<options, op, fams, seen>>
    BY <1>1, <1>4
  <2>3. Indexed'
    BY <2>1, <2>2 DEF TurnInv, Indexed, ClearedAway, RuleIndex
  <2> QED BY <1>2, <1>3, <2>3 DEF TurnInv
<1>5. CASE server = "own"
  <2> SUFFICES ASSUME NEW q \in Requests, NEW f \in Families,
                      op[q] = "set", f \in fams[q], put'[q] = "applied", ~ClearedAway(q, f)'
               PROVE  /\ RuleIndex(q, f) + 1 \in DOMAIN options'[f]
                      /\ options'[f][RuleIndex(q, f) + 1] = q
    BY <1>1, <1>2, <1>3 DEF TurnInv, Indexed, RuleIndex
  <2>1. options[f] \in Seq(Requests) /\ seen[q][f] \in Seq(Requests)
    BY DEF IInv, Typed, Lists
  <2>2. ~ClearedAway(q, f)
    BY <1>1, <1>5 DEF ClearedAway
  <2>3. CASE q = r
    <3>1. RuleIndex(q, f) = Len(options[f])
      BY <1>1, <1>5, <2>3 DEF RuleIndex, TurnInv, Fresh
    <3>2. options'[f] = Append(options[f], q)
      BY <1>5, <2>3, WriteIsFresh
    <3> QED BY <2>1, <3>1, <3>2, Appending
  <2>4. CASE q # r
    <3>1. /\ RuleIndex(q, f) + 1 \in DOMAIN options[f]
          /\ options[f][RuleIndex(q, f) + 1] = q
      BY <1>1, <2>2, <2>4 DEF TurnInv, Indexed
    <3>2. ASSUME f \in fams[r], op[r] # "set" PROVE FALSE
      <4>1. op[r] = "clear"
        BY <1>1, <3>2 DEF IInv, Typed, PhasesAgree
      <4>2. seen[r][f] = options[f]
        BY <1>1, <1>5, <3>2 DEF TurnInv, Fresh
      <4>3. q \in Rules(seen[r][f])
        BY <3>1, <4>2 DEF Rules
      <4>4. op'[r] = "clear" /\ f \in fams'[r] /\ put'[r] = "applied" /\ q \in Rules(seen'[r][f])
        BY <1>1, <1>5, <3>2, <4>1, <4>3
      <4> QED BY <4>4 DEF ClearedAway
    <3>3. options'[f] = options[f] \/ options'[f] = Append(options[f], r)
      BY <1>5, <3>2, WriteIsFresh
    <3>4. \A i \in DOMAIN options[f] :
              /\ i \in DOMAIN Append(options[f], r)
              /\ Append(options[f], r)[i] = options[f][i]
      BY <2>1, Appending
    <3> QED BY <3>1, <3>3, <3>4
  <2> QED BY <2>3, <2>4
<1> QED BY <1>4, <1>5

LEMMA TurnOther ==
    ASSUME IInv, TurnInv, NEW r \in Requests,
           Handshake(r) \/ Refuse(r) \/ Written(r) \/ Verify(r) \/ Fail(r)
    PROVE  TurnInv'
<1>1. UNCHANGED <<server, options, seen, op, fams>>
  BY DEF Handshake, PutAfterFetch, Refuse, Written, Verify, Fail
<1>2. \A q \in Requests : /\ put'[q] = "applied" <=> put[q] = "applied"
                          /\ phase'[q] \in Busy => phase[q] \in Busy
                          /\ phase'[q] \in {"handshake", "write"} =>
                                 phase[q] \in {"handshake", "write"}
  BY DEF IInv, Typed, PhasesAgree, Handshake, PutAfterFetch, Refuse, Written, Verify, Fail, Busy, Puts
<1>3. TakeTurns' /\ Fresh'
  BY <1>1, <1>2 DEF TurnInv, TakeTurns, Fresh
<1>4. Indexed'
  BY <1>1, <1>2 DEF TurnInv, Indexed, ClearedAway, RuleIndex
<1> QED BY <1>3, <1>4 DEF TurnInv

LEMMA TurnStep ==
    ASSUME Orderly, IInv, TurnInv, [Next]_vars
    PROVE  TurnInv'
<1>1. CASE Down \/ PortPasses
  BY <1>1 DEF Down, PortPasses, TurnInv, TakeTurns, Fresh, Indexed, ClearedAway, RuleIndex
<1>2. CASE UNCHANGED vars
  BY <1>2 DEF vars, TurnInv, TakeTurns, Fresh, Indexed, ClearedAway, RuleIndex
<1> QED BY <1>1, <1>2, TurnBegin, TurnRead, TurnApply, TurnOther DEF Next

\* The rule_id that _append_rule returned names the rule until a clear that
\* counts it takes it away, if sets and clears of one family take turns;
\* whatever was cleared before the set is no excuse.
THEOREM RuleIdsAreTrue ==
    ASSUME Orderly
    PROVE  Spec => []RuleIdNamesRule
<1>1. IInv /\ TurnInv => RuleIdNamesRule
  BY DEF IInv, PhasesAgree, TurnInv, Indexed, ClearedAway, RuleIdNamesRule
<1>2. IInv /\ TurnInv /\ [Next]_vars => TurnInv'
  BY TurnStep
<1> QED BY <1>1, <1>2, TurnInit, Invariance, PTL DEF Spec

----------------------------------------------------------------------------
(* What a clear answers *)

\* A PUT takes effect in a step of its own, in the session it is meant for.
LEMMA OnlyApplyApplies ==
    ASSUME IInv, [Next]_vars, NEW r \in Requests, put[r] # "applied", put'[r] = "applied"
    PROVE  Apply(r) /\ server = "own"
<1>1. ASSUME UNCHANGED put PROVE FALSE
  BY <1>1
<1>2. ~(Down \/ PortPasses \/ UNCHANGED vars)
  BY <1>1 DEF Down, PortPasses, vars
<1>3. ASSUME NEW q \in Requests, BeginSet(q) \/ BeginClear(q) \/ BeginList(q) PROVE FALSE
  BY <1>1, <1>3 DEF BeginSet, BeginClear, BeginList, Begin
<1>4. ASSUME NEW q \in Requests, Read(q) \/ Written(q) \/ Verify(q) \/ Fail(q) PROVE FALSE
  BY <1>1, <1>4 DEF Read, Written, Verify, Fail
<1>5. ASSUME NEW q \in Requests, Handshake(q) \/ Refuse(q) PROVE FALSE
  BY <1>5 DEF Handshake, PutAfterFetch, Refuse, IInv, Typed
<1>6. ASSUME NEW q \in Requests, Apply(q) PROVE q = r /\ server = "own"
  BY <1>6 DEF Apply, IInv, Typed
<1> QED BY <1>2, <1>3, <1>4, <1>5, <1>6 DEF Next

\* The families of a clear are empty from its PUT until it ends.
Emptied ==
    \A r \in Requests :
        op[r] = "clear" /\ put[r] = "applied" /\ phase[r] \in {"write", "verify"} =>
            \A f \in fams[r] : options[f] = <<>>

LEMMA EmptiedStep ==
    ASSUME Orderly, IInv, TurnInv, Emptied, [Next]_vars
    PROVE  Emptied'
<1>1. CASE \E r \in Requests : Apply(r)
  <2>1. PICK r \in Requests : Apply(r)
    BY <1>1
  <2>2. /\ phase[r] = "write" /\ UNCHANGED <<phase, op, fams>>
        /\ \A q \in Requests : q # r => put'[q] = put[q]
        /\ server # "own" => UNCHANGED options /\ put'[r] = "strayed"
    BY <2>1, WriteMarks
  <2> SUFFICES ASSUME NEW q \in Requests, NEW f \in fams[q], op[q] = "clear",
                      put'[q] = "applied", phase[q] \in {"write", "verify"}
               PROVE  options'[f] = <<>>
    BY <2>2 DEF Emptied
  <2>3. f \in Families
    BY DEF IInv, Typed
  <2>4. CASE q = r
    <3>1. server = "own"
      BY <2>2, <2>4
    <3> QED BY <2>1, <2>3, <2>4, <3>1, WriteIsFresh
  <2>5. CASE q # r
    <3>1. f \notin fams[r]
      BY <2>2, <2>5 DEF TurnInv, TakeTurns, Busy
    <3>2. options'[f] = options[f]
      BY <2>1, <2>2, <2>3, <3>1, WriteIsFresh
    <3> QED BY <2>2, <2>5, <3>2 DEF Emptied
  <2> QED BY <2>4, <2>5
<1>2. CASE \A r \in Requests : ~Apply(r)
  <2>1. ASSUME NEW r \in Requests,
               \/ BeginSet(r) \/ BeginClear(r) \/ BeginList(r)
               \/ Read(r) \/ Handshake(r) \/ Refuse(r) \/ Written(r) \/ Verify(r) \/ Fail(r)
        PROVE  Emptied'
    <3>1. ASSUME NEW o, NEW F, Begin(r, o, F) PROVE Emptied'
      BY <3>1 DEF Begin, IInv, Typed, PhasesAgree, Emptied
    <3>2. CASE Read(r) \/ Handshake(r) \/ Refuse(r) \/ Written(r) \/ Verify(r) \/ Fail(r)
      BY <3>2 DEF Read, Handshake, PutAfterFetch, Refuse, Written, Verify, Fail, IInv, Typed, PhasesAgree,
                  Emptied
    <3> QED BY <2>1, <3>1, <3>2 DEF BeginSet, BeginClear, BeginList
  <2>2. CASE Down \/ PortPasses \/ UNCHANGED vars
    BY <2>2 DEF Down, PortPasses, vars, Emptied
  <2> QED BY <1>2, <2>1, <2>2 DEF Next
<1> QED BY <1>1, <1>2

\* A clear's cleared_count and remaining (tools/rules.py, mitm_clear_rules) are
\* true if calls on one family take turns.
THEOREM ClearsAnswerTruly ==
    ASSUME Orderly
    PROVE  Spec => ClearAnswersTruly
<1>1. Init => Emptied
  BY DEF Init, Emptied
<1>2. ASSUME IInv, TurnInv, Emptied, [Next]_vars, NEW r \in Requests, NEW f \in Families,
             op[r] = "clear"
      PROVE  /\ put[r] # "applied" /\ put'[r] = "applied" =>
                    Len(options'[f]) = Len(options[f]) - Counted(r, f)
             /\ phase[r] = "verify" /\ phase'[r] = "done" /\ f \in fams[r] /\ server = "own" =>
                    options[f] = <<>>
  <2>1. ASSUME put[r] # "applied", put'[r] = "applied"
        PROVE  Len(options'[f]) = Len(options[f]) - Counted(r, f)
    <3>1. Apply(r) /\ server = "own"
      BY <1>2, <2>1, OnlyApplyApplies
    <3>2. Len(options[f]) \in Nat /\ Len(<<>>) = 0
      BY <1>2 DEF IInv, Typed, Lists
    <3>3. CASE f \in fams[r]
      <4>1. seen[r][f] = options[f]
        BY <1>2, <2>1, <3>1, <3>3, WriteMarks DEF TurnInv, Fresh
      <4>2. options'[f] = <<>>
        BY <1>2, <3>1, <3>3, WriteIsFresh
      <4> QED BY <3>2, <3>3, <4>1, <4>2 DEF Counted
    <3>4. CASE f \notin fams[r]
      BY <1>2, <3>1, <3>2, <3>4, WriteIsFresh DEF Counted
    <3> QED BY <3>3, <3>4
  <2>2. ASSUME phase[r] = "verify", f \in fams[r], server = "own"
        PROVE  options[f] = <<>>
    <3>1. put[r] = "applied"
      BY <1>2, <2>2 DEF IInv, PhasesAgree
    <3> QED BY <1>2, <2>2, <3>1 DEF Emptied
  <2> QED BY <2>1, <2>2
<1>3. IInv /\ TurnInv /\ Emptied /\ [Next]_vars =>
        [\A r \in Requests, f \in Families : op[r] = "clear" =>
           /\ put[r] # "applied" /\ put'[r] = "applied" =>
                  Len(options'[f]) = Len(options[f]) - Counted(r, f)
           /\ phase[r] = "verify" /\ phase'[r] = "done" /\ f \in fams[r] /\ server = "own" =>
                  options[f] = <<>>]_vars
  BY <1>2
<1>4. IInv /\ TurnInv /\ Emptied /\ [Next]_vars => TurnInv' /\ Emptied'
  BY TurnStep, EmptiedStep
<1> QED BY <1>1, <1>3, <1>4, TurnInit, Invariance, PTL DEF Spec, ClearAnswersTruly

----------------------------------------------------------------------------
(* Two sessions on one port *)

\* A write strays only from a session to one of the same password.
LEMMA StrayNeedsPassword ==
    ASSUME IInv, NEW r \in Requests, Apply(r), server # "own"
    PROVE  given = Both
<1>1. server = "other" /\ WebToken("own") = WebToken("other")
  BY DEF IInv, Typed, Apply, Authorized
<1>2. given = {} \/ ("own" \in given /\ "other" \in given)
  BY <1>1 DEF WebToken, IInv, Typed, Both
<1>3. given # {}
  BY <1>1 DEF WebToken
<1> QED BY <1>2, <1>3 DEF IInv, Typed, Both

\* Whatever is disturbed, no set or clear takes effect in the mitmweb that took
\* over the port of its session (tools/rules.py looks the session up once),
\* unless the agent gave both the same web_password (tools/mitmweb.py).
THEOREM RulesStayHome == Spec => []RulesStayInSession
<1>1. Init => RulesStayInSession
  BY DEF Init, RulesStayInSession
<1>2. IInv /\ RulesStayInSession /\ [Next]_vars => RulesStayInSession'
  <2> SUFFICES ASSUME IInv, RulesStayInSession, [Next]_vars
               PROVE  RulesStayInSession'
    OBVIOUS
  <2>1. UNCHANGED given
    BY DEF Next, vars, BeginSet, BeginClear, BeginList, Begin, Read, Handshake, PutAfterFetch, Apply,
           Refuse, Written, Verify, Fail, Down, PortPasses
  <2> SUFFICES ASSUME given # Both
               PROVE  /\ UNCHANGED elsewhere
                      /\ \A q \in Requests : put'[q] = "strayed" => put[q] = "strayed"
    BY <2>1 DEF RulesStayInSession
  <2>2. ASSUME NEW r \in Requests, Apply(r)
        PROVE  /\ UNCHANGED elsewhere
               /\ \A q \in Requests : put'[q] = "strayed" => put[q] = "strayed"
    <3>1. server = "own"
      BY <2>2, StrayNeedsPassword
    <3> QED BY <2>2, <3>1 DEF Apply, IInv, Typed
  <2>3. ASSUME NEW r \in Requests, BeginSet(r) \/ BeginClear(r) \/ BeginList(r) \/ Read(r)
        PROVE  UNCHANGED <<elsewhere, put>>
    BY <2>3 DEF BeginSet, BeginClear, BeginList, Begin, Read
  <2>4. ASSUME NEW r \in Requests, Handshake(r) \/ Refuse(r) \/ Written(r) \/ Verify(r) \/ Fail(r)
        PROVE  /\ UNCHANGED elsewhere
               /\ \A q \in Requests : put'[q] = "strayed" => put[q] = "strayed"
    BY <2>4 DEF Handshake, PutAfterFetch, Refuse, Written, Verify, Fail, IInv, Typed
  <2>5. CASE Down \/ PortPasses \/ UNCHANGED vars
    BY <2>5 DEF Down, PortPasses, vars
  <2> QED BY <2>2, <2>3, <2>4, <2>5 DEF Next
<1> QED BY <1>1, <1>2, Invariance, PTL DEF Spec

----------------------------------------------------------------------------
(* What a set leaves *)

KeepsRules ==
    \A r \in Requests :
        op[r] = "set" /\ put[r] # "applied" /\ put'[r] = "applied" =>
            \A f \in Families : Rules(options[f]) \subseteq Rules(options'[f])

\* A set keeps the rules that are there (tools/rules.py, _append_rule), whatever
\* fails, if requests on its family take turns; the run lost_rule shows that it
\* does not if they overlap.
THEOREM SetsKeepRulesInTurn ==
    ASSUME Orderly
    PROVE  Spec => SetKeepsRules
<1>1. IInv /\ TurnInv /\ [Next]_vars => [KeepsRules]_vars
  <2> SUFFICES ASSUME IInv, TurnInv, [Next]_vars,
                      NEW r \in Requests, op[r] = "set", put[r] # "applied", put'[r] = "applied",
                      NEW f \in Families
               PROVE  Rules(options[f]) \subseteq Rules(options'[f])
    BY DEF KeepsRules
  <2>1. options'[f] = options[f] \/ options'[f] = Append(options[f], r)
    BY OnlyApplyApplies, WriteIsFresh
  <2>2. options[f] \in Seq(Requests)
    BY DEF IInv, Typed, Lists
  <2>3. Rules(Append(options[f], r)) = Rules(options[f]) \cup {r}
    BY <2>2, Appending
  <2> QED BY <2>1, <2>3
<1>2. IInv /\ TurnInv /\ [Next]_vars => TurnInv'
  BY TurnStep
<1> QED BY <1>1, <1>2, TurnInit, Invariance, PTL DEF Spec, SetKeepsRules, KeepsRules

----------------------------------------------------------------------------
(* RuleBridge implements RuleStore *)

UsedSet == {r \in Requests : op[r] = "set" /\ put[r] = "applied"}

LEMMA SetMaps ==
    ASSUME Orderly, IInv, TurnInv, NEW r \in Requests, Apply(r), server = "own",
           op[r] = "set"
    PROVE  \E f \in Families : RS!Set(r, f)
<1>1. PICK f \in Families : fams[r] = {f}
  BY DEF IInv, PhasesAgree
<1>2. r \notin UsedSet
  BY DEF UsedSet, Apply
<1>3. UsedSet' = UsedSet \cup {r}
  BY DEF UsedSet, Apply, IInv, Typed
<1>4. options' = [options EXCEPT ![f] = Append(@, r)]
  <2>1. options' \in [Families -> Seq(Requests)] /\ options \in [Families -> Seq(Requests)]
    BY ApplyStep DEF IInv, Typed, Lists
  <2>2. \A g \in Families :
            options'[g] = IF g = f THEN Append(options[g], r) ELSE options[g]
    BY <1>1, WriteIsFresh
  <2> QED BY <2>1, <2>2
<1> QED BY <1>2, <1>3, <1>4 DEF RS!Set, UsedSet

LEMMA ClearMaps ==
    ASSUME Orderly, IInv, TurnInv, NEW r \in Requests, Apply(r), server = "own",
           op[r] # "set"
    PROVE  RS!Clear(fams[r])
<1>1. UsedSet' = UsedSet
  BY DEF UsedSet, Apply, IInv, Typed
<1>2. options' = [f \in Families |-> IF f \in fams[r] THEN <<>> ELSE options[f]]
  BY WriteIsFresh DEF Apply
<1> QED BY <1>1, <1>2 DEF RS!Clear, UsedSet

\* A write that strays is none of the store's.
LEMMA StraysStutter ==
    ASSUME Orderly, IInv, NEW r \in Requests, Apply(r), server # "own"
    PROVE  UNCHANGED <<options, UsedSet>>
  BY WriteMarks DEF UsedSet

\* Every step but a PUT taking effect is invisible in the store.
LEMMA OthersStutter ==
    ASSUME IInv, [Next]_vars, \A r \in Requests : ~Apply(r)
    PROVE  UNCHANGED <<options, UsedSet>>
<1>1. CASE Down \/ PortPasses \/ UNCHANGED vars
  BY <1>1 DEF Down, PortPasses, vars, UsedSet
<1>2. ASSUME NEW r \in Requests, BeginSet(r) \/ BeginClear(r) \/ BeginList(r)
      PROVE  UNCHANGED <<options, UsedSet>>
  <2>1. ASSUME NEW o, NEW F, Begin(r, o, F) PROVE UNCHANGED <<options, UsedSet>>
    BY <2>1 DEF Begin, UsedSet, IInv, Typed, PhasesAgree
  <2> QED BY <1>2, <2>1 DEF BeginSet, BeginClear, BeginList
<1>3. ASSUME NEW r \in Requests, Read(r) PROVE UNCHANGED <<options, UsedSet>>
  BY <1>3 DEF Read, UsedSet, IInv, Typed, PhasesAgree
<1>4. ASSUME NEW r \in Requests, Handshake(r) \/ Refuse(r) \/ Written(r) \/ Verify(r) \/ Fail(r)
      PROVE  UNCHANGED <<options, UsedSet>>
  BY <1>4 DEF Handshake, PutAfterFetch, Refuse, Written, Verify, Fail, UsedSet, IInv, Typed, PhasesAgree
<1> QED BY <1>1, <1>2, <1>3, <1>4 DEF Next

\* The tools implement the abstract store of rules if sets and clears of one
\* family take turns, whatever fails and whoever works on other families.
THEOREM BridgeImplementsRuleStore ==
    ASSUME Orderly
    PROVE  Spec => ImplementsRuleStore
<1>1. Init => RS!Init
  BY DEF Init, Empty, RS!Init
<1>2. IInv /\ TurnInv /\ [Next]_vars => [RS!Next]_<<options, UsedSet>>
  <2> SUFFICES ASSUME IInv, TurnInv, [Next]_vars
               PROVE  RS!Next \/ UNCHANGED <<options, UsedSet>>
    OBVIOUS
  <2>1. ASSUME NEW r \in Requests, Apply(r), server = "own" PROVE RS!Next
    <3>1. fams[r] \in SUBSET Families
      BY DEF IInv, Typed
    <3> QED BY <2>1, <3>1, SetMaps, ClearMaps DEF RS!Next
  <2> QED BY <2>1, StraysStutter, OthersStutter
<1>3. IInv /\ TurnInv /\ [Next]_vars => TurnInv'
  BY TurnStep
<1> QED BY <1>1, <1>2, <1>3, TurnInit, Invariance, PTL DEF Spec, RS!Spec, ImplementsRuleStore, UsedSet

============================================================================
