----------------------- MODULE InspectionToolsProofs -----------------------
(***************************************************************************)
(* Proofs about InspectionTools for any number of sessions, ports, calls   *)
(* and flows, and any passwords.  The token is what keeps sessions apart:  *)
(* whoever admits a call at a port is the session the call is about, or    *)
(* one that was given its password (AdmittedIsPeer), however often the     *)
(* port has changed hands since the tool looked.  So a call reads the      *)
(* flows of a peer, and the rest is what filtering, counting and slicing   *)
(* make of them (RightAnswer).                                             *)
(***************************************************************************)
EXTENDS InspectionTools, ListsProofs

\* A file holds flows its session captured, each once.
FilesOwn ==
    \A s \in Sessions :
        /\ \A i \in DOMAIN file[s] : file[s][i].owner = s /\ file[s][i].n \in 1 .. captured[s]
        /\ \A i, j \in DOMAIN file[s] : file[s][i] = file[s][j] => i = j

\* What a call that is under way is about.
CallsFit ==
    \A c \in Calls :
        /\ pc[c] \in {"request", "content"} => ask[c].session \in Mitmweb
        /\ pc[c] = "request" => ~ReadsFile(ask[c])
        /\ pc[c] = "content" => ask[c].tool = "get_flow_detail"

IInv == TypeOK /\ FilesOwn /\ CallsFit /\ AnswersFromOwnSession /\ PageIsWindow

\* A server that admits a call is of the call's session or has its password.
LEMMA AdmittedIsPeer ==
    ASSUME NEW c \in Calls, NEW t \in Mitmweb, ask[c].session \in Mitmweb, Admitted(c, t)
    PROVE  t \in Peers(ask[c].session) /\ t \in Sessions
BY KindsAssumption DEF Admitted, WebToken, Servers, Peers

LEMMA PeersAreSessions ==
    ASSUME NEW s \in Sessions
    PROVE  Peers(s) \subseteq Sessions /\ s \in Peers(s)
BY KindsAssumption DEF Peers

----------------------------------------------------------------------------
(* lists of flows *)

\* A view is its session's flows from the first not lost, numbered on.
LEMMA ViewShape ==
    ASSUME TypeOK, NEW s \in Sessions
    PROVE  /\ View(s) \in Seq(Flow)
           /\ Len(View(s)) = captured[s] - dropped[s]
           /\ \A i \in 1 .. Len(View(s)) : View(s)[i] = [owner |-> s, n |-> dropped[s] + i]
<1> DEFINE n == captured[s] - dropped[s]
<1>1. n \in Nat /\ dropped[s] \in Nat
  BY DEF TypeOK
<1>2. View(s) \in [1 .. n -> Flow]
  BY <1>1 DEF View, Flow
<1>3. \A i \in 1 .. n : View(s)[i] = [owner |-> s, n |-> dropped[s] + i]
  BY DEF View
<1> HIDE DEF n
<1>4. View(s) \in Seq(Flow) /\ Len(View(s)) = n
  BY <1>1, <1>2, SeqDef
<1> QED BY <1>3, <1>4 DEF n

\* The flows an expression keeps.
Kept(flows) == {f \in ToSet(flows) : MatchesNow(f)}

LEMMA MatchesInOrder ==
    ASSUME NEW flows \in Seq(Flow)
    PROVE  /\ Matches(flows, TRUE) \in Seq(Flow)
           /\ \E order : InOrder(order, Matches(flows, TRUE), flows, Kept(flows), Len(flows))
<1>1. Matches(flows, TRUE) = Selected(flows, Kept(flows))
  BY DEF Matches, Kept
<1> QED BY <1>1, SelectedInOrder

\* items[first : last].
LEMMA SliceShows ==
    ASSUME NEW A, NEW items \in Seq(A), NEW first \in Nat, NEW last \in Nat
    PROVE  LET end == IF last < Len(items) THEN last ELSE Len(items)
               slice == Slice(items, first, last)
           IN  /\ slice \in Seq(A)
               /\ Len(slice) = IF first < end THEN end - first ELSE 0
               /\ \A i \in 1 .. Len(slice) :
                      first + i \in 1 .. Len(items) /\ slice[i] = items[first + i]
<1> DEFINE end == IF last < Len(items) THEN last ELSE Len(items)
           slice == Slice(items, first, last)
<1>1. end \in Nat /\ end <= Len(items) /\ Len(items) \in Nat
  OBVIOUS
<1>2. slice = SubSeq(items, first + 1, end)
  BY DEF Slice
<1> HIDE DEF end, slice
<1>3. \A i \in first + 1 .. end : i \in 1 .. Len(items) /\ items[i] \in A
  BY <1>1
<1>4. /\ SubSeq(items, first + 1, end) \in Seq(A)
      /\ Len(SubSeq(items, first + 1, end)) = IF first + 1 <= end THEN end - first ELSE 0
      /\ \A i \in 1 .. end - first : SubSeq(items, first + 1, end)[i] = items[first + i]
  BY <1>1, <1>3
<1>5. Len(slice) = IF first < end THEN end - first ELSE 0
  BY <1>1, <1>2, <1>4
<1>6. ASSUME NEW i \in 1 .. Len(slice)
      PROVE  first + i \in 1 .. Len(items) /\ slice[i] = items[first + i]
  <2>1. i \in 1 .. end - first
    BY <1>1, <1>5
  <2> QED BY <1>1, <1>2, <1>4, <2>1
<1> QED BY <1>2, <1>4, <1>5, <1>6 DEF end, slice

\* A page of limit items behind the first ones, of m in all.
PageLength(m, first, limit) ==
    IF m - first <= 0 THEN 0 ELSE IF limit < m - first THEN limit ELSE m - first

IsPage(page, items, first, limit) ==
    /\ DOMAIN page = 1 .. Len(page) /\ Len(page) \in Nat
    /\ Len(page) = PageLength(Len(items), first, limit)
    /\ \A i \in 1 .. Len(page) : first + i \in 1 .. Len(items) /\ page[i] = items[first + i]

LEMMA PageShows ==
    ASSUME NEW A, NEW items \in Seq(A), NEW first \in Nat, NEW limit \in Nat \ {0}
    PROVE  LET page == Slice(items, first, first + limit)
           IN  page \in Seq(A) /\ IsPage(page, items, first, limit)
<1> DEFINE page == Slice(items, first, first + limit)
<1>1. PICK last \in Nat : last = first + limit
  OBVIOUS
<1>2. PICK m \in Nat : m = Len(items)
  OBVIOUS
<1>3. /\ page \in Seq(A)
      /\ Len(page) = LET end == IF last < m THEN last ELSE m
                     IN  IF first < end THEN end - first ELSE 0
      /\ \A i \in 1 .. Len(page) : first + i \in 1 .. m /\ page[i] = items[first + i]
  <2>1. LET end == IF last < Len(items) THEN last ELSE Len(items)
            slice == Slice(items, first, last)
        IN  /\ slice \in Seq(A)
            /\ Len(slice) = IF first < end THEN end - first ELSE 0
            /\ \A i \in 1 .. Len(slice) :
                   first + i \in 1 .. Len(items) /\ slice[i] = items[first + i]
    BY SliceShows
  <2> QED BY <1>1, <1>2, <2>1
<1> HIDE DEF page
<1>4. Len(page) = PageLength(m, first, limit)
  BY <1>1, <1>3 DEF PageLength
<1>5. DOMAIN page = 1 .. Len(page) /\ Len(page) \in Nat
  BY <1>3
<1> QED BY <1>2, <1>3, <1>4, <1>5 DEF page, IsPage

----------------------------------------------------------------------------
(* what is right to answer *)

\* The body of PageIsWindow, of an answer to ask a from the flows of t.
Window(a, t, flows, total) ==
    /\ \A i \in DOMAIN flows : flows[i] = [owner |-> t, n |-> a.offset + i]
    /\ total <= captured[t]
    /\ Len(flows) <= a.limit
    /\ flows # <<>> => a.offset + Len(flows) <= total
    /\ Len(flows) < a.limit => total <= a.offset + Len(flows)

\* The body of CountIsOfAll.
Count(a, t, flows, total) ==
    /\ total = Cardinality(Found(a, t))
    /\ \A i \in DOMAIN flows :
           /\ flows[i].owner = t /\ flows[i].n \in Found(a, t)
           /\ a.tool = "get_flows" =>
                  Cardinality({n \in Found(a, t) : n <= flows[i].n}) = a.offset + i
    /\ \A i, j \in DOMAIN flows : flows[i] = flows[j] => i = j
    /\ Len(flows) = PageLength(total, Skipped(a), a.limit)

Owned(a, result) == \A i \in DOMAIN result.flows : result.flows[i].owner \in Peers(a.session)

RightWindow(a, result) ==
    a.tool = "get_flows" /\ ~a.filtered /\ result.code = ""
            /\ (\A t \in Peers(a.session) : dropped[t] = 0) =>
        \E t \in Peers(a.session) : Window(a, t, result.flows, result.total)

RightCount(a, result) ==
    Filters(a) /\ result.code = "" =>
        \E t \in Peers(a.session) : Count(a, t, result.flows, result.total)

RightAnswer(a, result) ==
    result \in Answer /\ Owned(a, result) /\ RightWindow(a, result) /\ RightCount(a, result)

LEMMA FailureIsRight ==
    ASSUME NEW a \in Ask, NEW code \in Codes \ {""}
    PROVE  RightAnswer(a, Failure(code))
<1>1. Failure(code).flows = <<>> /\ Failure(code).code = code /\ code # ""
  BY DEF Failure
<1>2. Failure(code) \in Answer
  <2>1. <<>> \in Seq(Flow)
    BY EmptyList
  <2> QED BY <2>1 DEF Failure, Answer
<1> QED BY <1>1, <1>2, EmptyList DEF RightAnswer, Owned, RightWindow, RightCount

\* Of a tool that neither pages nor counts.
LEMMA OwnedIsRight ==
    ASSUME NEW a \in Ask, a.tool \notin {"get_flows", "filter_flows"},
           NEW result \in Answer, Owned(a, result)
    PROVE  RightAnswer(a, result)
BY DEF RightAnswer, RightWindow, RightCount, Filters

\* Success with the flow asked for, or with none.
LEMMA SuccessHas ==
    /\ Success(<<>>, 0) \in Answer
    /\ \A a : Owned(a, Success(<<>>, 0))
    /\ \A f \in Flow : Success(<<f>>, 1) \in Answer
    /\ \A a, f : f.owner \in Peers(a.session) => Owned(a, Success(<<f>>, 1))
<1>1. \A f \in Flow : <<f>> \in Seq(Flow)
  OBVIOUS
<1>2. \A f : DOMAIN <<f>> = 1 .. 1 /\ <<f>>[1] = f
  OBVIOUS
<1> QED BY <1>1, <1>2, EmptyList DEF Success, Answer, Codes, Owned

----------------------------------------------------------------------------
(* export_flow, filter_flows and get_flows *)

\* The flows that are looked at are those of t, each once, and those that
\* match are the ones Found says.
Reads(flows, a, t) ==
    /\ flows \in Seq(Flow)
    /\ \A i \in 1 .. Len(flows) : flows[i].owner = t
    /\ \A i, j \in 1 .. Len(flows) : flows[i] = flows[j] => i = j
    /\ \A n : n \in Found(a, t) <=>
           /\ <<n, n \in complete[t]>> \in Matching
           /\ \E i \in 1 .. Len(flows) : flows[i] = [owner |-> t, n |-> n]

\* In the order they were captured.
Ascends(flows) == \A i, j \in 1 .. Len(flows) : i < j => flows[i].n < flows[j].n

LEMMA ExportIsRight ==
    ASSUME NEW a \in Ask, a.tool = "export_flow",
           NEW t \in Peers(a.session), NEW flows, Reads(flows, a, t)
    PROVE  RightAnswer(a, Export(flows, a))
<1>1. CASE Holds(flows, a)
  <2>1. PICK i \in 1 .. Len(flows) : flows[i] = a.flow
    BY <1>1 DEF Holds, ToSet, Reads
  <2>2. a.flow \in Flow /\ a.flow.owner \in Peers(a.session)
    BY <2>1 DEF Reads, Ask
  <2>3. RightAnswer(a, Success(<<a.flow>>, 1))
    BY <2>2, SuccessHas, OwnedIsRight
  <2> QED BY <1>1, <2>3 DEF Export
<1>2. CASE ~Holds(flows, a)
  <2>1. RightAnswer(a, Failure("INVALID_INPUT"))
    BY FailureIsRight DEF Codes
  <2> QED BY <1>2, <2>1 DEF Export
<1> QED BY <1>1, <1>2

\* What is found is listed once, and by ascending numbers if the flows are.
Lists(found, a, t) ==
    /\ found \in Seq(Flow)
    /\ \A i \in 1 .. Len(found) : found[i].owner = t /\ found[i].n \in Found(a, t)
    /\ \A i, j \in 1 .. Len(found) : found[i] = found[j] => i = j
    /\ \A n \in Found(a, t) : \E i \in 1 .. Len(found) : found[i].n = n

LEMMA FilterFinds ==
    ASSUME NEW a \in Ask, NEW t, NEW flows, Reads(flows, a, t)
    PROVE  /\ Lists(Matches(flows, TRUE), a, t)
           /\ Ascends(flows) => Ascends(Matches(flows, TRUE))
<1>1. /\ flows \in Seq(Flow)
      /\ \A i \in 1 .. Len(flows) : flows[i].owner = t
      /\ \A i, j \in 1 .. Len(flows) : flows[i] = flows[j] => i = j
      /\ \A n : n \in Found(a, t) <=>
             /\ <<n, n \in complete[t]>> \in Matching
             /\ \E i \in 1 .. Len(flows) : flows[i] = [owner |-> t, n |-> n]
  BY DEF Reads
<1> DEFINE found == Matches(flows, TRUE)
<1>2. found \in Seq(Flow)
  BY <1>1, MatchesInOrder
<1>3. PICK order : InOrder(order, found, flows, Kept(flows), Len(flows))
  BY <1>1, MatchesInOrder
<1> HIDE DEF found
<1>4. PICK m \in Nat : m = Len(found)
  BY <1>2
<1>5. /\ order \in [1 .. m -> 1 .. Len(flows)]
      /\ \A i, j \in 1 .. m : i < j => order[i] < order[j]
      /\ \A i \in 1 .. m : found[i] = flows[order[i]] /\ flows[order[i]] \in Kept(flows)
      /\ \A p \in 1 .. Len(flows) :
             flows[p] \in Kept(flows) => \E i \in 1 .. m : order[i] = p
  BY <1>3, <1>4 DEF InOrder
<1>6. ASSUME NEW i \in 1 .. m
      PROVE  found[i].owner = t /\ found[i].n \in Found(a, t)
  <2>1. order[i] \in 1 .. Len(flows) /\ found[i] = flows[order[i]]
    BY <1>5
  <2>2. found[i] \in Flow /\ found[i].owner = t
    BY <1>1, <2>1
  <2>3. found[i] = [owner |-> t, n |-> found[i].n]
    BY <2>2 DEF Flow
  <2>4. <<found[i].n, found[i].n \in complete[t]>> \in Matching
    BY <1>5, <2>1, <2>2 DEF Kept, MatchesNow
  <2> QED BY <1>1, <2>1, <2>2, <2>3, <2>4
<1>7. ASSUME NEW i \in 1 .. m, NEW j \in 1 .. m, found[i] = found[j] PROVE i = j
  <2>1. flows[order[i]] = flows[order[j]]
    BY <1>5, <1>7
  <2>2. order[i] \in 1 .. Len(flows) /\ order[j] \in 1 .. Len(flows)
    BY <1>5
  <2>3. order[i] = order[j]
    BY <1>1, <2>1, <2>2
  <2>4. i \in Nat /\ j \in Nat /\ ~(i < j) /\ ~(j < i)
    BY <1>5, <2>2, <2>3
  <2> QED BY <2>4
<1>8. ASSUME NEW n \in Found(a, t) PROVE \E i \in 1 .. m : found[i].n = n
  <2>1. PICK p \in 1 .. Len(flows) :
            flows[p] = [owner |-> t, n |-> n] /\ <<n, n \in complete[t]>> \in Matching
    BY <1>1
  <2>2. flows[p] \in Kept(flows)
    <3>1. flows[p] \in ToSet(flows)
      BY <1>1 DEF ToSet
    <3>2. flows[p].n = n /\ flows[p].owner = t
      BY <2>1
    <3> QED BY <2>1, <3>1, <3>2 DEF Kept, MatchesNow
  <2>3. PICK i \in 1 .. m : order[i] = p
    BY <1>5, <2>2
  <2>4. found[i] = [owner |-> t, n |-> n]
    BY <1>5, <2>1, <2>3
  <2> QED BY <2>4
<1>9. ASSUME Ascends(flows) PROVE Ascends(found)
  <2> SUFFICES ASSUME NEW i \in 1 .. m, NEW j \in 1 .. m, i < j PROVE found[i].n < found[j].n
    BY <1>4 DEF Ascends
  <2>1. order[i] \in 1 .. Len(flows) /\ order[j] \in 1 .. Len(flows) /\ order[i] < order[j]
    BY <1>5
  <2> QED BY <1>5, <1>9, <2>1 DEF Ascends
<1>10. Lists(found, a, t)
  BY <1>2, <1>4, <1>6, <1>7, <1>8 DEF Lists
<1> QED BY <1>9, <1>10 DEF found

LEMMA ListedAreCounted ==
    ASSUME TypeOK, NEW a, NEW t \in Sessions, NEW found, Lists(found, a, t)
    PROVE  /\ Cardinality(Found(a, t)) = Len(found)
           /\ Ascends(found) =>
                  \A k \in 1 .. Len(found) :
                      Cardinality({n \in Found(a, t) : n <= found[k].n}) = k
<1>1. PICK m \in Nat : m = Len(found)
  BY DEF Lists
<1>2. /\ \A i \in 1 .. m : found[i] \in Flow /\ found[i].owner = t /\ found[i].n \in Found(a, t)
      /\ \A i, j \in 1 .. m : found[i] = found[j] => i = j
      /\ \A n \in Found(a, t) : \E i \in 1 .. m : found[i].n = n
  BY <1>1 DEF Lists
<1>3. PICK top \in Nat : Found(a, t) \subseteq 1 .. top
  <2>1. captured[t] \in Nat /\ Found(a, t) \subseteq 1 .. captured[t]
    BY DEF TypeOK, Found
  <2> QED BY <2>1
<1>4. PICK S : S = Found(a, t) /\ S \subseteq 1 .. top
  BY <1>3
<1> DEFINE f == [i \in 1 .. m |-> found[i].n]
<1>5. ASSUME NEW i \in 1 .. m, NEW j \in 1 .. m, f[i] = f[j] PROVE i = j
  <2>1. found[i] = [owner |-> t, n |-> f[i]] /\ found[j] = [owner |-> t, n |-> f[j]]
    BY <1>2 DEF Flow
  <2> QED BY <1>2, <1>5, <2>1
<1>6. (\A x \in S : \E i \in 1 .. m : f[i] = x) /\ \A i \in 1 .. m : f[i] \in S
  BY <1>2, <1>4
<1>7. Cardinality(S) = m
  <2> HIDE DEF f
  <2> QED BY <1>5, <1>6, DistinctCount
<1>8. ASSUME Ascends(found), NEW k \in 1 .. m
      PROVE  Cardinality({n \in S : n <= found[k].n}) = k
  <2>1. f \in [1 .. m -> 1 .. top] /\ \A i \in 1 .. m : f[i] = found[i].n
    BY <1>2, <1>4
  <2>2. \A i, j \in 1 .. m : i < j => f[i] < f[j]
    BY <1>1, <1>8 DEF Ascends
  <2> HIDE DEF f
  <2>3. Enumerates(f, m, S, top)
    BY <1>6, <2>1, <2>2 DEF Enumerates
  <2>4. Cardinality(UpTo(S, f[k])) = k
    BY <2>3, PlaceIsCount
  <2>5. {n \in S : n <= f[k]} = UpTo(S, f[k])
    <3>1. f[k] \in Nat
      BY <2>1
    <3>2. \A n \in S : n \in Nat /\ 1 <= n
      BY <1>4
    <3>3. \A n \in S : n <= f[k] => n \in 1 .. f[k]
      BY <3>1, <3>2
    <3>4. \A n \in 1 .. f[k] : n <= f[k]
      BY <3>1
    <3> QED BY <3>3, <3>4, Zenon DEF UpTo
  <2> QED BY <2>1, <2>4, <2>5
<1> QED BY <1>1, <1>4, <1>7, <1>8

\* A filtered answer.
LEMMA FilteredIsRight ==
    ASSUME TypeOK, NEW a \in Ask, Filters(a), NEW t \in Peers(a.session),
           NEW flows, Reads(flows, a, t), a.tool = "get_flows" => Ascends(flows)
    PROVE  LET found == Matches(flows, TRUE)
           IN  RightAnswer(a, Success(Slice(found, Skipped(a), Skipped(a) + a.limit), Len(found)))
<1>1. PICK found : found = Matches(flows, TRUE)
  OBVIOUS
<1>2. Lists(found, a, t) /\ (a.tool = "get_flows" => Ascends(found))
  BY <1>1, FilterFinds
<1>3. PICK first \in Nat, limit \in Nat \ {0} :
          /\ first = Skipped(a) /\ limit = a.limit
          /\ a.tool = "get_flows" => first = a.offset
  BY DEF Ask, Skipped
<1>4. t \in Sessions
  BY PeersAreSessions DEF Ask
<1>5. found \in Seq(Flow)
  BY <1>2 DEF Lists
<1>6. PICK m \in Nat : m = Len(found)
  BY <1>5
<1>7. PICK page : page = Slice(found, first, first + limit)
  OBVIOUS
<1>8. /\ page \in Seq(Flow)
      /\ DOMAIN page = 1 .. Len(page) /\ Len(page) \in Nat
      /\ Len(page) = PageLength(m, first, limit)
      /\ \A i \in 1 .. Len(page) : first + i \in 1 .. m /\ page[i] = found[first + i]
  <2>1. /\ Slice(found, first, first + limit) \in Seq(Flow)
        /\ IsPage(Slice(found, first, first + limit), found, first, limit)
    BY <1>5, PageShows
  <2> QED BY <1>5, <1>6, <1>7, <2>1 DEF IsPage
<1>9. m = Cardinality(Found(a, t))
  BY <1>2, <1>4, <1>6, ListedAreCounted
<1>10. ASSUME NEW i \in DOMAIN page
       PROVE  /\ page[i].owner = t /\ page[i].n \in Found(a, t)
              /\ a.tool = "get_flows" =>
                     Cardinality({n \in Found(a, t) : n <= page[i].n}) = a.offset + i
  <2>1. PICK k \in 1 .. m : k = first + i /\ page[i] = found[k]
    BY <1>8
  <2>2. found[k].owner = t /\ found[k].n \in Found(a, t)
    BY <1>2, <1>6, <2>1 DEF Lists
  <2>3. a.tool = "get_flows" => Cardinality({n \in Found(a, t) : n <= found[k].n}) = k
    BY <1>2, <1>4, <1>6, ListedAreCounted
  <2> QED BY <1>3, <2>1, <2>2, <2>3
<1>11. ASSUME NEW i \in DOMAIN page, NEW j \in DOMAIN page, page[i] = page[j] PROVE i = j
  <2>1. first + i \in 1 .. m /\ first + j \in 1 .. m /\ found[first + i] = found[first + j]
    BY <1>8, <1>11
  <2>2. first + i = first + j
    BY <1>2, <1>6, <2>1 DEF Lists
  <2> QED BY <1>8, <2>2
<1>12. Count(a, t, page, m)
  BY <1>3, <1>8, <1>9, <1>10, <1>11 DEF Count
<1>13. PICK result : result = Success(page, m)
  OBVIOUS
<1>14. result.code = "" /\ result.flows = page /\ result.total = m /\ result \in Answer
  BY <1>8, <1>13 DEF Success, Answer, Codes
<1>15. Owned(a, result)
  BY <1>10, <1>14 DEF Owned
<1>16. RightWindow(a, result) /\ RightCount(a, result)
  BY <1>12, <1>14 DEF RightWindow, RightCount, Filters
<1> QED BY <1>1, <1>3, <1>6, <1>7, <1>13, <1>14, <1>15, <1>16 DEF RightAnswer

\* A page without an expression.
LEMMA PageIsRight ==
    ASSUME TypeOK, NEW a \in Ask, a.tool = "get_flows", ~a.filtered, NEW t \in Peers(a.session)
    PROVE  RightAnswer(a, Page(View(t), a))
<1>1. t \in Sessions
  BY PeersAreSessions DEF Ask
<1>2. PICK view : view = View(t)
  OBVIOUS
<1>3. PICK first \in Nat, limit \in Nat \ {0} : first = a.offset /\ limit = a.limit
  BY DEF Ask
<1>4. PICK lost \in Nat, m \in Nat : /\ lost = dropped[t] /\ m = captured[t] - dropped[t]
                                     /\ captured[t] \in Nat
  BY <1>1 DEF TypeOK
<1>5. /\ view \in Seq(Flow) /\ Len(view) = m
      /\ \A i \in 1 .. m : view[i] = [owner |-> t, n |-> lost + i]
  BY <1>1, <1>2, <1>4, ViewShape
<1>6. PICK page : page = Slice(view, first, first + limit)
  OBVIOUS
<1>7. /\ page \in Seq(Flow)
      /\ DOMAIN page = 1 .. Len(page) /\ Len(page) \in Nat
      /\ Len(page) = PageLength(m, first, limit)
      /\ \A i \in 1 .. Len(page) : first + i \in 1 .. m /\ page[i] = view[first + i]
  <2>1. /\ Slice(view, first, first + limit) \in Seq(Flow)
        /\ IsPage(Slice(view, first, first + limit), view, first, limit)
    BY <1>5, PageShows
  <2> QED BY <1>5, <1>6, <2>1 DEF IsPage
<1>8. \A i \in DOMAIN page : page[i] = [owner |-> t, n |-> lost + (first + i)]
  BY <1>5, <1>7
<1>9. ASSUME lost = 0 PROVE Window(a, t, page, m)
  <2>1. \A i \in DOMAIN page : lost + (first + i) = a.offset + i
    BY <1>3, <1>7, <1>9
  <2>2. m <= captured[t]
    BY <1>4
  <2>3. page # <<>> => Len(page) > 0
    BY <1>7
  <2>4. Len(page) <= limit /\ (Len(page) > 0 => first + Len(page) <= m)
    BY <1>7 DEF PageLength
  <2>5. Len(page) < limit => m <= first + Len(page)
    BY <1>7 DEF PageLength
  <2> QED BY <1>3, <1>8, <2>1, <2>2, <2>3, <2>4, <2>5 DEF Window
<1>10. PICK result : result = Success(page, m)
  OBVIOUS
<1>11. result.code = "" /\ result.flows = page /\ result.total = m /\ result \in Answer
  BY <1>7, <1>10 DEF Success, Answer, Codes
<1>12. Owned(a, result)
  <2>1. \A i \in DOMAIN page : page[i].owner = t
    BY <1>8
  <2> QED BY <1>11, <2>1 DEF Owned
<1>13. RightWindow(a, result) /\ RightCount(a, result)
  BY <1>4, <1>9, <1>11 DEF RightWindow, RightCount, Filters
<1>14. Page(View(t), a) = result
  BY <1>2, <1>3, <1>5, <1>6, <1>10 DEF Page, Matches
<1> QED BY <1>11, <1>12, <1>13, <1>14 DEF RightAnswer

LEMMA EvaluateIsRight ==
    ASSUME TypeOK, NEW a \in Ask, a.tool \in Offline, NEW t \in Peers(a.session),
           NEW flows, Reads(flows, a, t)
    PROVE  RightAnswer(a, Evaluate(flows, a))
<1>1. CASE a.tool = "export_flow"
  BY <1>1, ExportIsRight DEF Evaluate
<1>2. CASE a.tool = "filter_flows"
  <2>1. PICK found : found = Matches(flows, TRUE)
    OBVIOUS
  <2>2. a.limit \in Nat /\ Filters(a) /\ Skipped(a) = 0 /\ a.tool # "get_flows"
    BY <1>2 DEF Ask, Filters, Skipped
  <2>3. RightAnswer(a, Success(Slice(found, 0, 0 + a.limit), Len(found)))
    BY <2>1, <2>2, FilteredIsRight
  <2>4. 0 + a.limit = a.limit
    BY <2>2
  <2> QED BY <1>2, <2>1, <2>3, <2>4 DEF Evaluate, FirstMatches
<1> QED BY <1>1, <1>2 DEF Offline

\* mitmweb shows the flows that are not lost ...
LEMMA ViewIsRead ==
    ASSUME TypeOK, NEW a \in Ask, ~ReadsFile(a), NEW t \in Sessions
    PROVE  Reads(View(t), a, t) /\ Ascends(View(t))
<1>1. PICK view : view = View(t)
  OBVIOUS
<1>2. PICK lost \in Nat, count \in Nat :
          lost = dropped[t] /\ lost + count = captured[t] /\ count = captured[t] - dropped[t]
  <2>1. captured[t] \in Nat /\ dropped[t] \in Nat /\ captured[t] - dropped[t] \in Nat
    BY DEF TypeOK
  <2> QED BY <2>1
<1>3. /\ view \in Seq(Flow) /\ Len(view) = count
      /\ \A i \in 1 .. count : view[i] = [owner |-> t, n |-> lost + i]
  BY <1>1, <1>2, ViewShape
<1>4. \A i \in 1 .. count : view[i].owner = t /\ view[i].n = lost + i
  BY <1>3
<1>5. \A i, j \in 1 .. count : view[i] = view[j] => i = j
  BY <1>4
<1>6. Ascends(view)
  BY <1>3, <1>4 DEF Ascends
<1>7. ASSUME NEW n
      PROVE  n \in Found(a, t) <=>
                 /\ <<n, n \in complete[t]>> \in Matching
                 /\ \E i \in 1 .. count : view[i] = [owner |-> t, n |-> n]
  <2>1. n \in Found(a, t) <=>
            <<n, n \in complete[t]>> \in Matching /\ n \in 1 .. lost + count /\ lost < n
    BY <1>2 DEF Found
  <2>2. ASSUME n \in 1 .. lost + count, lost < n
        PROVE  \E i \in 1 .. count : view[i] = [owner |-> t, n |-> n]
    <3>1. n - lost \in 1 .. count /\ lost + (n - lost) = n
      BY <2>2
    <3> QED BY <1>3, <3>1
  <2>3. ASSUME NEW i \in 1 .. count, view[i] = [owner |-> t, n |-> n]
        PROVE  n \in 1 .. lost + count /\ lost < n
    <3>1. n = lost + i
      BY <1>4, <2>3
    <3> QED BY <3>1
  <2> QED BY <2>1, <2>2, <2>3
<1> QED BY <1>1, <1>3, <1>4, <1>5, <1>6, <1>7 DEF Reads

\* ... and a file those that were written.
LEMMA FileIsRead ==
    ASSUME TypeOK, FilesOwn, NEW a \in Ask, ReadsFile(a)
    PROVE  Reads(file[a.session], a, a.session)
<1> DEFINE s == a.session
<1>1. s \in Sessions
  BY DEF Ask
<1>2. PICK flows : flows = file[s]
  OBVIOUS
<1>3. flows \in Seq(Flow) /\ DOMAIN flows = 1 .. Len(flows)
  BY <1>1, <1>2 DEF TypeOK
<1>4. /\ \A i \in 1 .. Len(flows) : flows[i].owner = s /\ flows[i].n \in 1 .. captured[s]
      /\ \A i, j \in 1 .. Len(flows) : flows[i] = flows[j] => i = j
  BY <1>1, <1>2, <1>3 DEF FilesOwn
<1>5. ASSUME NEW n
      PROVE  n \in Found(a, s) <=>
                 /\ <<n, n \in complete[s]>> \in Matching
                 /\ \E i \in 1 .. Len(flows) : flows[i] = [owner |-> s, n |-> n]
  <2>1. Written(s, n) <=> \E i \in 1 .. Len(flows) : flows[i] = [owner |-> s, n |-> n]
    BY <1>2, <1>3 DEF Written, ToSet
  <2>2. Written(s, n) => n \in 1 .. captured[s]
    <3> SUFFICES ASSUME NEW i \in 1 .. Len(flows), flows[i] = [owner |-> s, n |-> n]
                 PROVE  n \in 1 .. captured[s]
      BY <2>1
    <3>1. flows[i].n = n
      OBVIOUS
    <3> QED BY <1>4, <3>1
  <2> QED BY <2>1, <2>2 DEF Found
<1> QED BY <1>2, <1>3, <1>4, <1>5 DEF Reads

----------------------------------------------------------------------------
(* what a call does *)

\* It answers what is right, or waits for a server, perhaps with a first part
\* of the answer.
Progress(c) ==
    \/ \E result : Answers(c, result) /\ RightAnswer(ask[c], result)
    \/ /\ pc' = [pc EXCEPT ![c] = "request"] /\ UNCHANGED answer
       /\ ~ReadsFile(ask[c]) /\ ask[c].session \in Mitmweb
    \/ /\ pc' = [pc EXCEPT ![c] = "content"]
       /\ ask[c].tool = "get_flow_detail" /\ ask[c].session \in Mitmweb
       /\ \E result : answer' = [answer EXCEPT ![c] = result] /\ RightAnswer(ask[c], result)

LEMMA EveryAnswerIsRight ==
    ASSUME TypeOK, FilesOwn, CallsFit, AnswersFromOwnSession, NEW c \in Calls, CallStep(c)
    PROVE  Progress(c)
<1> DEFINE a == ask[c]
<1>1. a \in Ask /\ a.session \in Sessions
  BY DEF TypeOK, Ask
<1>2. \A result : Answers(c, result) /\ RightAnswer(a, result) => Progress(c)
  BY DEF Progress
<1>3. \A code \in Codes \ {""} : Answers(c, Failure(code)) => Progress(c)
  BY <1>1, <1>2, FailureIsRight
<1>4. CASE Call(c)
  <2>1. CASE Obstacle(a) # "" /\ Answers(c, Failure(Obstacle(a)))
    <3>1. Obstacle(a) \in Codes \ {""}
      BY <2>1 DEF Obstacle, Codes
    <3> QED BY <1>3, <2>1, <3>1
  <2>2. ASSUME NEW result \in {Evaluate(file[a.session], a)} \cup FileErrors(a.session),
               ReadsFile(a), Answers(c, result)
        PROVE  Progress(c)
    <3>1. CASE result = Evaluate(file[a.session], a)
      <4>1. Reads(file[a.session], a, a.session) /\ a.session \in Peers(a.session)
        BY <1>1, <2>2, FileIsRead, PeersAreSessions
      <4>2. RightAnswer(a, Evaluate(file[a.session], a))
        BY <1>1, <2>2, <4>1, EvaluateIsRight DEF ReadsFile
      <4> QED BY <1>2, <2>2, <3>1, <4>2
    <3>2. CASE result \in FileErrors(a.session)
      <4>1. "INTERNAL_ERROR" \in Codes \ {""} /\ "INVALID_INPUT" \in Codes \ {""}
        BY DEF Codes
      <4>2. result = Failure("INTERNAL_ERROR") \/ result = Failure("INVALID_INPUT")
        BY <3>2 DEF FileErrors
      <4> QED BY <1>3, <2>2, <4>1, <4>2
    <3> QED BY <2>2, <3>1, <3>2
  <2>3. CASE /\ Obstacle(a) = "" /\ ~ReadsFile(a)
             /\ pc' = [pc EXCEPT ![c] = "request"] /\ UNCHANGED answer
    <3>1. a.session \in Mitmweb
      BY <2>3 DEF Obstacle
    <3> QED BY <2>3, <3>1 DEF Progress
  <2> QED BY <1>4, <2>1, <2>2, <2>3 DEF Call
<1>5. ASSUME NEW t \in Mitmweb, Read(c, t) PROVE Progress(c)
  <2>1. t \in Peers(a.session) /\ t \in Sessions
    BY <1>5, AdmittedIsPeer DEF Read, CallsFit
  <2>2. ~ReadsFile(a)
    BY <1>5 DEF Read, CallsFit
  <2>3. Reads(View(t), a, t) /\ Ascends(View(t))
    BY <1>1, <2>1, <2>2, ViewIsRead
  <2>4. CASE a.tool = "get_flows"
    <3>1. Answers(c, Page(View(t), a))
      BY <1>5, <2>4 DEF Read
    <3>2. CASE a.filtered
      <4>1. Filters(a) /\ Skipped(a) = a.offset
        BY <2>4, <3>2 DEF Filters, Skipped
      <4>2. LET found == Matches(View(t), TRUE)
            IN  RightAnswer(a, Success(Slice(found, Skipped(a), Skipped(a) + a.limit),
                                       Len(found)))
        BY <1>1, <2>1, <2>3, <4>1, FilteredIsRight
      <4>3. a.filtered = TRUE
        BY <1>1, <3>2 DEF Ask
      <4>4. RightAnswer(a, Page(View(t), a))
        BY <4>1, <4>2, <4>3 DEF Page
      <4> QED BY <1>2, <3>1, <4>4
    <3>3. CASE ~a.filtered
      <4>1. RightAnswer(a, Page(View(t), a))
        BY <1>1, <2>1, <2>4, <3>3, PageIsRight
      <4> QED BY <1>2, <3>1, <4>1
    <3> QED BY <3>2, <3>3
  <2>5. CASE a.tool \in Offline
    <3>1. Answers(c, Evaluate(View(t), a))
      BY <1>5, <2>5 DEF Read, Offline
    <3>2. RightAnswer(a, Evaluate(View(t), a))
      BY <1>1, <2>1, <2>3, <2>5, EvaluateIsRight
    <3> QED BY <1>2, <3>1, <3>2
  <2> QED BY <1>5, <2>4, <2>5 DEF Read
<1>6. ASSUME NEW t \in Mitmweb, Execute(c, t) PROVE Progress(c)
  <2>1. RightAnswer(a, Success(<<>>, 0))
    BY <1>1, <1>6, OwnedIsRight, SuccessHas DEF Execute
  <2>2. "UPSTREAM_UNREACHABLE" \in Codes \ {""} /\ "TIMEOUT" \in Codes \ {""}
    BY DEF Codes
  <2> QED BY <1>2, <1>3, <1>6, <2>1, <2>2 DEF Execute
<1>7. ASSUME NEW t \in Mitmweb, FindDetail(c, t) PROVE Progress(c)
  <2>1. "SESSION_NOT_RUNNING" \in Codes \ {""}
    BY DEF Codes
  <2>2. t \in Peers(a.session) /\ t \in Sessions /\ a.session \in Mitmweb
    BY <1>7, AdmittedIsPeer DEF FindDetail, CallsFit
  <2>3. CASE Holds(View(t), a)
    <3>1. PICK i \in DOMAIN View(t) : View(t)[i] = a.flow
      BY <2>3 DEF Holds, ToSet
    <3>2. a.flow \in Flow /\ a.flow.owner = t
      BY <1>1, <3>1 DEF View, Ask
    <3>3. RightAnswer(a, Success(<<a.flow>>, 1))
      BY <1>1, <1>7, <2>2, <3>2, OwnedIsRight, SuccessHas DEF FindDetail
    <3> QED BY <1>7, <2>2, <2>3, <3>3 DEF FindDetail, Progress
  <2> QED BY <1>3, <1>7, <2>1, <2>3 DEF FindDetail
<1>8. \A i \in DOMAIN answer[c].flows : answer[c].flows[i].owner \in Peers(a.session)
  BY DEF AnswersFromOwnSession
<1>9. PICK flows \in Seq(Flow) : flows = answer[c].flows
  BY DEF TypeOK, Answer
<1>10. ASSUME NEW t \in Mitmweb, FetchContent(c, t) PROVE Progress(c)
  <2>1. a.tool = "get_flow_detail" /\ a.session \in Mitmweb
    BY <1>10 DEF FetchContent, CallsFit
  <2>2. t \in Peers(a.session) /\ t \in Sessions
    BY <1>10, <2>1, AdmittedIsPeer DEF FetchContent
  <2>3. PICK i \in DOMAIN View(t) : Answers(c, Success(Append(flows, View(t)[i]), 1))
    BY <1>9, <1>10 DEF FetchContent
  <2>4. PICK f \in Flow : f = View(t)[i] /\ f.owner = t
    <3>1. View(t) \in Seq(Flow) /\ View(t)[i].owner = t
      BY <2>2, <2>3, ViewShape DEF View
    <3> QED BY <2>3, <3>1
  <2>5. PICK longer \in Seq(Flow) : longer = Append(flows, f)
    <3>1. Append(flows, f) \in Seq(Flow)
      OBVIOUS
    <3> QED BY <3>1
  <2>6. \A j \in DOMAIN longer : longer[j] = f \/ \E k \in DOMAIN flows : longer[j] = flows[k]
    BY <2>5
  <2>7. \A j \in DOMAIN longer : longer[j].owner \in Peers(a.session)
    BY <1>8, <1>9, <2>2, <2>4, <2>6
  <2>8. PICK result : result = Success(longer, 1)
    OBVIOUS
  <2>9. result \in Answer /\ Owned(a, result)
    BY <2>7, <2>8 DEF Success, Answer, Codes, Owned
  <2>10. RightAnswer(a, result)
    BY <1>1, <2>1, <2>9, OwnedIsRight
  <2> QED BY <1>2, <2>3, <2>4, <2>5, <2>8, <2>10
<1>11. CASE MissContent(c)
  <2>1. a.tool = "get_flow_detail"
    BY <1>11 DEF MissContent, CallsFit
  <2>2. answer[c] \in Answer /\ Owned(a, answer[c])
    BY <1>8 DEF TypeOK, Owned
  <2>3. RightAnswer(a, answer[c])
    BY <1>1, <2>1, <2>2, OwnedIsRight
  <2> QED BY <1>2, <1>11, <2>3 DEF MissContent
<1>12. CASE Fail(c)
  <2>1. "UPSTREAM_UNREACHABLE" \in Codes \ {""} /\ "TIMEOUT" \in Codes \ {""}
    BY DEF Codes
  <2> QED BY <1>3, <1>12, <2>1 DEF Fail
<1> QED BY <1>4, <1>5, <1>6, <1>7, <1>10, <1>11, <1>12 DEF CallStep

\* What it leaves alone; a command clears one view.
LEMMA CallLeaves ==
    ASSUME NEW c \in Calls, CallStep(c)
    PROVE  /\ UNCHANGED <<state, held, status, ask, captured, complete, file, password>>
           /\ \/ UNCHANGED dropped
              \/ \E t \in Mitmweb : Execute(c, t) /\ dropped' = [dropped EXCEPT ![t] = captured[t]]
BY DEF CallStep, Call, Read, Execute, FindDetail, FetchContent, MissContent, Fail, flowVars,
       registryVars

----------------------------------------------------------------------------
(* the types *)

LEMMA TypeInit == Init => TypeOK
<1> SUFFICES ASSUME Init PROVE TypeOK
  OBVIOUS
<1>1. ask \in [Calls -> Ask]
  <2>1. /\ ask \in [Calls -> UNION {Asks[c] : c \in Calls}]
        /\ \A c \in Calls : ask[c] \in Asks[c]
    BY DEF Init
  <2>2. \A c \in Calls : ask[c] \in Ask
    BY <2>1, AsksAssumption
  <2> QED BY <2>1, <2>2
<1>2. Failure("") \in Answer
  BY EmptyList DEF Failure, Answer, Codes
<1>3. answer \in [Calls -> Answer]
  BY <1>2 DEF Init
<1>4. file \in [Sessions -> Seq(Flow)]
  BY EmptyList DEF Init
<1>5. state \in [Sessions -> {"new", "granted", "live", "over"}] /\ held \in [Sessions -> SUBSET Ports]
  BY DEF Init, Registry!Init
<1>6. /\ captured \in [Sessions -> Nat] /\ dropped \in [Sessions -> Nat]
      /\ \A s \in Sessions : dropped[s] <= captured[s] /\ captured[s] <= MaxFlows[s]
  <2>1. \A s \in Sessions : MaxFlows[s] \in Nat /\ captured[s] = 0 /\ dropped[s] = 0
    BY MaxFlowsAssumption DEF Init
  <2>2. captured \in [Sessions -> Nat] /\ dropped \in [Sessions -> Nat]
    BY DEF Init
  <2>3. \A s \in Sessions : dropped[s] <= captured[s] /\ captured[s] <= MaxFlows[s]
    BY <2>1
  <2> QED BY <2>2, <2>3
<1>7. complete \in [Sessions -> SUBSET Nat]
  BY DEF Init
<1> QED BY <1>1, <1>3, <1>4, <1>5, <1>6, <1>7 DEF Init, TypeOK

LEMMA TypeRegistry ==
    ASSUME TypeOK, NEW s \in Sessions, RegistryStep(s)
    PROVE  TypeOK'
<1>1. UNCHANGED <<captured, complete, dropped, file, password, pc, ask, answer>>
  BY DEF RegistryStep, flowVars, callVars
<1> DEFINE Good == /\ state' \in [Sessions -> {"new", "granted", "live", "over"}]
                   /\ held' \in [Sessions -> SUBSET Ports]
                   /\ status' \in [Sessions -> {"none", "starting", "running", "ended"}]
<1>2. /\ state \in [Sessions -> {"new", "granted", "live", "over"}]
      /\ held \in [Sessions -> SUBSET Ports]
      /\ status \in [Sessions -> {"none", "starting", "running", "ended"}]
  BY DEF TypeOK
<1>3. ASSUME Start(s) PROVE Good
  <2>1. (IF s \in Mitmweb THEN {Port[s]} ELSE {}) \in SUBSET Ports
    BY PortAssumption
  <2> QED BY <1>2, <1>3, <2>1 DEF Start, SetStatus, Registry!Acquire
<1>4. ASSUME Spawned(s) PROVE Good
  BY <1>2, <1>4 DEF Spawned, SetStatus, Registry!Launch
<1>5. ASSUME SpawnFails(s) PROVE Good
  BY <1>2, <1>5 DEF SpawnFails, SetStatus, Registry!End
<1>6. ASSUME Exits(s) PROVE Good
  BY <1>2, <1>6 DEF Exits, Registry!End
<1>7. ASSUME Ends(s) PROVE Good
  BY <1>2, <1>7 DEF Ends, SetStatus
<1>8. ASSUME StopReleases(s) PROVE Good
  BY <1>2, <1>8 DEF StopReleases, Registry!Release
<1>9. Good
  BY <1>3, <1>4, <1>5, <1>6, <1>7, <1>8 DEF RegistryStep
<1> QED BY <1>1, <1>9 DEF TypeOK

LEMMA TypeCapture ==
    ASSUME TypeOK, NEW s \in Sessions, CaptureStep(s)
    PROVE  TypeOK'
<1>1. UNCHANGED <<state, held, status, pc, ask, answer, dropped, password>>
  BY DEF CaptureStep, Capture, Complete, Write, registryVars, callVars
<1>2. CASE Capture(s)
  <2>1. /\ captured' = [captured EXCEPT ![s] = @ + 1] /\ captured[s] < MaxFlows[s]
        /\ UNCHANGED <<complete, file>>
    BY <1>2 DEF Capture
  <2>2. captured \in [Sessions -> Nat] /\ dropped \in [Sessions -> Nat] /\ MaxFlows[s] \in Nat
    BY MaxFlowsAssumption DEF TypeOK
  <2>3. captured' \in [Sessions -> Nat]
    BY <2>1, <2>2
  <2>4. \A r \in Sessions : captured[r] <= captured'[r] /\ captured'[r] <= MaxFlows[r]
    <3> TAKE r \in Sessions
    <3>1. captured[r] \in Nat /\ captured[r] <= MaxFlows[r]
      BY DEF TypeOK
    <3>2. CASE r = s
      BY <2>1, <2>2, <3>1, <3>2
    <3>3. CASE r # s
      BY <2>1, <2>2, <3>1, <3>3
    <3> QED BY <3>2, <3>3
  <2>5. \A r \in Sessions : dropped[r] <= captured'[r]
    <3> TAKE r \in Sessions
    <3>1. dropped[r] \in Nat /\ captured[r] \in Nat /\ captured'[r] \in Nat /\ dropped[r] <= captured[r]
      BY <2>3 DEF TypeOK
    <3> QED BY <2>4, <3>1
  <2> QED BY <1>1, <2>1, <2>3, <2>4, <2>5 DEF TypeOK
<1>3. ASSUME NEW n \in 1 .. MaxFlows[s], Write(s, n) PROVE TypeOK'
  <2>1. [owner |-> s, n |-> n] \in Flow
    BY <1>3, MaxFlowsAssumption DEF Flow
  <2>2. file' \in [Sessions -> Seq(Flow)]
    BY <1>3, <2>1 DEF TypeOK, Write
  <2>3. UNCHANGED <<captured, complete>>
    BY <1>3 DEF Write
  <2> QED BY <1>1, <2>2, <2>3 DEF TypeOK
<1>4. ASSUME NEW n \in 1 .. MaxFlows[s], Complete(s, n) PROVE TypeOK'
  <2>1. complete' \in [Sessions -> SUBSET Nat]
    BY <1>4, MaxFlowsAssumption DEF TypeOK, Complete
  <2>2. UNCHANGED <<captured, file>>
    BY <1>4 DEF Complete
  <2> QED BY <1>1, <2>1, <2>2 DEF TypeOK
<1> QED BY <1>2, <1>3, <1>4 DEF CaptureStep

LEMMA TypeCall ==
    ASSUME TypeOK, FilesOwn, CallsFit, AnswersFromOwnSession, NEW c \in Calls, CallStep(c)
    PROVE  TypeOK'
<1>1. UNCHANGED <<state, held, status, ask, captured, complete, file, password>>
  BY CallLeaves
<1> DEFINE Fits == /\ dropped' \in [Sessions -> Nat]
                   /\ \A s \in Sessions : dropped'[s] <= captured[s]
<1>2. Fits
  <2>1. CASE UNCHANGED dropped
    BY <2>1 DEF TypeOK
  <2>2. ASSUME NEW t \in Mitmweb, dropped' = [dropped EXCEPT ![t] = captured[t]]
        PROVE  Fits
    <3>1. captured \in [Sessions -> Nat] /\ dropped \in [Sessions -> Nat]
      BY DEF TypeOK
    <3>2. t \in Sessions
      BY KindsAssumption
    <3>3. \A s \in Sessions : dropped'[s] <= captured[s]
      <4> TAKE s \in Sessions
      <4>1. captured[s] \in Nat /\ dropped[s] <= captured[s]
        BY DEF TypeOK
      <4>2. CASE s = t
        BY <2>2, <3>1, <4>1, <4>2
      <4>3. CASE s # t
        BY <2>2, <3>1, <4>1, <4>3
      <4> QED BY <4>2, <4>3
    <3> QED BY <2>2, <3>1, <3>2, <3>3
  <2> QED BY <2>1, <2>2, CallLeaves
<1>3. /\ pc' \in [Calls -> {"idle", "request", "content", "done"}]
      /\ answer' \in [Calls -> Answer]
  <2>1. Progress(c)
    BY EveryAnswerIsRight
  <2> QED BY <2>1 DEF Progress, Answers, RightAnswer, TypeOK
<1> QED BY <1>1, <1>2, <1>3 DEF TypeOK

----------------------------------------------------------------------------
(* the invariant *)

\* Views grow and are cleared; who asked what stays.
LEMMA FlowsGrow ==
    ASSUME TypeOK, [Next]_vars
    PROVE  /\ UNCHANGED <<ask, password>>
           /\ \A s \in Sessions : /\ captured[s] \in Nat /\ captured'[s] \in Nat
                                  /\ captured[s] <= captured'[s]
                                  /\ dropped'[s] = 0 => dropped[s] = 0
<1>1. /\ captured \in [Sessions -> Nat] /\ dropped \in [Sessions -> Nat]
      /\ \A s \in Sessions : dropped[s] <= captured[s]
  BY DEF TypeOK
<1> DEFINE Grows == /\ UNCHANGED <<ask, password>>
                    /\ \A s \in Sessions : /\ captured[s] \in Nat /\ captured'[s] \in Nat
                                           /\ captured[s] <= captured'[s]
                                           /\ dropped'[s] = 0 => dropped[s] = 0
<1>2. UNCHANGED <<ask, password, captured, dropped>> => Grows
  BY <1>1
<1>3. ASSUME NEW s \in Sessions, RegistryStep(s) PROVE Grows
  BY <1>2, <1>3 DEF RegistryStep, flowVars, callVars
<1>4. ASSUME NEW s \in Sessions, CaptureStep(s) PROVE Grows
  <2>1. CASE Capture(s)
    <3>1. captured' = [captured EXCEPT ![s] = @ + 1] /\ UNCHANGED <<ask, password, dropped>>
      BY <1>4, <2>1 DEF CaptureStep, Capture, callVars
    <3> QED BY <1>1, <3>1
  <2>2. ASSUME NEW n \in 1 .. MaxFlows[s], Complete(s, n) \/ Write(s, n) PROVE Grows
    BY <1>2, <1>4, <2>2 DEF CaptureStep, Complete, Write, callVars
  <2> QED BY <1>4, <2>1, <2>2 DEF CaptureStep
<1>5. ASSUME NEW c \in Calls, CallStep(c) PROVE Grows
  <2>1. UNCHANGED <<ask, password, captured>>
    BY <1>5, CallLeaves
  <2>2. ASSUME NEW t \in Mitmweb, dropped' = [dropped EXCEPT ![t] = captured[t]],
               NEW s \in Sessions, dropped'[s] = 0
        PROVE  dropped[s] = 0
    <3>1. dropped[s] \in Nat /\ dropped[s] <= captured[s]
      BY <1>1
    <3>2. dropped'[s] = captured[s] \/ dropped'[s] = dropped[s]
      BY <1>1, <2>2
    <3> QED BY <1>1, <2>2, <3>1, <3>2
  <2> QED BY <1>1, <1>2, <1>5, <2>1, <2>2, CallLeaves
<1>6. CASE UNCHANGED vars
  BY <1>2, <1>6 DEF vars, flowVars, callVars
<1> QED BY <1>3, <1>4, <1>5, <1>6 DEF Next

\* What is right stays right while the view only grows.
Fine(a, result) == Owned(a, result) /\ RightWindow(a, result)

LEMMA FineStays ==
    ASSUME TypeOK, [Next]_vars, NEW a \in Ask, NEW result \in Answer, Fine(a, result)
    PROVE  Fine(a, result)'
<1> DEFINE s == a.session
<1>1. Peers(s)' = Peers(s) /\ Peers(s) \subseteq Sessions
  BY FlowsGrow, PeersAreSessions DEF Ask, Peers
<1>2. PICK flows \in Seq(Flow), total \in Nat : flows = result.flows /\ total = result.total
  BY DEF Answer
<1>3. ASSUME NEW t \in Peers(s), Window(a, t, flows, total) PROVE Window(a, t, flows, total)'
  <2>1. PICK old \in Nat, new \in Nat : old = captured[t] /\ new = captured'[t] /\ old <= new
    BY <1>1, FlowsGrow
  <2>2. total <= new
    BY <1>3, <2>1 DEF Window
  <2> QED BY <1>3, <2>1, <2>2 DEF Window
<1>4. (\A t \in Peers(s) : dropped'[t] = 0) => \A t \in Peers(s) : dropped[t] = 0
  BY <1>1, FlowsGrow
<1>5. Owned(a, result)'
  BY <1>1 DEF Fine, Owned
<1>6. RightWindow(a, result)'
  <2> SUFFICES ASSUME a.tool = "get_flows", ~a.filtered, result.code = "",
                      \A t \in Peers(s)' : dropped'[t] = 0
               PROVE  \E t \in Peers(s)' : Window(a, t, flows, total)'
    BY <1>2 DEF RightWindow
  <2>1. PICK t \in Peers(s) : Window(a, t, flows, total)
    BY <1>1, <1>2, <1>4 DEF Fine, RightWindow
  <2> QED BY <1>1, <1>3, <2>1
<1> QED BY <1>5, <1>6 DEF Fine

LEMMA AnswersAreFine ==
    (AnswersFromOwnSession /\ PageIsWindow) <=>
        \A c \in Calls : Owned(ask[c], answer[c]) /\ (pc[c] = "done" => Fine(ask[c], answer[c]))
BY DEF AnswersFromOwnSession, PageIsWindow, Fine, Owned, RightWindow, Window

LEMMA IInvInit == Init => IInv
<1> SUFFICES ASSUME Init PROVE IInv
  OBVIOUS
<1>1. TypeOK
  BY TypeInit
<1>2. FilesOwn
  <2>1. \A s \in Sessions : file[s] = <<>>
    BY DEF Init
  <2> QED BY <2>1, EmptyList DEF FilesOwn
<1>3. \A c \in Calls : pc[c] = "idle" /\ answer[c].flows = <<>>
  BY DEF Init, Failure
<1>4. CallsFit /\ PageIsWindow
  BY <1>3 DEF CallsFit, PageIsWindow
<1>5. AnswersFromOwnSession
  BY <1>3, EmptyList DEF AnswersFromOwnSession
<1> QED BY <1>1, <1>2, <1>4, <1>5 DEF IInv

LEMMA TypeNext == IInv /\ [Next]_vars => TypeOK'
<1> SUFFICES ASSUME IInv, [Next]_vars PROVE TypeOK'
  OBVIOUS
<1>1. TypeOK /\ FilesOwn /\ CallsFit /\ AnswersFromOwnSession
  BY DEF IInv
<1>2. CASE UNCHANGED vars
  BY <1>1, <1>2 DEF TypeOK, vars, registryVars, flowVars, callVars
<1> QED BY <1>1, <1>2, TypeRegistry, TypeCapture, TypeCall DEF Next

LEMMA FilesOwnNext == IInv /\ [Next]_vars => FilesOwn'
<1> SUFFICES ASSUME IInv, [Next]_vars PROVE FilesOwn'
  OBVIOUS
<1>1. TypeOK /\ FilesOwn
  BY DEF IInv
<1>2. \A s \in Sessions : /\ captured[s] \in Nat /\ captured'[s] \in Nat
                          /\ captured[s] <= captured'[s]
  BY <1>1, FlowsGrow
<1>3. ASSUME NEW r \in Sessions, file'[r] = file[r]
      PROVE  \A i \in DOMAIN file'[r] : /\ file'[r][i].owner = r
                                        /\ file'[r][i].n \in 1 .. captured'[r]
  <2> TAKE i \in DOMAIN file'[r]
  <2>1. file'[r][i].owner = r /\ file'[r][i].n \in 1 .. captured[r]
    BY <1>1, <1>3 DEF FilesOwn
  <2> QED BY <1>2, <2>1
<1>4. CASE UNCHANGED file
  BY <1>1, <1>3, <1>4 DEF FilesOwn
<1>5. ASSUME NEW s \in Sessions, NEW n \in 1 .. MaxFlows[s], Write(s, n) PROVE FilesOwn'
  <2>1. PICK f : f = [owner |-> s, n |-> n]
    OBVIOUS
  <2>2. PICK old : old = file[s]
    OBVIOUS
  <2>3. old \in Seq(Flow) /\ file \in [Sessions -> Seq(Flow)]
    BY <1>1, <2>2 DEF TypeOK
  <2>4. /\ f.owner = s /\ f \in Flow /\ f.n \in 1 .. captured'[s]
        /\ \A i \in DOMAIN old : old[i] # f
        /\ file' = [file EXCEPT ![s] = Append(@, f)]
    <3>1. MaxFlows[s] \in Nat
      BY MaxFlowsAssumption
    <3>2. n <= captured[s] /\ ~Written(s, n) /\ file' = [file EXCEPT ![s] = Append(@, f)]
      BY <1>5, <2>1 DEF Write
    <3>3. \A i \in DOMAIN old : old[i] # f
      BY <2>1, <2>2, <2>3, <3>2 DEF Written, ToSet
    <3>4. f.owner = s /\ f.n = n /\ f \in Flow
      BY <2>1, <3>1 DEF Flow
    <3>5. n \in 1 .. captured'[s]
      BY <1>2, <3>1, <3>2
    <3> QED BY <3>2, <3>3, <3>4, <3>5
  <2>5. file'[s] = Append(old, f) /\ \A r \in Sessions \ {s} : file'[r] = file[r]
    BY <2>2, <2>3, <2>4
  <2>6. /\ \A i \in DOMAIN old : old[i].owner = s /\ old[i].n \in 1 .. captured'[s]
        /\ \A i, j \in DOMAIN old : old[i] = old[j] => i = j
    <3>1. ASSUME NEW i \in DOMAIN old
          PROVE  old[i].owner = s /\ old[i].n \in 1 .. captured'[s]
      <4>1. old[i].owner = s /\ old[i].n \in 1 .. captured[s]
        BY <1>1, <2>2 DEF FilesOwn
      <4> QED BY <1>2, <4>1
    <3> QED BY <1>1, <2>2, <3>1 DEF FilesOwn
  <2> DEFINE longer == Append(old, f)
  <2>7. /\ DOMAIN old = 1 .. Len(old) /\ Len(old) \in Nat
        /\ DOMAIN longer = 1 .. Len(old) + 1
        /\ longer[Len(old) + 1] = f
        /\ \A i \in 1 .. Len(old) : longer[i] = old[i]
    BY <2>3, <2>4
  <2>8. \A i \in 1 .. Len(old) + 1 : i = Len(old) + 1 \/ i \in 1 .. Len(old)
    BY <2>7
  <2> HIDE DEF longer
  <2>9. \A i \in DOMAIN longer : longer[i].owner = s /\ longer[i].n \in 1 .. captured'[s]
    BY <2>4, <2>6, <2>7, <2>8
  <2>10. \A i, j \in DOMAIN longer : longer[i] = longer[j] => i = j
    BY <2>4, <2>6, <2>7, <2>8
  <2>11. file'[s] = longer
    BY <2>5 DEF longer
  <2>12. ASSUME NEW r \in Sessions
         PROVE  /\ \A i \in DOMAIN file'[r] : /\ file'[r][i].owner = r
                                               /\ file'[r][i].n \in 1 .. captured'[r]
                /\ \A i, j \in DOMAIN file'[r] : file'[r][i] = file'[r][j] => i = j
    <3>1. CASE r = s
      BY <2>9, <2>10, <2>11, <3>1
    <3>2. CASE r # s
      <4>1. file'[r] = file[r]
        BY <2>5, <3>2
      <4> QED BY <1>1, <1>3, <4>1 DEF FilesOwn
    <3> QED BY <3>1, <3>2
  <2> QED BY <2>12 DEF FilesOwn
<1>6. ASSUME NEW s \in Sessions, RegistryStep(s) PROVE UNCHANGED file
  BY <1>6 DEF RegistryStep, flowVars
<1>7. ASSUME NEW s \in Sessions, CaptureStep(s) PROVE FilesOwn'
  BY <1>4, <1>5, <1>7 DEF CaptureStep, Capture, Complete
<1>8. ASSUME NEW c \in Calls, CallStep(c) PROVE UNCHANGED file
  BY <1>8, CallLeaves
<1>9. UNCHANGED vars => UNCHANGED file
  BY DEF vars, flowVars
<1> QED BY <1>4, <1>6, <1>7, <1>8, <1>9 DEF Next

\* The calls, of which one step moves one at most.
LEMMA CallsMove ==
    ASSUME IInv, [Next]_vars
    PROVE  \/ UNCHANGED <<pc, answer>>
           \/ \E c \in Calls : Progress(c)
<1>1. ASSUME NEW s \in Sessions, RegistryStep(s) \/ CaptureStep(s) PROVE UNCHANGED <<pc, answer>>
  BY <1>1 DEF RegistryStep, CaptureStep, callVars
<1>2. ASSUME NEW c \in Calls, CallStep(c) PROVE Progress(c)
  BY <1>2, EveryAnswerIsRight DEF IInv
<1>3. CASE UNCHANGED vars
  BY <1>3 DEF vars, callVars
<1> QED BY <1>1, <1>2, <1>3 DEF Next

LEMMA CallsFitNext == IInv /\ [Next]_vars => CallsFit'
<1> DEFINE Fits(d) == /\ pc'[d] \in {"request", "content"} => ask[d].session \in Mitmweb
                      /\ pc'[d] = "request" => ~ReadsFile(ask[d])
                      /\ pc'[d] = "content" => ask[d].tool = "get_flow_detail"
<1> SUFFICES ASSUME IInv, [Next]_vars, NEW d \in Calls PROVE Fits(d)
  BY FlowsGrow DEF CallsFit, ReadsFile, IInv
<1>1. TypeOK /\ CallsFit
  BY DEF IInv
<1>2. CASE UNCHANGED <<pc, answer>>
  BY <1>1, <1>2 DEF CallsFit
<1>3. ASSUME NEW c \in Calls, Progress(c) PROVE Fits(d)
  BY <1>1, <1>3 DEF Progress, Answers, CallsFit, TypeOK
<1> QED BY <1>2, <1>3, CallsMove

LEMMA AnswersNext == IInv /\ [Next]_vars => AnswersFromOwnSession' /\ PageIsWindow'
<1> SUFFICES ASSUME IInv, [Next]_vars PROVE AnswersFromOwnSession' /\ PageIsWindow'
  OBVIOUS
<1>1. TypeOK /\ UNCHANGED <<ask, password>>
  BY FlowsGrow DEF IInv
<1>2. \A d \in Calls : Owned(ask[d], answer[d]) /\ (pc[d] = "done" => Fine(ask[d], answer[d]))
  BY AnswersAreFine DEF IInv
<1> DEFINE Good(d) == Owned(ask[d], answer[d])' /\ (pc'[d] = "done" => Fine(ask[d], answer[d])')
<1>3. ASSUME NEW d \in Calls PROVE Good(d)
  <2>1. PICK a \in Ask, result \in Answer : a = ask[d] /\ result = answer[d]
    BY <1>1 DEF TypeOK
  <2>2. a = ask'[d]
    BY <1>1, <2>1
  <2>3. CASE answer'[d] = answer[d] /\ (pc'[d] = "done" => pc[d] = "done")
    <3>1. Owned(a, result)'
      BY <1>1, <1>2, <2>1 DEF Owned, Peers
    <3>2. pc'[d] = "done" => Fine(a, result)'
      BY <1>1, <1>2, <2>1, <2>3, FineStays
    <3> QED BY <2>1, <2>2, <2>3, <3>1, <3>2 DEF Owned, Fine, RightWindow, Window
  <2>4. ASSUME NEW new, answer'[d] = new, RightAnswer(a, new) PROVE Good(d)
    <3>1. new \in Answer /\ Fine(a, new)
      BY <2>4 DEF RightAnswer, Fine
    <3>2. Fine(a, new)'
      BY <1>1, <3>1, FineStays
    <3> QED BY <2>2, <2>4, <3>2 DEF Fine, Owned, RightWindow, Window
  <2>5. CASE UNCHANGED <<pc, answer>>
    BY <2>3, <2>5
  <2>6. ASSUME NEW c \in Calls, Progress(c) PROVE Good(d)
    <3>1. CASE c # d
      BY <1>1, <2>3, <2>6, <3>1 DEF Progress, Answers, TypeOK
    <3>2. ASSUME NEW new, c = d, answer' = [answer EXCEPT ![d] = new], RightAnswer(a, new)
          PROVE  Good(d)
      BY <1>1, <2>4, <3>2 DEF TypeOK
    <3>3. CASE c = d /\ answer'[d] = answer[d] /\ pc'[d] # "done"
      BY <2>3, <3>3
    <3> QED BY <1>1, <2>1, <2>6, <3>1, <3>2, <3>3 DEF Progress, Answers, TypeOK
  <2> QED BY <2>5, <2>6, CallsMove
<1>4. \A d \in Calls : Owned(ask[d], answer[d])' /\ (pc'[d] = "done" => Fine(ask[d], answer[d])')
  BY <1>3
<1>5. AnswersFromOwnSession'
  BY <1>4 DEF AnswersFromOwnSession, Owned
<1>6. PageIsWindow'
  BY <1>4 DEF PageIsWindow, Fine, RightWindow, Window
<1> QED BY <1>5, <1>6

\* In whatever order sessions start, stop and pass on their ports, flows come
\* and are lost, and calls look up, ask and answer.
LEMMA Invariance == Spec => []IInv
<1>1. IInv /\ [Next]_vars => IInv'
  BY TypeNext, FilesOwnNext, CallsFitNext, AnswersNext DEF IInv
<1> QED BY <1>1, IInvInit, PTL DEF Spec

----------------------------------------------------------------------------
(* the theorems *)

THEOREM TypeCorrect == Spec => []TypeOK
<1>1. IInv => TypeOK
  BY DEF IInv
<1> QED BY <1>1, Invariance, PTL

\* What a call answers was captured by the session it asked about, whatever
\* became of the port between its requests, or by one that was given the same
\* port and web_password (tools/mitmweb.py, tools/core_tools.py).
THEOREM AnswersStayHome == Spec => []AnswersFromOwnSession
<1>1. IInv => AnswersFromOwnSession
  BY DEF IInv
<1> QED BY <1>1, Invariance, PTL

\* The pages of mitmweb_get_flows without an expression, of any offset and
\* limit, are windows onto one list of flows as long as nothing was cleared.
THEOREM PagesAreWindows == Spec => []PageIsWindow
<1>1. IInv => PageIsWindow
  BY DEF IInv
<1> QED BY <1>1, Invariance, PTL

\* Only a step of the tool mitm_execute_command clears a view, and only the
\* view of the session it was asked for, or of a peer of that.
ClearsOwnView ==
    \A s \in Sessions : dropped'[s] # dropped[s] =>
        \E c \in Calls : /\ pc[c] = "request" /\ pc'[c] = "done"
                         /\ ask[c].tool = "execute_command"
                         /\ s \in Peers(ask[c].session)

LEMMA StepsClearOwnView == IInv /\ [Next]_vars => ClearsOwnView
<1> SUFFICES ASSUME IInv, [Next]_vars, NEW s \in Sessions, dropped'[s] # dropped[s]
             PROVE  \E c \in Calls : /\ pc[c] = "request" /\ pc'[c] = "done"
                                     /\ ask[c].tool = "execute_command"
                                     /\ s \in Peers(ask[c].session)
  BY DEF ClearsOwnView
<1>1. dropped' # dropped
  OBVIOUS
<1>2. PICK c \in Calls, t \in Mitmweb :
          Execute(c, t) /\ dropped' = [dropped EXCEPT ![t] = captured[t]]
  <2>1. ASSUME NEW r \in Sessions, RegistryStep(r) PROVE FALSE
    BY <1>1, <2>1 DEF RegistryStep, flowVars
  <2>2. ASSUME NEW r \in Sessions, CaptureStep(r) PROVE FALSE
    BY <1>1, <2>2 DEF CaptureStep, Capture, Complete, Write
  <2>3. ~UNCHANGED vars
    BY <1>1 DEF vars, flowVars
  <2> QED BY <1>1, <2>1, <2>2, <2>3, CallLeaves DEF Next
<1>3. TypeOK /\ CallsFit
  BY DEF IInv
<1>4. t = s
  BY <1>2, <1>3 DEF TypeOK
<1>5. t \in Peers(ask[c].session)
  BY <1>2, <1>3, AdmittedIsPeer DEF Execute, CallsFit
<1>6. pc[c] = "request" /\ pc'[c] = "done" /\ ask[c].tool = "execute_command"
  BY <1>2, <1>3 DEF Execute, Answers, TypeOK
<1> QED BY <1>4, <1>5, <1>6

\* A command never clears the view of another session, whatever ports pass
\* from hand to hand while it is under way, unless that one was given the same
\* port and web_password.
THEOREM CommandsStayHome == Spec => CommandsReachOwnSession
<1>1. IInv /\ [Next]_vars => [ClearsOwnView]_vars
  BY StepsClearOwnView
<1> QED BY <1>1, Invariance, PTL DEF Spec, CommandsReachOwnSession, ClearsOwnView

\* The body of CountIsOfAll.
CountsAll ==
    \A c \in Calls :
        LET a == ask[c]
            flows == answer'[c].flows
            total == answer'[c].total
            rest == total - Skipped(a)
        IN  pc[c] # "done" /\ pc'[c] = "done" /\ answer'[c].code = "" /\ Filters(a) =>
            \E t \in Peers(a.session) :
                /\ total = Cardinality(Found(a, t))
                /\ \A i \in DOMAIN flows :
                       /\ flows[i].owner = t /\ flows[i].n \in Found(a, t)
                       /\ a.tool = "get_flows" =>
                              Cardinality({n \in Found(a, t) : n <= flows[i].n}) = a.offset + i
                /\ \A i, j \in DOMAIN flows : flows[i] = flows[j] => i = j
                /\ Len(flows) = IF rest <= 0 THEN 0
                                ELSE IF a.limit < rest THEN a.limit ELSE rest

LEMMA StepsCountAll == IInv /\ [Next]_vars => CountsAll
<1> SUFFICES ASSUME IInv, [Next]_vars, NEW d \in Calls,
                    pc[d] # "done", pc'[d] = "done", answer'[d].code = "", Filters(ask[d])
             PROVE  \E t \in Peers(ask[d].session) :
                        Count(ask[d], t, answer'[d].flows, answer'[d].total)
  BY DEF CountsAll, Count, PageLength
<1>1. TypeOK
  BY DEF IInv
<1>2. PICK c \in Calls : Progress(c)
  BY CallsMove
<1>3. PICK result : answer'[d] = result /\ RightAnswer(ask[d], result)
  BY <1>1, <1>2 DEF Progress, Answers, TypeOK
<1> QED BY <1>3 DEF RightAnswer, RightCount

\* A filtered answer's total is that of all flows that match when it is read,
\* of the view or the file, and it shows the right ones of them, each once.
THEOREM CountsAreOfAll == Spec => CountIsOfAll
<1>1. IInv /\ [Next]_vars => [CountsAll]_vars
  BY StepsCountAll
<1> QED BY <1>1, Invariance, PTL DEF Spec, CountIsOfAll, CountsAll

\* Whatever the tools and the sessions do is allowed by what the registry
\* promises of ports, no more being assumed of it.
THEOREM RegistryKeepsPromise == Spec => Registry!Spec
<1>1. Init => Registry!Init
  BY DEF Init
<1>2. [Next]_vars => [Registry!Next]_(Registry!vars)
  <2> SUFFICES ASSUME [Next]_vars PROVE Registry!Next \/ UNCHANGED <<state, held>>
    BY DEF Registry!vars
  <2>1. ASSUME NEW s \in Sessions, RegistryStep(s) PROVE Registry!Next \/ UNCHANGED <<state, held>>
    <3>1. CASE Start(s)
      <4>1. (IF s \in Mitmweb THEN {Port[s]} ELSE {}) \in SUBSET Ports
        BY PortAssumption
      <4> QED BY <3>1, <4>1 DEF Start, Registry!Next
    <3>2. CASE Spawned(s) \/ SpawnFails(s) \/ Exits(s) \/ StopReleases(s)
      BY <3>2 DEF Spawned, SpawnFails, Exits, StopReleases, Registry!Next
    <3>3. CASE Ends(s)
      BY <3>3 DEF Ends
    <3> QED BY <2>1, <3>1, <3>2, <3>3 DEF RegistryStep
  <2>2. ASSUME NEW s \in Sessions, CaptureStep(s) PROVE UNCHANGED <<state, held>>
    BY <2>2 DEF CaptureStep, registryVars
  <2>3. ASSUME NEW c \in Calls, CallStep(c) PROVE UNCHANGED <<state, held>>
    BY <2>3 DEF CallStep, registryVars
  <2>4. CASE UNCHANGED vars
    BY <2>4 DEF vars, registryVars
  <2> QED BY <2>1, <2>2, <2>3, <2>4 DEF Next
<1> QED BY <1>1, <1>2, PTL DEF Spec, Registry!Spec

============================================================================
