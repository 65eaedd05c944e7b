------------------------ MODULE MCInspectionTools ------------------------
(* InspectionTools with two sessions of mitmweb on one port, the second of *)
(* which saves its flows, and one of mitmdump.                             *)
EXTENDS InspectionTools, TLC

CONSTANTS w1, w2, d, port, c1, c2

MCPort == [s \in Mitmweb |-> port]
MCMaxFlows == [s \in Sessions |-> IF s = w1 THEN 2 ELSE IF s = w2 THEN 1 ELSE 0]

\* Drawn, or the same given to both.
MCPasswords == {[s \in Mitmweb |-> s], [s \in Mitmweb |-> w1]}

\* The first flow always, the second only while it has no response.
MCMatching == {<<1, FALSE>>, <<1, TRUE>>, <<2, FALSE>>}

FlowOf(s, n) == [owner |-> s, n |-> n]

Question(tool, session, filtered, offset, limit, flow) ==
    [tool |-> tool, session |-> session, filtered |-> filtered,
     offset |-> offset, limit |-> limit, flow |-> flow]

Questions ==
    {Question("get_flows", w1, filtered, offset, 2 - offset, FlowOf(w1, 1)) :
        filtered \in BOOLEAN, offset \in {0, 1}}
    \cup {Question("filter_flows", s, TRUE, 0, 1, FlowOf(s, 1)) : s \in {w1, w2}}
    \cup {Question(tool, w1, FALSE, 0, 1, FlowOf(s, 1)) :
             tool \in {"get_flow_detail", "export_flow"}, s \in {w1, w2}}
    \cup {Question("export_flow", w2, FALSE, 0, 1, FlowOf(w2, 1)),
          Question("get_flows", d, FALSE, 0, 1, FlowOf(d, 1))}

\* The second call clears the view.
MCAsks == [c \in Calls |->
    IF c = c2 THEN {Question("execute_command", w1, FALSE, 0, 1, FlowOf(w1, 1))}
    ELSE Questions]

==========================================================================
