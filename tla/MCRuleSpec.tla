---------------------------- MODULE MCRuleSpec ----------------------------
(* RuleSpec on short texts over six characters. *)
EXTENDS RuleSpec, TLC

CONSTANTS Bar, Bang, Letter

MCChars == {Bar, Bang, At, Backslash, Letter, Newline}

\* Two candidates, and what the sweep over ASCII adds, in its order.
MCDelimiters == <<Bar, Bang, At, Backslash, Letter>>

MCTokenChars == {Bar, Bang, Letter}
MCControl == {Newline}

\* The letter is an n; a backslash at the end of a line continues it.
MCEscapes == (Backslash :> <<Backslash>>) @@ (Letter :> <<Newline>>) @@ (Newline :> <<>>)

MCRequests ==
    {r \in [family : MapFamilies \cup ModifyFamilies, operation : {"set", "remove"},
            filter : BoundedSeq(MCChars, 1), subject : BoundedSeq(MCChars, 2),
            given : BOOLEAN, replacement : BoundedSeq(MCChars, 3)] :
        /\ ~r.given => r.replacement = <<>> /\ r.family = "modify_headers"
        /\ r.operation = "remove" => r.family = "modify_headers"}

===========================================================================
