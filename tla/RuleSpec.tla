------------------------------ MODULE RuleSpec ------------------------------
(***************************************************************************)
(* One rule on its way from the agent's fields to mitmproxy: the checks of *)
(* the schema, the compilation to one delimited option string, and what    *)
(* mitmproxy reads out of that string.                                     *)
(*                                                                         *)
(* An option string is its own first character, the separator, and two or  *)
(* three parts between separators.  The modify_ families decode C escapes  *)
(* in what they read.  A text is a sequence of characters, and a character *)
(* a value of Chars; the constants say which of them matter to whom.       *)
(***************************************************************************)
EXTENDS Integers, Sequences, SequencesExt

CONSTANTS
    Chars,
    Backslash, At, Newline,
    Delimiters,     \* the separators tried, in order of preference
    TokenChars,     \* allowed in a header name
    Control,        \* control characters but for the tab
    Escapes,        \* what a backslash and a character stand for
    Requests        \* the rules an agent asks for

Text == Seq(Chars)

MapFamilies == {"map_remote", "map_local"}
ModifyFamilies == {"modify_headers", "modify_body"}

\* The fields of a rule.  An absent filter is empty; "given" says whether
\* the replacement (header_value) is present, and absent it is empty too.  A
\* map_local's replacement is the canonical path.  Only modify_headers has an
\* operation; the others set.
Fields ==
    {r \in [family : MapFamilies \cup ModifyFamilies, operation : {"set", "remove"},
            filter : Text, subject : Text, given : BOOLEAN, replacement : Text] :
        /\ ~r.given => r.replacement = <<>>
        /\ r.family # "modify_headers" => r.operation = "set"}

ASSUME CharsAssumption == {Backslash, At, Newline} \subseteq Chars
ASSUME DelimitersAssumption == Delimiters \in Seq(Chars)
ASSUME EscapesAssumption == Escapes \in [DOMAIN Escapes -> Text]

\* A backslash doubled stands for a backslash.
ASSUME BackslashAssumption == Backslash \in DOMAIN Escapes /\ Escapes[Backslash] = <<Backslash>>

\* A header name has no backslash, which is no control character either; of
\* those an escape may swallow the newline.
ASSUME TokenAssumption == Backslash \notin TokenChars
ASSUME ControlAssumption ==
    Backslash \notin Control /\ Control \cap DOMAIN Escapes \subseteq {Newline}
ASSUME RequestsAssumption == Requests \subseteq Fields

VARIABLES
    request,        \* the rule asked for
    stage,          \* "asked", "refused", "compiled" or "loaded"
    option,         \* the string compiled
    rule            \* what mitmproxy makes of it

vars == <<request, stage, option, rule>>

\* What a rule does where filter matches: replace subject by replacement, or by
\* the contents of the file that replacement names, or take the header away.
Rule == [operation : {"set", "remove"}, filter : Text, subject : Text,
         replacement : Text, file : BOOLEAN]

NoRule == [operation |-> "set", filter |-> <<>>, subject |-> <<>>,
           replacement |-> <<>>, file |-> FALSE]

TypeOK ==
    /\ request \in Requests
    /\ stage \in {"asked", "refused", "compiled", "loaded"}
    /\ option \in Text
    /\ rule \in Rule

Init ==
    /\ request \in Requests
    /\ stage = "asked"
    /\ option = <<>>
    /\ rule = NoRule

----------------------------------------------------------------------------
(* escapes *)

\* Variant, breaks RuleMeansRequest: the text is passed on as it is.
EscapeNothing(text) == text

\* Every backslash doubled.
Escape(text) ==
    FoldLeft(LAMBDA out, c : out \o IF c = Backslash THEN <<c, c>> ELSE <<c>>, <<>>, text)

\* mitmproxy's decoder.  A backslash with a character it knows becomes what
\* that stands for, one with another is kept, one at the end is an error.
Scan(text) ==
    LET Next1(acc, c) ==
            IF acc.open
            THEN [open |-> FALSE,
                  out |-> acc.out \o IF c \in DOMAIN Escapes THEN Escapes[c] ELSE <<Backslash, c>>]
            ELSE IF c = Backslash THEN [acc EXCEPT !.open = TRUE]
            ELSE [acc EXCEPT !.out = Append(@, c)]
    IN  FoldLeft(Next1, [open |-> FALSE, out |-> <<>>], text)

Decodes(text) == ~Scan(text).open
Decode(text) == Scan(text).out

----------------------------------------------------------------------------
(* the schema *)

\* Variant, breaks RuleMeansRequest: a file may be named.
NoFileAnyway(text) == TRUE

\* No leading at-sign, which would make mitmproxy read a file.
NoFile(text) == text # <<>> => text[1] # At

\* Variant, breaks HeaderStaysOneLine: left to the check after decoding.
NoRawNewlineAnyway(text) == TRUE

NoRawNewline(text) == Newline \notin ToSet(text)

\* Regular expressions are taken to compile, and a local path to be absolute.
Valid(r) ==
    /\ r.subject # <<>>
    /\ r.family \in MapFamilies => r.replacement # <<>>
    /\ r.family \in ModifyFamilies => NoFile(r.replacement)
    /\ r.family = "modify_headers" =>
           /\ ToSet(r.subject) \subseteq TokenChars
           /\ NoRawNewline(r.replacement)
           /\ r.operation = "set" <=> r.given

----------------------------------------------------------------------------
(* the compiler *)

\* The parts of the option string of r.
Filter(r) == r.filter
Subject(r) == IF r.family = "modify_body" THEN Escape(r.subject) ELSE r.subject
Replacement(r) ==
    IF r.family \in ModifyFamilies THEN Escape(r.replacement) ELSE r.replacement

\* Variant, breaks RuleMeansRequest: the filter is not looked at.
FreeButForFilter(filter, subject, replacement) ==
    {i \in DOMAIN Delimiters : Delimiters[i] \notin ToSet(subject) \cup ToSet(replacement)}

\* The delimiters that occur in no part, by their place.
Free(filter, subject, replacement) ==
    {i \in DOMAIN Delimiters :
        Delimiters[i] \notin ToSet(filter) \cup ToSet(subject) \cup ToSet(replacement)}

\* Variant, breaks TypeOK: the place instead of the character.
ChosenPlace(free) == CHOOSE i \in free : \A j \in free : i <= j

\* The most preferred one.
Chosen(free) == Delimiters[CHOOSE i \in free : \A j \in free : i <= j]

\* The option string; without a filter it has two parts.
Join(filter, subject, replacement) ==
    LET d == <<Chosen(Free(filter, subject, replacement))>> IN
    IF filter = <<>>
    THEN d \o subject \o d \o replacement
    ELSE d \o filter \o d \o subject \o d \o replacement

\* The guard on a header's value, which looks at the value before escaping.
HarmlessValue(text) == Decodes(text) /\ ToSet(Decode(text)) \cap Control = {}

Accepted(r) ==
    /\ Valid(r)
    /\ r.family = "modify_headers" /\ r.replacement # <<>> => HarmlessValue(r.replacement)
    /\ Free(Filter(r), Subject(r), Replacement(r)) # {}

Compile ==
    /\ stage = "asked"
    /\ Accepted(request)
    /\ stage' = "compiled"
    /\ option' = Join(Filter(request), Subject(request), Replacement(request))
    /\ UNCHANGED <<request, rule>>

Refuse ==
    /\ stage = "asked"
    /\ ~Accepted(request)
    /\ stage' = "refused"
    /\ UNCHANGED <<request, option, rule>>

----------------------------------------------------------------------------
(* mitmproxy *)

\* The places after the first where the separator stands, and their least.
Cuts(string) == {i \in 2 .. Len(string) : string[i] = string[1]}
Least(cuts) == CHOOSE i \in cuts : \A j \in cuts : i <= j

\* parse_spec: two cuts divide the rest in three parts, one in two.
Parse(string) ==
    LET cuts == Cuts(string)
        i == Least(cuts)
        j == Least(cuts \ {i})
        n == Len(string)
    IN  IF cuts = {i}
        THEN [filter |-> <<>>, subject |-> SubSeq(string, 2, i - 1),
              replacement |-> SubSeq(string, i + 1, n)]
        ELSE [filter |-> SubSeq(string, 2, i - 1), subject |-> SubSeq(string, i + 1, j - 1),
              replacement |-> SubSeq(string, j + 1, n)]

\* A replacement that begins with an at-sign names a file.
ReadsFile(text) == text # <<>> /\ text[1] = At

\* modify_headers takes all headers of the name away, and puts one back if
\* there is anything to put.
Effect(family, replacement) ==
    IF family = "modify_headers" /\ replacement = <<>> THEN "remove" ELSE "set"

\* The addons of the modify_ families decode the parts, or read a file.
Meaning(family, string) ==
    LET p == Parse(string)
        Read(text) == IF family \in ModifyFamilies THEN Decode(text) ELSE text
    IN  [operation |-> Effect(family, Read(p.replacement)), filter |-> p.filter,
         subject |-> Read(p.subject), replacement |-> Read(p.replacement),
         file |-> family \in ModifyFamilies /\ ReadsFile(p.replacement)]

Load ==
    /\ stage = "compiled"
    /\ stage' = "loaded"
    /\ rule' = Meaning(request.family, option)
    /\ UNCHANGED <<request, option>>

Next == Compile \/ Refuse \/ Load

Spec == Init /\ [][Next]_vars

----------------------------------------------------------------------------
(* Safety *)

\* A header to be set to the empty value, which the schema lets pass.
SetsNothing(r) == r.family = "modify_headers" /\ r.operation = "set" /\ r.replacement = <<>>

\* The rule mitmproxy applies is the one the agent asked for, operation and
\* fields, character by character, whatever separators, backslashes and
\* at-signs they hold.  The one exception: setting a header to the empty value
\* takes it away (engine.py:128), where schemas/rules.py:50 has a set re-add it.
RuleMeansRequest ==
    stage = "loaded" =>
        rule = [operation |-> IF SetsNothing(request) THEN "remove" ELSE request.operation,
                filter |-> request.filter, subject |-> request.subject,
                replacement |-> request.replacement, file |-> FALSE]

\* The value of a header that was set holds no control character, neither
\* raw nor spelt as an escape.
HeaderStaysOneLine ==
    stage = "loaded" /\ request.family = "modify_headers" =>
        ToSet(rule.replacement) \cap Control = {}

=============================================================================
