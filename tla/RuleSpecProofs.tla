--------------------------- MODULE RuleSpecProofs ---------------------------
(***************************************************************************)
(* Proofs about RuleSpec for texts of any length over any characters and   *)
(* any list of delimiters.                                                 *)
(*                                                                         *)
(* The heart is JoinParses: where the chosen delimiter occurs in no part,  *)
(* the cuts of the joined string are exactly the separators put there, so  *)
(* parse_spec gives the parts back.  For the map_ families, whose parts    *)
(* are the agent's fields, this is the whole way of a rule.  The parts of  *)
(* the modify_ families are escaped before and decoded after: both are     *)
(* loops over a text (EscapeRuns, ScanRuns), and a scan of an escaped text *)
(* keeps step with the text (EscapedDecodes).                              *)
(***************************************************************************)
EXTENDS RuleSpec, ListsProofs

\* The least element of a set that has one.
LEMMA LeastIs ==
    ASSUME NEW cuts \in SUBSET Int, NEW i \in cuts, \A j \in cuts : i <= j
    PROVE  Least(cuts) = i
<1>1. \A k \in cuts : (\A j \in cuts : k <= j) => k = i
  OBVIOUS
<1> QED BY <1>1 DEF Least

\* A chosen delimiter is a character that occurs in none of the parts.
LEMMA ChosenIsFree ==
    ASSUME NEW f \in Text, NEW s \in Text, NEW r \in Text, Free(f, s, r) # {}
    PROVE  LET d == Chosen(Free(f, s, r)) IN
           /\ d \in Chars
           /\ \A i \in 1 .. Len(f) : f[i] # d
           /\ \A i \in 1 .. Len(s) : s[i] # d
           /\ \A i \in 1 .. Len(r) : r[i] # d
<1> DEFINE F == Free(f, s, r)
<1>1. F \in SUBSET Nat /\ F \subseteq DOMAIN Delimiters
  BY DelimitersAssumption DEF Free
<1>2. PICK k \in F : \A j \in F : k <= j
  BY <1>1, LeastNatural
<1>3. PICK m \in F : Chosen(F) = Delimiters[m]
  BY <1>2 DEF Chosen
<1>4. Delimiters[m] \in Chars
  BY <1>1, <1>3, DelimitersAssumption
<1>5. Delimiters[m] \notin ToSet(f) \cup ToSet(s) \cup ToSet(r)
  BY <1>3 DEF Free
<1> QED BY <1>3, <1>4, <1>5 DEF ToSet, Text

\* A stretch of a string that agrees with a text is that text.
LEMMA Stretch ==
    ASSUME NEW string \in Text, NEW t \in Text, NEW n \in Nat,
           n + Len(t) <= Len(string),
           \A i \in 1 .. Len(t) : string[i + n] = t[i]
    PROVE  SubSeq(string, n + 1, n + Len(t)) = t
<1>1. SubSeq(string, n + 1, n + Len(t)) \in Seq(Chars)
  BY DEF Text
<1>2. Len(SubSeq(string, n + 1, n + Len(t))) = Len(t)
  BY DEF Text
<1>3. \A i \in 1 .. Len(t) : SubSeq(string, n + 1, n + Len(t))[i] = t[i]
  BY DEF Text
<1> QED BY <1>1, <1>2, <1>3, SeqEqual DEF Text

----------------------------------------------------------------------------
(* What is joined is parsed *)

\* A string of two parts without the delimiter is cut between them.
LEMMA TwoPartsParse ==
    ASSUME NEW d \in Chars, NEW s \in Text, NEW r \in Text,
           \A i \in 1 .. Len(s) : s[i] # d,
           \A i \in 1 .. Len(r) : r[i] # d
    PROVE  /\ <<d>> \o s \o <<d>> \o r \in Text
           /\ Parse(<<d>> \o s \o <<d>> \o r) =
                  [filter |-> <<>>, subject |-> s, replacement |-> r]
<1> SUFFICES ASSUME NEW string, string = <<d>> \o s \o <<d>> \o r
             PROVE  string \in Text /\ Parse(string) =
                  [filter |-> <<>>, subject |-> s, replacement |-> r]
  OBVIOUS
<1>1. Len(s) \in Nat /\ Len(r) \in Nat
  BY DEF Text
<1>2. PICK a \in Nat : a = Len(s) + 2
  BY <1>1
<1>3. /\ string \in Text
      /\ Len(string) = a + Len(r)
      /\ string[1] = d
      /\ string[a] = d
      /\ \A i \in 1 .. Len(s) : string[i + 1] = s[i]
      /\ \A i \in 1 .. Len(r) : string[i + a] = r[i]
  <2>1. /\ string \in Text
        /\ Len(string) = Len(s) + Len(r) + 2
        /\ string[1] = d
        /\ string[Len(s) + 2] = d
        /\ \A i \in 1 .. Len(s) : string[i + 1] = s[i]
        /\ \A i \in 1 .. Len(r) : string[i + Len(s) + 2] = r[i]
    BY DEF Text
  <2>2. \A i \in 1 .. Len(r) : i + Len(s) + 2 = i + a
    BY <1>1, <1>2
  <2> QED BY <1>1, <1>2, <2>1, <2>2
<1>4. Cuts(string) = {a}
  <2>1. a \in Cuts(string)
    BY <1>1, <1>2, <1>3 DEF Cuts
  <2>2. ASSUME NEW i \in Cuts(string), i # a PROVE FALSE
    <3>1. CASE i < a
      <4>1. i - 1 \in 1 .. Len(s) /\ string[i] = d
        BY <1>1, <1>2, <1>3, <3>1 DEF Cuts
      <4>2. string[(i - 1) + 1] = s[i - 1]
        BY <1>3, <4>1
      <4> QED BY <4>1, <4>2 DEF Cuts
    <3>2. CASE i > a
      <4>1. i - a \in 1 .. Len(r) /\ string[i] = d
        BY <1>1, <1>2, <1>3, <3>2 DEF Cuts
      <4>2. string[(i - a) + a] = r[i - a]
        BY <1>3, <4>1
      <4> QED BY <4>1, <4>2 DEF Cuts
    <3> QED BY <2>2, <3>1, <3>2 DEF Cuts
  <2> QED BY <2>1, <2>2
<1>5. Least(Cuts(string)) = a
  <2>1. {a} \in SUBSET Int /\ a \in {a} /\ \A j \in {a} : a <= j
    OBVIOUS
  <2> QED BY <1>4, <2>1, LeastIs
<1>6. SubSeq(string, 2, a - 1) = s
  <2>1. 1 \in Nat /\ 1 + Len(s) <= Len(string)
    BY <1>1, <1>2, <1>3
  <2>2. SubSeq(string, 1 + 1, 1 + Len(s)) = s
    BY <1>3, <2>1, Stretch, Zenon
  <2>3. 1 + 1 = 2 /\ 1 + Len(s) = a - 1
    BY <1>1, <1>2
  <2> QED BY <2>2, <2>3
<1>7. SubSeq(string, a + 1, Len(string)) = r
  <2>1. a + Len(r) <= Len(string)
    BY <1>1, <1>3
  <2>2. SubSeq(string, a + 1, a + Len(r)) = r
    BY <1>3, <2>1, Stretch, Zenon
  <2> QED BY <1>3, <2>2
<1> QED BY <1>3, <1>4, <1>5, <1>6, <1>7 DEF Parse

\* A string of three parts without the delimiter is cut between them.
LEMMA ThreePartsParse ==
    ASSUME NEW d \in Chars, NEW f \in Text, NEW s \in Text, NEW r \in Text,
           \A i \in 1 .. Len(f) : f[i] # d,
           \A i \in 1 .. Len(s) : s[i] # d,
           \A i \in 1 .. Len(r) : r[i] # d
    PROVE  /\ <<d>> \o f \o <<d>> \o s \o <<d>> \o r \in Text
           /\ Parse(<<d>> \o f \o <<d>> \o s \o <<d>> \o r) =
                  [filter |-> f, subject |-> s, replacement |-> r]
<1> SUFFICES ASSUME NEW string, string = <<d>> \o f \o <<d>> \o s \o <<d>> \o r
             PROVE  string \in Text /\ Parse(string) =
                  [filter |-> f, subject |-> s, replacement |-> r]
  OBVIOUS
<1>1. Len(f) \in Nat /\ Len(s) \in Nat /\ Len(r) \in Nat
  BY DEF Text
<1>2. PICK a \in Nat : a = Len(f) + 2
  BY <1>1
<1>3. PICK b \in Nat : b = Len(f) + Len(s) + 3
  BY <1>1
<1>4. /\ string \in Text
      /\ Len(string) = b + Len(r)
      /\ string[1] = d
      /\ string[a] = d
      /\ string[b] = d
      /\ \A i \in 1 .. Len(f) : string[i + 1] = f[i]
      /\ \A i \in 1 .. Len(s) : string[i + a] = s[i]
      /\ \A i \in 1 .. Len(r) : string[i + b] = r[i]
  <2>1. /\ string \in Text
        /\ Len(string) = Len(f) + Len(s) + Len(r) + 3
        /\ string[1] = d
        /\ string[Len(f) + 2] = d
        /\ string[Len(f) + Len(s) + 3] = d
        /\ \A i \in 1 .. Len(f) : string[i + 1] = f[i]
        /\ \A i \in 1 .. Len(s) : string[i + Len(f) + 2] = s[i]
        /\ \A i \in 1 .. Len(r) : string[i + Len(f) + Len(s) + 3] = r[i]
    BY DEF Text
  <2>2. /\ \A i \in 1 .. Len(s) : i + Len(f) + 2 = i + a
        /\ \A i \in 1 .. Len(r) : i + Len(f) + Len(s) + 3 = i + b
    BY <1>1, <1>2, <1>3
  <2>3. Len(string) = b + Len(r)
    BY <1>1, <1>3, <2>1
  <2> QED BY <1>2, <1>3, <2>1, <2>2, <2>3
<1>5. a \in Cuts(string) /\ b \in Cuts(string) /\ a < b /\ b = a + Len(s) + 1
  BY <1>1, <1>2, <1>3, <1>4 DEF Cuts
<1>6. ASSUME NEW i \in Cuts(string), i # a PROVE i >= b
  <2>1. i \in Int /\ i >= 2 /\ i <= Len(string) /\ string[i] = d
    BY <1>4 DEF Cuts
  <2>2. ASSUME i < a PROVE FALSE
    <3>1. i - 1 \in 1 .. Len(f)
      BY <1>1, <1>2, <2>1, <2>2
    <3>2. string[(i - 1) + 1] = f[i - 1]
      BY <1>4, <3>1
    <3> QED BY <2>1, <3>1, <3>2
  <2>3. ASSUME i > a, i < b PROVE FALSE
    <3>1. i - a \in 1 .. Len(s)
      BY <1>1, <1>5, <2>1, <2>3
    <3>2. string[(i - a) + a] = s[i - a]
      BY <1>4, <3>1
    <3> QED BY <2>1, <3>1, <3>2
  <2> QED BY <1>6, <2>1, <2>2, <2>3
<1>7. Cuts(string) \in SUBSET Int
  BY DEF Cuts
<1>8. Least(Cuts(string)) = a
  <2>1. \A i \in Cuts(string) : a <= i
    BY <1>5, <1>6, <1>7
  <2> QED BY <1>5, <1>7, <2>1, LeastIs
<1>9. Least(Cuts(string) \ {a}) = b
  <2>1. b \in Cuts(string) \ {a} /\ \A i \in Cuts(string) \ {a} : b <= i
    BY <1>5, <1>6, <1>7
  <2>2. Cuts(string) \ {a} \in SUBSET Int
    BY <1>7
  <2> QED BY <2>1, <2>2, LeastIs
<1>10. Cuts(string) # {a}
  BY <1>5
<1>11. SubSeq(string, 2, a - 1) = f
  <2>1. 1 \in Nat /\ 1 + Len(f) <= Len(string)
    BY <1>1, <1>3, <1>4
  <2>2. SubSeq(string, 1 + 1, 1 + Len(f)) = f
    BY <1>4, <2>1, Stretch, Zenon
  <2>3. 1 + 1 = 2 /\ 1 + Len(f) = a - 1
    BY <1>1, <1>2
  <2> QED BY <2>2, <2>3
<1>12. SubSeq(string, a + 1, b - 1) = s
  <2>1. a + Len(s) <= Len(string)
    BY <1>1, <1>4, <1>5
  <2>2. SubSeq(string, a + 1, a + Len(s)) = s
    BY <1>4, <2>1, Stretch, Zenon
  <2>3. a + Len(s) = b - 1
    BY <1>1, <1>5
  <2> QED BY <2>2, <2>3
<1>13. SubSeq(string, b + 1, Len(string)) = r
  <2>1. b + Len(r) <= Len(string)
    BY <1>1, <1>4
  <2>2. SubSeq(string, b + 1, b + Len(r)) = r
    BY <1>4, <2>1, Stretch, Zenon
  <2> QED BY <1>4, <2>2
<1> QED BY <1>4, <1>8, <1>9, <1>10, <1>11, <1>12, <1>13 DEF Parse

\* parse_spec gives back the parts that _join put together, for every filter
\* (none, if it is empty), subject and replacement for which there is a
\* delimiter.
THEOREM JoinParses ==
    ASSUME NEW f \in Text, NEW s \in Text, NEW r \in Text, Free(f, s, r) # {}
    PROVE  /\ Join(f, s, r) \in Text
           /\ Parse(Join(f, s, r)) =
                  [filter |-> f, subject |-> s, replacement |-> r]
<1>1. PICK d \in Chars : /\ d = Chosen(Free(f, s, r))
                         /\ \A i \in 1 .. Len(f) : f[i] # d
                         /\ \A i \in 1 .. Len(s) : s[i] # d
                         /\ \A i \in 1 .. Len(r) : r[i] # d
  BY ChosenIsFree
<1>2. CASE f = <<>>
  <2>1. Join(f, s, r) = <<d>> \o s \o <<d>> \o r
    BY <1>1, <1>2 DEF Join
  <2>2. /\ <<d>> \o s \o <<d>> \o r \in Text
        /\ Parse(<<d>> \o s \o <<d>> \o r) =
               [filter |-> <<>>, subject |-> s, replacement |-> r]
    BY <1>1, TwoPartsParse
  <2> QED BY <1>2, <2>1, <2>2
<1>3. CASE f # <<>>
  <2>1. Join(f, s, r) = <<d>> \o f \o <<d>> \o s \o <<d>> \o r
    BY <1>1, <1>3 DEF Join
  <2>2. /\ <<d>> \o f \o <<d>> \o s \o <<d>> \o r \in Text
        /\ Parse(<<d>> \o f \o <<d>> \o s \o <<d>> \o r) =
               [filter |-> f, subject |-> s, replacement |-> r]
    BY <1>1, ThreePartsParse
  <2> QED BY <2>1, <2>2
<1> QED BY <1>2, <1>3

----------------------------------------------------------------------------
(* the loops over a text *)

\* Escape, character by character.
EscapedUpTo(r, text) ==
    /\ r[0] = <<>>
    /\ \A k \in 1 .. Len(text) :
           r[k] = r[k - 1] \o IF text[k] = Backslash THEN <<text[k], text[k]>> ELSE <<text[k]>>

LEMMA EscapeRuns ==
    ASSUME NEW text \in Text
    PROVE  \E r \in [0 .. Len(text) -> Text] :
               EscapedUpTo(r, text) /\ Escape(text) = r[Len(text)]
<1> DEFINE n == Len(text)
           Piece(i) == IF text[i] = Backslash THEN <<text[i], text[i]>> ELSE <<text[i]>>
           Recursion(f) == f = [t \in SUBSET DOMAIN text |->
                                   IF t = {} THEN <<>> ELSE f[t \ {Max(t)}] \o Piece(Max(t))]
           g == CHOOSE f : Recursion(f)
           r == [k \in 0 .. n |-> g[1 .. k]]
<1>1. n \in Nat /\ DOMAIN text = 1 .. n /\ \A i \in 1 .. n : text[i] \in Chars
  BY DEF Text
<1>2. \A i \in 1 .. n : Piece(i) \in Text
  BY <1>1 DEF Text
<1>3. <<>> \in Text /\ \A i \in 1 .. n, out \in Text : out \o Piece(i) \in Text
  <2> HIDE DEF n, Piece
  <2> QED BY <1>2 DEF Text
<1>4. Escape(text) = (CHOOSE f : Recursion(f))[1 .. n]
  BY <1>1 DEF Escape, FoldLeft, MapThenFoldSet
<1> HIDE DEF n, Piece
<1>5. \E f : Recursion(f)
  <2> DEFINE step == [i \in 1 .. n |-> [out \in Text |-> out \o Piece(i)]]
  <2>1. step \in [1 .. n -> [Text -> Text]]
    BY <1>3
  <2>2. PICK f \in [SUBSET (1 .. n) -> Text] : FoldRule(f, n, <<>>, step)
    <3> HIDE DEF step
    <3> QED BY <1>1, <1>3, <2>1, FoldExists
  <2>3. ASSUME NEW t \in SUBSET (1 .. n), t # {}
        PROVE  f[t] = f[t \ {Max(t)}] \o Piece(Max(t))
    <3>1. Max(t) \in 1 .. n /\ f[t \ {Max(t)}] \in Text
      BY <1>1, <2>2, <2>3, MaxIs
    <3>2. f[t] = step[Max(t)][f[t \ {Max(t)}]]
      BY <2>2, <2>3 DEF FoldRule
    <3> QED BY <3>1, <3>2
  <2>4. f[{}] = <<>>
    BY <2>2 DEF FoldRule
  <2> QED BY <1>1, <2>2, <2>3, <2>4
<1>6. Recursion(g)
  <2> HIDE DEF Recursion
  <2> QED BY <1>5
<1>7. Escape(text) = g[1 .. n]
  BY <1>4
<1> HIDE DEF g
<1>8. g[{}] = <<>>
  BY <1>6
<1>9. ASSUME NEW k \in 1 .. n PROVE g[1 .. k] = g[1 .. k - 1] \o Piece(k)
  <2>1. /\ 1 .. k \in SUBSET (1 .. n) /\ 1 .. k # {}
        /\ Max(1 .. k) = k
        /\ (1 .. k) \ {Max(1 .. k)} = 1 .. k - 1
    BY <1>1, PlacesUpTo
  <2> QED BY <1>1, <1>6, <2>1
<1>10. r[0] = <<>> /\ \A k \in 1 .. n : r[k] = r[k - 1] \o Piece(k)
  <2>1. 1 .. 0 = {} /\ 0 \in 0 .. n /\ \A k \in 1 .. n : k \in 0 .. n /\ k - 1 \in 0 .. n
    BY <1>1
  <2> QED BY <1>8, <1>9, <2>1
<1>11. r \in [0 .. n -> Text]
  <2> DEFINE S == {k \in 0 .. n : r[k] \in Text}
  <2> HIDE DEF r
  <2>1. 0 \in S
    BY <1>1, <1>3, <1>10
  <2>2. ASSUME NEW k \in 1 .. n, k - 1 \in S PROVE k \in S
    <3>1. r[k - 1] \in Text /\ k \in 0 .. n
      BY <1>1, <2>2
    <3>2. r[k - 1] \o Piece(k) \in Text
      BY <1>3, <3>1
    <3>3. r[k] \in Text
      BY <1>10, <3>2
    <3> QED BY <3>1, <3>3
  <2>3. 0 .. n \subseteq S
    <3> HIDE DEF S
    <3> QED BY <1>1, <2>1, <2>2, CountUp
  <2> QED BY <2>3 DEF r
<1>12. EscapedUpTo(r, text)
  <2> HIDE DEF r
  <2> QED BY <1>10 DEF EscapedUpTo, n, Piece
<1> QED BY <1>1, <1>7, <1>11, <1>12 DEF n

\* The decoder, character by character.
Progress == [open : BOOLEAN, out : Text]

Scanned(acc, c) ==
    IF acc.open
    THEN [open |-> FALSE,
          out |-> acc.out \o IF c \in DOMAIN Escapes THEN Escapes[c] ELSE <<Backslash, c>>]
    ELSE IF c = Backslash THEN [open |-> TRUE, out |-> acc.out]
    ELSE [open |-> FALSE, out |-> Append(acc.out, c)]

ScannedUpTo(r, text) ==
    /\ r[0] = [open |-> FALSE, out |-> <<>>]
    /\ \A k \in 1 .. Len(text) : r[k] = Scanned(r[k - 1], text[k])

LEMMA ScannedType ==
    ASSUME NEW acc \in Progress, NEW c \in Chars
    PROVE  Scanned(acc, c) \in Progress
<1>1. acc.open \in BOOLEAN /\ acc.out \in Text
  BY DEF Progress
<1>2. Append(acc.out, c) \in Text
  BY <1>1 DEF Text
<1>3. acc.out \o <<Backslash, c>> \in Text
  BY <1>1, CharsAssumption DEF Text
<1>4. c \in DOMAIN Escapes => acc.out \o Escapes[c] \in Text
  BY <1>1, EscapesAssumption DEF Text
<1> QED BY <1>1, <1>2, <1>3, <1>4 DEF Progress, Scanned

LEMMA ScanRuns ==
    ASSUME NEW text \in Text
    PROVE  \E r \in [0 .. Len(text) -> Progress] :
               ScannedUpTo(r, text) /\ Scan(text) = r[Len(text)]
<1> DEFINE n == Len(text)
           Begin == [open |-> FALSE, out |-> <<>>]
           After(acc, c) ==
               IF acc.open
               THEN [open |-> FALSE,
                     out |-> acc.out \o IF c \in DOMAIN Escapes THEN Escapes[c] ELSE <<Backslash, c>>]
               ELSE IF c = Backslash THEN [acc EXCEPT !.open = TRUE]
               ELSE [acc EXCEPT !.out = Append(@, c)]
           Recursion(f) == f = [t \in SUBSET DOMAIN text |->
                                   IF t = {} THEN Begin ELSE After(f[t \ {Max(t)}], text[Max(t)])]
           g == CHOOSE f : Recursion(f)
           r == [k \in 0 .. n |-> g[1 .. k]]
<1>1. n \in Nat /\ DOMAIN text = 1 .. n /\ \A i \in 1 .. n : text[i] \in Chars
  BY DEF Text
<1>2. Begin \in Progress
  BY DEF Progress, Text
<1>3. \A acc \in Progress : \A c : After(acc, c) = Scanned(acc, c)
  <2> SUFFICES ASSUME NEW acc \in Progress, NEW c PROVE After(acc, c) = Scanned(acc, c)
    OBVIOUS
  <2>1. PICK o \in BOOLEAN, w \in Text : acc = [open |-> o, out |-> w]
    BY DEF Progress
  <2>2. [acc EXCEPT !.open = TRUE] = [open |-> TRUE, out |-> w]
    <3>1. \A p : [acc EXCEPT !.open = p] = [open |-> p, out |-> w]
      BY <2>1
    <3> QED BY <3>1, Zenon
  <2>3. [acc EXCEPT !.out = Append(@, c)] = [open |-> o, out |-> Append(w, c)]
    BY <2>1
  <2>4. acc.open = o /\ acc.out = w
    BY <2>1
  <2>5. ~o => o = FALSE
    OBVIOUS
  <2> HIDE DEF Progress
  <2> QED BY <2>2, <2>3, <2>4, <2>5 DEF Scanned
<1>4. Scan(text) = (CHOOSE f : Recursion(f))[1 .. n]
  BY <1>1 DEF Scan, FoldLeft, MapThenFoldSet
<1> HIDE DEF n, Begin, After
<1>5. \E f : Recursion(f)
  <2> DEFINE step == [i \in 1 .. n |-> [acc \in Progress |-> Scanned(acc, text[i])]]
  <2>1. step \in [1 .. n -> [Progress -> Progress]]
    BY <1>1, ScannedType
  <2>2. PICK f \in [SUBSET (1 .. n) -> Progress] : FoldRule(f, n, Begin, step)
    <3> HIDE DEF step
    <3> QED BY <1>1, <1>2, <2>1, FoldExists
  <2>3. ASSUME NEW t \in SUBSET (1 .. n), t # {}
        PROVE  f[t] = After(f[t \ {Max(t)}], text[Max(t)])
    <3>1. Max(t) \in 1 .. n /\ f[t \ {Max(t)}] \in Progress
      BY <1>1, <2>2, <2>3, MaxIs
    <3>2. f[t] = step[Max(t)][f[t \ {Max(t)}]]
      BY <2>2, <2>3 DEF FoldRule
    <3>3. f[t] = Scanned(f[t \ {Max(t)}], text[Max(t)])
      BY <3>1, <3>2
    <3> QED BY <1>3, <3>1, <3>3
  <2>4. f[{}] = Begin
    BY <2>2 DEF FoldRule
  <2> QED BY <1>1, <2>2, <2>3, <2>4
<1>6. Recursion(g)
  <2> HIDE DEF Recursion
  <2> QED BY <1>5
<1>7. Scan(text) = g[1 .. n]
  BY <1>4
<1> HIDE DEF g
<1>8. g[{}] = Begin
  BY <1>6
<1>9. ASSUME NEW k \in 1 .. n PROVE g[1 .. k] = After(g[1 .. k - 1], text[k])
  <2>1. /\ 1 .. k \in SUBSET (1 .. n) /\ 1 .. k # {}
        /\ Max(1 .. k) = k
        /\ (1 .. k) \ {Max(1 .. k)} = 1 .. k - 1
    BY <1>1, PlacesUpTo
  <2> QED BY <1>1, <1>6, <2>1
<1>10. r[0] = Begin /\ \A k \in 1 .. n : r[k] = After(r[k - 1], text[k])
  <2>1. 1 .. 0 = {} /\ 0 \in 0 .. n /\ \A k \in 1 .. n : k \in 0 .. n /\ k - 1 \in 0 .. n
    BY <1>1
  <2> QED BY <1>8, <1>9, <2>1
<1>11. r \in [0 .. n -> Progress]
  <2> DEFINE S == {k \in 0 .. n : r[k] \in Progress}
  <2> HIDE DEF r
  <2>1. 0 \in S
    BY <1>1, <1>2, <1>10
  <2>2. ASSUME NEW k \in 1 .. n, k - 1 \in S PROVE k \in S
    <3>1. r[k - 1] \in Progress /\ k \in 0 .. n
      BY <1>1, <2>2
    <3>2. r[k] = Scanned(r[k - 1], text[k])
      BY <1>3, <1>10, <3>1
    <3>3. r[k] \in Progress
      BY <1>1, <3>1, <3>2, ScannedType
    <3> QED BY <3>1, <3>3
  <2>3. 0 .. n \subseteq S
    <3> HIDE DEF S
    <3> QED BY <1>1, <2>1, <2>2, CountUp
  <2> QED BY <2>3 DEF r
<1>12. ScannedUpTo(r, text)
  <2> HIDE DEF r
  <2>1. \A k \in 1 .. n : k - 1 \in 0 .. n
    BY <1>1
  <2>2. \A k \in 1 .. n : r[k] = Scanned(r[k - 1], text[k])
    BY <1>3, <1>10, <1>11, <2>1
  <2> QED BY <1>10, <2>2 DEF ScannedUpTo, n, Begin
<1> QED BY <1>1, <1>7, <1>11, <1>12 DEF n

----------------------------------------------------------------------------
(* what is escaped is decoded *)

\* The first k characters, and one more.
LEMMA OneMore ==
    ASSUME NEW text \in Text
    PROVE  /\ SubSeq(text, 1, 0) = <<>>
           /\ SubSeq(text, 1, Len(text)) = text
           /\ \A k \in 1 .. Len(text) :
                  SubSeq(text, 1, k) = SubSeq(text, 1, k - 1) \o <<text[k]>>
<1>1. text \in Seq(Chars) /\ Len(text) \in Nat
  BY DEF Text
<1>2. SubSeq(text, 1, 0) = <<>>
  BY <1>1
<1>3. SubSeq(text, 1, Len(text)) = text
  BY <1>1, SeqEqual
<1>4. ASSUME NEW k \in 1 .. Len(text)
      PROVE  SubSeq(text, 1, k) = SubSeq(text, 1, k - 1) \o <<text[k]>>
  <2> DEFINE left == SubSeq(text, 1, k)
             shorter == SubSeq(text, 1, k - 1)
             right == shorter \o <<text[k]>>
  <2>1. /\ left \in Seq(Chars) /\ Len(left) = k
        /\ \A i \in 1 .. k : left[i] = text[i]
    BY <1>1
  <2>2. /\ shorter \in Seq(Chars) /\ Len(shorter) = k - 1
        /\ \A i \in 1 .. k - 1 : shorter[i] = text[i]
    BY <1>1
  <2>3. text[k] \in Chars
    BY <1>1
  <2> HIDE DEF left, shorter
  <2>4. right \in Seq(Chars) /\ Len(right) = k /\ \A i \in 1 .. k : right[i] = text[i]
    BY <2>2, <2>3
  <2> HIDE DEF right
  <2>5. left = right
    BY <2>1, <2>4, SeqEqual
  <2> QED BY <2>5 DEF left, right, shorter
<1> QED BY <1>2, <1>3, <1>4

\* p is how the text begins.
Begins(text, p) == Len(p) <= Len(text) /\ \A i \in 1 .. Len(p) : text[i] = p[i]

\* What the loop of Escape has put out it does not take back.
LEMMA EscapeGrows ==
    ASSUME NEW text \in Text, NEW r \in [0 .. Len(text) -> Text], EscapedUpTo(r, text)
    PROVE  \A k \in 0 .. Len(text) : Begins(r[Len(text)], r[k])
<1> DEFINE n == Len(text)
           S == {j \in 0 .. n : Begins(r[n], r[n - j])}
<1>1. n \in Nat /\ \A i \in 1 .. n : text[i] \in Chars
  BY DEF Text
<1>2. 0 \in S
  BY <1>1 DEF Begins, Text
<1>3. ASSUME NEW j \in 1 .. n, j - 1 \in S PROVE j \in S
  <2> DEFINE k == n - (j - 1)
  <2>1. k \in 1 .. n /\ k - 1 = n - j /\ k - 1 \in 0 .. n /\ k \in 0 .. n /\ j \in 0 .. n
    BY <1>1
  <2>2. Begins(r[n], r[k])
    BY <1>3
  <2> HIDE DEF k
  <2>3. PICK piece \in Text : r[k] = r[k - 1] \o piece
    <3>1. r[k] = r[k - 1] \o IF text[k] = Backslash THEN <<text[k], text[k]>> ELSE <<text[k]>>
      BY <2>1 DEF EscapedUpTo
    <3>2. <<text[k], text[k]>> \in Text /\ <<text[k]>> \in Text
      BY <1>1, <2>1 DEF Text
    <3> QED BY <3>1, <3>2
  <2>4. r[k - 1] \in Text
    BY <2>1
  <2>5. /\ Len(r[k - 1]) <= Len(r[k])
        /\ \A i \in 1 .. Len(r[k - 1]) : i \in 1 .. Len(r[k]) /\ r[k][i] = r[k - 1][i]
    BY <2>3, <2>4 DEF Text
  <2>6. Len(r[n]) \in Nat /\ Len(r[k]) \in Nat /\ Len(r[k - 1]) \in Nat
    BY <1>1, <2>1, <2>4 DEF Text
  <2>7. Begins(r[n], r[k - 1])
    BY <2>2, <2>5, <2>6 DEF Begins
  <2> QED BY <2>1, <2>7
<1>4. 0 .. n \subseteq S
  <2> HIDE DEF S
  <2> QED BY <1>1, <1>2, <1>3, CountUp
<1>5. \A k \in 0 .. n : n - k \in 0 .. n /\ n - (n - k) = k
  BY <1>1
<1>6. ASSUME NEW k \in 0 .. n PROVE Begins(r[n], r[k])
  <2>1. n - k \in S
    BY <1>4, <1>5
  <2> QED BY <1>5, <2>1
<1> QED BY <1>6

\* An escaped text begins as the text does.
LEMMA EscapeBegins ==
    ASSUME NEW text \in Text
    PROVE  /\ Escape(text) \in Text
           /\ text = <<>> => Escape(text) = <<>>
           /\ text # <<>> => Escape(text) # <<>> /\ Escape(text)[1] = text[1]
<1>1. PICK r \in [0 .. Len(text) -> Text] :
          EscapedUpTo(r, text) /\ Escape(text) = r[Len(text)]
  BY EscapeRuns
<1>2. Len(text) \in Nat
  BY DEF Text
<1>3. Escape(text) \in Text
  BY <1>1, <1>2
<1>4. CASE text = <<>>
  <2>1. Len(text) = 0
    BY <1>4
  <2> QED BY <1>1, <1>3, <1>4, <2>1 DEF EscapedUpTo
<1>5. CASE text # <<>>
  <2>1. 1 \in 1 .. Len(text) /\ 1 \in 0 .. Len(text) /\ text[1] \in Chars
    BY <1>2, <1>5 DEF Text
  <2>2. r[1] = <<>> \o IF text[1] = Backslash THEN <<text[1], text[1]>> ELSE <<text[1]>>
    BY <1>1, <2>1 DEF EscapedUpTo
  <2>3. r[1][1] = text[1] /\ 1 \in 1 .. Len(r[1])
    BY <2>1, <2>2
  <2>4. Begins(Escape(text), r[1])
    BY <1>1, <2>1, EscapeGrows
  <2>5. Escape(text)[1] = text[1] /\ Len(Escape(text)) >= 1
    BY <1>1, <1>3, <2>1, <2>3, <2>4 DEF Begins, Text
  <2> QED BY <1>3, <1>5, <2>5
<1> QED BY <1>4, <1>5

\* The decoder has taken what stands for the first k characters.
Caught(acc, text, k) == acc = [open |-> FALSE, out |-> SubSeq(text, 1, k)]

\* mitmproxy decodes what was escaped to the text itself, whatever the
\* escapes mean that it knows.
LEMMA EscapedDecodes ==
    ASSUME NEW text \in Text
    PROVE  Scan(Escape(text)) = [open |-> FALSE, out |-> text]
<1> DEFINE n == Len(text)
           string == Escape(text)
<1>1. n \in Nat /\ \A i \in 1 .. n : text[i] \in Chars
  BY DEF Text
<1>2. PICK e \in [0 .. n -> Text] : EscapedUpTo(e, text) /\ string = e[n]
  BY EscapeRuns
<1>3. string \in Text /\ \A k \in 0 .. n : Begins(string, e[k])
  BY <1>1, <1>2, EscapeGrows
<1>4. PICK a \in [0 .. Len(string) -> Progress] :
          ScannedUpTo(a, string) /\ Scan(string) = a[Len(string)]
  BY <1>3, ScanRuns
<1> DEFINE S == {k \in 0 .. n : Caught(a[Len(e[k])], text, k)}
<1> HIDE DEF string
<1>5. 0 \in S
  <2>1. e[0] = <<>> /\ Len(e[0]) = 0 /\ 0 \in 0 .. n
    BY <1>1, <1>2 DEF EscapedUpTo
  <2>2. a[0] = [open |-> FALSE, out |-> <<>>]
    BY <1>4 DEF ScannedUpTo
  <2> QED BY <2>1, <2>2, OneMore DEF Caught
<1>6. ASSUME NEW k \in 1 .. n, k - 1 \in S PROVE k \in S
  <2> DEFINE c == text[k]
             m == Len(e[k - 1])
             sofar == SubSeq(text, 1, k - 1)
  <2>1. k \in 0 .. n /\ k - 1 \in 0 .. n /\ c \in Chars
    BY <1>1
  <2>2. a[m] = [open |-> FALSE, out |-> sofar]
    BY <1>6 DEF Caught
  <2>3. e[k] = e[k - 1] \o IF c = Backslash THEN <<c, c>> ELSE <<c>>
    BY <1>2 DEF EscapedUpTo
  <2>4. SubSeq(text, 1, k) = sofar \o <<c>>
    BY OneMore
  <2>5. e[k - 1] \in Text /\ m \in Nat /\ Begins(string, e[k]) /\ Len(string) \in Nat
    <3>1. e[k - 1] \in Text
      BY <2>1
    <3> HIDE DEF S
    <3>2. Begins(string, e[k])
      BY <1>3, <2>1
    <3> QED BY <1>3, <3>1, <3>2 DEF Text
  <2>6. sofar \in Text
    BY <2>1 DEF Text
  <2>7. \A i \in 1 .. Len(string) : a[i] = Scanned(a[i - 1], string[i])
    BY <1>4 DEF ScannedUpTo
  <2> HIDE DEF c, m, sofar, S
  <2>8. CASE c = Backslash
    <3>1. e[k] = e[k - 1] \o <<c, c>>
      BY <2>3, <2>8
    <3>2. Len(e[k]) = m + 2 /\ e[k][m + 1] = c /\ e[k][m + 2] = c
      BY <2>1, <2>5, <3>1 DEF m, Text
    <3>3. /\ m + 1 \in 1 .. Len(string) /\ m + 2 \in 1 .. Len(string)
          /\ string[m + 1] = c /\ string[m + 2] = c
      BY <2>5, <3>2 DEF Begins
    <3>4. a[m + 1] = [open |-> TRUE, out |-> sofar]
      <4>1. a[m + 1] = Scanned(a[m], c)
        BY <2>5, <2>7, <3>3
      <4> QED BY <2>2, <2>8, <4>1 DEF Scanned
    <3>5. a[m + 2] = [open |-> FALSE, out |-> sofar \o Escapes[c]]
      <4>1. PICK i \in 1 .. Len(string) : i = m + 2
        BY <3>3
      <4>2. i - 1 = m + 1
        BY <2>5, <4>1
      <4>3. a[m + 2] = Scanned(a[m + 1], c)
        BY <2>7, <3>3, <4>1, <4>2
      <4> QED BY <2>8, <3>4, <4>3, BackslashAssumption DEF Scanned
    <3>6. Escapes[c] = <<c>>
      BY <2>8, BackslashAssumption
    <3>7. Caught(a[Len(e[k])], text, k)
      BY <2>4, <3>2, <3>5, <3>6 DEF Caught
    <3> QED BY <2>1, <3>7 DEF S
  <2>9. CASE c # Backslash
    <3>1. e[k] = e[k - 1] \o <<c>>
      BY <2>3, <2>9
    <3>2. Len(e[k]) = m + 1 /\ e[k][m + 1] = c
      BY <2>1, <2>5, <3>1 DEF m, Text
    <3>3. m + 1 \in 1 .. Len(string) /\ string[m + 1] = c
      BY <2>5, <3>2 DEF Begins
    <3>4. a[m + 1] = [open |-> FALSE, out |-> Append(sofar, c)]
      <4>1. a[m + 1] = Scanned(a[m], c)
        BY <2>5, <2>7, <3>3
      <4> QED BY <2>2, <2>9, <4>1 DEF Scanned
    <3>5. Append(sofar, c) = sofar \o <<c>>
      BY <2>1, <2>6 DEF Text
    <3>6. Caught(a[Len(e[k])], text, k)
      BY <2>4, <3>2, <3>4, <3>5 DEF Caught
    <3> QED BY <2>1, <3>6 DEF S
  <2> QED BY <2>8, <2>9
<1>7. 0 .. n \subseteq S
  <2> HIDE DEF S
  <2> QED BY <1>1, <1>5, <1>6, CountUp
<1>8. Caught(a[Len(e[n])], text, n)
  BY <1>1, <1>7
<1>9. SubSeq(text, 1, n) = text
  BY OneMore
<1> QED BY <1>2, <1>4, <1>8, <1>9 DEF Caught, string

\* A text without backslashes is its own meaning.
LEMMA PlainDecodes ==
    ASSUME NEW text \in Text, Backslash \notin ToSet(text)
    PROVE  Scan(text) = [open |-> FALSE, out |-> text]
<1> DEFINE n == Len(text)
<1>1. n \in Nat /\ \A i \in 1 .. n : text[i] \in Chars /\ text[i] # Backslash
  BY DEF Text, ToSet
<1>2. PICK a \in [0 .. n -> Progress] : ScannedUpTo(a, text) /\ Scan(text) = a[n]
  BY ScanRuns
<1> DEFINE S == {k \in 0 .. n : Caught(a[k], text, k)}
<1>3. 0 \in S
  <2>1. a[0] = [open |-> FALSE, out |-> <<>>] /\ 0 \in 0 .. n
    BY <1>1, <1>2 DEF ScannedUpTo
  <2> QED BY <2>1, OneMore DEF Caught
<1>4. ASSUME NEW k \in 1 .. n, k - 1 \in S PROVE k \in S
  <2> DEFINE sofar == SubSeq(text, 1, k - 1)
  <2>1. k \in 0 .. n /\ k - 1 \in 0 .. n
    BY <1>1
  <2>2. a[k - 1] = [open |-> FALSE, out |-> sofar]
    BY <1>4 DEF Caught
  <2>3. a[k] = Scanned(a[k - 1], text[k])
    BY <1>2 DEF ScannedUpTo
  <2>4. sofar \in Text
    BY <2>1 DEF Text
  <2> HIDE DEF sofar
  <2>5. a[k] = [open |-> FALSE, out |-> Append(sofar, text[k])]
    BY <1>1, <2>2, <2>3 DEF Scanned
  <2>6. Append(sofar, text[k]) = sofar \o <<text[k]>>
    BY <1>1, <2>4 DEF Text
  <2>7. SubSeq(text, 1, k) = sofar \o <<text[k]>>
    BY OneMore DEF sofar
  <2>8. Caught(a[k], text, k)
    BY <2>5, <2>6, <2>7 DEF Caught
  <2> QED BY <2>1, <2>8
<1>5. 0 .. n \subseteq S
  <2> HIDE DEF S
  <2> QED BY <1>1, <1>3, <1>4, CountUp
<1>6. Caught(a[n], text, n)
  BY <1>1, <1>5
<1>7. SubSeq(text, 1, n) = text
  BY OneMore
<1> QED BY <1>2, <1>6, <1>7 DEF Caught

\* Of the control characters only a newline can vanish in the decoder.
LEMMA ControlSurvives ==
    ASSUME NEW text \in Text
    PROVE  (ToSet(text) \cap Control) \ {Newline} \subseteq ToSet(Decode(text))
<1> DEFINE n == Len(text)
<1>1. n \in Nat /\ DOMAIN text = 1 .. n /\ \A i \in 1 .. n : text[i] \in Chars
  BY DEF Text
<1>2. PICK a \in [0 .. n -> Progress] : ScannedUpTo(a, text) /\ Scan(text) = a[n]
  BY ScanRuns
<1> DEFINE S == {k \in 0 .. n : \A i \in 1 .. k :
                    text[i] \in Control \ {Newline} => text[i] \in ToSet(a[k].out)}
<1>3. 0 \in S
  BY <1>1
<1>4. ASSUME NEW k \in 1 .. n, k - 1 \in S PROVE k \in S
  <2> DEFINE c == text[k]
             acc == a[k - 1]
  <2>1. k \in 0 .. n /\ k - 1 \in 0 .. n /\ c \in Chars
    BY <1>1
  <2>2. a[k] = Scanned(acc, c)
    BY <1>2 DEF ScannedUpTo
  <2>3. acc.out \in Text /\ acc.open \in BOOLEAN
    BY <1>2, <2>1 DEF Progress
  <2> HIDE DEF acc, c
  <2>4. PICK piece \in Text :
            /\ a[k].out = acc.out \o piece
            /\ c \in Control \ {Newline} => c \in ToSet(piece)
    <3>1. CASE acc.open /\ c \in DOMAIN Escapes
      <4>1. a[k].out = acc.out \o Escapes[c] /\ Escapes[c] \in Text
        BY <2>2, <3>1, EscapesAssumption DEF Scanned
      <4>2. c \notin Control \ {Newline}
        BY <3>1, ControlAssumption
      <4> QED BY <4>1, <4>2
    <3>2. CASE acc.open /\ c \notin DOMAIN Escapes
      <4>1. a[k].out = acc.out \o <<Backslash, c>>
        BY <2>2, <3>2 DEF Scanned
      <4>2. <<Backslash, c>> \in Text /\ c \in ToSet(<<Backslash, c>>)
        BY <2>1, CharsAssumption DEF Text, ToSet
      <4> QED BY <4>1, <4>2
    <3>3. CASE ~acc.open /\ c = Backslash
      <4>1. a[k].out = acc.out
        BY <2>2, <3>3 DEF Scanned
      <4>2. acc.out = acc.out \o <<>> /\ <<>> \in Text
        BY <2>3 DEF Text
      <4>3. c \notin Control
        BY <3>3, ControlAssumption
      <4> QED BY <4>1, <4>2, <4>3
    <3>4. CASE ~acc.open /\ c # Backslash
      <4>1. a[k].out = Append(acc.out, c)
        BY <2>2, <3>4 DEF Scanned
      <4>2. Append(acc.out, c) = acc.out \o <<c>> /\ <<c>> \in Text /\ c \in ToSet(<<c>>)
        BY <2>1, <2>3 DEF Text, ToSet
      <4> QED BY <4>1, <4>2
    <3> DEFINE Put == \E piece \in Text :
                          /\ a[k].out = acc.out \o piece
                          /\ c \in Control \ {Newline} => c \in ToSet(piece)
    <3>5. (acc.open => Put) /\ (~acc.open => Put)
      BY <3>1, <3>2, <3>3, <3>4, Zenon
    <3> QED BY <3>5, Zenon
  <2>5. ToSet(acc.out) \cup ToSet(piece) \subseteq ToSet(a[k].out)
    <3>1. /\ \A i \in 1 .. Len(acc.out) : i \in DOMAIN (acc.out \o piece)
                                           /\ (acc.out \o piece)[i] = acc.out[i]
          /\ \A i \in 1 .. Len(piece) : Len(acc.out) + i \in DOMAIN (acc.out \o piece)
                                         /\ (acc.out \o piece)[Len(acc.out) + i] = piece[i]
      BY <2>3 DEF Text
    <3>2. DOMAIN acc.out = 1 .. Len(acc.out) /\ DOMAIN piece = 1 .. Len(piece)
      BY <2>3 DEF Text
    <3>3. ASSUME NEW e \in ToSet(acc.out) PROVE e \in ToSet(acc.out \o piece)
      BY <3>1, <3>2, <3>3 DEF ToSet
    <3>4. ASSUME NEW e \in ToSet(piece) PROVE e \in ToSet(acc.out \o piece)
      BY <3>1, <3>2, <3>4 DEF ToSet
    <3> QED BY <2>4, <3>3, <3>4
  <2>6. ASSUME NEW i \in 1 .. k, text[i] \in Control \ {Newline}
        PROVE  text[i] \in ToSet(a[k].out)
    <3>1. CASE i = k
      BY <2>4, <2>5, <2>6, <3>1 DEF c
    <3>2. CASE i # k
      <4>1. i \in 1 .. k - 1
        BY <1>1, <3>2
      <4> QED BY <1>4, <2>5, <2>6, <4>1 DEF acc
    <3> QED BY <3>1, <3>2
  <2> QED BY <2>1, <2>6
<1>5. 0 .. n \subseteq S
  <2> HIDE DEF S
  <2> QED BY <1>1, <1>3, <1>4, CountUp
<1>6. n \in S
  BY <1>1, <1>5
<1> QED BY <1>1, <1>2, <1>6 DEF ToSet, Decode

----------------------------------------------------------------------------
(* a rule on its way *)

LEMMA PartsAreTexts ==
    ASSUME NEW r \in Fields
    PROVE  /\ r.filter \in Text /\ r.subject \in Text /\ r.replacement \in Text
           /\ Filter(r) \in Text /\ Subject(r) \in Text /\ Replacement(r) \in Text
<1>1. r.filter \in Text /\ r.subject \in Text /\ r.replacement \in Text
  BY DEF Fields
<1>2. Escape(r.subject) \in Text /\ Escape(r.replacement) \in Text
  BY <1>1, EscapeBegins
<1> QED BY <1>1, <1>2 DEF Filter, Subject, Replacement

\* The rule that mitmproxy reads out of the option string of a request that
\* the compiler accepts.
\* What mitmproxy is to make of an accepted rule.
Asked(r) == [operation |-> IF SetsNothing(r) THEN "remove" ELSE r.operation,
             filter |-> r.filter, subject |-> r.subject, replacement |-> r.replacement,
             file |-> FALSE]

LEMMA AcceptedMeansItself ==
    ASSUME NEW r \in Fields, Accepted(r)
    PROVE  Meaning(r.family, Join(Filter(r), Subject(r), Replacement(r))) = Asked(r)
<1> DEFINE p == Parse(Join(Filter(r), Subject(r), Replacement(r)))
           Read(text) == IF r.family \in ModifyFamilies THEN Decode(text) ELSE text
<1>1. p = [filter |-> Filter(r), subject |-> Subject(r), replacement |-> Replacement(r)]
  BY PartsAreTexts, JoinParses DEF Accepted
<1>2. r.subject \in Text /\ r.replacement \in Text
  BY PartsAreTexts
<1>3. Meaning(r.family, Join(Filter(r), Subject(r), Replacement(r))) =
          [operation |-> Effect(r.family, Read(p.replacement)), filter |-> p.filter,
           subject |-> Read(p.subject), replacement |-> Read(p.replacement),
           file |-> r.family \in ModifyFamilies /\ ReadsFile(p.replacement)]
  BY DEF Meaning
<1> HIDE DEF p
<1>4. Filter(r) = r.filter
  BY DEF Filter
<1>5. Read(Replacement(r)) = r.replacement
  <2>1. CASE r.family \in ModifyFamilies
    BY <1>2, <2>1, EscapedDecodes DEF Decode, Replacement
  <2>2. CASE r.family \notin ModifyFamilies
    BY <2>2 DEF Replacement
  <2> QED BY <2>1, <2>2
<1>6. Read(Subject(r)) = r.subject
  <2>1. CASE r.family = "modify_body"
    BY <1>2, <2>1, EscapedDecodes DEF Decode, Subject, ModifyFamilies
  <2>2. CASE r.family = "modify_headers"
    <3>1. Backslash \notin ToSet(r.subject)
      BY <2>2, TokenAssumption DEF Accepted, Valid
    <3>2. Subject(r) = r.subject
      BY <2>2 DEF Subject
    <3> QED BY <1>2, <2>2, <3>1, <3>2, PlainDecodes DEF Decode, ModifyFamilies
  <2>3. CASE r.family \notin ModifyFamilies
    BY <2>3 DEF Subject, ModifyFamilies
  <2> QED BY <2>1, <2>2, <2>3 DEF ModifyFamilies
<1>7. (r.family \in ModifyFamilies /\ ReadsFile(Replacement(r))) = FALSE
  <2> SUFFICES ASSUME r.family \in ModifyFamilies PROVE ~ReadsFile(Replacement(r))
    OBVIOUS
  <2>1. NoFile(r.replacement)
    BY DEF Accepted, Valid
  <2>2. Replacement(r) = Escape(r.replacement)
    BY DEF Replacement
  <2> QED BY <1>2, <2>1, <2>2, EscapeBegins DEF NoFile, ReadsFile
<1> HIDE DEF Read
<1>8. Effect(r.family, r.replacement) = IF SetsNothing(r) THEN "remove" ELSE r.operation
  <2>1. CASE r.family # "modify_headers"
    BY <2>1 DEF Effect, SetsNothing, Fields
  <2>2. CASE r.family = "modify_headers"
    <3>1. r.operation = "remove" => r.replacement = <<>>
      BY <2>2 DEF Accepted, Valid, Fields
    <3>2. r.operation \in {"set", "remove"}
      BY DEF Fields
    <3> QED BY <2>2, <3>1, <3>2 DEF Effect, SetsNothing
  <2> QED BY <2>1, <2>2
<1>9. /\ p.filter = Filter(r) /\ p.subject = Subject(r) /\ p.replacement = Replacement(r)
  BY <1>1
<1> QED BY <1>3, <1>4, <1>5, <1>6, <1>7, <1>8, <1>9 DEF Asked

\* The string compiled is the request's, and what is loaded was accepted.
OnItsWay ==
    /\ stage = "compiled" =>
           option = Join(Filter(request), Subject(request), Replacement(request))
    /\ stage \in {"compiled", "loaded"} => Accepted(request)

IInv == TypeOK /\ OnItsWay /\ RuleMeansRequest

LEMMA Invariance == Spec => []IInv
<1>1. Init => IInv
  <2> SUFFICES ASSUME Init PROVE IInv
    OBVIOUS
  <2>1. <<>> \in Text
    BY DEF Text
  <2> QED BY <2>1 DEF Init, IInv, TypeOK, OnItsWay, RuleMeansRequest, NoRule, Rule
<1>2. IInv /\ [Next]_vars => IInv'
  <2> SUFFICES ASSUME IInv, [Next]_vars PROVE IInv'
    OBVIOUS
  <2> USE DEF IInv
  <2>1. request \in Fields
    BY RequestsAssumption DEF TypeOK
  <2>2. CASE Compile
    <3>1. Join(Filter(request), Subject(request), Replacement(request)) \in Text
      BY <2>1, <2>2, PartsAreTexts, JoinParses DEF Compile, Accepted
    <3> QED BY <2>2, <3>1 DEF Compile, TypeOK, OnItsWay, RuleMeansRequest
  <2>3. CASE Refuse
    BY <2>3 DEF Refuse, TypeOK, OnItsWay, RuleMeansRequest
  <2>4. CASE Load
    <3>1. rule' = Asked(request)
      BY <2>1, <2>4, AcceptedMeansItself DEF Load, OnItsWay
    <3>2. rule' \in Rule
      BY <2>1, <3>1, PartsAreTexts DEF Rule, Asked, Fields
    <3> QED BY <2>4, <3>1, <3>2 DEF Load, TypeOK, OnItsWay, RuleMeansRequest, Asked
  <2>5. CASE UNCHANGED vars
    BY <2>5 DEF vars, TypeOK, OnItsWay, RuleMeansRequest
  <2> QED BY <2>2, <2>3, <2>4, <2>5 DEF Next
<1> QED BY <1>1, <1>2, PTL DEF Spec

\* The types are right, of texts of any length.
THEOREM TypeCorrect == Spec => []TypeOK
<1>1. IInv => TypeOK
  BY DEF IInv
<1> QED BY <1>1, Invariance, PTL

\* A rule of any family does what the agent asked for, whatever its fields
\* hold and however long they are: what engine.py escapes and joins is what
\* parse_spec and the decoder give back.  A set of the empty value is named
\* as the exception it is.
THEOREM RulesMeanRequests == Spec => []RuleMeansRequest
<1>1. IInv => RuleMeansRequest
  BY DEF IInv
<1> QED BY <1>1, Invariance, PTL

\* No header value gets a control character across, raw or escaped
\* (_reject_control_bytes, and the check for raw line ends in schemas/rules.py
\* for the one the decoder swallows).
THEOREM HeadersStayOneLine == Spec => []HeaderStaysOneLine
<1>1. IInv => HeaderStaysOneLine
  <2> SUFFICES ASSUME IInv, stage = "loaded", request.family = "modify_headers"
               PROVE  ToSet(rule.replacement) \cap Control = {}
    BY DEF HeaderStaysOneLine
  <2> DEFINE text == request.replacement
  <2>1. text \in Text /\ rule.replacement = text
    BY RequestsAssumption, PartsAreTexts DEF IInv, TypeOK, RuleMeansRequest
  <2>2. Accepted(request)
    BY DEF IInv, OnItsWay
  <2>3. CASE text = <<>>
    <3>1. DOMAIN <<>> = {}
      OBVIOUS
    <3> QED BY <2>1, <2>3, <3>1 DEF ToSet
  <2>4. CASE text # <<>>
    <3>1. ToSet(Decode(text)) \cap Control = {}
      BY <2>2, <2>4 DEF Accepted, HarmlessValue
    <3>2. Newline \notin ToSet(text)
      BY <2>2 DEF Accepted, Valid, NoRawNewline
    <3>3. (ToSet(text) \cap Control) \ {Newline} \subseteq ToSet(Decode(text))
      BY <2>1, ControlSurvives
    <3> QED BY <2>1, <3>1, <3>2, <3>3
  <2> QED BY <2>3, <2>4
<1> QED BY <1>1, Invariance, PTL

=============================================================================
