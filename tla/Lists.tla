------------------------------- MODULE Lists --------------------------------
(***************************************************************************)
(* What the code does with Python lists, as operators over sequences.      *)
(***************************************************************************)
EXTENDS Integers, Sequences, SequencesExt

\* [x for x in items if ...], the items that pass the test given as a set.
Selected(items, passing) ==
    FoldLeft(LAMBDA out, x : IF x \in passing THEN Append(out, x) ELSE out, <<>>, items)

=============================================================================
