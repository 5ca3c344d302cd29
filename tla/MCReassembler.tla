---------------------------- MODULE MCReassembler ----------------------------
(* Small buses for TLC.                                                    *)
EXTENDS Reassembler, TLC

\* The fragments of a program this crate did not write, all under one number:
\* one with the whole payload, two that start together and leave a hole, one of a
\* different shape, and one that goes past its own end.
StrayFragment(total, count, index, offset, len) ==
  [whole |-> FALSE, from |-> "other", seq |-> 0, total |-> total, offset |-> offset,
   index |-> index, count |-> count, named |-> index = 0, len |-> len,
   of |-> [by |-> <<"other", 1>>, nth |-> 0, name |-> 2, len |-> total]]

SomeStrays ==
  { StrayFragment(2, 2, 0, 0, 2), StrayFragment(2, 2, 0, 1, 1),
    StrayFragment(2, 2, 1, 1, 1), StrayFragment(6, 2, 1, 2, 4),
    StrayFragment(2, 2, 1, 1, 2) }

Symmetry == Permutations(Workers)

=============================================================================
