---------------------------- MODULE MCRaceControl ----------------------------
EXTENDS RaceControl

(* A text, and another one with a line. *)
SomePatches == {[text |-> 1], [text |-> 2, line |-> 1]}

Symmetry == Permutations(Ids)
=============================================================================
