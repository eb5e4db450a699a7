----------------------------- MODULE MCConsole -----------------------------
(* The live table for TLC: the slots are interchangeable, the revisions, being *)
(* numbers, are not made so.                                                   *)
EXTENDS ConsoleProperties, TLC

SlotSymmetry == Permutations(Slots)
=============================================================================
