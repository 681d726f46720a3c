---------------------------- MODULE MCBlocksDaily ---------------------------
(* One upload at a time, again and again, and two job slots: two chains of    *)
(* jobs that overlap, or one that adds the next day's job to the other slot.  *)
EXTENDS BlocksDaily, TLC

CONSTANTS r1, s1, s2

MCSymmetry == Permutations(Slots)
=============================================================================
