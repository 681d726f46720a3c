------------------------- MODULE MCVerifiedAssets --------------------------
(* Lists that add, change and drop an asset, and leave out a field that the  *)
(* other gives; a second of two ticks.                                       *)
EXTENDS VerifiedAssets, TLC

CONSTANTS a1, a2, s1, s2, x1, p1, p2, c1

EntryFor(a, s, x) == [identifier |-> a, symbol |-> s, extra |-> x]

MCLists == {<<EntryFor(a1, s1, x1), EntryFor(a2, s1, Undefined)>>,
            <<EntryFor(a1, s2, Undefined)>>}

MCSymmetry == Permutations({p1, p2})
=============================================================================
