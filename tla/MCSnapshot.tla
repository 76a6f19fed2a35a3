----------------------------- MODULE MCSnapshot -----------------------------
(* Instances of Snapshot for TLC: a program in which main calls a and c, *)
(* and a calls b.                                                          *)
EXTENDS Snapshot, TLC

CONSTANTS w1, f1, f2, f3
MCFrames == {f1, f2, f3}
FrameSymmetry == Permutations(MCFrames)

MCCalls == {<<"main", "a">>, <<"a", "b">>, <<"main", "c">>}
MCCodes == {"main", "a", "b", "c"}
MCEntries == {"main"}
=============================================================================
