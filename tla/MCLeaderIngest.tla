--------------------------- MODULE MCLeaderIngest ---------------------------
(* Viewers are interchangeable: no property names one, none is temporal.      *)
EXTENDS LeaderIngest, TLC

ViewerSymmetry == Permutations(Viewers)
==============================================================================
