------------------------------- MODULE MCAgps -------------------------------
(* Agps on small instances: three handles share one connection, enough for *)
(* one that waits for the close, one that comes while it waits, and one    *)
(* that leaves.                                                            *)
EXTENDS Agps, TLC

CONSTANTS h1, h2, h3

MCHandles == {h1, h2, h3}
MCTwoHandles == {h1, h2}
MCSuplTypes == {"SUPL", "SUPL_ES"}

Symmetry == Permutations(MCHandles)
=============================================================================
