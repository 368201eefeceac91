----------------------------- MODULE MCSyncReq -----------------------------
(* SyncReq on a small instance: more callers than slots, so that the slots *)
(* run out, and two keys, so that calls compete for one key and another    *)
(* key's answers pass them by.                                             *)
EXTENDS SyncReq, TLC

CONSTANTS c1, c2, c3, k1, k2

MCCallers == {c1, c2, c3}
MCTwoCallers == {c1, c2}
MCKeys == {k1, k2}

Symmetry == Permutations(MCCallers) \cup Permutations(MCKeys)
=============================================================================
