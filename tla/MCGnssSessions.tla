--------------------------- MODULE MCGnssSessions ---------------------------
(***************************************************************************)
(* Tracking sessions of two clients, with two intervals.                   *)
(***************************************************************************)
EXTENDS GnssSessions

CONSTANTS c1, c2

MCClients == {c1, c2}
MCIntervals == {1, 2}
MCCallbackSets == {{"track"}, {"ni"}}

FairSpec == SessionSpec /\ SessionFairness
=============================================================================
