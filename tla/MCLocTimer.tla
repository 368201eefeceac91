----------------------------- MODULE MCLocTimer -----------------------------
(* LocTimer on small instances: two timers and three starts, so that one   *)
(* is stopped and started again while the other expires.                   *)
EXTENDS LocTimer

CONSTANTS t1, t2

MCTimers == {t1, t2}
MCDelays == {0, 1, 2}
=============================================================================
