----------------------------- MODULE WallClock -----------------------------
(***************************************************************************)
(* The clock that handlers read with Utc::now() and PostgreSQL with NOW(). *)
(***************************************************************************)
EXTENDS Naturals

CONSTANT MaxTime   \* bound of the clock
ASSUME WallClockAssumption == MaxTime \in Nat

VARIABLE clock

Times == 0..MaxTime

Tick == clock < MaxTime /\ clock' = clock + 1
=============================================================================
