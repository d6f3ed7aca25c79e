-------------------------- MODULE MCTimestampClock --------------------------
(* TLC instance of TimestampClock.  -1 is a frame without a duration; a        *)
(* duration of 0 is one that rounds down to no tick.                           *)
EXTENDS TimestampClock

SomeLengths == {-1, 0, 3}
=============================================================================
