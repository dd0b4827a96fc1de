-------------------------- MODULE MCTaskScheduler ---------------------------
(* The instance of TaskScheduler that TLC checks. *)
EXTENDS TaskScheduler

TwoSockets == {1, 2}

\* Due at once, or later than the loop can oversleep.
TwoDelays == {0, 2}

OneSetback == {1}
=============================================================================
