--------------------------- MODULE MCRetrySchedule ---------------------------
(* Instances of RetrySchedule for TLC: payments due at midnight, in the      *)
(* morning and just before midnight, off and on cron's minutes; failures at  *)
(* once, after some minutes and when the waiter gives up after a day.        *)
EXTENDS RetrySchedule

MCPayAts == {0, 603, DAY - 3}
MCFailureDelays == {0, 7, DAY + 60}
MCOutages == {TwelveHours - 20, 2 * DAY}
==============================================================================
