------------------------- MODULE MCRecurringCalendar -------------------------
(* An instance of RecurringCalendar for TLC: payments created around the ends  *)
(* of months, in the morning or the evening, over the end of a year and two    *)
(* Februaries, the second of 29 days.                                          *)
EXTENDS RecurringCalendar

MCCreatedAts ==
  {Instant(1, d, 0) : d \in {1, 14, 28}} \cup {Instant(0, d, 1) : d \in {29, 30, 31}}
MCUntils == {Instant(14, 29, 0), Instant(3, 30, 1)}
==============================================================================
