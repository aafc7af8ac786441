----------------------------- MODULE MCConcurrent -----------------------------
(* Instances for TLC of what is done again and again: runs of the executor that *)
(* overlap, the election of one of two Discord bots, and a payment's months.    *)
(* They do not interact, so that a behaviour is one of a part.                  *)
EXTENDS MCScheduledPayments, DiscordBots, MCRecurringCalendar, TLC

VARIABLE part

\* Only the runs of the executor have a payment of ScheduledPayments.
ConcurrentInit ==
  /\ part \in {"runs", "bots", "calendar"} /\ Init /\ BotsInit /\ CalendarInit
  /\ \A p \in Payments : payment[p].created <=> part = "runs"
  /\ part # "calendar" =>
       day = 29 /\ until = Instant(14, 29, 0) /\ valid = 3 /\ created = Instant(0, 29, 1)

ConcurrentNext ==
  /\ UNCHANGED part
  /\ \/ part = "runs" /\ Next /\ UNCHANGED <<botVars, calendarVars>>
     \/ part = "bots" /\ BotsNext /\ UNCHANGED <<vars, calendarVars>>
     \/ part = "calendar" /\ CalendarNext /\ UNCHANGED <<vars, botVars>>

ConcurrentSpec == ConcurrentInit /\ [][ConcurrentNext]_<<part, vars, botVars, calendarVars>>

\* The same two values are the runs and the bots.
ConcurrentSymmetry == Permutations(Executors)
==============================================================================
