------------------------- MODULE MCScheduledPayments -------------------------
(* Instances of ScheduledPayments for TLC.  "bill" is a one-time payment,   *)
(* "rent" a recurring one with two cycles.                                  *)
EXTENDS ScheduledPayments

MCFirstPayAt == [p \in Payments |-> IF p \in Recurring THEN 1 ELSE MaxTime - 2]
MCRecurringUntil == [p \in Payments |-> 1 + CycleLength]
MCBackoffs == <<0, 0, 1>>
MCSlowBackoffs == <<0, 1, 1>>
MCDueAtOnce == [p \in Payments |-> 1]

\* One payment at a time, of either kind: the state space of both together is
\* the product of theirs.
OnePaymentInit ==
  Init /\ \E p \in Payments : \A q \in Payments : payment[q].created <=> p = q
OnePaymentSpec == OnePaymentInit /\ [][Next]_vars
==============================================================================
