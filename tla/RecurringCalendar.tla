-------------------------- MODULE RecurringCalendar --------------------------
(***************************************************************************)
(* A recurring payment on the calendar: the days on which                  *)
(* calculateNextPayAt puts it, when it is created and after each success,  *)
(* and the executor's guard that a payment is not made twice for a month.  *)
(* A date is a month (counted from some January) and a day of it, an       *)
(* instant a number of ticks; all times are UTC.  Each execution here is a *)
(* successful one that is mined at once: attempts, failures and the waiter *)
(* are in ScheduledPayments and RetrySchedule.                             *)
(***************************************************************************)
EXTENDS Integers, FiniteSets

CONSTANTS
  RecurringDays,  \* values of recurringDayOfMonth
  CreatedAts,     \* instants at which the payment is created
  Untils,         \* instants of recurringUntil
  Delays,         \* bound: ticks after payAt at which the executor runs
  Validities,   \* values of validForDays, from the contract
  LeapMonths,     \* the Februaries with 29 days
  LastMonth,      \* bound: the months the calendar has
  TicksInDay             \* ticks in a day

ASSUME CalendarAssumption ==
  /\ RecurringDays \subseteq 1..31 /\ Validities \subseteq Nat \ {0}
  /\ Delays \subseteq Nat /\ CreatedAts \subseteq Nat /\ Untils \subseteq Nat
  /\ LeapMonths \subseteq {m \in 0..LastMonth : m % 12 = 1}
  /\ LastMonth \in Nat /\ TicksInDay \in Nat \ {0}

VARIABLES
  day,      \* recurringDayOfMonth
  until,    \* recurringUntil
  valid,    \* validForDays
  payAt,
  clock,    \* clock.utcNow()
  last,     \* startedAt of the last success, once there is one
  paidFor,  \* the payAts of the successes
  created   \* when the payment was created

terms == <<day, until, valid, created>>
calendarVars == <<terms, payAt, clock, last, paidFor>>

CalendarTypeOK ==
  /\ day \in RecurringDays /\ until \in Untils /\ valid \in Validities
  /\ created \in CreatedAts
  /\ payAt \in 0..until /\ clock \in Nat /\ last \in Nat
  /\ paidFor \subseteq Nat

----------------------------------------------------------------------------
(* Dates (date-fns, external) and calculateNextPayAt. *)

\* daysInMonth, and the days before each month: of a year without a leap day,
\* and all of them.
LengthOf == <<31, 28, 31, 30, 31, 30, 31, 31, 30, 31, 30, 31>>
DaysBefore == <<0, 31, 59, 90, 120, 151, 181, 212, 243, 273, 304, 334>>
DaysInMonth(m) == IF m \in LeapMonths THEN 29 ELSE LengthOf[(m % 12) + 1]
FirstOf(m) ==
  365 * (m \div 12) + DaysBefore[(m % 12) + 1] + Cardinality({l \in LeapMonths : l < m})

\* The calendar has the days on which payments are created and end.
ASSUME CalendarCovers ==
  \A t \in CreatedAts \cup Untils : t \div TicksInDay < FirstOf(LastMonth + 1)

MonthOf(t) == CHOOSE m \in 0..LastMonth : FirstOf(m) <= t \div TicksInDay /\ t \div TicksInDay < FirstOf(m + 1)
DateOf(t) == (t \div TicksInDay) - FirstOf(MonthOf(t)) + 1
Instant(m, d, time) == (FirstOf(m) + d - 1) * TicksInDay + time
Least(a, b) == IF a < b THEN a ELSE b

\* addMonths(t, 1) and then setUTCDate to the recurring day, or to the last day
\* of a month that has no such day.
OnDay(m, t) == Instant(m, Least(day, DaysInMonth(m)), t % TicksInDay)
InAMonthOnly(t) ==
  LET m == MonthOf(t) + 1 IN Instant(m, Least(DateOf(t), DaysInMonth(m)), t % TicksInDay)
InAMonth(t) == OnDay(MonthOf(t) + 1, t)

FirstPayDayStrict(t) == IF day > DateOf(t) THEN OnDay(MonthOf(t), t) ELSE InAMonth(t)
FirstPayDay(t) == IF day >= DateOf(t) THEN OnDay(MonthOf(t), t) ELSE InAMonth(t)

CalendarInit ==
  /\ day \in RecurringDays /\ until \in Untils /\ valid \in Validities
  /\ created \in CreatedAts
  /\ payAt = FirstPayDay(created) /\ payAt <= until
  /\ clock = created /\ last = 0 /\ paidFor = {}

----------------------------------------------------------------------------

\* The fetcher's WHERE clause for a recurring payment that has not failed.
StartOfDay(t) == t - (t % TicksInDay)
Due ==
  /\ payAt > StartOfDay(clock) - valid * TicksInDay /\ payAt <= clock
  /\ StartOfDay(until) + valid * TicksInDay >= clock

\* The last success must be minDaysBetweenPayments old.
TooSoonByAMonth == paidFor # {} /\ ~(last < clock - 28 * TicksInDay)
TooSoonWrongUnit == paidFor # {} /\ ~(last < clock - (28 - valid))
TooSoon == paidFor # {} /\ ~(last < clock - (28 - valid) * TicksInDay)

ExecuteAlwaysMoves ==
  /\ Due /\ ~TooSoon
  /\ last' = clock
  /\ paidFor' = paidFor \cup {payAt}
  /\ payAt' = InAMonth(payAt)
  /\ UNCHANGED <<terms, clock>>

\* A payment is executed, succeeds and moves payAt on while that is in time.
Execute ==
  /\ Due /\ ~TooSoon
  /\ last' = clock
  /\ paidFor' = paidFor \cup {payAt}
  /\ payAt' = IF InAMonth(payAt) <= until THEN InAMonth(payAt) ELSE payAt
  /\ UNCHANGED <<terms, clock>>

\* The process dies after the success is recorded and before payAt is moved.
ExecuteAndDie ==
  /\ Due /\ ~TooSoon
  /\ last' = clock
  /\ paidFor' = paidFor \cup {payAt}
  /\ UNCHANGED <<terms, payAt, clock>>

Wait ==
  /\ \E d \in Delays : clock < payAt + d /\ clock' = payAt + d
  /\ UNCHANGED <<terms, payAt, last, paidFor>>

CalendarNext == Execute \/ ExecuteAndDie \/ Wait

CalendarSpec == CalendarInit /\ [][CalendarNext]_calendarVars

----------------------------------------------------------------------------
(* Properties. *)

\* payAt is always the recurring day, or the last day of a month without it,
\* at the time of day at which the payment was created: a short month does not
\* drag the days of later months down with it.
OnRecurringDay ==
  /\ DateOf(payAt) = Least(day, DaysInMonth(MonthOf(payAt)))
  /\ payAt % TicksInDay = created % TicksInDay

\* No month is skipped and none is paid twice: the payments made are those of
\* consecutive months from the first one, which is the first recurring day not
\* before the payment's creation.
EveryMonthOnce ==
  LET first == FirstPayDay(created)
      firstMonth == MonthOf(first)
      nextMonth == MonthOf(payAt)
      months == {MonthOf(t) : t \in paidFor}
      before == {m \in 0..LastMonth : firstMonth <= m /\ m < nextMonth}
  IN /\ created <= first
     /\ \A m \in 0..LastMonth : OnDay(m, created) >= created => firstMonth <= m
     /\ months = before \/ months = before \cup {nextMonth}
     /\ \A t \in paidFor : t = OnDay(MonthOf(t), created)

\* Nothing is executed for a payAt that was paid: the guard holds it back for
\* as long as it is fetched, which is every time after the last month's
\* payment and after a process died before moving payAt.
NotPaidTwice == [][last' # last => payAt \notin paidFor]_calendarVars

\* However late in its validity a payment was made, the guard lets the next
\* one through before that one's validity is over.
GuardLeavesTime ==
  payAt \notin paidFor /\ clock = payAt + valid * TicksInDay => ~TooSoon
==============================================================================
