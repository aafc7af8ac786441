---------------------------- MODULE RetrySchedule ----------------------------
(***************************************************************************)
(* The retry schedule of one due payment with the code's real numbers, in  *)
(* minutes: cron runs the executor every CRON minutes, the fetcher says    *)
(* whether the payment is due, each attempt fails some time after it       *)
(* started, and calculateNextRetryAttemptDate says when the next may       *)
(* start.  The steps of an attempt, and the gap between the failed write   *)
(* and its backoff, are in ScheduledPayments; here they are one step.      *)
(***************************************************************************)
EXTENDS Integers, Sequences

CONSTANTS
  ValidForDays,    \* values of validForDays on the scheduler's networks
  PayAts,          \* values of payAt, in minutes after some midnight
  FailureDelays,   \* minutes from the start of an attempt to its failure
  Outages,         \* minutes for which cron may not run
  MaxOutages,      \* bound on the number of outages
  NULL

ASSUME ScheduleAssumption ==
  /\ ValidForDays \subseteq Nat \ {0} /\ PayAts \subseteq Nat
  /\ FailureDelays \subseteq Nat /\ Outages \subseteq Nat \ {0}
  /\ MaxOutages \in Nat /\ NULL \notin Int

CRON == 5             \* CRON_TAB: */5 * * * *
DAY == 24 * 60
TwelveHours == 12 * 60

VARIABLES
  validForDays, payAt,
  now,         \* clock.utcNow()
  count,       \* scheduledPaymentAttemptsInLastPaymentCycleCount
  nextRetry,   \* nextRetryAttemptAt
  attempting,  \* whether an attempt is in progress
  started,     \* start of the last attempt
  ended,       \* end of the last attempt
  outages,     \* outages so far
  slow         \* whether an attempt took time to fail

terms == <<validForDays, payAt>>
vars == <<terms, now, count, nextRetry, attempting, started, ended, outages, slow>>

TypeOK ==
  /\ validForDays \in ValidForDays /\ payAt \in PayAts
  /\ now \in Nat /\ now % CRON = 0 /\ count \in Nat
  /\ nextRetry \in Nat \cup {NULL}
  /\ attempting \in BOOLEAN /\ slow \in BOOLEAN
  /\ started \in Nat /\ ended \in Nat /\ outages \in 0..MaxOutages

----------------------------------------------------------------------------
(* The fetcher. *)

\* calculateRetryBackoffsInMinutes
FixedPart == <<0, 5, 60, 360>>
FixedPartSum == FixedPart[1] + FixedPart[2] + FixedPart[3] + FixedPart[4]
Every12Hours(chunks) == [i \in 1..chunks |-> TwelveHours]
BackoffsForgetFixed(days) == FixedPart \o Every12Hours((days * DAY) \div TwelveHours)
Backoffs(days) == FixedPart \o Every12Hours((days * DAY - FixedPartSum) \div TwelveHours)

Expiry == payAt + validForDays * DAY

\* calculateNextRetryAttemptDate at time t
NextRetryOffByOne(t) ==
  IF Expiry <= t \/ count + 1 >= Len(Backoffs(validForDays)) THEN NULL
  ELSE t + Backoffs(validForDays)[count + 1]
NextRetryTooEarly(t) ==
  IF Expiry <= t \/ count >= Len(Backoffs(validForDays)) THEN NULL
  ELSE t + Backoffs(validForDays)[count]
NextRetryAttemptDate(t) ==
  IF Expiry <= t \/ count >= Len(Backoffs(validForDays)) THEN NULL
  ELSE t + Backoffs(validForDays)[count + 1]

\* retriesLeft: NULL says that there is no need to retry.
RetriesLeft ==
  IF count = 0 /\ nextRetry = NULL THEN NULL
  ELSE IF Len(Backoffs(validForDays)) > count THEN Len(Backoffs(validForDays)) - count
  ELSE 0

\* What the WHERE clause says about time.
TruncDay(t) == t - (t % DAY)
IsDue ==
  /\ payAt > TruncDay(now) - validForDays * DAY /\ payAt <= now
  /\ \/ nextRetry = NULL /\ count = 0
     \/ nextRetry # NULL /\ now >= nextRetry

----------------------------------------------------------------------------

\* The first run of cron at or after t.
NextCron(t) == CRON * ((t + CRON - 1) \div CRON)

Init ==
  /\ validForDays \in ValidForDays /\ payAt \in PayAts
  /\ now = NextCron(payAt)
  /\ count = 0 /\ nextRetry = NULL /\ attempting = FALSE
  /\ started = 0 /\ ended = 0 /\ outages = 0 /\ slow = FALSE

\* The executor finds the payment due: it creates an attempt and counts it.
Attempt ==
  /\ ~attempting /\ IsDue
  /\ attempting' = TRUE
  /\ count' = count + 1
  /\ started' = now
  /\ UNCHANGED <<terms, now, nextRetry, ended, outages, slow>>

\* The attempt fails, at once or when its waiter hears of it or gives up.
Fail ==
  /\ attempting
  /\ \E d \in FailureDelays :
       /\ ended' = now + d
       /\ nextRetry' = NextRetryAttemptDate(now + d)
       /\ now' = NextCron(now + d)
       /\ slow' = (slow \/ d > 0)
  /\ attempting' = FALSE
  /\ UNCHANGED <<terms, count, started, outages>>

\* Cron finds nothing to do until the retry is due.
Sleep ==
  /\ ~attempting /\ ~IsDue
  /\ nextRetry # NULL /\ now < nextRetry
  /\ now' = NextCron(nextRetry)
  /\ UNCHANGED <<terms, count, nextRetry, attempting, started, ended, outages, slow>>

Outage ==
  /\ ~attempting /\ outages < MaxOutages
  /\ count = 0 \/ nextRetry # NULL
  /\ \E d \in Outages : now' = NextCron(now + d)
  /\ outages' = outages + 1
  /\ UNCHANGED <<terms, count, nextRetry, attempting, started, ended, slow>>

Next == Attempt \/ Fail \/ Sleep \/ Outage

Spec == Init /\ [][Next]_vars

----------------------------------------------------------------------------
(* Properties. *)

\* No further attempt will be made.
Over == ~attempting /\ ~IsDue /\ (nextRetry = NULL \/ now >= nextRetry)

\* "Then every 12 hours until we reach the end of validForDays": when cron runs
\* and attempts fail at once, the last attempt is still inside the validity and
\* a further twelve hours would not be.  For three days that takes nine attempts,
\* and not the "maximum 8 failed attempts" of the fetcher's other comment: eight
\* is the number of retries.
ScheduleFillsValidity ==
  Over /\ ~slow /\ outages = 0 => started <= Expiry /\ Expiry < started + TwelveHours

\* retriesLeft, which the API shows, agrees with what the fetcher will do: it is
\* positive while a retry is scheduled, and a payment that is not retried has
\* none left or has expired.  When cron runs and attempts fail at once, every
\* retry that was shown has been made at the end.
RetriesLeftIsTrue ==
  /\ ~attempting /\ count > 0 =>
       /\ nextRetry # NULL => RetriesLeft # NULL /\ RetriesLeft > 0
       /\ nextRetry = NULL => RetriesLeft = 0 \/ ended >= Expiry
  /\ Over /\ ~slow /\ outages = 0 => RetriesLeft = 0

\* The waits of the fetcher's unit test: 5 minutes after the first failure, then
\* 1 hour, 6 hours and 12 hours.  The first entry of the schedule, 0, is no wait
\* of any retry: the count by which it is looked up includes the failed attempt.
WaitAfter(n) ==
  CASE n = 1 -> 5 [] n = 2 -> 60 [] n = 3 -> 6 * 60 [] OTHER -> TwelveHours

\* No retry starts before the wait of the failure that it follows is over, whether
\* that failure was heard of late or cron did not run; and without outages it
\* starts at the first run of cron after it.
RetryAfterWait ==
  [][Attempt /\ count > 0 =>
       /\ now >= ended + WaitAfter(count)
       /\ outages = 0 => now = NextCron(ended + WaitAfter(count))]_vars

\* What the comment beside the schedule says of it: "Retry immediately, then after
\* 5 minutes, 1 hour, 6 hours", then every 12 hours.
DocumentedWait(n) == IF n = 1 THEN 0 ELSE WaitAfter(n - 1)

\* Without outages a retry is made within one period of cron after the wait that is
\* documented for it.
RetriesAsDocumented ==
  [][Attempt /\ count > 0 /\ outages = 0 => now <= ended + DocumentedWait(count) + CRON]_vars

\* A payment is attempted only while it is valid ("validForDays tells us for how
\* many days the payment is still valid to retry").
AttemptsWhileValid == [][Attempt => now <= Expiry]_vars
==============================================================================
