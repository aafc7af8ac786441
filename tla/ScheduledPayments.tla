-------------------------- MODULE ScheduledPayments --------------------------
(***************************************************************************)
(* Execution of scheduled payments by the hub: the executor job that cron  *)
(* starts (fetch the due payments, attempt them one by one), the on-chain  *)
(* execution waiter job of each attempt, the user's cancelation, and the   *)
(* scheduled payment contract on the chain (external).  A payment is       *)
(* created here when its creation was mined (creationBlockNumber is set).  *)
(*                                                                         *)
(* Every await of the code is a step boundary.  A database write that      *)
(* fails, and a process that dies, are steps counted by faults.  The unit  *)
(* of time is a tick; DAY ticks make a day.                                *)
(***************************************************************************)
EXTENDS Integers, FiniteSets, Sequences

CONSTANTS
  Payments,        \* ids of scheduled payments
  Recurring,       \* those with a recurringDayOfMonth
  Executors,       \* runs of execute-scheduled-payments that may overlap
  MaxAttempts,     \* bound: attempts that fit in the attempts table
  FirstPayAt,      \* payAt of each payment at creation
  RecurringUntil,  \* end of each recurring payment
  CycleLength,     \* ticks from one payAt to the next (a month)
  DAY,             \* ticks in a day
  ValidForDays,    \* days during which a due payment may be retried
  MinMonthDays,    \* the 28 of the executor's minDaysBetweenPayments
  RetryBackoffs,   \* calculateRetryBackoffsInMinutes(ValidForDays), in ticks
  FetchLimit,      \* the fetcher's limit
  MaxJobTime,      \* ticks that one run of a job may last
  MaxTime,         \* bound on the clock
  MaxFaults,       \* bound on crashes and failed database writes
  NULL

ASSUME PaymentsAssumption == Recurring \subseteq Payments
ASSUME TimeAssumption ==
  /\ FirstPayAt \in [Payments -> Nat] /\ RecurringUntil \in [Payments -> Nat]
  /\ CycleLength \in Nat \ {0} /\ DAY \in Nat \ {0} /\ ValidForDays \in Nat
  /\ MinMonthDays \in Nat /\ MaxTime \in Nat /\ MaxJobTime \in Nat /\ MaxFaults \in Nat
  /\ RetryBackoffs \in Seq(Nat) /\ FetchLimit \in Nat \ {0}
ASSUME AttemptsAssumption == MaxAttempts \in Nat \ {0}
ASSUME NullAssumption == NULL \notin Int /\ NULL \notin Payments

AttemptIds == 1..MaxAttempts
TimeOrNull == Nat \cup {NULL}

VARIABLES
  now,       \* clock.utcNow()
  payment,   \* rows of scheduled_payments
  attempt,   \* rows of scheduled_payment_attempts
  exec,      \* control state and locals of each executor run
  waiter,    \* the waiter job of each attempt, and its control state
  tx,        \* the execution transaction of each attempt
  paid,      \* the cycles of each payment that the contract has paid
  cancelTx,  \* the cancelation transaction of each payment
  faults

vars == <<now, payment, attempt, exec, waiter, tx, paid, cancelTx, faults>>
dbVars == <<payment, attempt>>
chainVars == <<tx, paid, cancelTx>>

----------------------------------------------------------------------------
(* Types. *)

PaymentRow == [created: BOOLEAN, payAt: Nat, canceled: BOOLEAN, count: 0..MaxAttempts,
               nextRetry: TimeOrNull, last: AttemptIds \cup {NULL}]
AttemptRow == [payment: Payments \cup {NULL},
               status: {"none", "inProgress", "succeeded", "failed"},
               startedAt: Nat, endedAt: Nat, hash: BOOLEAN]
\* What the fetcher returns: the row as it was read, and what it sorts by.
Fetched == [id: Payments, payAt: Nat, failed: SUBSET Nat]
ExecPc == {"idle", "rows", "next", "check", "recent", "create", "count", "record",
           "submit", "save", "enqueue", "fail", "backoff"}
ExecState == [pc: ExecPc, since: Nat, batch: SUBSET Fetched, cur: Payments \cup {NULL},
              payAt: Nat, att: AttemptIds \cup {NULL}, count: 0..MaxAttempts]
WaiterPc == {"none", "queued", "waiting", "succeed", "reset", "advance",
             "fail", "backoff", "done"}
WaiterState == [pc: WaiterPc, since: Nat, payAt: Nat, count: 0..MaxAttempts]
TxState == {"none", "pending", "mined", "reverted", "dropped"}

TypeOK ==
  /\ now \in 0..MaxTime
  /\ payment \in [Payments -> PaymentRow]
  /\ attempt \in [AttemptIds -> AttemptRow]
  /\ exec \in [Executors -> ExecState]
  /\ waiter \in [AttemptIds -> WaiterState]
  /\ tx \in [AttemptIds -> TxState]
  /\ paid \in [Payments -> SUBSET Nat]
  /\ cancelTx \in [Payments -> {"none", "pending", "mined"}]
  /\ faults \in 0..MaxFaults

\* An executor run at the head of its loop, with the payments still to attempt.
LoopHead(since, batch) ==
  [pc |-> IF batch = {} THEN "idle" ELSE "next", since |-> IF batch = {} THEN 0 ELSE since,
   batch |-> batch, cur |-> NULL, payAt |-> 0, att |-> NULL, count |-> 0]
Idle == LoopHead(0, {})

\* A waiter job that is not running.
Job(pc) == [pc |-> pc, since |-> 0, payAt |-> 0, count |-> 0]

Init ==
  /\ now = 0
  /\ \E created \in [Payments -> BOOLEAN] : payment = [p \in Payments |->
       [created |-> created[p], payAt |-> FirstPayAt[p], canceled |-> FALSE, count |-> 0,
        nextRetry |-> NULL, last |-> NULL]]
  /\ attempt = [a \in AttemptIds |->
       [payment |-> NULL, status |-> "none", startedAt |-> 0, endedAt |-> 0,
        hash |-> FALSE]]
  /\ exec = [e \in Executors |-> Idle]
  /\ waiter = [a \in AttemptIds |-> Job("none")]
  /\ tx = [a \in AttemptIds |-> "none"]
  /\ paid = [p \in Payments |-> {}]
  /\ cancelTx = [p \in Payments |-> "none"]
  /\ faults = 0

----------------------------------------------------------------------------
(* Queries on the attempts table. *)

AttemptsOf(p) == {a \in AttemptIds : attempt[a].payment = p}
WithStatusBroken(p, s) ==
  {a \in AttemptsOf(p) : attempt[a].status = s /\ (s = "inProgress" => attempt[a].hash)}
WithStatus(p, s) == {a \in AttemptsOf(p) : attempt[a].status = s}

\* date_trunc('day', t)
TruncDay(t) == t - (t % DAY)

\* The starts of the failed attempts of the payment's cycle.  The query sorts by
\* the last of them, and payments that have none come first.
FailedStarts(p) ==
  {attempt[a].startedAt :
     a \in {b \in WithStatus(p, "failed") : attempt[b].startedAt >= payment[p].payAt}}
NotAfter(starts, others) == \A t \in starts : \E u \in others : t <= u

\* The WHERE clause of fetchScheduledPayments.
RetryIsDue(p) ==
  \/ payment[p].nextRetry = NULL /\ payment[p].count = 0
  \/ payment[p].nextRetry # NULL /\ now >= payment[p].nextRetry

ExcludingBroken(p) == {"inProgress"}
Excluding(p) == IF p \in Recurring THEN {"inProgress"}
                ELSE {"succeeded", "inProgress"}

IsDueUndated(p) ==
  /\ payment[p].created /\ ~payment[p].canceled
  /\ payment[p].payAt > TruncDay(now) - ValidForDays * DAY
  /\ RetryIsDue(p) /\ \A s \in Excluding(p) : WithStatus(p, s) = {}
IsDue(p) ==
  /\ payment[p].created /\ ~payment[p].canceled
  /\ payment[p].payAt > TruncDay(now) - ValidForDays * DAY
  /\ payment[p].payAt <= now
  /\ RetryIsDue(p)
  /\ \A s \in Excluding(p) : WithStatus(p, s) = {}
  /\ p \in Recurring =>
       TruncDay(RecurringUntil[p]) + ValidForDays * DAY >= now

\* The first query returns an id and what it is sorted by, no more of the row.
AsFetched(p) == [id |-> p, payAt |-> 0, failed |-> FailedStarts(p)]

\* LIMIT keeps the first of the due payments.
Batches ==
  LET due == {AsFetched(p) : p \in {q \in Payments : IsDue(q)}}
  IN {b \in SUBSET due :
        /\ Cardinality(b) = IF Cardinality(due) < FetchLimit
                            THEN Cardinality(due) ELSE FetchLimit
        /\ \A r \in b, s \in due \ b : NotAfter(r.failed, s.failed)}

\* calculateNextRetryAttemptDate of a row with this payAt and attempts count.
NextRetryAttemptDate(payAt, count) ==
  IF \/ payAt + ValidForDays * DAY <= now
     \/ count >= Len(RetryBackoffs)
  THEN NULL
  ELSE now + RetryBackoffs[count + 1]

\* The update that ends an attempt.
EndAttempt(a, status) ==
  attempt' = [attempt EXCEPT ![a].status = status, ![a].endedAt = now]

----------------------------------------------------------------------------
(* The executor: executeScheduledPayments and executePayment. *)

Goto(e, pc) == exec' = [exec EXCEPT ![e].pc = pc]

\* executePayment returned or threw: the loop goes on with what is left.
LeavePayment(e) ==
  exec' = [exec EXCEPT ![e] = LoopHead(exec[e].since, exec[e].batch)]

\* The query for the ids of the payments that are due.
Fetch(e) ==
  /\ exec[e].pc = "idle"
  /\ \E b \in Batches :
       exec' = [exec EXCEPT ![e] = IF b = {} THEN Idle
                                   ELSE [LoopHead(now, b) EXCEPT !.pc = "rows"]]
  /\ UNCHANGED <<now, dbVars, waiter, chainVars, faults>>

\* The query for the rows with these ids, whether or not they are still due.
AsRead(r) == [r EXCEPT !.payAt = payment[r.id].payAt]
ReadRows(e) ==
  /\ exec[e].pc = "rows"
  /\ exec' = [exec EXCEPT ![e] =
               LoopHead(exec[e].since, {AsRead(r) : r \in exec[e].batch})]
  /\ UNCHANGED <<now, dbVars, waiter, chainVars, faults>>

\* The loop takes the next row of the batch.
PickNext(e) ==
  /\ exec[e].pc = "next"
  /\ \E r \in exec[e].batch :
       /\ \A s \in exec[e].batch : NotAfter(r.failed, s.failed)
       /\ exec' = [exec EXCEPT ![e].pc = "check", ![e].batch = @ \ {r},
                               ![e].cur = r.id, ![e].payAt = r.payAt]
  /\ UNCHANGED <<now, dbVars, waiter, chainVars, faults>>

CheckInProgress(e) ==
  /\ exec[e].pc = "check"
  /\ IF WithStatus(exec[e].cur, "inProgress") # {}
     THEN LeavePayment(e)
     ELSE Goto(e, IF exec[e].cur \in Recurring THEN "recent" ELSE "create")
  /\ UNCHANGED <<now, dbVars, waiter, chainVars, faults>>

\* The last success, by endedAt (successes of one tick: the later attempt),
\* must be at least minDaysBetweenPayments old.
EndedBefore(a, b) ==
  \/ attempt[a].endedAt < attempt[b].endedAt
  \/ attempt[a].endedAt = attempt[b].endedAt /\ a <= b

LastSuccess(p) ==
  CHOOSE b \in WithStatus(p, "succeeded") :
    \A a \in WithStatus(p, "succeeded") : EndedBefore(a, b)

TooRecent(a) ==
  ~(attempt[a].startedAt < now - (MinMonthDays - ValidForDays) * DAY)

CheckLastSuccess(e) ==
  /\ exec[e].pc = "recent"
  /\ IF /\ WithStatus(exec[e].cur, "succeeded") # {}
        /\ TooRecent(LastSuccess(exec[e].cur))
     THEN LeavePayment(e)
     ELSE Goto(e, "create")
  /\ UNCHANGED <<now, dbVars, waiter, chainVars, faults>>

\* The attempts are numbered in the order in which they are created.
NewAttempt ==
  CHOOSE a \in AttemptIds :
    /\ attempt[a].status = "none"
    /\ \A b \in AttemptIds : attempt[b].status = "none" => a <= b

\* Without a gas price above 0 and a token rate no attempt is created.
NoQuote(e) ==
  /\ exec[e].pc = "create"
  /\ LeavePayment(e)
  /\ UNCHANGED <<now, dbVars, waiter, chainVars, faults>>

CreateAttempt(e) ==
  /\ exec[e].pc = "create"
  /\ \E a \in AttemptIds : attempt[a].status = "none"
  /\ attempt' = [attempt EXCEPT ![NewAttempt] =
       [payment |-> exec[e].cur, status |-> "inProgress", startedAt |-> now,
        endedAt |-> 0, hash |-> FALSE]]
  /\ exec' = [exec EXCEPT ![e].pc = "count", ![e].att = NewAttempt]
  /\ UNCHANGED <<now, payment, waiter, chainVars, faults>>

\* Counts with the payAt of the row that was fetched, not with a fresh one.
CountAttempts(e) ==
  /\ exec[e].pc = "count"
  /\ exec' = [exec EXCEPT ![e].pc = "record", ![e].count =
       Cardinality({a \in AttemptsOf(exec[e].cur) :
                      attempt[a].startedAt >= exec[e].payAt})]
  /\ UNCHANGED <<now, dbVars, waiter, chainVars, faults>>

\* The update returns the row, which the rest of executePayment uses.
RecordAttempt(e) ==
  /\ exec[e].pc = "record"
  /\ payment' = [payment EXCEPT ![exec[e].cur].last = exec[e].att,
                                ![exec[e].cur].count = exec[e].count]
  /\ exec' = [exec EXCEPT ![e].pc = "submit", ![e].payAt = payment[exec[e].cur].payAt]
  /\ UNCHANGED <<now, attempt, waiter, chainVars, faults>>

\* The contract (external): it pays each cycle of a payment at most once, from
\* its payAt for validForDays, until the payment's hash is removed.
Cycles(p) ==
  IF p \in Recurring
  THEN {c \in FirstPayAt[p]..RecurringUntil[p] : (c - FirstPayAt[p]) % CycleLength = 0}
  ELSE {FirstPayAt[p]}
OpenCycles(p) ==
  IF cancelTx[p] = "mined" THEN {}
  ELSE {c \in Cycles(p) \ paid[p] : c <= now /\ now <= c + ValidForDays * DAY}

\* withNonce around the SDK call.  estimateGas must succeed before anything is
\* sent; once sent, the hash may come back or the call may still fail.
Submit(e) ==
  /\ exec[e].pc = "submit"
  /\ \/ /\ OpenCycles(exec[e].cur) # {}
        /\ tx' = [tx EXCEPT ![exec[e].att] = "pending"]
        /\ \E pc \in {"save", "fail"} : Goto(e, pc)
     \/ Goto(e, "fail") /\ UNCHANGED tx
  /\ UNCHANGED <<now, dbVars, waiter, paid, cancelTx, faults>>

SaveHash(e) ==
  /\ exec[e].pc = "save"
  /\ attempt' = [attempt EXCEPT ![exec[e].att].hash = TRUE]
  /\ Goto(e, "enqueue")
  /\ UNCHANGED <<now, payment, waiter, chainVars, faults>>

EnqueueWaiter(e) ==
  /\ exec[e].pc = "enqueue"
  /\ waiter' = [waiter EXCEPT ![exec[e].att] = Job("queued")]
  /\ LeavePayment(e)
  /\ UNCHANGED <<now, dbVars, chainVars, faults>>

FailAttemptMisspelt(e) ==
  /\ exec[e].pc = "fail"
  /\ EndAttempt(exec[e].att, "fail")
  /\ Goto(e, "backoff")
  /\ UNCHANGED <<now, payment, waiter, chainVars, faults>>

FailAttemptForgets(e) ==
  /\ exec[e].pc = "fail"
  /\ EndAttempt(exec[e].att, "failed")
  /\ LeavePayment(e)
  /\ UNCHANGED <<now, payment, waiter, chainVars, faults>>

\* The catch block.
FailAttempt(e) ==
  /\ exec[e].pc = "fail"
  /\ EndAttempt(exec[e].att, "failed")
  /\ Goto(e, "backoff")
  /\ UNCHANGED <<now, payment, waiter, chainVars, faults>>

ScheduleRetry(e) ==
  /\ exec[e].pc = "backoff"
  /\ payment' = [payment EXCEPT ![exec[e].cur].nextRetry =
                   NextRetryAttemptDate(exec[e].payAt, exec[e].count)]
  /\ LeavePayment(e)
  /\ UNCHANGED <<now, attempt, waiter, chainVars, faults>>

\* A database call fails.  Only what the try block covers reaches the catch.
ExecutorError(e) ==
  /\ faults < MaxFaults
  /\ \/ exec[e].pc \in {"save", "enqueue"} /\ Goto(e, "fail")
     \/ exec[e].pc \in {"count", "record", "fail", "backoff"} /\ LeavePayment(e)
  /\ faults' = faults + 1
  /\ UNCHANGED <<now, dbVars, waiter, chainVars>>

ExecutorCrash(e) ==
  /\ faults < MaxFaults
  /\ exec[e].pc # "idle"
  /\ exec' = [exec EXCEPT ![e] = Idle]
  /\ faults' = faults + 1
  /\ UNCHANGED <<now, dbVars, waiter, chainVars>>

ExecutorStep(e) ==
  \/ Fetch(e) \/ ReadRows(e) \/ PickNext(e)
  \/ CheckInProgress(e) \/ CheckLastSuccess(e)
  \/ NoQuote(e) \/ CreateAttempt(e) \/ CountAttempts(e) \/ RecordAttempt(e)
  \/ Submit(e) \/ SaveHash(e) \/ EnqueueWaiter(e)
  \/ FailAttempt(e) \/ ScheduleRetry(e)

----------------------------------------------------------------------------
(* The on-chain execution waiter job of attempt a. *)

Requeue(a) == waiter' = [waiter EXCEPT ![a] = Job("queued")]
JobDone(a) == waiter' = [waiter EXCEPT ![a] = Job("done")]
WaiterGoto(a, pc) == waiter' = [waiter EXCEPT ![a].pc = pc]

StartWaiterUnguarded(a) ==
  /\ waiter[a].pc = "queued"
  /\ waiter' = [waiter EXCEPT ![a] =
       [pc |-> "waiting", since |-> now,
        payAt |-> payment[attempt[a].payment].payAt,
        count |-> payment[attempt[a].payment].count]]
  /\ UNCHANGED <<now, dbVars, exec, chainVars, faults>>

\* A missing, ended or unsent attempt ends the job.
StartWaiter(a) ==
  /\ waiter[a].pc = "queued"
  /\ IF attempt[a].status = "inProgress" /\ attempt[a].hash
     THEN waiter' = [waiter EXCEPT ![a] =
            [pc |-> "waiting", since |-> now,
             payAt |-> payment[attempt[a].payment].payAt,
             count |-> payment[attempt[a].payment].count]]
     ELSE JobDone(a)
  /\ UNCHANGED <<now, dbVars, exec, chainVars, faults>>

TxConfirmed(a) ==
  /\ waiter[a].pc = "waiting" /\ tx[a] = "mined"
  /\ WaiterGoto(a, "succeed")
  /\ UNCHANGED <<now, dbVars, exec, chainVars, faults>>

TxRefusedBroken(a) ==
  /\ waiter[a].pc = "waiting" /\ tx[a] = "reverted"
  /\ WaiterGoto(a, "succeed")
  /\ UNCHANGED <<now, dbVars, exec, chainVars, faults>>

TxRefused(a) ==
  /\ waiter[a].pc = "waiting" /\ tx[a] = "reverted"
  /\ WaiterGoto(a, "fail")
  /\ UNCHANGED <<now, dbVars, exec, chainVars, faults>>

TookTooLongBroken(a) ==
  /\ waiter[a].pc = "waiting" /\ tx[a] \in {"pending", "dropped"}
  /\ IF attempt[a].startedAt < now - DAY THEN WaiterGoto(a, "succeed") ELSE Requeue(a)
  /\ UNCHANGED <<now, dbVars, exec, chainVars, faults>>

TookTooLongForEver(a) ==
  /\ waiter[a].pc = "waiting" /\ tx[a] \in {"pending", "dropped"}
  /\ Requeue(a)
  /\ UNCHANGED <<now, dbVars, exec, chainVars, faults>>

\* 'took too long' is final only for an attempt that is a day old.
TookTooLong(a) ==
  /\ waiter[a].pc = "waiting" /\ tx[a] \in {"pending", "dropped"}
  /\ IF attempt[a].startedAt < now - DAY THEN WaiterGoto(a, "fail") ELSE Requeue(a)
  /\ UNCHANGED <<now, dbVars, exec, chainVars, faults>>

\* Any other error of the RPC node.
UnknownError(a) ==
  /\ waiter[a].pc = "waiting"
  /\ Requeue(a)
  /\ UNCHANGED <<now, dbVars, exec, chainVars, faults>>

MarkSucceeded(a) ==
  /\ waiter[a].pc = "succeed"
  /\ EndAttempt(a, "succeeded")
  /\ WaiterGoto(a, "reset")
  /\ UNCHANGED <<now, payment, exec, chainVars, faults>>

ResetRetries(a) ==
  /\ waiter[a].pc = "reset"
  /\ payment' = [payment EXCEPT ![attempt[a].payment].count = 0,
                                ![attempt[a].payment].nextRetry = NULL]
  /\ IF attempt[a].payment \in Recurring THEN WaiterGoto(a, "advance") ELSE JobDone(a)
  /\ UNCHANGED <<now, attempt, exec, chainVars, faults>>

\* calculateNextPayAt, from the payAt the waiter read when it started.
AdvancePayAt(a) ==
  LET p == attempt[a].payment
      nextPayAt == waiter[a].payAt + CycleLength
  IN /\ waiter[a].pc = "advance"
     /\ payment' = IF nextPayAt <= RecurringUntil[p]
                   THEN [payment EXCEPT ![p].payAt = nextPayAt] ELSE payment
     /\ JobDone(a)
     /\ UNCHANGED <<now, attempt, exec, chainVars, faults>>

MarkFailed(a) ==
  /\ waiter[a].pc = "fail"
  /\ EndAttempt(a, "failed")
  /\ WaiterGoto(a, "backoff")
  /\ UNCHANGED <<now, payment, exec, chainVars, faults>>

WaiterScheduleRetry(a) ==
  /\ waiter[a].pc = "backoff"
  /\ payment' = [payment EXCEPT ![attempt[a].payment].nextRetry =
                   NextRetryAttemptDate(waiter[a].payAt, waiter[a].count)]
  /\ JobDone(a)
  /\ UNCHANGED <<now, attempt, exec, chainVars, faults>>

\* The worker dies, or a write fails: caught and re-added as an unknown error,
\* or thrown out of the catch block and retried by graphile-worker, which also
\* runs a job again when its end was not recorded.
WaiterFault(a) ==
  /\ faults < MaxFaults
  /\ waiter[a].pc \notin {"none", "queued"}
  /\ Requeue(a)
  /\ faults' = faults + 1
  /\ UNCHANGED <<now, dbVars, exec, chainVars>>

WaiterStep(a) ==
  \/ StartWaiter(a) \/ TxConfirmed(a) \/ TxRefused(a) \/ TookTooLong(a)
  \/ MarkSucceeded(a) \/ ResetRetries(a) \/ AdvancePayAt(a)
  \/ MarkFailed(a) \/ WaiterScheduleRetry(a)

----------------------------------------------------------------------------
(* The chain (external), the user's cancelation, and time. *)

MineTx(a) ==
  /\ tx[a] = "pending"
  /\ \E c \in OpenCycles(attempt[a].payment) :
       paid' = [paid EXCEPT ![attempt[a].payment] = @ \cup {c}]
  /\ tx' = [tx EXCEPT ![a] = "mined"]
  /\ UNCHANGED <<now, dbVars, exec, waiter, cancelTx, faults>>

\* Reverted by the contract, or never mined (its nonce was used by another).
LoseTx(a) ==
  /\ tx[a] = "pending"
  /\ \E s \in {"reverted", "dropped"} : tx' = [tx EXCEPT ![a] = s]
  /\ UNCHANGED <<now, dbVars, exec, waiter, paid, cancelTx, faults>>

\* The SDK sends the cancelation transaction, then tells the hub its hash.
SubmitCancel(p) ==
  /\ payment[p].created /\ cancelTx[p] = "none"
  /\ cancelTx' = [cancelTx EXCEPT ![p] = "pending"]
  /\ UNCHANGED <<now, dbVars, exec, waiter, tx, paid, faults>>

PatchCancel(p) ==
  /\ cancelTx[p] # "none" /\ ~payment[p].canceled
  /\ payment' = [payment EXCEPT ![p].canceled = TRUE]
  /\ UNCHANGED <<now, attempt, exec, waiter, chainVars, faults>>

MineCancel(p) ==
  /\ cancelTx[p] = "pending"
  /\ cancelTx' = [cancelTx EXCEPT ![p] = "mined"]
  /\ UNCHANGED <<now, dbVars, exec, waiter, tx, paid, faults>>

\* A run of a job lasts at most MaxJobTime; a queued job may wait for ever.
Tick ==
  /\ now < MaxTime
  /\ \A e \in Executors : exec[e].pc # "idle" => now < exec[e].since + MaxJobTime
  /\ \A a \in AttemptIds :
       waiter[a].pc \notin {"none", "queued", "done"} => now < waiter[a].since + MaxJobTime
  /\ now' = now + 1
  /\ UNCHANGED <<dbVars, exec, waiter, chainVars, faults>>

Next ==
  \/ \E e \in Executors : ExecutorStep(e) \/ ExecutorError(e) \/ ExecutorCrash(e)
  \/ \E a \in AttemptIds : WaiterStep(a) \/ UnknownError(a) \/ WaiterFault(a)
  \/ \E a \in AttemptIds : MineTx(a) \/ LoseTx(a)
  \/ \E p \in Payments : SubmitCancel(p) \/ PatchCancel(p) \/ MineCancel(p)
  \/ Tick

Spec == Init /\ [][Next]_vars

\* graphile-worker runs every queued job, cron starts the executor again and
\* again, the chain settles every transaction and the RPC node does not fail
\* for ever; nothing is assumed of the user.
Fairness ==
  /\ \A e \in Executors : WF_vars(ExecutorStep(e))
  /\ \A a \in AttemptIds :
       /\ WF_vars(WaiterStep(a)) /\ WF_vars(MineTx(a) \/ LoseTx(a))
       /\ SF_vars(TxConfirmed(a)) /\ SF_vars(TxRefused(a)) /\ SF_vars(TookTooLong(a))
  /\ SF_vars(Tick)

FairSpec == Spec /\ Fairness

----------------------------------------------------------------------------
(* Properties. *)

\* No more attempts of a payment are recorded as succeeded than the contract
\* has paid cycles of it: the hub never reports a payment that was not made,
\* nor one payment twice, whatever fails between the chain and the database.
SuccessesArePaid ==
  \A p \in Payments : Cardinality(WithStatus(p, "succeeded")) <= Cardinality(paid[p])

\* A payment has at most one attempt in progress, also when processes die and
\* writes fail (the executor's "we know there is no payment attempt in
\* progress" when it creates one).
OneInProgress ==
  \A a, b \in AttemptIds :
    /\ attempt[a].status = "inProgress" /\ attempt[b].status = "inProgress"
    /\ attempt[a].payment = attempt[b].payment
    => a = b

\* Runs that overlap break OneInProgress, but only so far: a payment has at most
\* as many attempts in progress as there are executor runs, however often they
\* start again after a crash, since a run finds the attempts that others left.
OnePerRun ==
  \A p \in Payments :
    Cardinality({a \in AttemptIds : attempt[a].payment = p /\ attempt[a].status = "inProgress"})
      <= Cardinality(Executors)

\* payAt of a recurring payment never runs ahead of the payments made: it has
\* moved on by at most one cycle for each cycle the contract paid.
NeverAheadOfPaid ==
  \A p \in Recurring :
    payment[p].payAt <= FirstPayAt[p] + CycleLength * Cardinality(paid[p])

\* No attempt of a one-time payment is created after one has succeeded, and
\* none of a recurring payment less than minDaysBetweenPayments after one that
\* succeeded, although the check and the creation are separate steps.
Created(a) == attempt[a].status = "none" /\ attempt'[a].status = "inProgress"
NoAttemptAfterSuccess ==
  [][\A a, b \in AttemptIds :
       /\ Created(a) /\ attempt[b].status = "succeeded"
       /\ attempt'[a].payment = attempt[b].payment
       => attempt[b].payment \in Recurring /\ ~TooRecent(b)]_vars

\* With one executor run, an attempt starts no sooner than its payment is due,
\* and before the end of the validity that the fetcher grants it and the length
\* of one run, however old the batch is and whatever moved payAt since.
AttemptsInTime ==
  [][\A a \in AttemptIds : Created(a) =>
       LET due == payment[attempt'[a].payment].payAt
       IN due <= now /\ now < due + (ValidForDays + 1) * DAY + MaxJobTime]_vars

\* With one executor run, execution implements the promise: what happens to
\* each payment is a behaviour of PaymentPromise.
Phase(p) ==
  IF WithStatus(p, "inProgress") # {} THEN "attempting"
  ELSE IF p \notin Recurring /\ WithStatus(p, "succeeded") # {} THEN "paid"
  ELSE "waiting"
Made(p) == Cardinality(WithStatus(p, "succeeded"))
Promise(p) == INSTANCE PaymentPromise WITH
  Recurs <- p \in Recurring, phase <- Phase(p), made <- Made(p)
KeepsPromise ==
  /\ \A p \in Payments : Promise(p)!PromiseInit
  /\ [][\A p \in Payments :
          Promise(p)!PromiseNext \/ UNCHANGED <<Phase(p), Made(p)>>]_vars

\* After the n-th attempt of a cycle failed, the next starts only when the
\* backoff for n attempts has passed since it ended (no faults).
CycleAttempts(p) == {a \in AttemptsOf(p) : attempt[a].startedAt >= payment[p].payAt}
BackoffRespected ==
  [][\A a, b \in AttemptIds :
       /\ faults = 0 /\ Created(a) /\ attempt[b].status = "failed"
       /\ attempt'[a].payment = attempt[b].payment
       /\ b \in CycleAttempts(attempt[b].payment)
       => now >= attempt[b].endedAt +
                 RetryBackoffs[Cardinality({c \in CycleAttempts(attempt[b].payment) :
                                              c <= b}) + 1]]_vars

\* A payment that no executor run and no waiter job is working on has no
\* attempt in progress, and the fetcher will return it again unless it is
\* paid, expired or out of retries; a recurring one waits for its next cycle.
\* Without faults no step sequence loses a payment.
AtRest(p) ==
  /\ \A e \in Executors : exec[e].cur # p
  /\ \A a \in AttemptsOf(p) : waiter[a].pc \in {"none", "done"}
MovedOn(p) ==
  \A a \in WithStatus(p, "succeeded") :
    \/ attempt[a].startedAt < payment[p].payAt
    \/ payment[p].payAt + CycleLength > RecurringUntil[p]
NotForgotten ==
  faults = 0 => \A p \in Payments : AtRest(p) =>
    /\ WithStatus(p, "inProgress") = {}
    /\ \/ payment[p].nextRetry # NULL
       \/ payment[p].count = 0
       \/ payment[p].count >= Len(RetryBackoffs)
       \/ payment[p].payAt + ValidForDays * DAY <= now
    /\ p \in Recurring => MovedOn(p)

\* Every success of a recurring payment that another cycle follows has moved
\* payAt past its own cycle once its jobs are done, faults or not ("payAt will
\* update on every successful payment", says the fetcher's comment).
SuccessMovesPayAt ==
  \A p \in Recurring : AtRest(p) => MovedOn(p)

\* Every attempt ends: as a success, or as a failure that a retry can follow,
\* also when its transaction is never mined (the waiter gives up after a day).
\* Only a fault leaves one in progress for ever.
EveryAttemptEnds ==
  \A a \in AttemptIds :
    (attempt[a].status = "inProgress" /\ attempt[a].startedAt + DAY < MaxTime)
      ~> (attempt[a].status \in {"succeeded", "failed"} \/ faults > 0)
==============================================================================
