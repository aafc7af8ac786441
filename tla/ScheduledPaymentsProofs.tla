----------------------- MODULE ScheduledPaymentsProofs -----------------------
(***************************************************************************)
(* Proofs about ScheduledPayments, for any number of payments and          *)
(* attempts, and whatever crashes or fails.  However many executors run:   *)
(* type correctness; the hub never records more successes of a payment     *)
(* than the contract has paid cycles of it, nor moves payAt further; and   *)
(* a payment has no more attempts in progress than there are runs.  With   *)
(* one at a time: no payment has two attempts in progress, nothing is      *)
(* attempted after a success, and execution implements PaymentPromise.     *)
(* When dates are far apart too, attempts start in time, and as long as    *)
(* nothing fails no payment is forgotten.                                  *)
(***************************************************************************)
EXTENDS ScheduledPayments, FiniteSetTheorems, WellFoundedInduction, TLAPS

\* An executor past the loop head has a payment, and past the creation of the
\* attempt it has that attempt, which is the payment's.
Placed(r) ==
  /\ r.pc \notin {"idle", "rows", "next"} => r.cur \in Payments
  /\ r.pc \notin {"idle", "rows", "next", "check", "recent", "create"} =>
       r.att \in AttemptIds /\ attempt[r.att].payment = r.cur
ExecutorLocals == \A e \in Executors : Placed(exec[e])

\* The rows in use, and no others, belong to a payment; only they have a
\* transaction or a waiter at work.
AtWork(a) == waiter[a].pc \notin {"none", "queued", "done"}
AttemptRows ==
  \A a \in AttemptIds :
    /\ attempt[a].status # "none" <=> attempt[a].payment \in Payments
    /\ tx[a] # "none" \/ AtWork(a) => attempt[a].payment \in Payments

TypeInv == TypeOK /\ ExecutorLocals /\ AttemptRows

----------------------------------------------------------------------------
(* Lemmas about the helpers. *)

\* A set of numbers has a least one, and a set of attempts a last one.
LEMMA LeastNat ==
  ASSUME NEW S \in SUBSET Nat, S # {}
  PROVE  \E m \in S : \A n \in S : m <= n
<1> DEFINE R == OpToRel(<, Nat)
<1>1. IsWellFoundedOn(R, Nat)
  BY NatLessThanWellFounded
<1>2. R = {ss \in Nat \X Nat : ss[1] < ss[2]}
  BY DEF OpToRel
<1> HIDE DEF R
<1>3. PICK m \in S : \A n \in S : ~(<<n, m>> \in R)
  BY <1>1, WFMin
<1>4. ASSUME NEW n \in S PROVE m <= n
  <2>1. <<n, m>> \in Nat \X Nat /\ <<n, m>> \notin R
    BY <1>3
  <2>2. ~(<<n, m>>[1] < <<n, m>>[2])
    BY <1>2, <2>1
  <2>3. ~(n < m)
    BY <2>2
  <2> QED BY <2>3
<1> QED BY <1>4

LEMMA LastAttempt ==
  ASSUME NEW S \in SUBSET AttemptIds, S # {}
  PROVE  \E m \in S : \A n \in S : n <= m
<1> DEFINE T == {MaxAttempts - n : n \in S}
<1>1. T \in SUBSET Nat /\ T # {}
  <2>1. \A n \in S : n \in Int /\ MaxAttempts - n \in Nat
    BY AttemptsAssumption DEF AttemptIds
  <2> QED BY <2>1
<1>2. PICK d \in T : \A c \in T : d <= c
  BY <1>1, LeastNat
<1>3. PICK m \in S : d = MaxAttempts - m
  BY <1>2
<1>4. \A n \in S : d <= MaxAttempts - n
  BY <1>2
<1>5. \A n \in S : n <= m
  BY <1>3, <1>4, AttemptsAssumption DEF AttemptIds
<1> QED BY <1>5

\* The row of the attempt that CreateAttempt creates is the first free one.
LEMMA FirstFree ==
  ASSUME NEW e \in Executors, CreateAttempt(e)
  PROVE  /\ NewAttempt \in AttemptIds /\ attempt[NewAttempt].status = "none"
         /\ \A b \in AttemptIds : attempt[b].status = "none" => NewAttempt <= b
<1> DEFINE free == {a \in AttemptIds : attempt[a].status = "none"}
<1>1. free \in SUBSET Nat /\ free # {}
  BY DEF CreateAttempt, AttemptIds
<1>2. PICK m \in free : \A n \in free : m <= n
  BY <1>1, LeastNat
<1> QED BY <1>2 DEF NewAttempt

\* The count of any set of attempts fits in the column.
LEMMA AttemptsBounded ==
  ASSUME NEW S \in SUBSET AttemptIds
  PROVE  Cardinality(S) \in 0..MaxAttempts
<1>1. IsFiniteSet(AttemptIds) /\ Cardinality(AttemptIds) = MaxAttempts
  BY FS_Interval, AttemptsAssumption DEF AttemptIds
<1>2. IsFiniteSet(S) /\ Cardinality(S) <= MaxAttempts
  BY <1>1, FS_Subset
<1>3. Cardinality(S) \in Nat
  BY <1>2, FS_CardinalityType
<1> QED BY <1>2, <1>3, AttemptsAssumption

\* calculateNextRetryAttemptDate returns a time or null.
LEMMA NextRetryType ==
  ASSUME now \in Nat, NEW payAt \in Nat, NEW count \in Nat
  PROVE  NextRetryAttemptDate(payAt, count) \in TimeOrNull
<1>1. CASE count >= Len(RetryBackoffs)
  BY <1>1 DEF NextRetryAttemptDate, TimeOrNull
<1>2. CASE ~(count >= Len(RetryBackoffs))
  <2>1. RetryBackoffs \in Seq(Nat) /\ Len(RetryBackoffs) \in Nat
    BY TimeAssumption
  <2>2. count + 1 \in 1..Len(RetryBackoffs)
    BY <1>2, <2>1
  <2>3. RetryBackoffs[count + 1] \in Nat
    BY <2>1, <2>2
  <2> QED BY <2>3 DEF NextRetryAttemptDate, TimeOrNull
<1> QED BY <1>1, <1>2

\* The fetcher returns rows of the type the executor keeps.
LEMMA FetchedType ==
  ASSUME TypeOK, NEW b \in Batches
  PROVE  b \in SUBSET Fetched
<1>1. ASSUME NEW p \in Payments PROVE AsFetched(p) \in Fetched
  <2>1. FailedStarts(p) \in SUBSET Nat
    BY DEF FailedStarts, WithStatus, AttemptsOf, TypeOK, AttemptRow
  <2>2. payment[p].payAt \in Nat
    BY DEF TypeOK, PaymentRow
  <2> QED BY <2>1, <2>2 DEF AsFetched, Fetched
<1> QED BY <1>1 DEF Batches

\* The contract's open cycles are times.
LEMMA CyclesType ==
  ASSUME NEW p \in Payments
  PROVE  OpenCycles(p) \in SUBSET Nat
<1>1. FirstPayAt[p] \in Nat /\ RecurringUntil[p] \in Nat
  BY TimeAssumption
<1>2. Cycles(p) \in SUBSET Nat
  BY <1>1 DEF Cycles
<1> QED BY <1>2 DEF OpenCycles

----------------------------------------------------------------------------
(* Type correctness. *)

LEMMA TypeInit == Init => TypeInv
<1> SUFFICES ASSUME Init PROVE TypeInv
  OBVIOUS
<1>1. PICK created \in [Payments -> BOOLEAN] : payment = [p \in Payments |->
        [created |-> created[p], payAt |-> FirstPayAt[p], canceled |-> FALSE,
         count |-> 0, nextRetry |-> NULL, last |-> NULL]]
  BY DEF Init
<1>2. payment \in [Payments -> PaymentRow]
  BY <1>1, TimeAssumption, AttemptsAssumption DEF PaymentRow, TimeOrNull
<1>3. exec \in [Executors -> ExecState]
  BY AttemptsAssumption DEF Init, ExecState, ExecPc, Idle, LoopHead
<1>4. waiter \in [AttemptIds -> WaiterState]
  BY AttemptsAssumption DEF Init, WaiterState, WaiterPc, Job
<1>5. TypeOK
  BY <1>2, <1>3, <1>4, TimeAssumption DEF Init, TypeOK, AttemptRow, TxState
<1>6. ExecutorLocals /\ AttemptRows
  BY NullAssumption DEF Init, ExecutorLocals, Placed, AttemptRows, AtWork, Job, Idle, LoopHead
<1> QED BY <1>5, <1>6 DEF TypeInv


\* The state at the loop head is well typed.
LEMMA LoopHeadType ==
  ASSUME NEW since \in Nat, NEW batch \in SUBSET Fetched
  PROVE  LoopHead(since, batch) \in ExecState
BY AttemptsAssumption DEF LoopHead, ExecState, ExecPc

\* A step that changes the state of one executor, and takes no row in use away
\* from its payment, keeps the locals of all if it places that one.
Others(e) == \A f \in Executors \ {e} : exec'[f] = exec[f]
RowsKept ==
  \A a \in AttemptIds :
    attempt[a].payment \in Payments => attempt'[a].payment = attempt[a].payment
LEMMA LocalsKept ==
  ASSUME TypeInv, NEW e \in Executors, Others(e), Placed(exec[e])', RowsKept
  PROVE  ExecutorLocals'
<1>1. ASSUME NEW f \in Executors, f # e PROVE Placed(exec[f])'
  BY <1>1 DEF TypeInv, TypeOK, ExecutorLocals, Placed, Others, RowsKept
<1> QED BY <1>1 DEF ExecutorLocals, Placed

\* The two ways in which executePayment goes on.
LEMMA GotoMoves ==
  ASSUME TypeInv, NEW e \in Executors, NEW pc \in ExecPc, Goto(e, pc)
  PROVE  /\ exec' \in [Executors -> ExecState] /\ Others(e)
         /\ exec'[e] = [exec[e] EXCEPT !.pc = pc]
<1> DEFINE x == [exec[e] EXCEPT !.pc = pc]
<1>1. exec \in [Executors -> ExecState]
  BY DEF TypeInv, TypeOK
<1>2. x \in ExecState /\ exec' = [exec EXCEPT ![e] = x]
  BY <1>1 DEF Goto, ExecState
<1> HIDE DEF x
<1>3. exec' \in [Executors -> ExecState] /\ exec'[e] = x /\ Others(e)
  BY <1>1, <1>2 DEF Others
<1> QED BY <1>3 DEF x

LEMMA LeaveMoves ==
  ASSUME TypeInv, NEW e \in Executors, LeavePayment(e)
  PROVE  /\ exec' \in [Executors -> ExecState] /\ Others(e)
         /\ exec'[e].pc \in {"idle", "next"}
<1>1. LoopHead(exec[e].since, exec[e].batch) \in ExecState
  BY LoopHeadType DEF TypeInv, TypeOK, ExecState
<1>2. exec'[e] = LoopHead(exec[e].since, exec[e].batch)
  BY DEF TypeInv, TypeOK, LeavePayment
<1> QED BY <1>1, <1>2 DEF TypeInv, TypeOK, LeavePayment, LoopHead, Others

\* A step that leaves the rows and the transactions alone keeps TypeInv if it
\* keeps the executors' locals and the types of the rest.
LEMMA NextRetryWritten ==
  ASSUME TypeInv, NEW p, NEW date \in TimeOrNull, payment' = [payment EXCEPT ![p].nextRetry = date]
  PROVE  payment' \in [Payments -> PaymentRow]
<1> DEFINE x == [payment[p] EXCEPT !.nextRetry = date]
<1>1. payment \in [Payments -> PaymentRow] /\ payment' = [payment EXCEPT ![p] = x]
  BY DEF TypeInv, TypeOK
<1>2. p \in Payments => x \in PaymentRow
  BY <1>1 DEF PaymentRow
<1> HIDE DEF x
<1> QED BY <1>1, <1>2

LEMMA RowsUntouched ==
  ASSUME TypeInv, TypeOK', ExecutorLocals', UNCHANGED <<attempt, tx>>,
         \A a \in AttemptIds : AtWork(a)' => attempt[a].payment \in Payments
  PROVE  TypeInv'
BY DEF TypeInv, AttemptRows

\* A step that only moves executor e, to a place where its locals are right.
LEMMA OnlyExecutor ==
  ASSUME TypeInv, NEW e \in Executors,
         exec' \in [Executors -> ExecState], Others(e), Placed(exec[e])',
         UNCHANGED <<now, dbVars, waiter, chainVars>>, faults' \in 0..MaxFaults
  PROVE  TypeInv'
<1>1. TypeOK'
  BY DEF TypeInv, TypeOK, dbVars, chainVars
<1>2. ExecutorLocals'
  BY LocalsKept DEF RowsKept, dbVars
<1>3. \A a \in AttemptIds : AtWork(a)' => attempt[a].payment \in Payments
  BY DEF TypeInv, AttemptRows, AtWork
<1> QED BY <1>1, <1>2, <1>3, RowsUntouched DEF dbVars, chainVars

LEMMA FetchKeeps ==
  ASSUME TypeInv, NEW e \in Executors, Fetch(e)
  PROVE  TypeInv'
<1>1. PICK b \in Batches : exec' = [exec EXCEPT ![e] =
        IF b = {} THEN Idle ELSE [LoopHead(now, b) EXCEPT !.pc = "rows"]]
  BY DEF Fetch
<1> DEFINE run == IF b = {} THEN Idle ELSE [LoopHead(now, b) EXCEPT !.pc = "rows"]
<1>2. LoopHead(now, b) \in ExecState /\ Idle \in ExecState /\ Idle.pc = "idle"
  BY FetchedType, LoopHeadType DEF TypeInv, TypeOK, Idle, LoopHead
<1>3. run \in ExecState /\ run.pc \in {"idle", "rows"}
  BY <1>2 DEF ExecState, ExecPc
<1>4. exec'[e] = run
  BY <1>1 DEF TypeInv, TypeOK
<1>5. exec' \in [Executors -> ExecState] /\ Others(e)
  BY <1>1, <1>3 DEF TypeInv, TypeOK, Others
<1>6. Placed(exec[e])'
  BY <1>3, <1>4 DEF Placed
<1> QED BY <1>5, <1>6, OnlyExecutor DEF Fetch, TypeInv, TypeOK

LEMMA ReadRowsKeeps ==
  ASSUME TypeInv, NEW e \in Executors, ReadRows(e)
  PROVE  TypeInv'
<1> DEFINE rows == {AsRead(r) : r \in exec[e].batch}
<1>1. ASSUME NEW r \in Fetched PROVE AsRead(r) \in Fetched
  <2>1. r.id \in Payments
    BY DEF Fetched
  <2>2. payment[r.id].payAt \in Nat
    BY <2>1 DEF TypeInv, TypeOK, PaymentRow
  <2> QED BY <2>2 DEF AsRead, Fetched
<1>2. exec[e].since \in Nat /\ exec[e].batch \in SUBSET Fetched
  BY DEF TypeInv, TypeOK, ExecState
<1>3. rows \in SUBSET Fetched
  BY <1>1, <1>2
<1>4. exec' = [exec EXCEPT ![e] = LoopHead(exec[e].since, rows)]
  BY DEF ReadRows
<1> HIDE DEF rows
<1>5. LoopHead(exec[e].since, rows) \in ExecState
  BY <1>2, <1>3, LoopHeadType
<1>6. exec' \in [Executors -> ExecState] /\ Others(e) /\ Placed(exec[e])'
  BY <1>4, <1>5 DEF TypeInv, TypeOK, Others, Placed, LoopHead
<1> QED BY <1>6, OnlyExecutor DEF ReadRows, TypeInv, TypeOK

LEMMA PickNextKeeps ==
  ASSUME TypeInv, NEW e \in Executors, PickNext(e)
  PROVE  TypeInv'
<1>1. PICK r \in exec[e].batch :
        exec' = [exec EXCEPT ![e].pc = "check", ![e].batch = @ \ {r},
                             ![e].cur = r.id, ![e].payAt = r.payAt]
  BY DEF PickNext
<1>2. exec[e] \in ExecState /\ r \in Fetched
  BY <1>1 DEF TypeInv, TypeOK, ExecState
<1>3. r.id \in Payments /\ r.payAt \in Nat
  BY <1>2 DEF Fetched
<1>4. exec'[e] = [pc |-> "check", since |-> exec[e].since, batch |-> exec[e].batch \ {r},
                  cur |-> r.id, payAt |-> r.payAt, att |-> exec[e].att,
                  count |-> exec[e].count]
  BY <1>1, <1>2 DEF TypeInv, TypeOK, ExecState
<1>5. exec'[e] \in ExecState /\ exec'[e].pc = "check" /\ exec'[e].cur = r.id
  BY <1>2, <1>3, <1>4 DEF ExecState, ExecPc
<1>6. exec' \in [Executors -> ExecState] /\ Others(e)
  BY <1>1, <1>5 DEF TypeInv, TypeOK, Others
<1>7. Placed(exec[e])'
  BY <1>3, <1>5 DEF Placed
<1> QED BY <1>6, <1>7, OnlyExecutor DEF PickNext, TypeInv, TypeOK

\* Each step of executor e that only checks, counts or ends.
LEMMA LeaveKeeps ==
  ASSUME TypeInv, NEW e \in Executors, LeavePayment(e),
         UNCHANGED <<now, dbVars, waiter, chainVars>>, faults' \in 0..MaxFaults
  PROVE  TypeInv'
BY LeaveMoves, OnlyExecutor DEF Placed

LEMMA GotoKeeps ==
  ASSUME TypeInv, NEW e \in Executors, NEW pc \in ExecPc, Goto(e, pc),
         exec[e].pc \notin {"idle", "rows", "next"},
         exec[e].pc \in {"check", "recent", "create"} => pc \in {"recent", "create"},
         UNCHANGED <<now, dbVars, waiter, chainVars>>, faults' \in 0..MaxFaults
  PROVE  TypeInv'
<1>1. /\ exec' \in [Executors -> ExecState] /\ Others(e)
      /\ exec'[e] = [exec[e] EXCEPT !.pc = pc]
  BY GotoMoves
<1>2. /\ exec'[e].pc = pc /\ exec'[e].cur = exec[e].cur /\ exec'[e].att = exec[e].att
  BY <1>1 DEF TypeInv, TypeOK, ExecState
<1>3. Placed(exec[e])'
  BY <1>2 DEF TypeInv, ExecutorLocals, Placed, dbVars
<1> QED BY <1>1, <1>3, OnlyExecutor

\* The steps before an attempt is created only read.
LEMMA CheckInProgressKeeps ==
  ASSUME TypeInv, NEW e \in Executors, CheckInProgress(e)
  PROVE  TypeInv'
<1>1. CASE LeavePayment(e)
  BY <1>1, LeaveKeeps DEF CheckInProgress, TypeInv, TypeOK
<1>2. CASE ~LeavePayment(e)
  <2>1. PICK pc \in {"recent", "create"} : Goto(e, pc)
    BY <1>2 DEF CheckInProgress
  <2> QED BY <2>1, GotoKeeps DEF CheckInProgress, TypeInv, TypeOK, ExecPc
<1> QED BY <1>1, <1>2

LEMMA CheckLastSuccessKeeps ==
  ASSUME TypeInv, NEW e \in Executors, CheckLastSuccess(e)
  PROVE  TypeInv'
<1>1. CASE LeavePayment(e)
  BY <1>1, LeaveKeeps DEF CheckLastSuccess, TypeInv, TypeOK
<1>2. CASE ~LeavePayment(e)
  BY <1>2, GotoKeeps DEF CheckLastSuccess, TypeInv, TypeOK, ExecPc
<1> QED BY <1>1, <1>2

LEMMA NoQuoteKeeps ==
  ASSUME TypeInv, NEW e \in Executors, NoQuote(e)
  PROVE  TypeInv'
BY LeaveKeeps DEF NoQuote, TypeInv, TypeOK

\* The new row was free, so no executor and no transaction had it.
LEMMA CreateAttemptKeeps ==
  ASSUME TypeInv, NEW e \in Executors, CreateAttempt(e)
  PROVE  TypeInv'
<1> DEFINE n == NewAttempt
<1>1. n \in AttemptIds /\ attempt[n].status = "none"
  BY FirstFree
<1>2. exec[e].cur \in Payments /\ exec[e] \in ExecState
  BY DEF CreateAttempt, TypeInv, TypeOK, ExecutorLocals, Placed
<1> DEFINE row == [payment |-> exec[e].cur, status |-> "inProgress", startedAt |-> now,
                   endedAt |-> 0, hash |-> FALSE]
<1>3. attempt' = [attempt EXCEPT ![n] = row]
  BY DEF CreateAttempt
<1>4. row \in AttemptRow
  BY <1>2, TimeAssumption DEF AttemptRow, TypeInv, TypeOK
<1>5. row.status = "inProgress" /\ row.payment = exec[e].cur
  OBVIOUS
<1> HIDE DEF n, row
<1>6. attempt' \in [AttemptIds -> AttemptRow]
  BY <1>3, <1>4 DEF TypeInv, TypeOK
<1>7. attempt'[n] = row /\ \A a \in AttemptIds \ {n} : attempt'[a] = attempt[a]
  BY <1>1, <1>3 DEF TypeInv, TypeOK
<1>8. RowsKept
  BY <1>1, <1>7 DEF RowsKept, TypeInv, AttemptRows
<1>9. exec'[e] = [pc |-> "count", since |-> exec[e].since, batch |-> exec[e].batch,
                  cur |-> exec[e].cur, payAt |-> exec[e].payAt, att |-> n,
                  count |-> exec[e].count]
  BY <1>2 DEF CreateAttempt, TypeInv, TypeOK, ExecState, n
<1>10. exec' \in [Executors -> ExecState] /\ Others(e)
  BY <1>1, <1>2, <1>9 DEF CreateAttempt, TypeInv, TypeOK, ExecState, ExecPc, Others
<1>11. Placed(exec[e])'
  BY <1>1, <1>2, <1>5, <1>7, <1>9 DEF Placed
<1>12. ExecutorLocals'
  BY <1>8, <1>10, <1>11, LocalsKept
<1>13. AttemptRows'
  BY <1>1, <1>2, <1>5, <1>7 DEF TypeInv, AttemptRows, AtWork, CreateAttempt, chainVars
<1>14. TypeOK'
  BY <1>6, <1>10 DEF TypeInv, TypeOK, CreateAttempt, chainVars
<1> QED BY <1>12, <1>13, <1>14 DEF TypeInv

LEMMA CountAttemptsKeeps ==
  ASSUME TypeInv, NEW e \in Executors, CountAttempts(e)
  PROVE  TypeInv'
<1> DEFINE counted == {a \in AttemptsOf(exec[e].cur) : attempt[a].startedAt >= exec[e].payAt}
<1>1. Cardinality(counted) \in 0..MaxAttempts
  BY AttemptsBounded DEF AttemptsOf
<1>2. exec[e] \in ExecState
  BY DEF TypeInv, TypeOK
<1>3. exec'[e] = [pc |-> "record", since |-> exec[e].since, batch |-> exec[e].batch,
                  cur |-> exec[e].cur, payAt |-> exec[e].payAt, att |-> exec[e].att,
                  count |-> Cardinality(counted)]
  BY <1>2 DEF CountAttempts, TypeInv, TypeOK, ExecState
<1> HIDE DEF counted
<1>4. exec' \in [Executors -> ExecState] /\ Others(e)
  BY <1>1, <1>2, <1>3 DEF CountAttempts, TypeInv, TypeOK, ExecState, ExecPc, Others
<1>5. Placed(exec[e])'
  BY <1>3 DEF CountAttempts, Placed, TypeInv, ExecutorLocals, dbVars
<1> QED BY <1>4, <1>5, OnlyExecutor DEF CountAttempts, TypeInv, TypeOK

\* An attempt's row is written without giving it to another payment or freeing
\* it: the rows stay as AttemptRows wants them.
LEMMA StatusWritten ==
  ASSUME TypeInv, NEW a \in AttemptIds, attempt[a].payment \in Payments,
         attempt' \in [AttemptIds -> AttemptRow],
         attempt'[a].payment = attempt[a].payment, attempt'[a].status # "none",
         \A b \in AttemptIds \ {a} : attempt'[b] = attempt[b],
         \A b \in AttemptIds :
           /\ tx'[b] # "none" => tx[b] # "none" \/ b = a
           /\ AtWork(b)' => AtWork(b) \/ b = a
  PROVE  RowsKept /\ AttemptRows'
BY DEF TypeInv, AttemptRows, RowsKept

LEMMA RecordAttemptKeeps ==
  ASSUME TypeInv, NEW e \in Executors, RecordAttempt(e)
  PROVE  TypeInv'
<1>1. /\ exec[e] \in ExecState /\ exec[e].cur \in Payments
      /\ exec[e].att \in AttemptIds /\ attempt[exec[e].att].payment = exec[e].cur
  BY DEF RecordAttempt, TypeInv, TypeOK, ExecutorLocals, Placed
<1>2. payment[exec[e].cur] \in PaymentRow
  BY <1>1 DEF TypeInv, TypeOK
<1>3. exec[e].count \in 0..MaxAttempts /\ payment[exec[e].cur].payAt \in Nat
  BY <1>1, <1>2 DEF ExecState, PaymentRow
<1> DEFINE mid == [payment EXCEPT ![exec[e].cur].last = exec[e].att]
<1>4. payment' \in [Payments -> PaymentRow]
  <2>1. mid \in [Payments -> PaymentRow]
    BY <1>1 DEF TypeInv, TypeOK, PaymentRow
  <2>2. payment' = [mid EXCEPT ![exec[e].cur].count = exec[e].count]
    BY DEF RecordAttempt
  <2> HIDE DEF mid
  <2> QED BY <1>3, <2>1, <2>2 DEF PaymentRow
<1>5. exec'[e] = [pc |-> "submit", since |-> exec[e].since, batch |-> exec[e].batch,
                  cur |-> exec[e].cur, payAt |-> payment[exec[e].cur].payAt,
                  att |-> exec[e].att, count |-> exec[e].count]
  BY <1>1 DEF RecordAttempt, TypeInv, TypeOK, ExecState
<1>6. exec' \in [Executors -> ExecState] /\ Others(e)
  BY <1>1, <1>3, <1>5 DEF RecordAttempt, TypeInv, TypeOK, ExecState, ExecPc, Others
<1>7. Placed(exec[e])'
  BY <1>1, <1>5 DEF RecordAttempt, Placed
<1>8. ExecutorLocals'
  BY <1>6, <1>7, LocalsKept DEF RecordAttempt, RowsKept
<1>9. TypeOK'
  BY <1>4, <1>6 DEF RecordAttempt, TypeInv, TypeOK, chainVars
<1>10. \A a \in AttemptIds : AtWork(a)' => attempt[a].payment \in Payments
  BY DEF RecordAttempt, TypeInv, AttemptRows, AtWork
<1> QED BY <1>8, <1>9, <1>10, RowsUntouched DEF RecordAttempt, chainVars

\* Once there is an attempt, the executor keeps it from step to step.
LEMMA GotoLater ==
  ASSUME TypeInv, NEW e \in Executors, NEW pc \in ExecPc, Goto(e, pc),
         exec[e].pc \notin {"idle", "rows", "next", "check", "recent", "create"}, RowsKept
  PROVE  exec' \in [Executors -> ExecState] /\ ExecutorLocals'
<1>1. /\ exec' \in [Executors -> ExecState] /\ Others(e)
      /\ exec'[e] = [exec[e] EXCEPT !.pc = pc]
  BY GotoMoves
<1>2. exec'[e].cur = exec[e].cur /\ exec'[e].att = exec[e].att
  BY <1>1 DEF TypeInv, TypeOK, ExecState
<1>3. Placed(exec[e])'
  BY <1>2 DEF TypeInv, ExecutorLocals, Placed, RowsKept
<1> QED BY <1>1, <1>3, LocalsKept

LEMMA LeaveLater ==
  ASSUME TypeInv, NEW e \in Executors, LeavePayment(e), RowsKept
  PROVE  exec' \in [Executors -> ExecState] /\ ExecutorLocals'
BY LeaveMoves, LocalsKept DEF Placed

LEMMA SubmitKeeps ==
  ASSUME TypeInv, NEW e \in Executors, Submit(e)
  PROVE  TypeInv'
<1>1. RowsKept
  BY DEF Submit, RowsKept, dbVars
<1>2. PICK pc \in {"save", "fail"} : Goto(e, pc)
  BY DEF Submit
<1>3. exec' \in [Executors -> ExecState] /\ ExecutorLocals'
  BY <1>1, <1>2, GotoLater DEF Submit, ExecPc
<1>4. tx' \in [AttemptIds -> TxState]
  BY DEF Submit, TypeInv, TypeOK, TxState
<1>5. TypeOK'
  BY <1>3, <1>4 DEF Submit, TypeInv, TypeOK, dbVars
<1>6. AttemptRows'
  BY DEF Submit, TypeInv, TypeOK, AttemptRows, AtWork, ExecutorLocals, Placed, dbVars
<1> QED BY <1>3, <1>5, <1>6 DEF TypeInv

LEMMA SaveHashKeeps ==
  ASSUME TypeInv, NEW e \in Executors, SaveHash(e)
  PROVE  TypeInv'
<1>1. /\ exec[e].att \in AttemptIds /\ attempt[exec[e].att].payment \in Payments
      /\ attempt[exec[e].att].status # "none"
  BY DEF SaveHash, TypeInv, ExecutorLocals, Placed, AttemptRows
<1>2. attempt' \in [AttemptIds -> AttemptRow]
  <2> DEFINE b == exec[e].att
             x == [attempt[b] EXCEPT !.hash = TRUE]
  <2>1. attempt \in [AttemptIds -> AttemptRow] /\ attempt[b] \in AttemptRow
    BY <1>1 DEF TypeInv, TypeOK
  <2>2. attempt' = [attempt EXCEPT ![b] = x]
    BY DEF SaveHash
  <2> HIDE DEF b
  <2>3. x \in AttemptRow
    BY <2>1 DEF AttemptRow
  <2> HIDE DEF x
  <2> QED BY <2>1, <2>2, <2>3
<1>3. /\ attempt'[exec[e].att].payment = attempt[exec[e].att].payment
      /\ attempt'[exec[e].att].status = attempt[exec[e].att].status
      /\ \A b \in AttemptIds \ {exec[e].att} : attempt'[b] = attempt[b]
  BY <1>1 DEF SaveHash, TypeInv, TypeOK, AttemptRow
<1>4. RowsKept /\ AttemptRows'
  BY <1>1, <1>2, <1>3, StatusWritten DEF SaveHash, chainVars, AtWork
<1>5. exec' \in [Executors -> ExecState] /\ ExecutorLocals'
  BY <1>4, GotoLater DEF SaveHash, ExecPc
<1>6. TypeOK'
  BY <1>2, <1>5 DEF SaveHash, TypeInv, TypeOK, chainVars
<1> QED BY <1>4, <1>5, <1>6 DEF TypeInv

\* A waiter job that is not running is well typed.
LEMMA JobType ==
  ASSUME NEW pc \in WaiterPc
  PROVE  Job(pc) \in WaiterState
BY AttemptsAssumption DEF Job, WaiterState

LEMMA EnqueueWaiterKeeps ==
  ASSUME TypeInv, NEW e \in Executors, EnqueueWaiter(e)
  PROVE  TypeInv'
<1>1. waiter' \in [AttemptIds -> WaiterState]
  <2>1. Job("queued") \in WaiterState
    BY JobType DEF WaiterPc
  <2> QED BY <2>1 DEF EnqueueWaiter, TypeInv, TypeOK
<1>2. exec' \in [Executors -> ExecState] /\ ExecutorLocals'
  BY LeaveLater DEF EnqueueWaiter, RowsKept, dbVars
<1>3. TypeOK'
  BY <1>1, <1>2 DEF EnqueueWaiter, TypeInv, TypeOK, dbVars, chainVars
<1>4. \A a \in AttemptIds : AtWork(a)' => attempt[a].payment \in Payments
  BY DEF EnqueueWaiter, TypeInv, TypeOK, AttemptRows, AtWork, Job
<1> QED BY <1>2, <1>3, <1>4, RowsUntouched DEF EnqueueWaiter, dbVars, chainVars

\* Ending an attempt keeps its row typed, in use and with its payment.
LEMMA EndAttemptKeeps ==
  ASSUME TypeInv, NEW a \in AttemptIds, attempt[a].payment \in Payments,
         NEW status \in {"succeeded", "failed"}, EndAttempt(a, status), UNCHANGED tx,
         \A b \in AttemptIds : AtWork(b)' => AtWork(b) \/ b = a
  PROVE  /\ attempt' \in [AttemptIds -> AttemptRow]
         /\ attempt'[a].status = status
         /\ \A b \in AttemptIds \ {a} : attempt'[b] = attempt[b]
         /\ RowsKept /\ AttemptRows'
<1>1. attempt[a] \in AttemptRow /\ now \in Nat
  BY TimeAssumption DEF TypeInv, TypeOK
<1> DEFINE mid == [attempt EXCEPT ![a].status = status]
<1>2. mid \in [AttemptIds -> AttemptRow]
  BY DEF TypeInv, TypeOK, AttemptRow
<1>3. /\ mid[a].payment = attempt[a].payment /\ mid[a].status = status
      /\ \A b \in AttemptIds \ {a} : mid[b] = attempt[b]
  BY <1>1 DEF TypeInv, TypeOK, AttemptRow
<1>4. attempt' = [mid EXCEPT ![a].endedAt = now]
  BY DEF EndAttempt
<1> HIDE DEF mid
<1>5. attempt' \in [AttemptIds -> AttemptRow]
  BY <1>1, <1>2, <1>4 DEF AttemptRow
<1>6. /\ attempt'[a].payment = mid[a].payment /\ attempt'[a].status = mid[a].status
      /\ \A b \in AttemptIds \ {a} : attempt'[b] = mid[b]
  BY <1>2, <1>4 DEF AttemptRow
<1> QED BY <1>3, <1>5, <1>6, StatusWritten

LEMMA FailAttemptKeeps ==
  ASSUME TypeInv, NEW e \in Executors, FailAttempt(e)
  PROVE  TypeInv'
<1>1. exec[e].att \in AttemptIds /\ attempt[exec[e].att].payment \in Payments
  BY DEF FailAttempt, TypeInv, ExecutorLocals, Placed
<1>2. attempt' \in [AttemptIds -> AttemptRow] /\ RowsKept /\ AttemptRows'
  BY <1>1, EndAttemptKeeps DEF FailAttempt, chainVars, AtWork
<1>3. exec' \in [Executors -> ExecState] /\ ExecutorLocals'
  BY <1>2, GotoLater DEF FailAttempt, ExecPc
<1>4. TypeOK'
  BY <1>2, <1>3 DEF FailAttempt, TypeInv, TypeOK, chainVars
<1> QED BY <1>2, <1>3, <1>4 DEF TypeInv

LEMMA ScheduleRetryKeeps ==
  ASSUME TypeInv, NEW e \in Executors, ScheduleRetry(e)
  PROVE  TypeInv'
<1>1. exec[e] \in ExecState /\ now \in Nat
  BY TimeAssumption DEF TypeInv, TypeOK
<1> DEFINE date == NextRetryAttemptDate(exec[e].payAt, exec[e].count)
<1>2. date \in TimeOrNull
  BY <1>1, NextRetryType, AttemptsAssumption DEF ExecState
<1>3. payment' = [payment EXCEPT ![exec[e].cur].nextRetry = date]
  BY DEF ScheduleRetry
<1> HIDE DEF date
<1>6. payment' \in [Payments -> PaymentRow]
  BY <1>2, <1>3, NextRetryWritten
<1>4. exec' \in [Executors -> ExecState] /\ ExecutorLocals'
  BY LeaveLater DEF ScheduleRetry, RowsKept
<1>5. TypeOK'
  BY <1>6, <1>4 DEF ScheduleRetry, TypeInv, TypeOK, chainVars
<1>7. \A a \in AttemptIds : AtWork(a)' => attempt[a].payment \in Payments
  BY DEF ScheduleRetry, TypeInv, AttemptRows, AtWork
<1> QED BY <1>4, <1>5, <1>7, RowsUntouched DEF ScheduleRetry, chainVars

LEMMA ExecutorErrorKeeps ==
  ASSUME TypeInv, NEW e \in Executors, ExecutorError(e)
  PROVE  TypeInv'
<1>1. faults' \in 0..MaxFaults
  BY TimeAssumption DEF ExecutorError, TypeInv, TypeOK
<1>2. CASE LeavePayment(e)
  BY <1>1, <1>2, LeaveKeeps DEF ExecutorError
<1>3. CASE ~LeavePayment(e)
  BY <1>1, <1>3, GotoKeeps DEF ExecutorError, ExecPc
<1> QED BY <1>2, <1>3

LEMMA ExecutorCrashKeeps ==
  ASSUME TypeInv, NEW e \in Executors, ExecutorCrash(e)
  PROVE  TypeInv'
<1>1. faults' \in 0..MaxFaults
  BY TimeAssumption DEF ExecutorCrash, TypeInv, TypeOK
<1>2. Idle \in ExecState /\ Idle.pc = "idle"
  BY AttemptsAssumption DEF Idle, LoopHead, ExecState, ExecPc
<1>3. exec' \in [Executors -> ExecState] /\ Others(e) /\ Placed(exec[e])'
  BY <1>2 DEF ExecutorCrash, TypeInv, TypeOK, Others, Placed
<1> QED BY <1>1, <1>3, OnlyExecutor DEF ExecutorCrash

\* A step outside the executor leaves its locals alone when the rows are kept.
LEMMA ExecutorsIdle ==
  ASSUME TypeInv, UNCHANGED exec, RowsKept
  PROVE  ExecutorLocals'
BY DEF TypeInv, ExecutorLocals, Placed, RowsKept

\* Starting, moving and ending a waiter job.
LEMMA WaiterGotoType ==
  ASSUME TypeInv, NEW a \in AttemptIds, NEW pc \in WaiterPc, WaiterGoto(a, pc)
  PROVE  /\ waiter' \in [AttemptIds -> WaiterState]
         /\ \A b \in AttemptIds : AtWork(b)' => AtWork(b) \/ b = a
BY DEF WaiterGoto, TypeInv, TypeOK, WaiterState, AtWork

LEMMA JobRestType ==
  ASSUME TypeInv, NEW a \in AttemptIds, Requeue(a) \/ JobDone(a)
  PROVE  /\ waiter' \in [AttemptIds -> WaiterState]
         /\ \A b \in AttemptIds : AtWork(b)' => AtWork(b)
<1>1. Job("queued") \in WaiterState /\ Job("done") \in WaiterState
  BY JobType DEF WaiterPc
<1>2. Job("queued").pc = "queued" /\ Job("done").pc = "done"
  BY DEF Job
<1> QED BY <1>1, <1>2 DEF Requeue, JobDone, TypeInv, TypeOK, AtWork

LEMMA OnlyWaiter ==
  ASSUME TypeInv, waiter' \in [AttemptIds -> WaiterState],
         \A a \in AttemptIds : AtWork(a)' => attempt[a].payment \in Payments,
         UNCHANGED <<now, dbVars, exec, chainVars>>, faults' \in 0..MaxFaults
  PROVE  TypeInv'
<1>1. TypeOK'
  BY DEF TypeInv, TypeOK, dbVars, chainVars
<1>2. ExecutorLocals'
  BY ExecutorsIdle DEF RowsKept, dbVars
<1> QED BY <1>1, <1>2, RowsUntouched DEF dbVars, chainVars

LEMMA StartWaiterKeeps ==
  ASSUME TypeInv, NEW a \in AttemptIds, StartWaiter(a)
  PROVE  TypeInv'
<1>1. CASE JobDone(a)
  BY <1>1, JobRestType, OnlyWaiter DEF StartWaiter, TypeInv, TypeOK, AttemptRows
<1>2. CASE ~JobDone(a)
  <2>1. attempt[a].payment \in Payments
    BY <1>2 DEF StartWaiter, TypeInv, AttemptRows
  <2> DEFINE row == payment[attempt[a].payment]
             job == [pc |-> "waiting", since |-> now, payAt |-> row.payAt,
                     count |-> row.count]
  <2>2. row \in PaymentRow /\ now \in Nat
    BY <2>1, TimeAssumption DEF TypeInv, TypeOK
  <2>3. job \in WaiterState
    BY <2>2 DEF PaymentRow, WaiterState, WaiterPc
  <2>4. waiter' = [waiter EXCEPT ![a] = job]
    BY <1>2 DEF StartWaiter
  <2> HIDE DEF job
  <2>5. waiter' \in [AttemptIds -> WaiterState]
    BY <2>3, <2>4 DEF TypeInv, TypeOK
  <2>6. \A b \in AttemptIds : AtWork(b)' => attempt[b].payment \in Payments
    BY <2>1, <2>4 DEF TypeInv, TypeOK, AttemptRows, AtWork
  <2> QED BY <2>5, <2>6, OnlyWaiter DEF StartWaiter, TypeInv, TypeOK
<1> QED BY <1>1, <1>2

\* What the wait can end in.
LEMMA WaitKeeps ==
  ASSUME TypeInv, NEW a \in AttemptIds,
         TxConfirmed(a) \/ TxRefused(a) \/ TookTooLong(a) \/ UnknownError(a)
  PROVE  TypeInv'
<1>1. Requeue(a) \/ \E pc \in {"succeed", "fail"} : WaiterGoto(a, pc)
  BY DEF TxConfirmed, TxRefused, TookTooLong, UnknownError
<1>2. /\ waiter' \in [AttemptIds -> WaiterState]
      /\ \A b \in AttemptIds : AtWork(b)' => AtWork(b) \/ b = a
  BY <1>1, JobRestType, WaiterGotoType DEF WaiterPc
<1>4. \A b \in AttemptIds : AtWork(b)' => attempt[b].payment \in Payments
  BY <1>2 DEF AtWork, AttemptRows, TypeInv, TxConfirmed, TxRefused, TookTooLong,
              UnknownError
<1>3. UNCHANGED <<now, dbVars, exec, chainVars, faults>>
  BY DEF TxConfirmed, TxRefused, TookTooLong, UnknownError
<1> QED BY <1>2, <1>3, <1>4, OnlyWaiter DEF TypeInv, TypeOK

LEMMA WaiterFaultKeeps ==
  ASSUME TypeInv, NEW a \in AttemptIds, WaiterFault(a)
  PROVE  TypeInv'
<1>1. faults' \in 0..MaxFaults
  BY TimeAssumption DEF WaiterFault, TypeInv, TypeOK
<1> QED BY <1>1, JobRestType, OnlyWaiter DEF WaiterFault, TypeInv, AttemptRows

\* The waiter's writes: to its attempt, and to the payment's row.
LEMMA MarkKeeps ==
  ASSUME TypeInv, NEW a \in AttemptIds, MarkSucceeded(a) \/ MarkFailed(a)
  PROVE  TypeInv'
<1>1. attempt[a].payment \in Payments
  BY DEF MarkSucceeded, MarkFailed, TypeInv, AttemptRows, AtWork
<1>2. PICK pc \in {"reset", "backoff"} : WaiterGoto(a, pc)
  BY DEF MarkSucceeded, MarkFailed
<1>3. PICK status \in {"succeeded", "failed"} : EndAttempt(a, status)
  BY DEF MarkSucceeded, MarkFailed
<1>4. UNCHANGED <<now, payment, exec, chainVars, faults>>
  BY DEF MarkSucceeded, MarkFailed
<1>5. /\ waiter' \in [AttemptIds -> WaiterState]
      /\ \A b \in AttemptIds : AtWork(b)' => AtWork(b) \/ b = a
  BY <1>2, WaiterGotoType DEF WaiterPc
<1>6. attempt' \in [AttemptIds -> AttemptRow] /\ RowsKept /\ AttemptRows'
  BY <1>1, <1>3, <1>4, <1>5, EndAttemptKeeps DEF chainVars
<1>7. TypeOK'
  BY <1>4, <1>5, <1>6 DEF TypeInv, TypeOK, chainVars
<1>8. ExecutorLocals'
  BY <1>4, <1>6, ExecutorsIdle
<1> QED BY <1>6, <1>7, <1>8 DEF TypeInv

LEMMA PaymentWritten ==
  ASSUME TypeInv, payment' \in [Payments -> PaymentRow],
         waiter' \in [AttemptIds -> WaiterState],
         \A a \in AttemptIds : AtWork(a)' => attempt[a].payment \in Payments,
         UNCHANGED <<now, attempt, exec, chainVars, faults>>
  PROVE  TypeInv'
<1>1. TypeOK'
  BY DEF TypeInv, TypeOK, chainVars
<1>2. ExecutorLocals'
  BY ExecutorsIdle DEF RowsKept
<1> QED BY <1>1, <1>2, RowsUntouched DEF chainVars

\* The columns that the jobs and the user write take values of their types.
LEMMA RowTypes ==
  ASSUME NEW row \in PaymentRow
  PROVE  /\ [row EXCEPT !.count = 0] \in PaymentRow
         /\ [row EXCEPT !.canceled = TRUE] \in PaymentRow
         /\ \A t \in Nat : [row EXCEPT !.payAt = t] \in PaymentRow
<1>1. [row EXCEPT !.count = 0] \in PaymentRow
  BY AttemptsAssumption DEF PaymentRow
<1>2. [row EXCEPT !.canceled = TRUE] \in PaymentRow
  BY Zenon DEF PaymentRow
<1>3. \A t \in Nat : [row EXCEPT !.payAt = t] \in PaymentRow
  BY DEF PaymentRow
<1> QED BY <1>1, <1>2, <1>3

LEMMA ResetRetriesKeeps ==
  ASSUME TypeInv, NEW a \in AttemptIds, ResetRetries(a)
  PROVE  TypeInv'
<1> DEFINE p == attempt[a].payment
           mid == [payment EXCEPT ![p].count = 0]
<1>1. mid \in [Payments -> PaymentRow]
  BY RowTypes DEF ResetRetries, TypeInv, TypeOK, AttemptRows, AtWork
<1>2. payment' = [mid EXCEPT ![p].nextRetry = NULL]
  BY DEF ResetRetries
<1> HIDE DEF mid, p
<1>3. payment' \in [Payments -> PaymentRow]
  BY <1>1, <1>2 DEF PaymentRow, TimeOrNull
<1>4. JobDone(a) \/ WaiterGoto(a, "advance")
  BY DEF ResetRetries
<1>5. /\ waiter' \in [AttemptIds -> WaiterState]
      /\ \A b \in AttemptIds : AtWork(b)' => AtWork(b) \/ b = a
  BY <1>4, WaiterGotoType, JobRestType DEF WaiterPc
<1>6. \A b \in AttemptIds : AtWork(b)' => attempt[b].payment \in Payments
  BY <1>5 DEF ResetRetries, TypeInv, AttemptRows, AtWork
<1> QED BY <1>3, <1>5, <1>6, PaymentWritten DEF ResetRetries

LEMMA AdvancePayAtKeeps ==
  ASSUME TypeInv, NEW a \in AttemptIds, AdvancePayAt(a)
  PROVE  TypeInv'
<1> DEFINE next == waiter[a].payAt + CycleLength
<1>1. next \in Nat
  BY TimeAssumption DEF TypeInv, TypeOK, WaiterState
<1>2. payment' = payment \/ payment' = [payment EXCEPT ![attempt[a].payment].payAt = next]
  BY DEF AdvancePayAt
<1> HIDE DEF next
<1>3. payment' \in [Payments -> PaymentRow]
  BY <1>1, <1>2, RowTypes DEF AdvancePayAt, TypeInv, TypeOK, AttemptRows, AtWork
<1>4. /\ waiter' \in [AttemptIds -> WaiterState]
      /\ \A b \in AttemptIds : AtWork(b)' => attempt[b].payment \in Payments
  BY JobRestType DEF AdvancePayAt, TypeInv, AttemptRows
<1> QED BY <1>3, <1>4, PaymentWritten DEF AdvancePayAt

LEMMA WaiterScheduleRetryKeeps ==
  ASSUME TypeInv, NEW a \in AttemptIds, WaiterScheduleRetry(a)
  PROVE  TypeInv'
<1> DEFINE date == NextRetryAttemptDate(waiter[a].payAt, waiter[a].count)
<1>1. waiter[a].payAt \in Nat /\ waiter[a].count \in Nat /\ now \in Nat
  BY TimeAssumption, AttemptsAssumption DEF TypeInv, TypeOK, WaiterState
<1>2. date \in TimeOrNull
  BY <1>1, NextRetryType
<1>3. payment' = [payment EXCEPT ![attempt[a].payment].nextRetry = date]
  BY DEF WaiterScheduleRetry
<1> HIDE DEF date
<1>4. payment' \in [Payments -> PaymentRow]
  BY <1>2, <1>3, NextRetryWritten
<1>5. /\ waiter' \in [AttemptIds -> WaiterState]
      /\ \A b \in AttemptIds : AtWork(b)' => attempt[b].payment \in Payments
  BY JobRestType DEF WaiterScheduleRetry, TypeInv, AttemptRows
<1> QED BY <1>4, <1>5, PaymentWritten DEF WaiterScheduleRetry

\* The chain and the user touch neither the jobs nor the attempts.
LEMMA ChainKeeps ==
  ASSUME TypeInv, NEW a \in AttemptIds, MineTx(a) \/ LoseTx(a)
  PROVE  TypeInv'
<1>1. attempt[a].payment \in Payments
  BY DEF MineTx, LoseTx, TypeInv, AttemptRows
<1>2. tx' \in [AttemptIds -> TxState]
  BY DEF MineTx, LoseTx, TypeInv, TypeOK, TxState
<1>3. paid' \in [Payments -> SUBSET Nat]
  BY <1>1, CyclesType DEF MineTx, LoseTx, TypeInv, TypeOK
<1>4. UNCHANGED <<now, dbVars, exec, waiter, cancelTx, faults>>
  BY DEF MineTx, LoseTx
<1>5. TypeOK'
  BY <1>2, <1>3, <1>4 DEF TypeInv, TypeOK, dbVars
<1>6. ExecutorLocals'
  BY <1>4, ExecutorsIdle DEF RowsKept, dbVars
<1>7. AttemptRows'
  BY <1>1, <1>4 DEF MineTx, LoseTx, TypeInv, TypeOK, AttemptRows, AtWork, dbVars
<1> QED BY <1>5, <1>6, <1>7 DEF TypeInv

LEMMA UserKeeps ==
  ASSUME TypeInv, NEW p \in Payments, SubmitCancel(p) \/ PatchCancel(p) \/ MineCancel(p)
  PROVE  TypeInv'
<1>1. payment' \in [Payments -> PaymentRow]
  <2>1. payment \in [Payments -> PaymentRow]
    BY DEF TypeInv, TypeOK
  <2> DEFINE row == [payment[p] EXCEPT !.canceled = TRUE]
  <2>2. row \in PaymentRow
    BY <2>1, RowTypes
  <2>3. CASE payment' = [payment EXCEPT ![p] = row]
    <3> HIDE DEF row
    <3> QED BY <2>1, <2>2, <2>3
  <2> QED BY <2>1, <2>3 DEF SubmitCancel, PatchCancel, MineCancel, dbVars
<1>2. cancelTx' \in [Payments -> {"none", "pending", "mined"}]
  BY DEF SubmitCancel, PatchCancel, MineCancel, chainVars, TypeInv, TypeOK
<1>3. UNCHANGED <<now, attempt, exec, waiter, tx, paid, faults>>
  BY DEF SubmitCancel, PatchCancel, MineCancel, dbVars, chainVars
<1>4. TypeOK'
  BY <1>1, <1>2, <1>3 DEF TypeInv, TypeOK
<1>5. ExecutorLocals'
  BY <1>3, ExecutorsIdle DEF RowsKept
<1> QED BY <1>3, <1>4, <1>5, RowsUntouched DEF TypeInv, AttemptRows, AtWork

LEMMA TimeKeeps ==
  ASSUME TypeInv, Tick \/ UNCHANGED vars
  PROVE  TypeInv'
<1>1. now' \in 0..MaxTime
  BY TimeAssumption DEF Tick, vars, TypeInv, TypeOK
<1>2. UNCHANGED <<dbVars, exec, waiter, chainVars, faults>>
  BY DEF Tick, vars, dbVars, chainVars
<1>3. TypeOK'
  BY <1>1, <1>2 DEF TypeInv, TypeOK, dbVars, chainVars
<1>4. ExecutorLocals'
  BY <1>2, ExecutorsIdle DEF RowsKept, dbVars
<1> QED BY <1>2, <1>3, <1>4, RowsUntouched
        DEF TypeInv, AttemptRows, AtWork, dbVars, chainVars

\* Every step keeps the types and the locals.
LEMMA TypeStep == TypeInv /\ [Next]_vars => TypeInv'
<1> SUFFICES ASSUME TypeInv, [Next]_vars PROVE TypeInv'
  OBVIOUS
<1>1. ASSUME NEW e \in Executors, ExecutorStep(e) PROVE TypeInv'
  BY <1>1, FetchKeeps, ReadRowsKeeps, PickNextKeeps, CheckInProgressKeeps, CheckLastSuccessKeeps,
     NoQuoteKeeps, CreateAttemptKeeps, CountAttemptsKeeps, RecordAttemptKeeps,
     SubmitKeeps, SaveHashKeeps, EnqueueWaiterKeeps, FailAttemptKeeps,
     ScheduleRetryKeeps
  DEF ExecutorStep
<1>2. ASSUME NEW e \in Executors, ExecutorError(e) \/ ExecutorCrash(e) PROVE TypeInv'
  BY <1>2, ExecutorErrorKeeps, ExecutorCrashKeeps
<1>3. ASSUME NEW a \in AttemptIds, WaiterStep(a) PROVE TypeInv'
  BY <1>3, StartWaiterKeeps, WaitKeeps, MarkKeeps, ResetRetriesKeeps,
     AdvancePayAtKeeps, WaiterScheduleRetryKeeps
  DEF WaiterStep
<1>4. ASSUME NEW a \in AttemptIds,
             UnknownError(a) \/ WaiterFault(a) \/ MineTx(a) \/ LoseTx(a)
      PROVE  TypeInv'
  BY <1>4, WaitKeeps, WaiterFaultKeeps, ChainKeeps
<1>5. ASSUME NEW p \in Payments, SubmitCancel(p) \/ PatchCancel(p) \/ MineCancel(p)
      PROVE  TypeInv'
  BY <1>5, UserKeeps
<1> QED BY <1>1, <1>2, <1>3, <1>4, <1>5, TimeKeeps DEF Next

\* Type correctness: whatever the jobs, the chain, the user and the faults do,
\* every row, local and job keeps its type.
THEOREM TypeCorrect == Spec => []TypeOK
<1>1. TypeInv => TypeOK
  BY DEF TypeInv
<1> QED BY <1>1, TypeInit, TypeStep, PTL DEF Spec

----------------------------------------------------------------------------
(* One attempt at a time.  The check for an attempt in progress and the    *)
(* creation of the next are separate steps; what makes the pair sound with *)
(* one executor run is that nothing else creates attempts in between.      *)

OneExecutor == \A e, f \in Executors : e = f

\* Between the check and the creation the payment has no attempt in progress.
ClearToCreate ==
  \A e \in Executors : exec[e].pc \in {"recent", "create"} =>
    \A a \in AttemptIds : attempt[a].status = "inProgress" =>
                            attempt[a].payment # exec[e].cur

OneInv == TypeInv /\ OneInProgress /\ ClearToCreate

\* No step but CreateAttempt puts an attempt in progress.
NoNewAttempt ==
  \A a \in AttemptIds : attempt'[a].status = "inProgress" =>
    attempt[a].status = "inProgress" /\ attempt'[a].payment = attempt[a].payment

LEMMA EndIsNoNew ==
  ASSUME TypeInv, NEW a \in AttemptIds, NEW status \in {"succeeded", "failed"},
         EndAttempt(a, status)
  PROVE  NoNewAttempt
<1> DEFINE mid == [attempt EXCEPT ![a].status = status]
<1>1. mid \in [AttemptIds -> AttemptRow] /\ mid[a].status = status
  BY DEF TypeInv, TypeOK, AttemptRow
<1>2. \A b \in AttemptIds \ {a} : mid[b] = attempt[b]
  BY DEF TypeInv, TypeOK
<1>3. attempt' = [mid EXCEPT ![a].endedAt = now]
  BY DEF EndAttempt
<1> HIDE DEF mid
<1>4. attempt'[a].status = status /\ \A b \in AttemptIds \ {a} : attempt'[b] = mid[b]
  BY <1>1, <1>3 DEF AttemptRow
<1> QED BY <1>2, <1>4 DEF NoNewAttempt

LEMMA HashIsNoNew ==
  ASSUME TypeInv, NEW e \in Executors, SaveHash(e)
  PROVE  NoNewAttempt
<1>1. \A a \in AttemptIds : /\ attempt'[a].status = attempt[a].status
                            /\ attempt'[a].payment = attempt[a].payment
  BY DEF SaveHash, TypeInv, TypeOK, AttemptRow
<1> QED BY <1>1 DEF NoNewAttempt

LEMMA OnlyCreateAttemptCreates ==
  ASSUME TypeInv, [Next]_vars, \A e \in Executors : ~CreateAttempt(e)
  PROVE  NoNewAttempt
<1>1. ASSUME NEW e \in Executors, ExecutorStep(e) PROVE NoNewAttempt
  <2>1. CASE UNCHANGED attempt
    BY <2>1 DEF NoNewAttempt
  <2>2. CASE SaveHash(e)
    BY <2>2, HashIsNoNew
  <2>3. CASE FailAttempt(e)
    <3>1. exec[e].att \in AttemptIds
      BY <2>3 DEF FailAttempt, TypeInv, ExecutorLocals, Placed
    <3> QED BY <2>3, <3>1, EndIsNoNew DEF FailAttempt
  <2>4. UNCHANGED attempt \/ SaveHash(e) \/ FailAttempt(e)
    BY <1>1 DEF ExecutorStep, Fetch, ReadRows, PickNext, CheckInProgress, CheckLastSuccess,
                NoQuote, CountAttempts, RecordAttempt, Submit, EnqueueWaiter,
                ScheduleRetry, dbVars
  <2> QED BY <2>1, <2>2, <2>3, <2>4
<1>2. ASSUME NEW a \in AttemptIds, WaiterStep(a) PROVE NoNewAttempt
  <2>1. UNCHANGED attempt \/ \E s \in {"succeeded", "failed"} : EndAttempt(a, s)
    BY <1>2 DEF WaiterStep, StartWaiter, TxConfirmed, TxRefused, TookTooLong,
                MarkSucceeded, ResetRetries, AdvancePayAt, MarkFailed,
                WaiterScheduleRetry, dbVars
  <2> QED BY <2>1, EndIsNoNew DEF NoNewAttempt
<1>3. CASE UNCHANGED attempt
  BY <1>3 DEF NoNewAttempt
<1>4. \/ \E e \in Executors : ExecutorStep(e)
      \/ \E a \in AttemptIds : WaiterStep(a)
      \/ UNCHANGED attempt
  BY DEF Next, vars, ExecutorError, ExecutorCrash, UnknownError, WaiterFault, MineTx,
         LoseTx, SubmitCancel, PatchCancel, MineCancel, Tick, dbVars
<1> QED BY <1>1, <1>2, <1>3, <1>4

\* Only the checks lead to where an attempt may be created.
LEMMA WayToCreation ==
  ASSUME TypeInv, NEW e \in Executors, ExecutorStep(e) \/ ExecutorError(e) \/ ExecutorCrash(e),
         exec'[e].pc \in {"recent", "create"}
  PROVE  CheckInProgress(e) \/ CheckLastSuccess(e)
<1>1. ~LeavePayment(e)
  <2>1. LeavePayment(e) => exec'[e].pc \in {"idle", "next"}
    BY LeaveMoves
  <2> QED BY <2>1
<1>2. ASSUME NEW pc \in ExecPc, Goto(e, pc) PROVE pc \in {"recent", "create"}
  <2>1. exec'[e] = [exec[e] EXCEPT !.pc = pc]
    BY <1>2, GotoMoves
  <2>2. exec[e] \in ExecState
    BY DEF TypeInv, TypeOK
  <2>3. exec'[e].pc = pc
    BY <2>1, <2>2 DEF ExecState
  <2> QED BY <2>3
<1>3. /\ ~Fetch(e) /\ ~ReadRows(e) /\ ~PickNext(e)
      /\ ~CreateAttempt(e) /\ ~CountAttempts(e) /\ ~RecordAttempt(e)
  <2>1. exec \in [Executors -> ExecState] /\ exec[e] \in ExecState
    BY DEF TypeInv, TypeOK
  <2>2. Fetch(e) => exec'[e].pc \in {"idle", "rows"}
    BY <2>1 DEF Fetch, Idle, LoopHead
  <2>7. ReadRows(e) => exec'[e].pc \in {"idle", "next"}
    BY <2>1 DEF ReadRows, LoopHead
  <2>3. PickNext(e) => exec'[e].pc = "check"
    BY <2>1 DEF PickNext, ExecState
  <2>4. CreateAttempt(e) => exec'[e].pc = "count"
    BY <2>1 DEF CreateAttempt, ExecState
  <2>5. CountAttempts(e) => exec'[e].pc = "record"
    BY <2>1 DEF CountAttempts, ExecState
  <2>6. RecordAttempt(e) => exec'[e].pc = "submit"
    BY <2>1 DEF RecordAttempt, ExecState
  <2> QED BY <2>2, <2>3, <2>4, <2>5, <2>6, <2>7
<1>4. ~Submit(e) /\ ~SaveHash(e) /\ ~FailAttempt(e) /\ ~ExecutorError(e)
  BY <1>1, <1>2 DEF Submit, SaveHash, FailAttempt, ExecutorError, ExecPc
<1>5. ~NoQuote(e) /\ ~EnqueueWaiter(e) /\ ~ScheduleRetry(e)
  BY <1>1 DEF NoQuote, EnqueueWaiter, ScheduleRetry
<1>6. ~ExecutorCrash(e)
  BY DEF ExecutorCrash, Idle, LoopHead, TypeInv, TypeOK, ExecState
<1> QED BY <1>3, <1>4, <1>5, <1>6 DEF ExecutorStep

\* The check is what makes an executor clear to create; it stays clear while
\* nothing new is created.
LEMMA ClearWithoutCreation ==
  ASSUME OneExecutor, OneInv, [Next]_vars, NoNewAttempt
  PROVE  ClearToCreate'
<1> SUFFICES ASSUME NEW e \in Executors, exec'[e].pc \in {"recent", "create"},
                    NEW a \in AttemptIds, attempt'[a].status = "inProgress"
             PROVE  attempt'[a].payment # exec'[e].cur
  BY DEF ClearToCreate
<1>1. attempt[a].status = "inProgress" /\ attempt'[a].payment = attempt[a].payment
  BY DEF NoNewAttempt
<1>2. CASE exec'[e] = exec[e]
  BY <1>1, <1>2 DEF OneInv, ClearToCreate
<1>3. CASE CheckInProgress(e)
  <2>1. WithStatus(exec[e].cur, "inProgress") = {} /\ exec'[e].cur = exec[e].cur
    BY <1>3, LeaveMoves, GotoMoves
    DEF CheckInProgress, OneInv, TypeInv, TypeOK, Goto, ExecState
  <2> QED BY <1>1, <2>1 DEF WithStatus, AttemptsOf
<1>4. CASE CheckLastSuccess(e)
  <2>1. exec[e].pc = "recent" /\ exec'[e].cur = exec[e].cur
    BY <1>4, LeaveMoves DEF CheckLastSuccess, OneInv, TypeInv, TypeOK, Goto, ExecState
  <2> QED BY <1>1, <2>1 DEF OneInv, ClearToCreate
<1>5. CASE ExecutorStep(e) \/ ExecutorError(e) \/ ExecutorCrash(e)
  BY <1>3, <1>4, <1>5, WayToCreation DEF OneInv
<1>6. ExecutorStep(e) \/ ExecutorError(e) \/ ExecutorCrash(e) \/ UNCHANGED exec
  BY DEF OneExecutor, Next, WaiterStep, StartWaiter, TxConfirmed, TxRefused, TookTooLong,
         UnknownError, MarkSucceeded, ResetRetries, AdvancePayAt, MarkFailed,
         WaiterScheduleRetry, WaiterFault, MineTx, LoseTx, SubmitCancel, PatchCancel,
         MineCancel, Tick, vars
<1> QED BY <1>2, <1>5, <1>6

\* The attempt just created is the payment's only one in progress, and the
\* executor that created it is past the point of creation.
LEMMA Creation ==
  ASSUME OneExecutor, OneInv, NEW e \in Executors, CreateAttempt(e)
  PROVE  OneInProgress' /\ ClearToCreate'
<1> DEFINE n == NewAttempt
<1>1. n \in AttemptIds /\ exec[e].pc = "create"
  BY FirstFree DEF CreateAttempt
<1>2. attempt'[n].payment = exec[e].cur /\ \A a \in AttemptIds \ {n} : attempt'[a] = attempt[a]
  BY <1>1 DEF CreateAttempt, OneInv, TypeInv, TypeOK
<1>3. ASSUME NEW a \in AttemptIds, a # n, attempt'[a].status = "inProgress"
      PROVE  attempt'[a].payment # attempt'[n].payment
  BY <1>1, <1>2, <1>3 DEF OneInv, ClearToCreate
<1> HIDE DEF n
<1>4. OneInProgress'
  BY <1>2, <1>3 DEF OneInv, OneInProgress
<1>5. exec'[e].pc = "count"
  BY DEF CreateAttempt, OneInv, TypeInv, TypeOK, ExecState
<1> QED BY <1>4, <1>5 DEF OneExecutor, ClearToCreate

LEMMA OneInit == Init => OneInv
<1> SUFFICES ASSUME Init PROVE OneInv
  OBVIOUS
<1> QED BY TypeInit DEF Init, OneInv, OneInProgress, ClearToCreate, Idle, LoopHead

LEMMA OneStep == OneExecutor /\ OneInv /\ [Next]_vars => OneInv'
<1> SUFFICES ASSUME OneExecutor, OneInv, [Next]_vars PROVE OneInv'
  OBVIOUS
<1>1. TypeInv'
  BY TypeStep DEF OneInv
<1>2. CASE \E e \in Executors : CreateAttempt(e)
  BY <1>1, <1>2, Creation DEF OneInv
<1>3. CASE ~\E e \in Executors : CreateAttempt(e)
  <2>1. NoNewAttempt
    BY <1>3, OnlyCreateAttemptCreates DEF OneInv
  <2>2. OneInProgress'
    BY <2>1 DEF NoNewAttempt, OneInv, OneInProgress
  <2> QED BY <1>1, <2>1, <2>2, ClearWithoutCreation DEF OneInv
<1> QED BY <1>2, <1>3

\* As long as runs of the executor do not overlap, no payment ever has two
\* attempts in progress, however the jobs, crashes and failed writes interleave.
\* (SP_overlap shows that two runs that overlap break it.)
THEOREM OneAtATime ==
  ASSUME OneExecutor
  PROVE  Spec => []OneInProgress
<1>1. Init => OneInv
  BY OneInit
<1>2. OneInv /\ [Next]_vars => OneInv'
  BY OneStep
<1>3. OneInv => OneInProgress
  BY DEF OneInv
<1> QED BY <1>1, <1>2, <1>3, PTL DEF Spec

----------------------------------------------------------------------------
(* Payments and successes.  A success is recorded for a transaction that   *)
(* was mined; an attempt has one transaction, since only the run that      *)
(* created it submits it; and a transaction that is mined has paid a cycle *)
(* that was not paid before.                                               *)

\* The run has created its attempt and has sent nothing for it.
BeforeSubmit(e) == exec[e].pc \in {"count", "record", "submit"}

\* The attempt of such a run has no transaction and is no other run's.
Owned ==
  \A e \in Executors : BeforeSubmit(e) =>
    /\ tx[exec[e].att] = "none"
    /\ \A f \in Executors : BeforeSubmit(f) /\ exec[f].att = exec[e].att => f = e

\* A success is recorded, or about to be, for a mined transaction only.
Confirmed ==
  \A a \in AttemptIds :
    waiter[a].pc = "succeed" \/ attempt[a].status = "succeeded" => tx[a] = "mined"

\* The attempts whose transaction was mined are no more than the paid cycles.
Mined(p) == {a \in AttemptIds : tx[a] = "mined" /\ attempt[a].payment = p}
Funded ==
  \A p \in Payments : /\ IsFiniteSet(paid[p])
                      /\ Cardinality(Mined(p)) <= Cardinality(paid[p])

PaidInv == TypeInv /\ Owned /\ Confirmed /\ Funded

----------------------------------------------------------------------------
(* What a step does to each part of the state. *)

LEMMA EndColumns ==
  ASSUME TypeInv, NEW a \in AttemptIds, NEW status \in {"succeeded", "failed"},
         EndAttempt(a, status)
  PROVE  /\ attempt'[a].payment = attempt[a].payment /\ attempt'[a].status = status
         /\ \A b \in AttemptIds \ {a} : attempt'[b] = attempt[b]
<1> DEFINE mid == [attempt EXCEPT ![a].status = status]
<1>1. /\ mid \in [AttemptIds -> AttemptRow] /\ mid[a].status = status
      /\ mid[a].payment = attempt[a].payment
  BY DEF TypeInv, TypeOK, AttemptRow
<1>2. \A b \in AttemptIds \ {a} : mid[b] = attempt[b]
  BY DEF TypeInv, TypeOK
<1>3. attempt' = [mid EXCEPT ![a].endedAt = now]
  BY DEF EndAttempt
<1> HIDE DEF mid
<1>4. /\ attempt'[a].status = mid[a].status /\ attempt'[a].payment = mid[a].payment
      /\ \A b \in AttemptIds \ {a} : attempt'[b] = mid[b]
  BY <1>1, <1>3 DEF AttemptRow
<1> QED BY <1>1, <1>2, <1>4

\* Which steps write the attempts.
LEMMA AttemptWriters ==
  ASSUME TypeInv, [Next]_vars
  PROVE  \/ UNCHANGED attempt
         \/ \E e \in Executors : CreateAttempt(e) \/ SaveHash(e) \/ FailAttempt(e)
         \/ \E a \in AttemptIds : MarkSucceeded(a) \/ MarkFailed(a)
<1>1. ASSUME NEW e \in Executors, ExecutorStep(e)
      PROVE  UNCHANGED attempt \/ CreateAttempt(e) \/ SaveHash(e) \/ FailAttempt(e)
  BY <1>1 DEF ExecutorStep, Fetch, ReadRows, PickNext, CheckInProgress, CheckLastSuccess,
              NoQuote, CountAttempts, RecordAttempt, Submit, EnqueueWaiter,
              ScheduleRetry, dbVars
<1>2. ASSUME NEW a \in AttemptIds, WaiterStep(a)
      PROVE  UNCHANGED attempt \/ MarkSucceeded(a) \/ MarkFailed(a)
  BY <1>2 DEF WaiterStep, StartWaiter, TxConfirmed, TxRefused, TookTooLong,
              ResetRetries, AdvancePayAt, WaiterScheduleRetry, dbVars
<1>3. \/ \E e \in Executors : ExecutorStep(e)
      \/ \E a \in AttemptIds : WaiterStep(a)
      \/ UNCHANGED attempt
  BY DEF Next, vars, ExecutorError, ExecutorCrash, UnknownError, WaiterFault, MineTx,
         LoseTx, SubmitCancel, PatchCancel, MineCancel, Tick, dbVars
<1> QED BY <1>1, <1>2, <1>3

\* A row in use keeps its payment, and becomes a success by the waiter alone.
LEMMA AttemptColumns ==
  ASSUME TypeInv, [Next]_vars
  PROVE  /\ RowsKept
         /\ \A a \in AttemptIds : attempt'[a].status = "succeeded" =>
              attempt[a].status = "succeeded" \/ waiter[a].pc = "succeed"
<1>1. CASE UNCHANGED attempt
  BY <1>1 DEF RowsKept
<1>2. ASSUME NEW e \in Executors, CreateAttempt(e)
      PROVE  /\ RowsKept
             /\ \A a \in AttemptIds : attempt'[a].status = "succeeded" =>
                  attempt[a].status = "succeeded"
  <2> DEFINE n == NewAttempt
  <2>1. n \in AttemptIds /\ attempt[n].status = "none"
    BY <1>2, FirstFree
  <2>2. attempt[n].payment \notin Payments
    BY <2>1 DEF TypeInv, AttemptRows
  <2>3. attempt'[n].status = "inProgress" /\ \A a \in AttemptIds \ {n} : attempt'[a] = attempt[a]
    BY <1>2, <2>1 DEF CreateAttempt, TypeInv, TypeOK
  <2> HIDE DEF n
  <2> QED BY <2>1, <2>2, <2>3 DEF RowsKept
<1>3. ASSUME NEW e \in Executors, SaveHash(e)
      PROVE  \A a \in AttemptIds : /\ attempt'[a].status = attempt[a].status
                                   /\ attempt'[a].payment = attempt[a].payment
  BY <1>3 DEF SaveHash, TypeInv, TypeOK, AttemptRow
<1>4. ASSUME NEW e \in Executors, FailAttempt(e)
      PROVE  exec[e].att \in AttemptIds /\ EndAttempt(exec[e].att, "failed")
  BY <1>4 DEF FailAttempt, TypeInv, ExecutorLocals, Placed
<1>5. ASSUME NEW a \in AttemptIds, NEW status \in {"succeeded", "failed"},
             EndAttempt(a, status), status = "succeeded" => waiter[a].pc = "succeed"
      PROVE  /\ RowsKept
             /\ \A b \in AttemptIds : attempt'[b].status = "succeeded" =>
                  attempt[b].status = "succeeded" \/ waiter[b].pc = "succeed"
  BY <1>5, EndColumns DEF RowsKept
<1>6. ASSUME NEW a \in AttemptIds, MarkSucceeded(a) \/ MarkFailed(a)
      PROVE  \E status \in {"succeeded", "failed"} :
               EndAttempt(a, status) /\ (status = "succeeded" => waiter[a].pc = "succeed")
  BY <1>6 DEF MarkSucceeded, MarkFailed
<1>7. CASE \E e \in Executors : CreateAttempt(e)
  BY <1>2, <1>7
<1>8. CASE \E e \in Executors : SaveHash(e)
  BY <1>3, <1>8 DEF RowsKept
<1>9. CASE \E e \in Executors : FailAttempt(e)
  BY <1>4, <1>5, <1>9
<1>10. CASE \E a \in AttemptIds : MarkSucceeded(a) \/ MarkFailed(a)
  BY <1>5, <1>6, <1>10
<1> QED BY <1>1, <1>7, <1>8, <1>9, <1>10, AttemptWriters

\* A waiter that is to record a success has seen its transaction mined.
LEMMA WaiterConfirms ==
  ASSUME TypeInv, [Next]_vars, NEW a \in AttemptIds, waiter'[a].pc = "succeed"
  PROVE  waiter[a].pc = "succeed" \/ tx[a] = "mined"
<1>1. ASSUME NEW b \in AttemptIds, NEW job \in {"queued", "done"},
             waiter' = [waiter EXCEPT ![b] = Job(job)]
      PROVE  waiter[a].pc = "succeed"
  BY <1>1 DEF Job, TypeInv, TypeOK
<1>2. ASSUME NEW b \in AttemptIds, NEW pc \in WaiterPc \ {"succeed"}, WaiterGoto(b, pc)
      PROVE  waiter[a].pc = "succeed"
  BY <1>2 DEF WaiterGoto, TypeInv, TypeOK, WaiterState
<1>3. ASSUME NEW b \in AttemptIds, TxConfirmed(b)
      PROVE  waiter[a].pc = "succeed" \/ tx[a] = "mined"
  BY <1>3 DEF TxConfirmed, WaiterGoto, TypeInv, TypeOK
<1>4. ASSUME NEW b \in AttemptIds, StartWaiter(b) PROVE waiter[a].pc = "succeed"
  <2>1. CASE JobDone(b)
    BY <1>1, <2>1 DEF JobDone
  <2>2. CASE ~JobDone(b)
    BY <1>4, <2>2 DEF StartWaiter, TypeInv, TypeOK
  <2> QED BY <2>1, <2>2
<1>5. ASSUME NEW b \in AttemptIds,
             TxRefused(b) \/ TookTooLong(b) \/ UnknownError(b) \/ WaiterFault(b)
      PROVE  waiter[a].pc = "succeed"
  BY <1>1, <1>2, <1>5
  DEF TxRefused, TookTooLong, UnknownError, WaiterFault, Requeue, WaiterPc
<1>6. ASSUME NEW b \in AttemptIds,
             \/ MarkSucceeded(b) \/ ResetRetries(b) \/ AdvancePayAt(b)
             \/ MarkFailed(b) \/ WaiterScheduleRetry(b)
      PROVE  waiter[a].pc = "succeed"
  BY <1>1, <1>2, <1>6
  DEF MarkSucceeded, ResetRetries, AdvancePayAt, MarkFailed, WaiterScheduleRetry,
      JobDone, WaiterPc
<1>7. ASSUME NEW e \in Executors, ExecutorStep(e) PROVE waiter[a].pc = "succeed"
  <2>1. CASE EnqueueWaiter(e)
    BY <1>1, <2>1 DEF EnqueueWaiter, TypeInv, ExecutorLocals, Placed
  <2>2. CASE UNCHANGED waiter
    BY <2>2
  <2> QED BY <1>7, <2>1, <2>2
          DEF ExecutorStep, Fetch, ReadRows, PickNext, CheckInProgress, CheckLastSuccess,
              NoQuote, CreateAttempt, CountAttempts, RecordAttempt, Submit, SaveHash,
              FailAttempt, ScheduleRetry
<1>8. CASE UNCHANGED waiter
  BY <1>8
<1>9. ASSUME NEW b \in AttemptIds, WaiterStep(b)
      PROVE  waiter[a].pc = "succeed" \/ tx[a] = "mined"
  BY <1>3, <1>4, <1>5, <1>6, <1>9 DEF WaiterStep
<1>10. \/ \E e \in Executors : ExecutorStep(e)
       \/ \E b \in AttemptIds : WaiterStep(b) \/ UnknownError(b) \/ WaiterFault(b)
       \/ UNCHANGED waiter
  BY DEF Next, vars, ExecutorError, ExecutorCrash, MineTx, LoseTx, SubmitCancel,
         PatchCancel, MineCancel, Tick
<1> QED BY <1>5, <1>7, <1>8, <1>9, <1>10

\* The state of a run is changed by its own steps alone.
LEMMA OneRunMoves ==
  ASSUME TypeInv, [Next]_vars, NEW e \in Executors
  PROVE  \/ ExecutorStep(e) \/ ExecutorError(e) \/ ExecutorCrash(e)
         \/ exec'[e] = exec[e]
<1>1. ASSUME NEW f \in Executors \ {e}, ExecutorStep(f) \/ ExecutorError(f) \/ ExecutorCrash(f)
      PROVE  exec'[e] = exec[e]
  BY <1>1
  DEF TypeInv, TypeOK, ExecutorStep, ExecutorError, ExecutorCrash, Fetch, ReadRows,
      PickNext, CheckInProgress, CheckLastSuccess, NoQuote, CreateAttempt, CountAttempts,
      RecordAttempt, Submit, SaveHash, EnqueueWaiter, FailAttempt, ScheduleRetry,
      LeavePayment, Goto
<1>2. \/ \E f \in Executors : ExecutorStep(f) \/ ExecutorError(f) \/ ExecutorCrash(f)
      \/ UNCHANGED exec
  BY DEF Next, vars, WaiterStep, StartWaiter, TxConfirmed, TxRefused, TookTooLong,
         UnknownError, MarkSucceeded, ResetRetries, AdvancePayAt, MarkFailed,
         WaiterScheduleRetry, WaiterFault, MineTx, LoseTx, SubmitCancel, PatchCancel,
         MineCancel, Tick
<1> QED BY <1>1, <1>2

\* A run gets to where it has an attempt and no transaction by creating one.
LEMMA WayToSubmit ==
  ASSUME TypeInv, [Next]_vars, NEW e \in Executors, ~CreateAttempt(e), BeforeSubmit(e)'
  PROVE  BeforeSubmit(e) /\ exec'[e].att = exec[e].att
<1>1. CASE exec'[e] = exec[e]
  BY <1>1 DEF BeforeSubmit
<1>2. exec \in [Executors -> ExecState] /\ exec[e] \in ExecState
  BY DEF TypeInv, TypeOK
<1>3. CASE CountAttempts(e)
  BY <1>2, <1>3 DEF CountAttempts, ExecState, BeforeSubmit
<1>4. CASE RecordAttempt(e)
  BY <1>2, <1>4 DEF RecordAttempt, ExecState, BeforeSubmit
<1>5. ~LeavePayment(e)
  BY LeaveMoves DEF BeforeSubmit
<1>6. ASSUME NEW pc \in ExecPc, Goto(e, pc) PROVE pc \in {"count", "record", "submit"}
  <2>1. exec'[e] = [exec[e] EXCEPT !.pc = pc]
    BY <1>6, GotoMoves
  <2>2. exec'[e].pc = pc
    BY <1>2, <2>1 DEF ExecState
  <2> QED BY <2>2 DEF BeforeSubmit
<1>7. ~Fetch(e) /\ ~ReadRows(e) /\ ~PickNext(e) /\ ~ExecutorCrash(e)
  <2>1. Fetch(e) => exec'[e].pc \in {"idle", "rows"}
    BY <1>2 DEF Fetch, Idle, LoopHead
  <2>2. ReadRows(e) => exec'[e].pc \in {"idle", "next"}
    BY <1>2 DEF ReadRows, LoopHead
  <2>3. PickNext(e) => exec'[e].pc = "check"
    BY <1>2 DEF PickNext, ExecState
  <2>4. ExecutorCrash(e) => exec'[e].pc = "idle"
    BY <1>2 DEF ExecutorCrash, Idle, LoopHead
  <2> QED BY <2>1, <2>2, <2>3, <2>4 DEF BeforeSubmit
<1>8. ~CheckInProgress(e)
  <2>1. CheckInProgress(e) => LeavePayment(e) \/ \E pc \in {"recent", "create"} : Goto(e, pc)
    BY DEF CheckInProgress
  <2> QED BY <1>5, <1>6, <2>1 DEF ExecPc
<1>9. ~CheckLastSuccess(e) /\ ~Submit(e) /\ ~SaveHash(e) /\ ~FailAttempt(e) /\ ~ExecutorError(e)
  BY <1>5, <1>6 DEF CheckLastSuccess, Submit, SaveHash, FailAttempt, ExecutorError, ExecPc
<1>10. ~NoQuote(e) /\ ~EnqueueWaiter(e) /\ ~ScheduleRetry(e)
  BY <1>5 DEF NoQuote, EnqueueWaiter, ScheduleRetry
<1>11. \/ ExecutorStep(e) \/ ExecutorError(e) \/ ExecutorCrash(e)
       \/ exec'[e] = exec[e]
  BY OneRunMoves
<1> QED BY <1>1, <1>3, <1>4, <1>7, <1>8, <1>9, <1>10, <1>11 DEF ExecutorStep

\* A transaction comes from the run that owns the attempt, and is settled once.
LEMMA TxWriters ==
  ASSUME TypeInv, [Next]_vars
  PROVE  \/ UNCHANGED <<tx, paid>>
         \/ \E e \in Executors : Submit(e)
         \/ \E a \in AttemptIds : MineTx(a) \/ LoseTx(a)
<1>1. ASSUME NEW e \in Executors, ExecutorStep(e)
      PROVE  UNCHANGED <<tx, paid>> \/ Submit(e)
  BY <1>1 DEF ExecutorStep, Fetch, ReadRows, PickNext, CheckInProgress, CheckLastSuccess,
              NoQuote, CreateAttempt, CountAttempts, RecordAttempt, SaveHash,
              EnqueueWaiter, FailAttempt, ScheduleRetry, chainVars
<1>2. ASSUME NEW a \in AttemptIds, WaiterStep(a) PROVE UNCHANGED <<tx, paid>>
  BY <1>2 DEF WaiterStep, StartWaiter, TxConfirmed, TxRefused, TookTooLong, MarkSucceeded,
              ResetRetries, AdvancePayAt, MarkFailed, WaiterScheduleRetry, chainVars
<1> QED BY <1>1, <1>2
        DEF Next, vars, ExecutorError, ExecutorCrash, UnknownError, WaiterFault,
            SubmitCancel, PatchCancel, MineCancel, Tick, chainVars

\* What is mined stays mined, and only a pending transaction is.
LEMMA MinedStays ==
  ASSUME PaidInv, [Next]_vars, NEW a \in AttemptIds, tx[a] = "mined"
  PROVE  tx'[a] = "mined"
<1>1. ASSUME NEW e \in Executors, Submit(e) PROVE tx'[a] = tx[a]
  <2>1. exec[e].att \in AttemptIds /\ tx[exec[e].att] = "none"
    BY <1>1 DEF Submit, PaidInv, Owned, BeforeSubmit, TypeInv, ExecutorLocals, Placed
  <2> QED BY <1>1, <2>1 DEF Submit, PaidInv, TypeInv, TypeOK
<1>2. ASSUME NEW b \in AttemptIds, MineTx(b) \/ LoseTx(b) PROVE tx'[a] = tx[a]
  BY <1>2 DEF MineTx, LoseTx, PaidInv, TypeInv, TypeOK
<1> QED BY <1>1, <1>2, TxWriters DEF PaidInv

----------------------------------------------------------------------------
(* The invariant. *)

LEMMA OwnedKept ==
  ASSUME PaidInv, [Next]_vars
  PROVE  Owned'
<1> SUFFICES ASSUME NEW e \in Executors, BeforeSubmit(e)'
             PROVE  /\ tx'[exec'[e].att] = "none"
                    /\ \A f \in Executors :
                         BeforeSubmit(f)' /\ exec'[f].att = exec'[e].att => f = e
  BY DEF Owned
<1>1. TypeInv
  BY DEF PaidInv
\* A run that creates its attempt takes a row that no other run has.
<1>2. ASSUME NEW g \in Executors, CreateAttempt(g)
      PROVE  /\ exec'[g].att \in AttemptIds /\ tx'[exec'[g].att] = "none"
             /\ \A f \in Executors \ {g} :
                  exec'[f] = exec[f] /\ (BeforeSubmit(f) => exec[f].att # exec'[g].att)
             /\ UNCHANGED tx
  <2> DEFINE n == NewAttempt
  <2>1. n \in AttemptIds /\ attempt[n].status = "none"
    BY <1>2, FirstFree
  <2>2. attempt[n].payment \notin Payments /\ tx[n] = "none"
    BY <1>1, <2>1 DEF TypeInv, AttemptRows
  <2>3. exec'[g].att = n /\ \A f \in Executors \ {g} : exec'[f] = exec[f]
    BY <1>1, <1>2 DEF CreateAttempt, TypeInv, TypeOK, ExecState
  <2>4. ASSUME NEW f \in Executors, BeforeSubmit(f) PROVE exec[f].att # n
    <3>1. attempt[exec[f].att].payment \in Payments
      BY <1>1, <2>4 DEF BeforeSubmit, TypeInv, ExecutorLocals, Placed
    <3> QED BY <2>2, <3>1
  <2>5. UNCHANGED tx
    BY <1>2 DEF CreateAttempt, chainVars
  <2> HIDE DEF n
  <2> QED BY <2>1, <2>2, <2>3, <2>4, <2>5
<1>3. CASE \E g \in Executors : CreateAttempt(g)
  <2> PICK g \in Executors : CreateAttempt(g)
    BY <1>3
  <2>1. CASE e = g
    BY <1>2, <2>1 DEF BeforeSubmit
  <2>2. CASE e # g
    BY <1>2, <2>2 DEF BeforeSubmit, PaidInv, Owned
  <2> QED BY <2>1, <2>2
<1>4. CASE ~\E g \in Executors : CreateAttempt(g)
  <2>1. \A f \in Executors : BeforeSubmit(f)' => BeforeSubmit(f) /\ exec'[f].att = exec[f].att
    BY <1>1, <1>4, WayToSubmit
  <2>2. exec[e].att \in AttemptIds /\ tx[exec[e].att] = "none"
    BY <2>1 DEF PaidInv, Owned, BeforeSubmit, TypeInv, ExecutorLocals, Placed
  <2>3. ASSUME NEW g \in Executors, Submit(g) PROVE tx'[exec[e].att] = "none"
    <3>1. BeforeSubmit(g) /\ ~BeforeSubmit(g)'
      BY <1>1, <2>3, GotoMoves DEF Submit, BeforeSubmit, TypeInv, TypeOK, ExecState, Goto
    <3>2. g # e
      BY <3>1
    <3>3. exec[g].att # exec[e].att
      BY <2>1, <3>1, <3>2 DEF PaidInv, Owned
    <3> QED BY <1>1, <2>2, <2>3, <3>3 DEF Submit, TypeInv, TypeOK
  <2>4. ASSUME NEW a \in AttemptIds, MineTx(a) \/ LoseTx(a) PROVE tx'[exec[e].att] = "none"
    BY <1>1, <2>2, <2>4 DEF MineTx, LoseTx, TypeInv, TypeOK
  <2>5. tx'[exec[e].att] = "none"
    BY <1>1, <2>2, <2>3, <2>4, TxWriters
  <2> QED BY <2>1, <2>5 DEF PaidInv, Owned
<1> QED BY <1>3, <1>4

LEMMA ConfirmedKept ==
  ASSUME PaidInv, [Next]_vars
  PROVE  Confirmed'
<1> SUFFICES ASSUME NEW a \in AttemptIds,
                    waiter'[a].pc = "succeed" \/ attempt'[a].status = "succeeded"
             PROVE  tx'[a] = "mined"
  BY DEF Confirmed
<1>1. TypeInv
  BY DEF PaidInv
<1>2. tx[a] = "mined"
  BY <1>1, WaiterConfirms, AttemptColumns DEF PaidInv, Confirmed
<1> QED BY <1>2, MinedStays

\* One more element.
LEMMA OneMore ==
  ASSUME NEW S, IsFiniteSet(S), NEW x
  PROVE  /\ IsFiniteSet(S \cup {x})
         /\ Cardinality(S \cup {x}) \in Nat
         /\ Cardinality(S \cup {x}) <= Cardinality(S) + 1
         /\ x \notin S => Cardinality(S \cup {x}) = Cardinality(S) + 1
<1>1. /\ IsFiniteSet(S \cup {x})
      /\ Cardinality(S \cup {x}) = IF x \in S THEN Cardinality(S) ELSE Cardinality(S) + 1
  BY FS_AddElement
<1>2. Cardinality(S) \in Nat
  BY FS_CardinalityType
<1> QED BY <1>1, <1>2

LEMMA FundedKept ==
  ASSUME PaidInv, [Next]_vars
  PROVE  Funded'
<1> SUFFICES ASSUME NEW p \in Payments
             PROVE  /\ IsFiniteSet(paid'[p])
                    /\ Cardinality(Mined(p)') <= Cardinality(paid'[p])
  BY DEF Funded
<1>1. IsFiniteSet(AttemptIds) /\ Mined(p) \subseteq AttemptIds /\ Mined(p)' \subseteq AttemptIds
  BY FS_Interval, AttemptsAssumption DEF AttemptIds, Mined
<1>2. /\ IsFiniteSet(Mined(p)) /\ Cardinality(Mined(p)) \in Nat
      /\ IsFiniteSet(Mined(p)') /\ Cardinality(Mined(p)') \in Nat
  BY <1>1, FS_Subset, FS_CardinalityType
<1>3. /\ IsFiniteSet(paid[p]) /\ Cardinality(paid[p]) \in Nat
      /\ Cardinality(Mined(p)) <= Cardinality(paid[p])
  BY FS_CardinalityType DEF PaidInv, Funded
<1>4. ASSUME Mined(p)' \subseteq Mined(p), paid'[p] = paid[p]
      PROVE  IsFiniteSet(paid'[p]) /\ Cardinality(Mined(p)') <= Cardinality(paid'[p])
  <2>1. Cardinality(Mined(p)') <= Cardinality(Mined(p))
    BY <1>2, <1>4, FS_Subset
  <2> QED BY <1>2, <1>3, <1>4, <2>1
<1>5. CASE \E a \in AttemptIds : MineTx(a)
  <2> PICK a \in AttemptIds : MineTx(a)
    BY <1>5
  <2>1. \A b \in AttemptIds : tx'[b] = "mined" <=> tx[b] = "mined" \/ b = a
    BY DEF MineTx, PaidInv, TypeInv, TypeOK
  <2>2. attempt' = attempt /\ attempt[a].payment \in Payments
    BY DEF MineTx, dbVars, PaidInv, TypeInv, AttemptRows
  <2>3. PICK c \in OpenCycles(attempt[a].payment) :
          paid' = [paid EXCEPT ![attempt[a].payment] = @ \cup {c}]
    BY DEF MineTx
  <2>4. CASE attempt[a].payment # p
    <3>1. Mined(p)' \subseteq Mined(p) /\ paid'[p] = paid[p]
      BY <2>1, <2>2, <2>3, <2>4 DEF Mined, PaidInv, TypeInv, TypeOK
    <3> QED BY <1>4, <3>1
  <2>5. CASE attempt[a].payment = p
    <3>1. paid'[p] = paid[p] \cup {c} /\ c \notin paid[p]
      BY <2>3, <2>5 DEF OpenCycles, PaidInv, TypeInv, TypeOK
    <3>2. IsFiniteSet(paid'[p]) /\ Cardinality(paid'[p]) = Cardinality(paid[p]) + 1
      <4>1. /\ IsFiniteSet(paid[p] \cup {c})
            /\ Cardinality(paid[p] \cup {c}) = Cardinality(paid[p]) + 1
        BY <1>3, <3>1, OneMore
      <4> QED BY <3>1, <4>1
    <3>3. Mined(p)' \subseteq Mined(p) \cup {a}
      BY <2>1, <2>2 DEF Mined
    <3>4. /\ IsFiniteSet(Mined(p) \cup {a})
          /\ Cardinality(Mined(p) \cup {a}) \in Nat
          /\ Cardinality(Mined(p) \cup {a}) <= Cardinality(Mined(p)) + 1
      BY <1>2, OneMore
    <3>5. Cardinality(Mined(p)') <= Cardinality(Mined(p) \cup {a})
      BY <3>3, <3>4, FS_Subset
    <3> QED BY <1>2, <1>3, <3>2, <3>4, <3>5
  <2> QED BY <2>4, <2>5
<1>6. CASE ~\E a \in AttemptIds : MineTx(a)
  <2>1. paid' = paid
    BY <1>6, TxWriters DEF PaidInv, Submit, LoseTx
  <2>2. \A a \in AttemptIds : tx'[a] = "mined" => tx[a] = "mined"
    <3>1. ASSUME NEW e \in Executors, Submit(e)
          PROVE  \A a \in AttemptIds : tx'[a] = "mined" => tx[a] = "mined"
      BY <3>1 DEF Submit, PaidInv, TypeInv, TypeOK
    <3>2. ASSUME NEW b \in AttemptIds, LoseTx(b)
          PROVE  \A a \in AttemptIds : tx'[a] = "mined" => tx[a] = "mined"
      BY <3>2 DEF LoseTx, PaidInv, TypeInv, TypeOK
    <3> QED BY <1>6, <3>1, <3>2, TxWriters DEF PaidInv
  <2>3. Mined(p)' \subseteq Mined(p)
    <3>1. RowsKept
      BY AttemptColumns DEF PaidInv
    <3>2. \A a \in AttemptIds : tx[a] = "mined" => attempt'[a].payment = attempt[a].payment
      BY <3>1 DEF RowsKept, PaidInv, TypeInv, AttemptRows
    <3> QED BY <2>2, <3>2 DEF Mined
  <2> QED BY <1>4, <2>1, <2>3
<1> QED BY <1>5, <1>6

LEMMA PaidInit == Init => PaidInv
<1> SUFFICES ASSUME Init PROVE PaidInv
  OBVIOUS
<1>1. TypeInv
  BY TypeInit
<1>2. Owned /\ Confirmed
  BY DEF Init, Owned, BeforeSubmit, Confirmed, Idle, LoopHead, Job
<1>3. ASSUME NEW p \in Payments
      PROVE  IsFiniteSet(paid[p]) /\ Cardinality(Mined(p)) <= Cardinality(paid[p])
  <2>1. Mined(p) = {} /\ paid[p] = {}
    BY DEF Init, Mined
  <2> QED BY <2>1, FS_EmptySet
<1> QED BY <1>1, <1>2, <1>3 DEF PaidInv, Funded

LEMMA PaidStep == PaidInv /\ [Next]_vars => PaidInv'
BY TypeStep, OwnedKept, ConfirmedKept, FundedKept DEF PaidInv

\* The successes of a payment are among its mined attempts.
LEMMA PaidInvImplies == PaidInv => SuccessesArePaid
<1> SUFFICES ASSUME PaidInv, NEW p \in Payments
             PROVE  Cardinality(WithStatus(p, "succeeded")) <= Cardinality(paid[p])
  BY DEF SuccessesArePaid
<1>1. IsFiniteSet(AttemptIds) /\ Mined(p) \subseteq AttemptIds
  BY FS_Interval, AttemptsAssumption DEF AttemptIds, Mined
<1>2. IsFiniteSet(Mined(p)) /\ Cardinality(Mined(p)) \in Nat
  BY <1>1, FS_Subset, FS_CardinalityType
<1>3. WithStatus(p, "succeeded") \subseteq Mined(p)
  BY DEF WithStatus, AttemptsOf, Mined, PaidInv, Confirmed
<1>4. /\ Cardinality(WithStatus(p, "succeeded")) <= Cardinality(Mined(p))
      /\ Cardinality(WithStatus(p, "succeeded")) \in Nat
  BY <1>2, <1>3, FS_Subset, FS_CardinalityType
<1>5. Cardinality(Mined(p)) <= Cardinality(paid[p]) /\ Cardinality(paid[p]) \in Nat
  BY FS_CardinalityType DEF PaidInv, Funded
<1> QED BY <1>2, <1>4, <1>5

\* No more attempts of a payment are ever recorded as succeeded than the contract
\* has paid cycles of it, also when executor runs overlap, jobs run twice, calls
\* fail after the transaction was sent and processes die.
THEOREM SuccessesPaid == Spec => []SuccessesArePaid
BY PaidInit, PaidStep, PaidInvImplies, PTL DEF Spec

----------------------------------------------------------------------------
(* Each attempt is in the hands of one run of the executor, and then of    *)
(* one waiter job.                                                         *)

\* The run has created an attempt that it has neither ended nor handed over.
Owns(e) == exec[e].pc \in {"count", "record", "submit", "save", "enqueue", "fail"}

\* What the place of a waiter job says of the status of its attempt.
JobFits(a) ==
  /\ waiter[a].pc # "none" => attempt[a].status # "none"
  /\ waiter[a].pc \in {"waiting", "succeed", "fail"} => attempt[a].status = "inProgress"
  /\ waiter[a].pc \in {"reset", "advance"} => attempt[a].status = "succeeded"
  /\ waiter[a].pc = "backoff" => attempt[a].status = "failed"
RunFits(e) ==
  Owns(e) =>
    /\ attempt[exec[e].att].status = "inProgress" /\ waiter[exec[e].att].pc = "none"
    /\ \A f \in Executors : Owns(f) /\ exec[f].att = exec[e].att => f = e
Handed == (\A e \in Executors : RunFits(e)) /\ (\A a \in AttemptIds : JobFits(a))

JobInv == PaidInv /\ Handed

\* A run gets to own an attempt by creating it.
LEMMA WayToOwn ==
  ASSUME TypeInv, [Next]_vars, NEW e \in Executors, ~CreateAttempt(e), Owns(e)'
  PROVE  Owns(e) /\ exec'[e].att = exec[e].att
<1>1. CASE exec'[e] = exec[e]
  BY <1>1 DEF Owns
<1>2. exec \in [Executors -> ExecState] /\ exec[e] \in ExecState
  BY DEF TypeInv, TypeOK
<1>3. CASE CountAttempts(e) \/ RecordAttempt(e)
  BY <1>2, <1>3 DEF CountAttempts, RecordAttempt, ExecState, Owns
<1>4. ~LeavePayment(e)
  BY LeaveMoves DEF Owns
<1>5. ASSUME NEW pc \in ExecPc, Goto(e, pc)
      PROVE  /\ pc \in {"count", "record", "submit", "save", "enqueue", "fail"}
             /\ exec'[e].att = exec[e].att
  <2>1. exec'[e] = [exec[e] EXCEPT !.pc = pc]
    BY <1>5, GotoMoves
  <2>2. exec'[e].pc = pc /\ exec'[e].att = exec[e].att
    BY <1>2, <2>1 DEF ExecState
  <2> QED BY <2>2 DEF Owns
<1>6. ~Fetch(e) /\ ~ReadRows(e) /\ ~PickNext(e) /\ ~ExecutorCrash(e)
  <2>1. Fetch(e) => exec'[e].pc \in {"idle", "rows"}
    BY <1>2 DEF Fetch, Idle, LoopHead
  <2>2. ReadRows(e) => exec'[e].pc \in {"idle", "next"}
    BY <1>2 DEF ReadRows, LoopHead
  <2>3. PickNext(e) => exec'[e].pc = "check"
    BY <1>2 DEF PickNext, ExecState
  <2>4. ExecutorCrash(e) => exec'[e].pc = "idle"
    BY <1>2 DEF ExecutorCrash, Idle, LoopHead
  <2> QED BY <2>1, <2>2, <2>3, <2>4 DEF Owns
<1>7. ~CheckInProgress(e)
  <2>1. CheckInProgress(e) => LeavePayment(e) \/ \E pc \in {"recent", "create"} : Goto(e, pc)
    BY DEF CheckInProgress
  <2> QED BY <1>4, <1>5, <2>1 DEF ExecPc
<1>8. ~CheckLastSuccess(e) /\ ~FailAttempt(e)
  BY <1>4, <1>5 DEF CheckLastSuccess, FailAttempt, ExecPc
<1>9. CASE Submit(e) \/ SaveHash(e) \/ ExecutorError(e)
  <2>1. PICK pc \in {"save", "fail", "enqueue"} : Goto(e, pc)
    BY <1>4, <1>9 DEF Submit, SaveHash, ExecutorError
  <2>2. exec'[e].att = exec[e].att
    BY <1>5, <2>1 DEF ExecPc
  <2>3. Owns(e)
    BY <1>4, <1>9 DEF Submit, SaveHash, ExecutorError, Owns
  <2> QED BY <2>2, <2>3
<1>10. ~NoQuote(e) /\ ~EnqueueWaiter(e) /\ ~ScheduleRetry(e)
  BY <1>4 DEF NoQuote, EnqueueWaiter, ScheduleRetry
<1>11. \/ ExecutorStep(e) \/ ExecutorError(e) \/ ExecutorCrash(e)
       \/ exec'[e] = exec[e]
  BY OneRunMoves
<1> QED BY <1>1, <1>3, <1>6, <1>7, <1>8, <1>9, <1>10, <1>11 DEF ExecutorStep

\* What a step of the job of attempt a does: it moves the job on, and it may end
\* the attempt.
WaiterMove(a) ==
  /\ waiter[a].pc # "none" /\ UNCHANGED exec
  /\ \A b \in AttemptIds \ {a} : waiter'[b] = waiter[b]
Parked(a) == waiter'[a].pc \in {"queued", "done"} /\ UNCHANGED attempt
Started(a) ==
  /\ waiter'[a].pc = "waiting" /\ attempt[a].status = "inProgress" /\ UNCHANGED attempt
  /\ waiter'[a].payAt = payment[attempt[a].payment].payAt
Onward(a) ==
  /\ \/ waiter[a].pc = "waiting" /\ waiter'[a].pc \in {"succeed", "fail"}
     \/ waiter[a].pc = "reset" /\ waiter'[a].pc = "advance"
  /\ waiter'[a].payAt = waiter[a].payAt /\ UNCHANGED attempt
Ended(a) ==
  /\ waiter'[a].payAt = waiter[a].payAt
  /\ \/ waiter[a].pc = "succeed" /\ waiter'[a].pc = "reset" /\ EndAttempt(a, "succeeded")
     \/ waiter[a].pc = "fail" /\ waiter'[a].pc = "backoff" /\ EndAttempt(a, "failed")

LEMMA WaiterMoves ==
  ASSUME TypeInv, NEW a \in AttemptIds, WaiterStep(a) \/ UnknownError(a) \/ WaiterFault(a)
  PROVE  /\ WaiterMove(a)
         /\ Parked(a) \/ Started(a) \/ Onward(a) \/ Ended(a)
<1>1. waiter \in [AttemptIds -> WaiterState] /\ waiter[a] \in WaiterState
  BY DEF TypeInv, TypeOK
<1>2. ASSUME NEW job \in {"queued", "done"}, waiter' = [waiter EXCEPT ![a] = Job(job)]
      PROVE  waiter'[a].pc = job /\ \A b \in AttemptIds \ {a} : waiter'[b] = waiter[b]
  BY <1>1, <1>2 DEF Job
<1>3. ASSUME NEW pc \in WaiterPc, WaiterGoto(a, pc)
      PROVE  /\ waiter'[a].pc = pc /\ waiter'[a].payAt = waiter[a].payAt
             /\ \A b \in AttemptIds \ {a} : waiter'[b] = waiter[b]
  BY <1>1, <1>3 DEF WaiterGoto, WaiterState
<1>4. CASE StartWaiter(a)
  <2>1. CASE JobDone(a)
    BY <1>2, <1>4, <2>1 DEF StartWaiter, JobDone, WaiterMove, Parked, dbVars
  <2>2. CASE ~JobDone(a)
    <3>1. /\ attempt[a].status = "inProgress"
          /\ waiter' = [waiter EXCEPT ![a] =
               [pc |-> "waiting", since |-> now,
                payAt |-> payment[attempt[a].payment].payAt,
                count |-> payment[attempt[a].payment].count]]
      BY <1>4, <2>2 DEF StartWaiter
    <3>2. /\ waiter'[a].pc = "waiting"
          /\ waiter'[a].payAt = payment[attempt[a].payment].payAt
          /\ \A b \in AttemptIds \ {a} : waiter'[b] = waiter[b]
      BY <1>1, <3>1
    <3> QED BY <1>4, <3>1, <3>2 DEF StartWaiter, WaiterMove, Started, dbVars
  <2> QED BY <2>1, <2>2
<1>5. CASE Requeue(a) /\ UNCHANGED <<attempt, exec>> /\ waiter[a].pc # "none"
  BY <1>2, <1>5 DEF Requeue, WaiterMove, Parked
<1>6. CASE TxConfirmed(a) \/ TxRefused(a) \/ TookTooLong(a) \/ UnknownError(a) \/ WaiterFault(a)
  <2>1. CASE Requeue(a)
    BY <1>5, <1>6, <2>1
    DEF TxConfirmed, TxRefused, TookTooLong, UnknownError, WaiterFault, dbVars
  <2>2. CASE ~Requeue(a)
    <3>1. PICK pc \in {"succeed", "fail"} : WaiterGoto(a, pc)
      BY <1>6, <2>2 DEF TxConfirmed, TxRefused, TookTooLong, UnknownError, WaiterFault
    <3>2. waiter[a].pc = "waiting" /\ UNCHANGED <<attempt, exec>>
      BY <1>6, <2>2
      DEF TxConfirmed, TxRefused, TookTooLong, UnknownError, WaiterFault, dbVars
    <3> QED BY <1>3, <3>1, <3>2 DEF WaiterMove, Onward, WaiterPc
  <2> QED BY <2>1, <2>2
<1>7. CASE ResetRetries(a) \/ AdvancePayAt(a) \/ WaiterScheduleRetry(a)
  <2>1. CASE JobDone(a)
    BY <1>2, <1>7, <2>1
    DEF JobDone, ResetRetries, AdvancePayAt, WaiterScheduleRetry, WaiterMove, Parked
  <2>2. CASE ~JobDone(a)
    <3>1. WaiterGoto(a, "advance") /\ waiter[a].pc = "reset" /\ UNCHANGED <<attempt, exec>>
      BY <1>7, <2>2 DEF ResetRetries, AdvancePayAt, WaiterScheduleRetry
    <3> QED BY <1>3, <3>1 DEF WaiterMove, Onward, WaiterPc
  <2> QED BY <2>1, <2>2
<1>8. CASE MarkSucceeded(a)
  BY <1>3, <1>8 DEF MarkSucceeded, WaiterMove, Ended, WaiterPc
<1>9. CASE MarkFailed(a)
  BY <1>3, <1>9 DEF MarkFailed, WaiterMove, Ended, WaiterPc
<1> QED BY <1>4, <1>6, <1>7, <1>8, <1>9 DEF WaiterStep

\* The other steps that the jobs and the attempts are changed by.
LEMMA OtherWriters ==
  ASSUME TypeInv, [Next]_vars
  PROVE  \/ \E a \in AttemptIds : WaiterStep(a) \/ UnknownError(a) \/ WaiterFault(a)
         \/ \E e \in Executors : CreateAttempt(e) \/ EnqueueWaiter(e) \/ FailAttempt(e)
         \/ /\ UNCHANGED waiter /\ \A e \in Executors : ~CreateAttempt(e)
            /\ \A a \in AttemptIds : /\ attempt'[a].status = attempt[a].status
                                     /\ attempt'[a].payment = attempt[a].payment
<1>1. ASSUME NEW e \in Executors, SaveHash(e)
      PROVE  \A a \in AttemptIds : /\ attempt'[a].status = attempt[a].status
                                   /\ attempt'[a].payment = attempt[a].payment
  BY <1>1 DEF SaveHash, TypeInv, TypeOK, AttemptRow
<1>2. ASSUME NEW e \in Executors, ExecutorStep(e)
      PROVE  \/ CreateAttempt(e) \/ EnqueueWaiter(e) \/ FailAttempt(e)
             \/ UNCHANGED waiter /\ (UNCHANGED attempt \/ SaveHash(e))
  BY <1>2 DEF ExecutorStep, Fetch, ReadRows, PickNext, CheckInProgress, CheckLastSuccess,
              NoQuote, CountAttempts, RecordAttempt, Submit, SaveHash, ScheduleRetry, dbVars
<1>3. \/ \E e \in Executors : ExecutorStep(e)
      \/ \E a \in AttemptIds : WaiterStep(a) \/ UnknownError(a) \/ WaiterFault(a)
      \/ UNCHANGED <<waiter, attempt>>
  BY DEF Next, vars, ExecutorError, ExecutorCrash, MineTx, LoseTx, SubmitCancel, PatchCancel,
         MineCancel, Tick, dbVars
<1> QED BY <1>1, <1>2, <1>3

\* A run that owns its attempt has one, and it is in use.
LEMMA OwnedRow ==
  ASSUME TypeInv, NEW e \in Executors, Owns(e)
  PROVE  exec[e].att \in AttemptIds
BY DEF Owns, TypeInv, ExecutorLocals, Placed

\* Steps that leave the attempts that a run owns to it.
LEMMA RunsStayFit ==
  ASSUME JobInv, NEW e \in Executors,
         \A f \in Executors : Owns(f)' => Owns(f) /\ exec'[f].att = exec[f].att,
         Owns(e)' => /\ attempt'[exec[e].att].status = attempt[exec[e].att].status
                     /\ waiter'[exec[e].att].pc = waiter[exec[e].att].pc
  PROVE  RunFits(e)'
BY DEF JobInv, Handed, RunFits

LEMMA HandedByWaiter ==
  ASSUME JobInv, NEW a \in AttemptIds, WaiterStep(a) \/ UnknownError(a) \/ WaiterFault(a)
  PROVE  Handed'
<1>1. TypeInv /\ JobFits(a)
  BY DEF JobInv, PaidInv, Handed
<1>2. WaiterMove(a) /\ (Parked(a) \/ Started(a) \/ Onward(a) \/ Ended(a))
  BY <1>1, WaiterMoves
<1>3. /\ \A b \in AttemptIds \ {a} : attempt'[b] = attempt[b]
      /\ Ended(a) \/ UNCHANGED attempt
  BY <1>1, <1>2, EndColumns DEF Parked, Started, Onward, Ended
<1>4. JobFits(a)'
  <2>1. CASE Ended(a)
    <3>1. \/ waiter'[a].pc = "reset" /\ attempt'[a].status = "succeeded"
          \/ waiter'[a].pc = "backoff" /\ attempt'[a].status = "failed"
      BY <1>1, <2>1, EndColumns DEF Ended
    <3> QED BY <3>1 DEF JobFits
  <2>2. CASE ~Ended(a)
    BY <1>1, <1>2, <1>3, <2>2 DEF JobFits, Parked, Started, Onward, WaiterMove
  <2> QED BY <2>1, <2>2
<1>5. ASSUME NEW b \in AttemptIds, b # a PROVE JobFits(b)'
  BY <1>2, <1>3, <1>5 DEF JobInv, Handed, JobFits, WaiterMove
<1>6. ASSUME NEW e \in Executors PROVE RunFits(e)'
  <2>1. \A f \in Executors : Owns(f)' => Owns(f) /\ exec'[f].att = exec[f].att
    BY <1>2 DEF Owns, WaiterMove
  <2>2. ASSUME Owns(e)
        PROVE  exec[e].att \in AttemptIds /\ exec[e].att # a
    <3>1. waiter[exec[e].att].pc = "none"
      BY <2>2 DEF JobInv, Handed, RunFits
    <3>2. waiter[a].pc # "none"
      BY <1>2 DEF WaiterMove
    <3> QED BY <1>1, <2>2, <3>1, <3>2, OwnedRow
  <2>3. Owns(e) => /\ attempt'[exec[e].att].status = attempt[exec[e].att].status
                   /\ waiter'[exec[e].att].pc = waiter[exec[e].att].pc
    BY <1>2, <1>3, <2>2 DEF WaiterMove
  <2> QED BY <2>1, <2>3, RunsStayFit
<1> QED BY <1>4, <1>5, <1>6 DEF Handed

LEMMA HandedByCreation ==
  ASSUME JobInv, [Next]_vars, NEW e \in Executors, CreateAttempt(e)
  PROVE  Handed'
<1>1. TypeInv
  BY DEF JobInv, PaidInv
<1> DEFINE n == NewAttempt
<1>2. n \in AttemptIds /\ attempt[n].status = "none"
  BY FirstFree
<1>3. waiter[n].pc = "none"
  BY <1>2 DEF JobInv, Handed, JobFits
<1>4. attempt'[n].status = "inProgress" /\ \A a \in AttemptIds \ {n} : attempt'[a] = attempt[a]
  BY <1>1, <1>2 DEF CreateAttempt, TypeInv, TypeOK
<1>5. /\ UNCHANGED waiter /\ exec'[e].att = n
      /\ \A f \in Executors \ {e} : exec'[f] = exec[f]
  BY <1>1 DEF CreateAttempt, TypeInv, TypeOK, ExecState
<1> HIDE DEF n
<1>6. ASSUME NEW a \in AttemptIds PROVE JobFits(a)'
  <2>1. CASE a = n
    BY <1>3, <1>5, <2>1 DEF JobFits
  <2>2. CASE a # n
    BY <1>4, <1>5, <2>2 DEF JobInv, Handed, JobFits
  <2> QED BY <2>1, <2>2
<1>7. ASSUME NEW f \in Executors, Owns(f) PROVE exec[f].att \in AttemptIds \ {n}
  <2>1. attempt[exec[f].att].status = "inProgress"
    BY <1>7 DEF JobInv, Handed, RunFits
  <2> QED BY <1>1, <1>2, <1>7, <2>1, OwnedRow
<1>8. RunFits(e)'
  <2>1. \A f \in Executors \ {e} : Owns(f)' => exec'[f].att # n
    BY <1>5, <1>7 DEF Owns
  <2> QED BY <1>3, <1>4, <1>5, <2>1 DEF RunFits
<1>9. ASSUME NEW f \in Executors, f # e, Owns(f)' PROVE RunFits(f)'
  <2>1. Owns(f) /\ exec'[f] = exec[f]
    BY <1>5, <1>9 DEF Owns
  <2>2. exec[f].att \in AttemptIds \ {n}
    BY <1>7, <2>1
  <2>3. /\ attempt[exec[f].att].status = "inProgress" /\ waiter[exec[f].att].pc = "none"
        /\ \A g \in Executors : Owns(g) /\ exec[g].att = exec[f].att => g = f
    BY <2>1 DEF JobInv, Handed, RunFits
  <2>4. \A g \in Executors : Owns(g)' /\ exec'[g].att = exec'[f].att => g = f
    BY <1>5, <2>1, <2>2, <2>3 DEF Owns
  <2> QED BY <1>4, <1>5, <2>1, <2>2, <2>3, <2>4 DEF RunFits
<1> QED BY <1>6, <1>8, <1>9 DEF Handed, RunFits

\* The run hands its attempt over, or ends it.
LEMMA HandedByRun ==
  ASSUME JobInv, [Next]_vars, NEW e \in Executors, EnqueueWaiter(e) \/ FailAttempt(e)
  PROVE  Handed'
<1> DEFINE a == exec[e].att
<1>1. TypeInv /\ Owns(e) /\ a \in AttemptIds /\ attempt[a].status = "inProgress"
      /\ waiter[a].pc = "none"
  <2>1. TypeInv /\ Owns(e)
    BY DEF JobInv, PaidInv, EnqueueWaiter, FailAttempt, Owns
  <2> QED BY <2>1, OwnedRow DEF JobInv, Handed, RunFits
<1>2. /\ ~Owns(e)' /\ \A f \in Executors \ {e} : exec'[f] = exec[f]
  <2>1. CASE LeavePayment(e)
    BY <1>1, <2>1, LeaveMoves DEF Owns, Others
  <2>2. CASE Goto(e, "backoff")
    <3>1. exec'[e] = [exec[e] EXCEPT !.pc = "backoff"] /\ Others(e)
      BY <1>1, <2>2, GotoMoves DEF ExecPc
    <3>2. exec'[e].pc = "backoff"
      BY <1>1, <3>1 DEF TypeInv, TypeOK, ExecState
    <3> QED BY <3>1, <3>2 DEF Owns, Others
  <2> QED BY <2>1, <2>2 DEF EnqueueWaiter, FailAttempt
<1>3. /\ \A b \in AttemptIds \ {a} : attempt'[b] = attempt[b] /\ waiter'[b] = waiter[b]
      /\ \/ waiter'[a].pc = "queued" /\ attempt'[a].status = "inProgress"
         \/ waiter'[a].pc = "none" /\ attempt'[a].status = "failed"
  <2>1. CASE EnqueueWaiter(e)
    BY <1>1, <2>1 DEF EnqueueWaiter, Job, dbVars, TypeInv, TypeOK
  <2>2. CASE FailAttempt(e)
    BY <1>1, <2>2, EndColumns DEF FailAttempt
  <2> QED BY <2>1, <2>2
<1> HIDE DEF a
<1>4. ASSUME NEW b \in AttemptIds PROVE JobFits(b)'
  BY <1>3 DEF JobInv, Handed, JobFits
<1>5. ASSUME NEW f \in Executors PROVE RunFits(f)'
  <2>1. \A g \in Executors : Owns(g)' => Owns(g) /\ exec'[g].att = exec[g].att
    BY <1>2 DEF Owns
  <2>2. ASSUME Owns(f)' PROVE exec[f].att \in AttemptIds \ {a}
    <3>1. f # e /\ Owns(f)
      BY <1>2, <2>1, <2>2
    <3> QED BY <1>1, <3>1, OwnedRow DEF JobInv, Handed, RunFits, a
  <2>3. Owns(f)' => /\ attempt'[exec[f].att].status = attempt[exec[f].att].status
                    /\ waiter'[exec[f].att].pc = waiter[exec[f].att].pc
    BY <1>3, <2>2
  <2> QED BY <2>1, <2>3, RunsStayFit
<1> QED BY <1>4, <1>5 DEF Handed

LEMMA HandedKept ==
  ASSUME JobInv, [Next]_vars
  PROVE  Handed'
<1>1. TypeInv
  BY DEF JobInv, PaidInv
<1>2. CASE /\ UNCHANGED waiter /\ \A e \in Executors : ~CreateAttempt(e)
           /\ \A a \in AttemptIds : attempt'[a].status = attempt[a].status
  <2>1. \A f \in Executors : Owns(f)' => Owns(f) /\ exec'[f].att = exec[f].att
    BY <1>1, <1>2, WayToOwn
  <2>2. ASSUME NEW e \in Executors PROVE RunFits(e)'
    <3>1. Owns(e)' => exec[e].att \in AttemptIds
      BY <1>1, <2>1, OwnedRow
    <3> QED BY <1>2, <2>1, <3>1, RunsStayFit
  <2>3. ASSUME NEW a \in AttemptIds PROVE JobFits(a)'
    BY <1>2 DEF JobInv, Handed, JobFits
  <2> QED BY <2>2, <2>3 DEF Handed
<1> QED BY <1>1, <1>2, HandedByWaiter, HandedByCreation, HandedByRun, OtherWriters

LEMMA JobInit == Init => JobInv
<1> SUFFICES ASSUME Init PROVE JobInv
  OBVIOUS
<1>1. Handed
  BY DEF Init, Handed, RunFits, JobFits, Owns, Idle, LoopHead, Job
<1> QED BY <1>1, PaidInit DEF JobInv

LEMMA JobStep == JobInv /\ [Next]_vars => JobInv'
BY PaidStep, HandedKept DEF JobInv

----------------------------------------------------------------------------
(* payAt moves on once for each success.                                   *)

\* The successes whose jobs are past moving payAt on.
Moved(p) == {a \in WithStatus(p, "succeeded") : waiter[a].pc \notin {"reset", "advance"}}
Reach(p) == FirstPayAt[p] + CycleLength * Cardinality(Moved(p))

\* Neither payAt, nor what a job read of it, is past the cycles that succeeded.
Reads(a) == waiter[a].pc \in {"waiting", "succeed", "reset", "advance"}
WithinReach ==
  \A p \in Payments :
    /\ payment[p].payAt <= Reach(p)
    /\ \A a \in AttemptsOf(p) : Reads(a) => waiter[a].payAt <= Reach(p)

PayAtInv == JobInv /\ WithinReach

\* One more success is one more cycle.
LEMMA CycleArithmetic ==
  ASSUME NEW first \in Nat, NEW n \in Nat, NEW m \in Nat, n <= m
  PROVE  /\ first + CycleLength * n \in Nat
         /\ first + CycleLength * n <= first + CycleLength * m
         /\ n < m => first + CycleLength * n + CycleLength <= first + CycleLength * m
<1>1. CycleLength \in Nat
  BY TimeAssumption
<1>2. /\ CycleLength * n \in Nat /\ CycleLength * m \in Nat
      /\ CycleLength * m = CycleLength * n + CycleLength * (m - n)
      /\ CycleLength * (m - n) \in Nat
  BY <1>1
<1>3. n < m => CycleLength * (m - n) >= CycleLength
  BY <1>1
<1> QED BY <1>1, <1>2, <1>3

LEMMA ReachGrows ==
  ASSUME NEW p \in Payments, NEW S \in SUBSET AttemptIds, NEW T \in SUBSET AttemptIds,
         S \subseteq T
  PROVE  /\ FirstPayAt[p] + CycleLength * Cardinality(S) \in Nat
         /\ FirstPayAt[p] + CycleLength * Cardinality(T) \in Nat
         /\ FirstPayAt[p] + CycleLength * Cardinality(S)
              <= FirstPayAt[p] + CycleLength * Cardinality(T)
         /\ \A a \in T \ S : FirstPayAt[p] + CycleLength * Cardinality(S) + CycleLength
              <= FirstPayAt[p] + CycleLength * Cardinality(T)
<1>1. IsFiniteSet(AttemptIds)
  BY FS_Interval, AttemptsAssumption DEF AttemptIds
<1>2. IsFiniteSet(S) /\ IsFiniteSet(T)
  BY <1>1, FS_Subset
<1>3. /\ Cardinality(S) \in Nat /\ Cardinality(T) \in Nat /\ Cardinality(S) <= Cardinality(T)
  BY <1>2, FS_Subset, FS_CardinalityType
<1>4. \A a \in T \ S : Cardinality(S) < Cardinality(T)
  <2> SUFFICES ASSUME S # T PROVE Cardinality(S) < Cardinality(T)
    OBVIOUS
  <2>1. Cardinality(S) # Cardinality(T)
    BY <1>2, FS_Subset
  <2> QED BY <1>3, <2>1
<1>5. FirstPayAt[p] \in Nat
  BY TimeAssumption
<1> DEFINE n == Cardinality(S)
           m == Cardinality(T)
<1>6. n \in Nat /\ m \in Nat /\ n <= m /\ (\A a \in T \ S : n < m)
  BY <1>3, <1>4
<1> HIDE DEF n, m
<1>7. /\ FirstPayAt[p] + CycleLength * n \in Nat /\ FirstPayAt[p] + CycleLength * m \in Nat
      /\ FirstPayAt[p] + CycleLength * n <= FirstPayAt[p] + CycleLength * m
      /\ n < m => FirstPayAt[p] + CycleLength * n + CycleLength
                    <= FirstPayAt[p] + CycleLength * m
  BY <1>5, <1>6, CycleArithmetic
<1> QED BY <1>6, <1>7 DEF n, m

\* A success stays one, and its job stays past payAt.
LEMMA MovedGrows ==
  ASSUME JobInv, [Next]_vars, NEW p \in Payments
  PROVE  Moved(p) \subseteq Moved(p)' /\ Moved(p)' \subseteq AttemptIds
<1> SUFFICES ASSUME NEW a \in Moved(p) PROVE a \in Moved(p)'
  BY DEF Moved, WithStatus, AttemptsOf
<1>1. /\ a \in AttemptIds /\ attempt[a].payment = p /\ attempt[a].status = "succeeded"
      /\ waiter[a].pc \notin {"waiting", "succeed", "fail", "reset", "advance", "backoff"}
  BY DEF Moved, WithStatus, AttemptsOf, JobInv, Handed, JobFits
<1>2. TypeInv
  BY DEF JobInv, PaidInv
<1>3. attempt'[a].payment = p
  BY <1>1, <1>2, AttemptColumns DEF RowsKept
<1>4. ASSUME NEW b \in AttemptIds, WaiterStep(b) \/ UnknownError(b) \/ WaiterFault(b)
      PROVE  attempt'[a].status = "succeeded" /\ waiter'[a].pc \notin {"reset", "advance"}
  <2>1. WaiterMove(b) /\ (Parked(b) \/ Started(b) \/ Onward(b) \/ Ended(b))
    BY <1>2, <1>4, WaiterMoves
  <2>2. CASE a # b
    BY <1>1, <1>2, <2>1, <2>2, EndColumns DEF WaiterMove, Parked, Started, Onward, Ended
  <2>3. CASE a = b
    BY <1>1, <2>1, <2>3 DEF Parked, Started, Onward, Ended
  <2> QED BY <2>2, <2>3
<1>5. ASSUME NEW e \in Executors, CreateAttempt(e)
      PROVE  attempt'[a].status = "succeeded" /\ waiter'[a].pc \notin {"reset", "advance"}
  <2>1. NewAttempt # a
    BY <1>1, <1>5, FirstFree
  <2> QED BY <1>1, <1>2, <1>5, <2>1 DEF CreateAttempt, TypeInv, TypeOK
<1>6. ASSUME NEW e \in Executors, EnqueueWaiter(e) \/ FailAttempt(e)
      PROVE  attempt'[a].status = "succeeded" /\ waiter'[a].pc \notin {"reset", "advance"}
  <2>1. exec[e].att # a /\ exec[e].att \in AttemptIds
    <3>1. Owns(e)
      BY <1>6 DEF EnqueueWaiter, FailAttempt, Owns
    <3> QED BY <1>1, <1>2, <3>1, OwnedRow DEF JobInv, Handed, RunFits
  <2>2. CASE EnqueueWaiter(e)
    BY <1>1, <1>2, <2>1, <2>2 DEF EnqueueWaiter, dbVars, TypeInv, TypeOK
  <2>3. CASE FailAttempt(e)
    BY <1>1, <1>2, <2>1, <2>3, EndColumns DEF FailAttempt
  <2> QED BY <1>6, <2>2, <2>3
<1>7. attempt'[a].status = "succeeded" /\ waiter'[a].pc \notin {"reset", "advance"}
  BY <1>1, <1>2, <1>4, <1>5, <1>6, OtherWriters
<1> QED BY <1>1, <1>3, <1>7 DEF Moved, WithStatus, AttemptsOf

\* Only the waiter moves payAt.
LEMMA PayAtWriter ==
  ASSUME TypeInv, [Next]_vars, NEW p \in Payments
  PROVE  \/ payment'[p].payAt = payment[p].payAt
         \/ \E a \in AttemptIds : /\ AdvancePayAt(a) /\ attempt[a].payment = p
                                  /\ payment'[p].payAt = waiter[a].payAt + CycleLength
<1>1. payment \in [Payments -> PaymentRow]
  BY DEF TypeInv, TypeOK
<1>2. ASSUME NEW q, NEW v, payment' = [payment EXCEPT ![q].nextRetry = v]
      PROVE  payment'[p].payAt = payment[p].payAt
  BY <1>1, <1>2 DEF PaymentRow
<1>3. ASSUME NEW q, NEW v, NEW w, payment' = [payment EXCEPT ![q].count = v, ![q].nextRetry = w]
      PROVE  payment'[p].payAt = payment[p].payAt
  <2> DEFINE mid == [payment EXCEPT ![q].count = v]
  <2>1. mid[p].payAt = payment[p].payAt /\ DOMAIN mid = Payments
    BY <1>1 DEF PaymentRow
  <2>2. payment' = [mid EXCEPT ![q].nextRetry = w]
    BY <1>3
  <2>3. DOMAIN mid[p] = DOMAIN payment[p]
    BY <1>1 DEF PaymentRow
  <2> HIDE DEF mid
  <2>4. payment'[p].payAt = mid[p].payAt
    BY <1>1, <2>1, <2>2, <2>3 DEF PaymentRow
  <2> QED BY <2>1, <2>4
<1>4. ASSUME NEW q, NEW v, NEW w, payment' = [payment EXCEPT ![q].last = v, ![q].count = w]
      PROVE  payment'[p].payAt = payment[p].payAt
  <2> DEFINE mid == [payment EXCEPT ![q].last = v]
  <2>1. mid[p].payAt = payment[p].payAt /\ DOMAIN mid = Payments
    BY <1>1 DEF PaymentRow
  <2>2. payment' = [mid EXCEPT ![q].count = w]
    BY <1>4
  <2>3. DOMAIN mid[p] = DOMAIN payment[p]
    BY <1>1 DEF PaymentRow
  <2> HIDE DEF mid
  <2>4. payment'[p].payAt = mid[p].payAt
    BY <1>1, <2>1, <2>2, <2>3 DEF PaymentRow
  <2> QED BY <2>1, <2>4
<1>5. ASSUME NEW q, payment' = [payment EXCEPT ![q].canceled = TRUE]
      PROVE  payment'[p].payAt = payment[p].payAt
  BY <1>1, <1>5 DEF PaymentRow
<1>6. ASSUME NEW e \in Executors, ExecutorStep(e)
      PROVE  payment'[p].payAt = payment[p].payAt
  <2>1. UNCHANGED payment \/ RecordAttempt(e) \/ ScheduleRetry(e)
    BY <1>6 DEF ExecutorStep, Fetch, ReadRows, PickNext, CheckInProgress, CheckLastSuccess,
                NoQuote, CreateAttempt, CountAttempts, Submit, SaveHash, EnqueueWaiter,
                FailAttempt, dbVars
  <2>2. CASE RecordAttempt(e)
    BY <1>4, <2>2 DEF RecordAttempt
  <2>3. CASE ScheduleRetry(e)
    <3> DEFINE date == NextRetryAttemptDate(exec[e].payAt, exec[e].count)
    <3>1. payment' = [payment EXCEPT ![exec[e].cur].nextRetry = date]
      BY <2>3 DEF ScheduleRetry
    <3> HIDE DEF date
    <3> QED BY <1>2, <3>1
  <2> QED BY <2>1, <2>2, <2>3
<1>7. ASSUME NEW a \in AttemptIds, WaiterStep(a), ~AdvancePayAt(a)
      PROVE  payment'[p].payAt = payment[p].payAt
  <2>1. UNCHANGED payment \/ ResetRetries(a) \/ WaiterScheduleRetry(a)
    BY <1>7 DEF WaiterStep, StartWaiter, TxConfirmed, TxRefused, TookTooLong, MarkSucceeded,
                MarkFailed, dbVars
  <2> QED BY <1>2, <1>3, <2>1 DEF ResetRetries, WaiterScheduleRetry
<1>8. ASSUME NEW a \in AttemptIds, AdvancePayAt(a)
      PROVE  \/ payment'[p].payAt = payment[p].payAt
             \/ /\ attempt[a].payment = p
                /\ payment'[p].payAt = waiter[a].payAt + CycleLength
  <2>1. CASE payment' = payment
    BY <2>1
  <2> DEFINE next == waiter[a].payAt + CycleLength
  <2>2. CASE payment' = [payment EXCEPT ![attempt[a].payment].payAt = next]
    <3> DEFINE q == attempt[a].payment
    <3>1. payment' = [payment EXCEPT ![q].payAt = next]
      BY <2>2
    <3> HIDE DEF next, q
    <3>2. p = q => payment'[p].payAt = next
      BY <1>1, <3>1 DEF PaymentRow
    <3>3. p # q => payment'[p] = payment[p]
      BY <1>1, <3>1
    <3> QED BY <3>2, <3>3 DEF next, q
  <2> QED BY <1>8, <2>1, <2>2 DEF AdvancePayAt
<1>9. ASSUME NEW q \in Payments, PatchCancel(q) PROVE payment'[p].payAt = payment[p].payAt
  BY <1>5, <1>9 DEF PatchCancel
<1>10. \/ \E e \in Executors : ExecutorStep(e)
       \/ \E a \in AttemptIds : WaiterStep(a)
       \/ \E q \in Payments : PatchCancel(q)
       \/ UNCHANGED payment
  BY DEF Next, vars, ExecutorError, ExecutorCrash, UnknownError, WaiterFault, MineTx,
         LoseTx, SubmitCancel, MineCancel, Tick, dbVars
<1> QED BY <1>6, <1>7, <1>8, <1>9, <1>10
LEMMA WithinReachKept ==
  ASSUME PayAtInv, [Next]_vars
  PROVE  WithinReach'
<1> SUFFICES ASSUME NEW p \in Payments
             PROVE  /\ payment'[p].payAt <= Reach(p)'
                    /\ \A a \in AttemptIds : attempt'[a].payment = p /\ Reads(a)' =>
                         waiter'[a].payAt <= Reach(p)'
  BY DEF WithinReach, AttemptsOf
<1>1. JobInv /\ TypeInv
  BY DEF PayAtInv, JobInv, PaidInv
<1>2. Moved(p) \subseteq Moved(p)' /\ Moved(p) \subseteq AttemptIds /\ Moved(p)' \subseteq AttemptIds
  BY <1>1, MovedGrows DEF Moved, WithStatus, AttemptsOf
<1>3. /\ Reach(p) \in Nat /\ Reach(p)' \in Nat /\ Reach(p) <= Reach(p)'
      /\ \A a \in Moved(p)' \ Moved(p) : Reach(p) + CycleLength <= Reach(p)'
  BY <1>2, ReachGrows DEF Reach
<1>4. /\ payment[p].payAt \in Nat /\ payment[p].payAt <= Reach(p)
      /\ \A a \in AttemptIds : attempt[a].payment = p /\ Reads(a) => waiter[a].payAt <= Reach(p)
      /\ \A a \in AttemptIds : waiter[a].payAt \in Nat /\ waiter'[a].payAt \in Nat
  <2>1. TypeInv'
    BY <1>1, TypeStep
  <2> QED BY <1>1, <2>1 DEF PayAtInv, WithinReach, AttemptsOf, TypeInv, TypeOK, PaymentRow,
                            WaiterState
<1>5. payment'[p].payAt <= Reach(p)'
  <2>1. CASE payment'[p].payAt = payment[p].payAt
    BY <1>3, <1>4, <2>1
  <2>2. ASSUME NEW a \in AttemptIds, AdvancePayAt(a), attempt[a].payment = p,
               payment'[p].payAt = waiter[a].payAt + CycleLength
        PROVE  payment'[p].payAt <= Reach(p)'
    <3>1. waiter[a].pc = "advance" /\ attempt[a].status = "succeeded"
      BY <1>1, <2>2 DEF AdvancePayAt, JobInv, Handed, JobFits
    <3>2. a \in Moved(p)' \ Moved(p)
      <4>1. attempt' = attempt /\ waiter'[a].pc = "done"
        BY <1>1, <2>2 DEF AdvancePayAt, JobDone, Job, TypeInv, TypeOK
      <4> QED BY <2>2, <3>1, <4>1 DEF Moved, WithStatus, AttemptsOf
    <3>3. waiter[a].payAt <= Reach(p) /\ Reach(p) + CycleLength <= Reach(p)'
      BY <1>3, <1>4, <2>2, <3>1, <3>2 DEF Reads
    <3> QED BY <1>3, <1>4, <2>2, <3>3, TimeAssumption
  <2> QED BY <1>1, <2>1, <2>2, PayAtWriter
<1>6. ASSUME NEW a \in AttemptIds, attempt'[a].payment = p, Reads(a)'
      PROVE  waiter'[a].payAt <= Reach(p)'
  <2>1. CASE waiter'[a] = waiter[a]
    <3>1. attempt[a].status # "none" /\ Reads(a)
      BY <1>1, <1>6, <2>1 DEF Reads, JobInv, Handed, JobFits
    <3>2. attempt[a].payment = p
      BY <1>1, <1>6, <3>1, AttemptColumns DEF RowsKept, TypeInv, AttemptRows
    <3> QED BY <1>3, <1>4, <2>1, <3>1, <3>2
  <2>2. CASE WaiterStep(a) \/ UnknownError(a) \/ WaiterFault(a)
    <3>1. WaiterMove(a) /\ (Parked(a) \/ Started(a) \/ Onward(a) \/ Ended(a))
      BY <1>1, <2>2, WaiterMoves
    <3>2. attempt[a].payment = p
      BY <1>1, <1>6, <3>1, EndColumns DEF Parked, Started, Onward, Ended
    <3>3. \/ waiter'[a].payAt = payment[p].payAt
          \/ Reads(a) /\ waiter'[a].payAt = waiter[a].payAt
      <4>1. ~Parked(a)
        BY <1>6 DEF Reads, Parked
      <4>2. CASE Started(a)
        <5>1. waiter'[a].payAt = payment[attempt[a].payment].payAt
          BY <4>2 DEF Started
        <5> QED BY <3>2, <5>1
      <4>3. CASE Onward(a)
        BY <4>3 DEF Reads, Onward
      <4>4. CASE Ended(a)
        BY <1>6, <4>4 DEF Reads, Ended
      <4> QED BY <3>1, <4>1, <4>2, <4>3, <4>4
    <3> QED BY <1>3, <1>4, <3>2, <3>3
  <2>3. ASSUME NEW e \in Executors, EnqueueWaiter(e), exec[e].att = a PROVE FALSE
    BY <1>1, <1>6, <2>3 DEF EnqueueWaiter, Job, Reads, TypeInv, TypeOK
  <2>4. ASSUME NEW e \in Executors, CreateAttempt(e) \/ EnqueueWaiter(e) \/ FailAttempt(e)
        PROVE  waiter'[a] = waiter[a]
    <3>1. EnqueueWaiter(e) => exec[e].att # a /\ exec[e].att \in AttemptIds
      BY <1>1, <2>3, OwnedRow DEF EnqueueWaiter, Owns
    <3> QED BY <1>1, <2>4, <3>1 DEF CreateAttempt, EnqueueWaiter, FailAttempt, TypeInv, TypeOK
  <2>5. ASSUME NEW b \in AttemptIds \ {a}, WaiterStep(b) \/ UnknownError(b) \/ WaiterFault(b)
        PROVE  waiter'[a] = waiter[a]
    BY <1>1, <2>5, WaiterMoves DEF WaiterMove
  <2> QED BY <1>1, <2>1, <2>2, <2>4, <2>5, OtherWriters
<1> QED BY <1>5, <1>6

LEMMA PayAtInit == Init => PayAtInv
<1> SUFFICES ASSUME Init PROVE PayAtInv
  OBVIOUS
<1>1. ASSUME NEW p \in Payments PROVE payment[p].payAt <= Reach(p)
  <2>1. payment[p].payAt = FirstPayAt[p]
    BY DEF Init
  <2>2. FirstPayAt[p] \in Nat /\ Moved(p) = {}
    BY TimeAssumption DEF Init, Moved, WithStatus, AttemptsOf
  <2> QED BY <2>1, <2>2, FS_EmptySet, TimeAssumption DEF Reach
<1>2. \A a \in AttemptIds : ~Reads(a)
  BY DEF Init, Reads, Job
<1> QED BY <1>1, <1>2, JobInit DEF PayAtInv, WithinReach, AttemptsOf

LEMMA PayAtStep == PayAtInv /\ [Next]_vars => PayAtInv'
BY JobStep, WithinReachKept DEF PayAtInv

LEMMA PayAtInvImplies == PayAtInv => NeverAheadOfPaid
<1> SUFFICES ASSUME PayAtInv, NEW p \in Payments
             PROVE  payment[p].payAt <= FirstPayAt[p] + CycleLength * Cardinality(paid[p])
  BY PaymentsAssumption DEF NeverAheadOfPaid
<1>1. PaidInv /\ payment[p].payAt \in Nat /\ payment[p].payAt <= Reach(p)
  BY DEF PayAtInv, JobInv, PaidInv, WithinReach, TypeInv, TypeOK, PaymentRow
<1>2. Cardinality(WithStatus(p, "succeeded")) <= Cardinality(paid[p])
  BY <1>1, PaidInvImplies DEF SuccessesArePaid
<1>3. Cardinality(paid[p]) \in Nat
  BY <1>1, FS_CardinalityType DEF PaidInv, Funded
<1> DEFINE S == Moved(p)
           T == WithStatus(p, "succeeded")
<1>4. S \subseteq T /\ T \subseteq AttemptIds
  BY DEF Moved, WithStatus, AttemptsOf
<1> HIDE DEF S, T
<1>5. IsFiniteSet(AttemptIds)
  BY FS_Interval, AttemptsAssumption DEF AttemptIds
<1>6. Cardinality(S) \in Nat /\ Cardinality(T) \in Nat /\ Cardinality(S) <= Cardinality(T)
  <2>1. IsFiniteSet(T) /\ IsFiniteSet(S)
    BY <1>4, <1>5, FS_Subset
  <2> QED BY <1>4, <2>1, FS_Subset, FS_CardinalityType
<1> DEFINE n == Cardinality(S)
           m == Cardinality(paid[p])
<1>7. n \in Nat /\ m \in Nat /\ n <= m
  BY <1>2, <1>3, <1>6 DEF T
<1>8. Reach(p) = FirstPayAt[p] + CycleLength * n
  BY DEF Reach, S
<1> HIDE DEF n, m
<1>9. /\ FirstPayAt[p] + CycleLength * n \in Nat /\ FirstPayAt[p] + CycleLength * m \in Nat
      /\ FirstPayAt[p] + CycleLength * n <= FirstPayAt[p] + CycleLength * m
  <2>1. FirstPayAt[p] \in Nat
    BY TimeAssumption
  <2> QED BY <1>7, <2>1, CycleArithmetic
<1> DEFINE reach == FirstPayAt[p] + CycleLength * n
           limit == FirstPayAt[p] + CycleLength * m
<1>10. reach \in Nat /\ limit \in Nat /\ reach <= limit /\ payment[p].payAt <= reach
  BY <1>1, <1>8, <1>9
<1> HIDE DEF reach, limit
<1>11. payment[p].payAt <= limit
  BY <1>1, <1>10
<1> QED BY <1>11 DEF limit, m

\* payAt of a payment has never moved on by more cycles than the contract has
\* paid, also when executor runs overlap and jobs run twice: a job that runs again
\* finds its attempt ended, and two jobs that read the same payAt move it to the
\* same cycle.
THEOREM NeverAhead == Spec => []NeverAheadOfPaid
BY PayAtInit, PayAtStep, PayAtInvImplies, PTL DEF Spec

----------------------------------------------------------------------------
(* With one run of the executor, the attempts of a payment follow each     *)
(* other, and what the run has found out about its batch stays true until  *)
(* it gets to it.                                                          *)

\* Nothing speaks against one more attempt of the payment.
Clear(p) ==
  \A a \in AttemptsOf(p) :
    attempt[a].status = "failed" \/ (p \in Recurring /\ attempt[a].status = "succeeded")

\* The payments of the batch, and the one that the run has taken from it, are clear.
Checking(e) == exec[e].pc \in {"check", "recent", "create"}
RunClear(e) ==
  /\ \A r \in exec[e].batch : Clear(r.id) /\ r.id # exec[e].cur
  /\ \A r, s \in exec[e].batch : r.id = s.id => r = s
  /\ Checking(e) => Clear(exec[e].cur)

\* Attempts are used in their order, and one of a payment starts when those before
\* it have ended.  One success is enough for a one-time payment.
Over(a) == attempt[a].status \in {"succeeded", "failed"}
Timed(a) ==
  /\ attempt[a].startedAt <= now
  /\ Over(a) => attempt[a].startedAt <= attempt[a].endedAt /\ attempt[a].endedAt <= now
InOrder(a, b) ==
  a < b /\ attempt[b].status # "none" =>
    /\ attempt[a].status # "none"
    /\ attempt[a].payment = attempt[b].payment =>
         Over(a) /\ attempt[a].endedAt <= attempt[b].startedAt
Enough(a, b) ==
  attempt[a].status = "succeeded" /\ attempt[b].payment = attempt[a].payment /\ a # b =>
    attempt[a].payment \in Recurring \/ attempt[b].status = "failed"
Orderly ==
  /\ \A a \in AttemptIds : Timed(a)
  /\ \A a, b \in AttemptIds : InOrder(a, b) /\ Enough(a, b)

\* Once the last success was found old enough, they all are.
LongAgo(e) ==
  exec[e].pc = "create" /\ exec[e].cur \in Recurring =>
    \A b \in WithStatus(exec[e].cur, "succeeded") : ~TooRecent(b)

OrderInv ==
  /\ JobInv /\ OneInv /\ Orderly
  /\ \A e \in Executors : RunClear(e) /\ LongAgo(e)

\* What the steps do to the rows of the attempts.
SameRow(a) ==
  /\ attempt'[a].payment = attempt[a].payment /\ attempt'[a].status = attempt[a].status
  /\ attempt'[a].startedAt = attempt[a].startedAt /\ attempt'[a].endedAt = attempt[a].endedAt
Ends(a, status) ==
  /\ attempt[a].status = "inProgress" /\ attempt'[a].status = status
  /\ attempt'[a].payment = attempt[a].payment
  /\ attempt'[a].startedAt = attempt[a].startedAt /\ attempt'[a].endedAt = now
  /\ \A b \in AttemptIds \ {a} : SameRow(b)
Creates(e, n) ==
  /\ CreateAttempt(e) /\ exec[e].cur \in Payments /\ attempt[n].status = "none"
  /\ \A b \in AttemptIds : attempt[b].status = "none" => n <= b
  /\ attempt'[n].payment = exec[e].cur /\ attempt'[n].status = "inProgress"
  /\ attempt'[n].startedAt = now
  /\ \A b \in AttemptIds \ {n} : SameRow(b)

LEMMA EndRow ==
  ASSUME TypeInv, NEW a \in AttemptIds, NEW status \in {"succeeded", "failed"},
         EndAttempt(a, status), attempt[a].status = "inProgress"
  PROVE  Ends(a, status)
<1> DEFINE mid == [attempt EXCEPT ![a].status = status]
<1>1. /\ mid \in [AttemptIds -> AttemptRow] /\ mid[a].status = status
      /\ mid[a].payment = attempt[a].payment /\ mid[a].startedAt = attempt[a].startedAt
  BY DEF TypeInv, TypeOK, AttemptRow
<1>2. attempt' = [mid EXCEPT ![a].endedAt = now]
  BY DEF EndAttempt
<1> HIDE DEF mid
<1>3. /\ attempt'[a].startedAt = mid[a].startedAt /\ attempt'[a].endedAt = now
  BY <1>1, <1>2 DEF AttemptRow
<1>4. /\ attempt'[a].payment = attempt[a].payment /\ attempt'[a].status = status
      /\ \A b \in AttemptIds \ {a} : attempt'[b] = attempt[b]
  BY EndColumns
<1>5. \A b \in AttemptIds \ {a} : SameRow(b)
  BY <1>4 DEF SameRow
<1> QED BY <1>1, <1>3, <1>4, <1>5 DEF Ends

LEMMA NewRow ==
  ASSUME TypeInv, NEW e \in Executors, CreateAttempt(e)
  PROVE  NewAttempt \in AttemptIds /\ Creates(e, NewAttempt)
<1> DEFINE n == NewAttempt
<1>1. /\ n \in AttemptIds /\ attempt[n].status = "none"
      /\ \A b \in AttemptIds : attempt[b].status = "none" => n <= b
  BY FirstFree
<1>2. exec[e].cur \in Payments
  BY DEF CreateAttempt, TypeInv, ExecutorLocals, Placed
<1>3. /\ attempt'[n].payment = exec[e].cur /\ attempt'[n].status = "inProgress"
      /\ attempt'[n].startedAt = now
      /\ \A b \in AttemptIds \ {n} : attempt'[b] = attempt[b]
  BY <1>1 DEF CreateAttempt, TypeInv, TypeOK
<1> HIDE DEF n
<1>4. \A b \in AttemptIds \ {n} : SameRow(b)
  BY <1>3 DEF SameRow
<1> QED BY <1>1, <1>2, <1>3, <1>4 DEF Creates, n

\* Every step creates an attempt, ends one that is in progress, or does neither.
LEMMA RowSteps ==
  ASSUME JobInv, [Next]_vars
  PROVE  \/ \E e \in Executors, n \in AttemptIds : Creates(e, n)
         \/ /\ \A e \in Executors : ~CreateAttempt(e)
            /\ \/ \E a \in AttemptIds, status \in {"succeeded", "failed"} : Ends(a, status)
               \/ \A a \in AttemptIds : SameRow(a)
<1>1. TypeInv
  BY DEF JobInv, PaidInv
<1>2. CASE UNCHANGED attempt
  BY <1>1, <1>2, NewRow DEF SameRow
<1>3. ASSUME NEW e \in Executors, SaveHash(e)
      PROVE  \A a \in AttemptIds : SameRow(a)
  BY <1>1, <1>3 DEF SaveHash, TypeInv, TypeOK, AttemptRow, SameRow
<1>4. ASSUME NEW e \in Executors, FailAttempt(e)
      PROVE  \E a \in AttemptIds : Ends(a, "failed")
  <2>1. Owns(e)
    BY <1>4 DEF FailAttempt, Owns
  <2>2. exec[e].att \in AttemptIds /\ attempt[exec[e].att].status = "inProgress"
    BY <1>1, <2>1, OwnedRow DEF JobInv, Handed, RunFits
  <2> QED BY <1>1, <1>4, <2>2, EndRow DEF FailAttempt
<1>5. ASSUME NEW a \in AttemptIds, MarkSucceeded(a) \/ MarkFailed(a)
      PROVE  \E status \in {"succeeded", "failed"} : Ends(a, status)
  <2>1. attempt[a].status = "inProgress"
    BY <1>5 DEF MarkSucceeded, MarkFailed, JobInv, Handed, JobFits
  <2> QED BY <1>1, <1>5, <2>1, EndRow DEF MarkSucceeded, MarkFailed
<1>6. (\E e \in Executors : CreateAttempt(e)) => \E e \in Executors, n \in AttemptIds : Creates(e, n)
  BY <1>1, NewRow
<1> QED BY <1>1, <1>2, <1>3, <1>4, <1>5, <1>6, AttemptWriters

LEMMA TimeGrows ==
  ASSUME TypeInv, [Next]_vars
  PROVE  now \in Nat /\ now' \in Nat /\ now <= now'
<1>1. now \in Nat
  BY TimeAssumption DEF TypeInv, TypeOK
<1>2. now' = now \/ now' = now + 1
  <2>1. ASSUME NEW e \in Executors, ExecutorStep(e) PROVE now' = now
    BY <2>1 DEF ExecutorStep, Fetch, ReadRows, PickNext, CheckInProgress, CheckLastSuccess,
                NoQuote, CreateAttempt, CountAttempts, RecordAttempt, Submit, SaveHash,
                EnqueueWaiter, FailAttempt, ScheduleRetry
  <2>2. ASSUME NEW a \in AttemptIds, WaiterStep(a) PROVE now' = now
    BY <2>2 DEF WaiterStep, StartWaiter, TxConfirmed, TxRefused, TookTooLong, MarkSucceeded,
                ResetRetries, AdvancePayAt, MarkFailed, WaiterScheduleRetry
  <2> QED BY <2>1, <2>2 DEF Next, vars, ExecutorError, ExecutorCrash, UnknownError, WaiterFault,
                            MineTx, LoseTx, SubmitCancel, PatchCancel, MineCancel, Tick
<1> QED BY <1>1, <1>2

LEMMA RowTimes ==
  ASSUME TypeInv, NEW a \in AttemptIds
  PROVE  a \in Int /\ attempt[a].startedAt \in Nat /\ attempt[a].endedAt \in Nat
BY DEF TypeInv, TypeOK, AttemptRow, AttemptIds

LEMMA OrderlyWhenEnds ==
  ASSUME OrderInv, [Next]_vars, NEW a \in AttemptIds,
         NEW status \in {"succeeded", "failed"}, Ends(a, status)
  PROVE  Orderly'
<1>1. TypeInv
  BY DEF OrderInv, JobInv, PaidInv
<1>2. now \in Nat /\ now' \in Nat /\ now <= now'
  BY <1>1, TimeGrows
<1>3. ASSUME NEW b \in AttemptIds PROVE Timed(b)'
  <2>1. Timed(b) /\ attempt[b].startedAt \in Nat /\ attempt[b].endedAt \in Nat
    BY <1>1, RowTimes DEF OrderInv, Orderly
  <2>2. CASE b = a
    BY <1>2, <2>1, <2>2 DEF Timed, Ends
  <2>3. CASE b # a
    BY <1>2, <2>1, <2>3 DEF Timed, Over, Ends, SameRow
  <2> QED BY <2>2, <2>3
\* An attempt that ends now is the last of its payment.
<1>4. ASSUME NEW b \in AttemptIds, NEW c \in AttemptIds PROVE InOrder(b, c)'
  <2>1. InOrder(b, c)
    BY DEF OrderInv, Orderly
  <2>2. CASE b = a
    BY <2>1, <2>2 DEF InOrder, Over, Ends, SameRow
  <2>3. CASE b # a /\ c = a
    BY <2>1, <2>3 DEF InOrder, Over, Ends, SameRow
  <2>4. CASE b # a /\ c # a
    BY <2>1, <2>4 DEF InOrder, Over, Ends, SameRow
  <2> QED BY <2>2, <2>3, <2>4
<1>5. ASSUME NEW b \in AttemptIds, NEW c \in AttemptIds PROVE Enough(b, c)'
  <2>1. Enough(b, c) /\ Enough(c, b)
    BY DEF OrderInv, Orderly
  <2>2. ASSUME b = a, c # a, attempt[c].payment = attempt[a].payment
        PROVE  attempt[c].status # "inProgress" /\ attempt[c].status # "none"
    <3>1. attempt[c].status # "inProgress"
      BY <2>2 DEF Ends, OrderInv, OneInv, OneInProgress
    <3>2. attempt[a].payment \in Payments
      BY <1>1 DEF Ends, TypeInv, AttemptRows
    <3> QED BY <1>1, <2>2, <3>1, <3>2 DEF TypeInv, AttemptRows
  <2>3. attempt[c].status \in {"none", "inProgress", "succeeded", "failed"}
    BY <1>1 DEF TypeInv, TypeOK, AttemptRow
  <2>4. CASE b = a /\ c # a
    BY <2>1, <2>2, <2>3, <2>4 DEF Enough, Ends, SameRow
  <2>5. CASE b # a /\ c = a
    BY <2>1, <2>5 DEF Enough, Ends, SameRow
  <2>6. CASE b # a /\ c # a
    BY <2>1, <2>6 DEF Enough, Ends, SameRow
  <2>7. CASE b = a /\ c = a
    BY <2>7 DEF Enough
  <2> QED BY <2>4, <2>5, <2>6, <2>7
<1> QED BY <1>3, <1>4, <1>5 DEF Orderly

LEMMA OrderlyWhenCreates ==
  ASSUME OrderInv, [Next]_vars, NEW e \in Executors, NEW n \in AttemptIds, Creates(e, n)
  PROVE  Orderly'
<1>1. TypeInv
  BY DEF OrderInv, JobInv, PaidInv
<1>2. now \in Nat /\ now' \in Nat /\ now <= now'
  BY <1>1, TimeGrows
<1>3. Clear(exec[e].cur) /\ exec[e].cur \in Payments
  BY DEF Creates, CreateAttempt, OrderInv, RunClear, Checking
<1>4. attempt[n].payment \notin Payments
  BY <1>1 DEF Creates, TypeInv, AttemptRows
<1>5. ASSUME NEW b \in AttemptIds PROVE Timed(b)'
  <2>1. Timed(b) /\ attempt[b].startedAt \in Nat /\ attempt[b].endedAt \in Nat
    BY <1>1, RowTimes DEF OrderInv, Orderly
  <2>2. CASE b = n
    BY <1>2, <2>2 DEF Timed, Over, Creates
  <2>3. CASE b # n
    BY <1>2, <2>1, <2>3 DEF Timed, Over, Creates, SameRow
  <2> QED BY <2>2, <2>3
<1>6. ASSUME NEW b \in AttemptIds, NEW c \in AttemptIds PROVE InOrder(b, c)'
  <2>1. InOrder(b, c) /\ b \in Int /\ c \in Int /\ n \in Int
    BY <1>1, RowTimes DEF OrderInv, Orderly
  <2>2. CASE c = n /\ b # n
    <3>1. b < n => attempt[b].status # "none"
      BY <2>1 DEF Creates
    <3>2. attempt[b].payment = exec[e].cur => Over(b)
      BY <1>3 DEF Clear, AttemptsOf, Over
    <3>3. Over(b) => attempt[b].endedAt <= now
      BY DEF OrderInv, Orderly, Timed
    <3> QED BY <2>1, <2>2, <3>1, <3>2, <3>3 DEF InOrder, Over, Creates, SameRow
  <2>3. CASE b = n /\ c # n
    BY <2>1, <2>3 DEF InOrder, Creates, SameRow
  <2>4. CASE b # n /\ c # n
    BY <2>1, <2>4 DEF InOrder, Over, Creates, SameRow
  <2>5. CASE b = n /\ c = n
    BY <2>1, <2>5 DEF InOrder
  <2> QED BY <2>2, <2>3, <2>4, <2>5
<1>7. ASSUME NEW b \in AttemptIds, NEW c \in AttemptIds PROVE Enough(b, c)'
  <2>1. Enough(b, c)
    BY DEF OrderInv, Orderly
  <2>2. CASE b = n
    BY <2>2 DEF Enough, Creates
  <2>3. CASE b # n /\ c = n
    <3>1. attempt[b].payment = exec[e].cur /\ attempt[b].status = "succeeded" =>
            exec[e].cur \in Recurring
      BY <1>3 DEF Clear, AttemptsOf
    <3> QED BY <2>3, <3>1 DEF Enough, Creates, SameRow
  <2>4. CASE b # n /\ c # n
    BY <2>1, <2>4 DEF Enough, Creates, SameRow
  <2> QED BY <2>2, <2>3, <2>4
<1> QED BY <1>5, <1>6, <1>7 DEF Orderly

LEMMA OrderlyKept ==
  ASSUME OrderInv, [Next]_vars
  PROVE  Orderly'
<1>1. CASE \A a \in AttemptIds : SameRow(a)
  <2>1. TypeInv
    BY DEF OrderInv, JobInv, PaidInv
  <2>2. now \in Nat /\ now' \in Nat /\ now <= now'
    BY <2>1, TimeGrows
  <2>3. ASSUME NEW a \in AttemptIds PROVE Timed(a)'
    <3>1. Timed(a) /\ attempt[a].startedAt \in Nat /\ attempt[a].endedAt \in Nat
      BY <2>1, RowTimes DEF OrderInv, Orderly
    <3> QED BY <1>1, <2>2, <3>1 DEF Timed, Over, SameRow
  <2>4. ASSUME NEW a \in AttemptIds, NEW b \in AttemptIds PROVE InOrder(a, b)' /\ Enough(a, b)'
    BY <1>1 DEF OrderInv, Orderly, InOrder, Enough, Over, SameRow
  <2> QED BY <2>3, <2>4 DEF Orderly
<1> QED BY <1>1, RowSteps, OrderlyWhenEnds, OrderlyWhenCreates DEF OrderInv

\* A payment stays clear until a run creates an attempt of it.
LEMMA ClearStays ==
  ASSUME JobInv, [Next]_vars, NEW p \in Payments, Clear(p),
         \A e \in Executors : CreateAttempt(e) => exec[e].cur # p
  PROVE  Clear(p)'
<1> SUFFICES ASSUME NEW a \in AttemptIds, attempt'[a].payment = p
             PROVE  \/ attempt'[a].status = "failed"
                    \/ p \in Recurring /\ attempt'[a].status = "succeeded"
  BY DEF Clear, AttemptsOf
<1>1. CASE SameRow(a)
  BY <1>1 DEF Clear, AttemptsOf, SameRow
<1>2. ASSUME NEW e \in Executors, NEW n \in AttemptIds, Creates(e, n)
      PROVE  SameRow(a)
  <2>1. a # n
    BY <1>2 DEF Creates
  <2> QED BY <1>2, <2>1 DEF Creates
<1>3. ASSUME NEW b \in AttemptIds, NEW status \in {"succeeded", "failed"}, Ends(b, status)
      PROVE  SameRow(a)
  <2>1. a # b
    BY <1>3 DEF Ends, Clear, AttemptsOf
  <2> QED BY <1>3, <2>1 DEF Ends
<1> QED BY <1>1, <1>2, <1>3, RowSteps

\* The fetcher returns payments that are clear, each once.
LEMMA FetchedIsClear ==
  ASSUME TypeInv, NEW b \in Batches
  PROVE  /\ \A r \in b : r.id \in Payments /\ Clear(r.id)
         /\ \A r, s \in b : r.id = s.id => r = s
<1>1. ASSUME NEW p \in Payments, IsDue(p) PROVE Clear(p)
  <2> SUFFICES ASSUME NEW a \in AttemptIds, attempt[a].payment = p
               PROVE  \/ attempt[a].status = "failed"
                      \/ p \in Recurring /\ attempt[a].status = "succeeded"
    BY DEF Clear, AttemptsOf
  <2>1. attempt[a].status \in {"inProgress", "succeeded", "failed"}
    BY DEF TypeInv, TypeOK, AttemptRow, AttemptRows
  <2>2. \A s \in Excluding(p) : attempt[a].status # s
    BY <1>1 DEF IsDue, WithStatus, AttemptsOf
  <2> QED BY <2>1, <2>2 DEF Excluding
<1>2. \A r \in b : \E p \in Payments : IsDue(p) /\ r = AsFetched(p)
  BY DEF Batches
<1>3. \A p \in Payments : AsFetched(p).id = p
  BY DEF AsFetched
<1> QED BY <1>1, <1>2, <1>3

\* How a step moves a run: with a new batch, with the rows of its batch, with the
\* next of them, or on with what it has.
NewBatch(e) ==
  /\ Fetch(e) /\ exec'[e].batch \in Batches /\ ~Checking(e)'
  /\ exec'[e].cur = NULL /\ UNCHANGED attempt
RereadBatch(e) ==
  /\ exec'[e].batch = {AsRead(r) : r \in exec[e].batch} /\ ~Checking(e)'
  /\ exec'[e].cur = NULL /\ UNCHANGED attempt
TakesNext(e) ==
  \E r \in exec[e].batch :
    /\ exec'[e].batch = exec[e].batch \ {r} /\ exec'[e].cur = r.id
    /\ exec'[e].pc = "check" /\ UNCHANGED attempt
GoesOn(e) ==
  /\ exec'[e].batch \subseteq exec[e].batch /\ exec'[e].cur \in {exec[e].cur, NULL}
  /\ Checking(e)' => Checking(e) /\ exec'[e].cur = exec[e].cur

LEMMA GotoGoesOn ==
  ASSUME TypeInv, NEW e \in Executors, NEW pc \in ExecPc, Goto(e, pc),
         pc \in {"check", "recent", "create"} => Checking(e)
  PROVE  GoesOn(e)
<1>1. exec'[e] = [exec[e] EXCEPT !.pc = pc]
  BY GotoMoves
<1>2. exec'[e].pc = pc /\ exec'[e].batch = exec[e].batch /\ exec'[e].cur = exec[e].cur
  BY <1>1 DEF TypeInv, TypeOK, ExecState
<1> QED BY <1>2 DEF GoesOn, Checking

LEMMA LeaveGoesOn ==
  ASSUME TypeInv, NEW e \in Executors, LeavePayment(e)
  PROVE  GoesOn(e)
<1>1. exec'[e] = LoopHead(exec[e].since, exec[e].batch)
  BY DEF TypeInv, TypeOK, LeavePayment
<1> QED BY <1>1 DEF GoesOn, Checking, LoopHead

LEMMA RunMoves ==
  ASSUME TypeInv, [Next]_vars, NEW e \in Executors
  PROVE  NewBatch(e) \/ RereadBatch(e) \/ TakesNext(e) \/ GoesOn(e)
<1>1. exec \in [Executors -> ExecState] /\ exec[e] \in ExecState
  BY DEF TypeInv, TypeOK
<1>2. CASE Fetch(e)
  <2>1. PICK b \in Batches : exec' = [exec EXCEPT ![e] =
          IF b = {} THEN Idle ELSE [LoopHead(now, b) EXCEPT !.pc = "rows"]]
    BY <1>2 DEF Fetch
  <2>2. exec'[e].batch = b /\ exec'[e].pc \in {"idle", "rows"} /\ exec'[e].cur = NULL
    BY <1>1, <2>1 DEF Idle, LoopHead
  <2> QED BY <1>2, <2>2 DEF NewBatch, Checking, Fetch, dbVars
<1>3. CASE ReadRows(e)
  <2> DEFINE rows == {AsRead(r) : r \in exec[e].batch}
  <2>1. exec' = [exec EXCEPT ![e] = LoopHead(exec[e].since, rows)]
    BY <1>3 DEF ReadRows
  <2> HIDE DEF rows
  <2>2. exec'[e].batch = rows /\ exec'[e].pc \in {"idle", "next"} /\ exec'[e].cur = NULL
    BY <1>1, <2>1 DEF LoopHead
  <2> QED BY <1>3, <2>2 DEF RereadBatch, Checking, ReadRows, dbVars, rows
<1>4. CASE PickNext(e)
  <2>1. PICK r \in exec[e].batch :
          exec' = [exec EXCEPT ![e].pc = "check", ![e].batch = @ \ {r},
                               ![e].cur = r.id, ![e].payAt = r.payAt]
    BY <1>4 DEF PickNext
  <2>2. /\ exec'[e].pc = "check" /\ exec'[e].batch = exec[e].batch \ {r}
        /\ exec'[e].cur = r.id
    BY <1>1, <2>1 DEF ExecState
  <2> QED BY <1>4, <2>2 DEF TakesNext, PickNext, dbVars
<1>5. CASE CheckInProgress(e) \/ CheckLastSuccess(e)
  <2>1. LeavePayment(e) \/ \E pc \in {"recent", "create"} : Goto(e, pc)
    BY <1>5 DEF CheckInProgress, CheckLastSuccess
  <2>2. Checking(e)
    BY <1>5 DEF CheckInProgress, CheckLastSuccess, Checking
  <2> QED BY <2>1, <2>2, LeaveGoesOn, GotoGoesOn DEF ExecPc
<1>6. CASE CreateAttempt(e)
  <2>1. /\ exec'[e].pc = "count" /\ exec'[e].batch = exec[e].batch
        /\ exec'[e].cur = exec[e].cur
    BY <1>1, <1>6 DEF CreateAttempt, ExecState
  <2> QED BY <2>1 DEF GoesOn, Checking
<1>7. CASE CountAttempts(e)
  <2>1. /\ exec'[e].pc = "record" /\ exec'[e].batch = exec[e].batch
        /\ exec'[e].cur = exec[e].cur
    BY <1>1, <1>7 DEF CountAttempts, ExecState
  <2> QED BY <2>1 DEF GoesOn, Checking
<1>8. CASE RecordAttempt(e)
  <2>1. /\ exec'[e].pc = "submit" /\ exec'[e].batch = exec[e].batch
        /\ exec'[e].cur = exec[e].cur
    BY <1>1, <1>8 DEF RecordAttempt, ExecState
  <2> QED BY <2>1 DEF GoesOn, Checking
<1>9. CASE Submit(e) \/ SaveHash(e) \/ FailAttempt(e) \/ ExecutorError(e)
  <2>1. LeavePayment(e) \/ \E pc \in {"save", "fail", "enqueue", "backoff"} : Goto(e, pc)
    BY <1>9 DEF Submit, SaveHash, FailAttempt, ExecutorError
  <2> QED BY <2>1, LeaveGoesOn, GotoGoesOn DEF ExecPc
<1>10. CASE NoQuote(e) \/ EnqueueWaiter(e) \/ ScheduleRetry(e)
  BY <1>10, LeaveGoesOn DEF NoQuote, EnqueueWaiter, ScheduleRetry
<1>11. CASE ExecutorCrash(e)
  BY <1>1, <1>11 DEF ExecutorCrash, Idle, LoopHead, GoesOn, Checking
<1>12. CASE exec'[e] = exec[e]
  BY <1>12 DEF GoesOn, Checking
<1> QED BY <1>2, <1>3, <1>4, <1>5, <1>6, <1>7, <1>8, <1>9, <1>10, <1>11, <1>12, OneRunMoves
        DEF ExecutorStep

LEMMA RunClearKept ==
  ASSUME OneExecutor, OrderInv, [Next]_vars, NEW e \in Executors
  PROVE  RunClear(e)'
<1>1. JobInv /\ TypeInv /\ RunClear(e)
  BY DEF OrderInv, JobInv, PaidInv
<1>2. exec[e].batch \in SUBSET Fetched
  BY <1>1 DEF TypeInv, TypeOK, ExecState
<1>3. \A r \in exec[e].batch : r.id \in Payments
  BY <1>2 DEF Fetched
<1>4. Checking(e) => exec[e].cur \in Payments
  BY <1>1 DEF Checking, TypeInv, ExecutorLocals, Placed
<1>5. \A p \in Payments : UNCHANGED attempt => (Clear(p) => Clear(p)')
  BY DEF Clear, AttemptsOf
<1>6. CASE NewBatch(e)
  <2>1. \A r \in exec'[e].batch : r.id \in Payments /\ Clear(r.id)
    BY <1>1, <1>6, FetchedIsClear DEF NewBatch
  <2>2. \A r \in exec'[e].batch : Clear(r.id)' /\ r.id # exec'[e].cur
    BY <1>5, <1>6, <2>1, NullAssumption DEF NewBatch
  <2>3. \A r, s \in exec'[e].batch : r.id = s.id => r = s
    BY <1>1, <1>6, FetchedIsClear DEF NewBatch
  <2> QED BY <1>6, <2>2, <2>3 DEF RunClear, NewBatch
<1>7. CASE RereadBatch(e)
  <2>1. ASSUME NEW r \in Fetched PROVE AsRead(r).id = r.id
    BY <2>1 DEF AsRead, Fetched
  <2>2. \A r \in exec'[e].batch : \E s \in exec[e].batch : r = AsRead(s) /\ r.id = s.id
    BY <1>2, <1>7, <2>1 DEF RereadBatch
  <2>3. \A r \in exec'[e].batch : Clear(r.id)' /\ r.id # exec'[e].cur
    BY <1>1, <1>3, <1>5, <1>7, <2>2, NullAssumption DEF RunClear, RereadBatch
  <2>4. \A r, s \in exec'[e].batch : r.id = s.id => r = s
    BY <1>1, <2>2 DEF RunClear
  <2> QED BY <1>7, <2>3, <2>4 DEF RunClear, RereadBatch
<1>8. CASE TakesNext(e)
  BY <1>1, <1>3, <1>5, <1>8 DEF RunClear, TakesNext
<1>9. CASE GoesOn(e)
  <2>1. ASSUME NEW f \in Executors, CreateAttempt(f)
        PROVE  /\ \A r \in exec'[e].batch : exec[f].cur # r.id
               /\ ~Checking(e)'
    <3>1. f = e
      BY DEF OneExecutor
    <3>2. exec'[e].pc = "count"
      BY <1>1, <2>1, <3>1 DEF CreateAttempt, TypeInv, TypeOK, ExecState
    <3> QED BY <1>1, <1>9, <3>1, <3>2 DEF GoesOn, RunClear, Checking
  <2>2. ASSUME NEW r \in exec'[e].batch PROVE Clear(r.id)' /\ r.id # exec'[e].cur
    <3>1. r \in exec[e].batch /\ Clear(r.id) /\ r.id \in Payments /\ r.id # exec[e].cur
      BY <1>1, <1>3, <1>9 DEF GoesOn, RunClear
    <3>2. Clear(r.id)'
      BY <1>1, <2>1, <3>1, ClearStays
    <3> QED BY <1>9, <3>1, <3>2, NullAssumption DEF GoesOn
  <2>3. Checking(e)' => Clear(exec[e].cur)'
    <3> SUFFICES ASSUME Checking(e)' PROVE Clear(exec[e].cur)'
      OBVIOUS
    <3>1. exec'[e].cur = exec[e].cur /\ Clear(exec[e].cur) /\ exec[e].cur \in Payments
      BY <1>1, <1>4, <1>9 DEF GoesOn, RunClear
    <3>2. \A f \in Executors : ~CreateAttempt(f)
      BY <2>1
    <3> QED BY <1>1, <3>1, <3>2, ClearStays
  <2> QED BY <1>1, <1>9, <2>2, <2>3 DEF GoesOn, RunClear
<1> QED BY <1>1, <1>6, <1>7, <1>8, <1>9, RunMoves

\* The last success is the one that started last, so what holds of its age holds
\* of that of the others.
LEMMA LastSuccessIsLast ==
  ASSUME TypeInv, Orderly, NEW p \in Payments, WithStatus(p, "succeeded") # {}
  PROVE  /\ LastSuccess(p) \in WithStatus(p, "succeeded")
         /\ \A b \in WithStatus(p, "succeeded") :
              attempt[b].startedAt <= attempt[LastSuccess(p)].startedAt
<1> DEFINE S == WithStatus(p, "succeeded")
           l == LastSuccess(p)
<1>1. \A a \in S : /\ a \in AttemptIds /\ attempt[a].payment = p
                   /\ attempt[a].status = "succeeded"
  BY DEF WithStatus, AttemptsOf
<1>2. \A a \in S : /\ a \in Int /\ attempt[a].startedAt \in Nat /\ attempt[a].endedAt \in Nat
                   /\ attempt[a].startedAt <= attempt[a].endedAt
  BY <1>1, RowTimes DEF Orderly, Timed, Over
<1>3. \A a, b \in S : a < b => attempt[a].endedAt <= attempt[b].startedAt
  BY <1>1 DEF Orderly, InOrder
<1>4. PICK m \in S : \A a \in S : a <= m
  BY <1>1, LastAttempt
<1>5. \A a \in S : EndedBefore(a, m)
  BY <1>2, <1>3, <1>4 DEF EndedBefore
<1>6. l \in S /\ \A a \in S : EndedBefore(a, l)
  BY <1>5 DEF LastSuccess
<1> HIDE DEF S, l
<1>7. ASSUME NEW b \in S PROVE attempt[b].startedAt <= attempt[l].startedAt
  <2>1. EndedBefore(b, l)
    BY <1>6
  <2>2. CASE b < l
    BY <1>2, <1>3, <1>6, <2>2
  <2>3. CASE l < b
    BY <1>2, <1>3, <1>6, <2>1, <2>3 DEF EndedBefore
  <2>4. CASE b = l
    BY <1>2, <1>6, <2>4
  <2> QED BY <1>2, <1>6, <2>2, <2>3, <2>4
<1> QED BY <1>6, <1>7 DEF S, l

\* A start that is long ago stays so, and so was one before it.
LEMMA LongAgoLasts ==
  ASSUME NEW s \in Nat, NEW t \in Nat, NEW n \in Nat, NEW m \in Nat, NEW gap \in Int,
         s <= t, n <= m, t < n - gap
  PROVE  s < m - gap
OBVIOUS

LEMMA GapType == (MinMonthDays - ValidForDays) * DAY \in Int
BY TimeAssumption

LEMMA LongAgoKept ==
  ASSUME OneExecutor, OrderInv, [Next]_vars, NEW e \in Executors
  PROVE  LongAgo(e)'
<1> DEFINE gap == (MinMonthDays - ValidForDays) * DAY
           p == exec[e].cur
<1> SUFFICES ASSUME exec'[e].pc = "create", exec'[e].cur \in Recurring,
                    NEW b \in AttemptIds, attempt'[b].payment = exec'[e].cur,
                    attempt'[b].status = "succeeded"
             PROVE  attempt'[b].startedAt < now' - gap
  BY DEF LongAgo, TooRecent, WithStatus, AttemptsOf
<1>1. TypeInv /\ JobInv /\ LongAgo(e) /\ RunClear(e) /\ Orderly
  BY DEF OrderInv, JobInv, PaidInv
<1>2. now \in Nat /\ now' \in Nat /\ now <= now' /\ gap \in Int
  BY <1>1, TimeGrows, GapType
<1> HIDE DEF gap
<1>3. CASE CheckInProgress(e)
  <2>1. ~LeavePayment(e)
    BY <1>1, LeaveMoves
  <2>2. PICK pc \in {"recent", "create"} : Goto(e, pc) /\ (pc = "create" => p \notin Recurring)
    BY <1>3, <2>1 DEF CheckInProgress
  <2>3. pc \in ExecPc /\ Goto(e, pc)
    BY <2>2 DEF ExecPc
  <2>4. exec'[e] = [exec[e] EXCEPT !.pc = pc]
    BY <1>1, <2>3, GotoMoves
  <2>5. exec'[e].pc = pc /\ exec'[e].cur = p
    BY <1>1, <2>4 DEF TypeInv, TypeOK, ExecState
  <2> QED BY <2>2, <2>5
<1>4. CASE CheckLastSuccess(e)
  <2>1. ~LeavePayment(e)
    BY <1>1, LeaveMoves
  <2>2. /\ Goto(e, "create")
        /\ WithStatus(p, "succeeded") # {} => ~TooRecent(LastSuccess(p))
    BY <1>4, <2>1 DEF CheckLastSuccess
  <2>3. exec'[e] = [exec[e] EXCEPT !.pc = "create"]
    BY <1>1, <2>2, GotoMoves DEF ExecPc
  <2>4. exec'[e].cur = p
    BY <1>1, <2>3 DEF TypeInv, TypeOK, ExecState
  <2>5. UNCHANGED attempt /\ p \in Payments
    BY <1>4, <2>4, PaymentsAssumption DEF CheckLastSuccess, dbVars
  <2>6. b \in WithStatus(p, "succeeded")
    BY <2>4, <2>5 DEF WithStatus, AttemptsOf
  <2> DEFINE l == LastSuccess(p)
  <2>7. l \in AttemptIds /\ attempt[b].startedAt <= attempt[l].startedAt
    BY <1>1, <2>5, <2>6, LastSuccessIsLast DEF WithStatus, AttemptsOf
  <2>8. attempt[l].startedAt < now - gap
    BY <2>2, <2>6 DEF TooRecent, gap
  <2> HIDE DEF l
  <2>9. attempt[b].startedAt \in Nat /\ attempt[l].startedAt \in Nat
    BY <1>1, <2>7, RowTimes
  <2>10. attempt[b].startedAt < now' - gap
    BY <1>2, <2>7, <2>8, <2>9, LongAgoLasts
  <2> QED BY <2>5, <2>10
<1>5. CASE exec'[e] = exec[e]
  <2>1. Clear(p) /\ exec[e].pc = "create" /\ p \in Recurring
    BY <1>1, <1>5 DEF RunClear, Checking
  <2>2. ASSUME NEW f \in Executors PROVE ~CreateAttempt(f)
    <3>1. CreateAttempt(e) => exec'[e].pc = "count"
      BY <1>1 DEF CreateAttempt, TypeInv, TypeOK, ExecState
    <3> QED BY <1>5, <2>1, <3>1 DEF OneExecutor
  <2>3. ASSUME NEW a \in AttemptIds, NEW status \in {"succeeded", "failed"}, Ends(a, status)
        PROVE  SameRow(b)
    <3>1. a # b
      BY <1>5, <2>1, <2>3 DEF Ends, Clear, AttemptsOf
    <3> QED BY <2>3, <3>1 DEF Ends
  <2>4. SameRow(b)
    BY <1>1, <2>2, <2>3, RowSteps DEF Creates
  <2>5. b \in WithStatus(p, "succeeded")
    BY <1>5, <2>4 DEF SameRow, WithStatus, AttemptsOf
  <2>6. attempt[b].startedAt < now - gap /\ attempt[b].startedAt \in Nat
    BY <1>1, <2>1, <2>5, RowTimes DEF LongAgo, TooRecent, gap
  <2>7. attempt[b].startedAt < now' - gap
    BY <1>2, <2>6, LongAgoLasts
  <2> QED BY <2>4, <2>7 DEF SameRow
<1>6. \/ exec'[e] = exec[e]
      \/ ExecutorStep(e) \/ ExecutorError(e) \/ ExecutorCrash(e)
  BY <1>1, OneRunMoves
<1> QED BY <1>1, <1>3, <1>4, <1>5, <1>6, WayToCreation

LEMMA OrderInit == Init => OrderInv
<1> SUFFICES ASSUME Init PROVE OrderInv
  OBVIOUS
<1>1. now = 0 /\ \A a \in AttemptIds : attempt[a].status = "none" /\ attempt[a].startedAt = 0
  BY DEF Init
<1>2. Orderly
  BY <1>1 DEF Orderly, Timed, InOrder, Enough, Over
<1>3. \A e \in Executors : exec[e].pc = "idle" /\ exec[e].batch = {}
  BY DEF Init, Idle, LoopHead
<1>4. \A e \in Executors : RunClear(e) /\ LongAgo(e)
  BY <1>3 DEF RunClear, Checking, LongAgo
<1> QED BY <1>2, <1>4, JobInit, OneInit DEF OrderInv

LEMMA OrderStep == OneExecutor /\ OrderInv /\ [Next]_vars => OrderInv'
<1> SUFFICES ASSUME OneExecutor, OrderInv, [Next]_vars PROVE OrderInv'
  OBVIOUS
<1>1. JobInv' /\ OneInv'
  BY JobStep, OneStep DEF OrderInv
<1>2. Orderly' /\ \A e \in Executors : RunClear(e)' /\ LongAgo(e)'
  BY OrderlyKept, RunClearKept, LongAgoKept
<1> QED BY <1>1, <1>2 DEF OrderInv

----------------------------------------------------------------------------
(* When attempts may start.                                                *)

LEMMA CreationFindsClear ==
  ASSUME OrderInv, [Next]_vars
  PROVE  \A a, b \in AttemptIds :
           /\ Created(a) /\ attempt[b].status = "succeeded"
           /\ attempt'[a].payment = attempt[b].payment
           => attempt[b].payment \in Recurring /\ ~TooRecent(b)
<1> SUFFICES ASSUME NEW a \in AttemptIds, NEW b \in AttemptIds, Created(a),
                    attempt[b].status = "succeeded",
                    attempt'[a].payment = attempt[b].payment
             PROVE  attempt[b].payment \in Recurring /\ ~TooRecent(b)
  OBVIOUS
<1>1. JobInv
  BY DEF OrderInv
<1>2. ~SameRow(a) /\ \A c \in AttemptIds, status \in {"succeeded", "failed"} : ~Ends(c, status)
  BY DEF Created, SameRow, Ends
<1>3. PICK e \in Executors, n \in AttemptIds : Creates(e, n)
  BY <1>1, <1>2, RowSteps
<1>4. a = n
  BY <1>2, <1>3 DEF Creates
<1>5. attempt[b].payment = exec[e].cur /\ exec[e].pc = "create"
  BY <1>3, <1>4 DEF Creates, CreateAttempt
<1>6. Clear(exec[e].cur) /\ LongAgo(e)
  BY <1>5 DEF OrderInv, RunClear, Checking
<1>7. exec[e].cur \in Recurring
  BY <1>5, <1>6 DEF Clear, AttemptsOf
<1>8. b \in WithStatus(exec[e].cur, "succeeded")
  BY <1>5 DEF WithStatus, AttemptsOf
<1> QED BY <1>5, <1>6, <1>7, <1>8 DEF LongAgo

\* With one run of the executor, no attempt of a one-time payment is created after
\* a success, and none of a recurring payment less than minDaysBetweenPayments
\* after one, although the batch was fetched, its rows read, and the two checks
\* made, each in an earlier step.
THEOREM NoAttemptAfterASuccess ==
  ASSUME OneExecutor
  PROVE  Spec => NoAttemptAfterSuccess
<1>1. Init => OrderInv
  BY OrderInit
<1>2. OrderInv /\ [Next]_vars => OrderInv'
  BY OrderStep
<1> DEFINE Rule == \A a, b \in AttemptIds :
       /\ Created(a) /\ attempt[b].status = "succeeded"
       /\ attempt'[a].payment = attempt[b].payment
       => attempt[b].payment \in Recurring /\ ~TooRecent(b)
<1>3. OrderInv /\ [Next]_vars => [Rule]_vars
  BY CreationFindsClear
<1> HIDE DEF Rule
<1>4. Spec => [][Rule]_vars
  BY <1>1, <1>2, <1>3, PTL DEF Spec
<1> QED BY <1>4 DEF NoAttemptAfterSuccess, Rule

----------------------------------------------------------------------------
(* Execution implements the promise.                                       *)

\* The promise's view of a payment depends on its successes and on whether an
\* attempt of it is in progress.
LEMMA SameView ==
  ASSUME NEW p,
         WithStatus(p, "inProgress")' = WithStatus(p, "inProgress"),
         WithStatus(p, "succeeded")' = WithStatus(p, "succeeded")
  PROVE  UNCHANGED <<Phase(p), Made(p)>>
BY DEF Phase, Made

LEMMA ViewOfRows ==
  ASSUME NEW p, \A a \in AttemptIds : attempt[a].payment = p \/ attempt'[a].payment = p => SameRow(a)
  PROVE  UNCHANGED <<Phase(p), Made(p)>>
<1>1. \A s : WithStatus(p, s)' = WithStatus(p, s)
  BY DEF WithStatus, AttemptsOf, SameRow
<1> QED BY <1>1, SameView

LEMMA PromiseStarts ==
  ASSUME OrderInv, NEW e \in Executors, NEW n \in AttemptIds, Creates(e, n), NEW p \in Payments
  PROVE  Promise(p)!Start \/ UNCHANGED <<Phase(p), Made(p)>>
<1>1. attempt[n].payment \notin Payments
  BY DEF Creates, OrderInv, OneInv, TypeInv, AttemptRows
<1>2. CASE p # exec[e].cur
  <2>1. \A a \in AttemptIds : attempt[a].payment = p \/ attempt'[a].payment = p => SameRow(a)
    BY <1>1, <1>2 DEF Creates
  <2> QED BY <2>1, ViewOfRows
<1>3. CASE p = exec[e].cur
  <2>1. Clear(p)
    BY <1>3 DEF Creates, CreateAttempt, OrderInv, RunClear, Checking
  <2>2. /\ WithStatus(p, "inProgress") = {}
        /\ p \notin Recurring => WithStatus(p, "succeeded") = {}
    BY <2>1 DEF Clear, WithStatus, AttemptsOf
  <2>3. n \in WithStatus(p, "inProgress")'
    BY <1>3 DEF Creates, WithStatus, AttemptsOf
  <2>4. WithStatus(p, "succeeded")' = WithStatus(p, "succeeded")
    BY <1>1 DEF Creates, SameRow, WithStatus, AttemptsOf
  <2>5. Phase(p) = "waiting" /\ Phase(p)' = "attempting" /\ Made(p)' = Made(p)
    BY <2>2, <2>3, <2>4 DEF Phase, Made
  <2> QED BY <2>5 DEF Promise!Start
<1> QED BY <1>2, <1>3

LEMMA PromiseEnds ==
  ASSUME OrderInv, NEW a \in AttemptIds, NEW status \in {"succeeded", "failed"},
         Ends(a, status), NEW p \in Payments
  PROVE  Promise(p)!GiveUp \/ Promise(p)!Succeed \/ UNCHANGED <<Phase(p), Made(p)>>
<1>1. CASE p # attempt[a].payment
  <2>1. \A b \in AttemptIds : attempt[b].payment = p \/ attempt'[b].payment = p => SameRow(b)
    BY <1>1 DEF Ends
  <2> QED BY <2>1, ViewOfRows
<1>2. CASE p = attempt[a].payment
  <2>1. a \in WithStatus(p, "inProgress")
    BY <1>2 DEF Ends, WithStatus, AttemptsOf
  <2>2. WithStatus(p, "inProgress")' = {}
    BY <1>2 DEF Ends, SameRow, WithStatus, AttemptsOf, OrderInv, OneInv, OneInProgress
  <2>3. CASE status = "failed"
    <3>1. WithStatus(p, "succeeded")' = WithStatus(p, "succeeded")
      BY <2>3 DEF Ends, SameRow, WithStatus, AttemptsOf
    <3>2. p \notin Recurring => WithStatus(p, "succeeded") = {}
      BY <1>2 DEF Ends, WithStatus, AttemptsOf, OrderInv, Orderly, Enough
    <3>3. Phase(p) = "attempting" /\ Phase(p)' = "waiting" /\ Made(p)' = Made(p)
      BY <2>1, <2>2, <3>1, <3>2 DEF Phase, Made
    <3> QED BY <3>3 DEF Promise!GiveUp
  <2>4. CASE status = "succeeded"
    <3>1. WithStatus(p, "succeeded")' = WithStatus(p, "succeeded") \cup {a}
      BY <1>2, <2>4 DEF Ends, SameRow, WithStatus, AttemptsOf
    <3>2. a \notin WithStatus(p, "succeeded")
      BY DEF Ends, WithStatus, AttemptsOf
    <3>3. IsFiniteSet(WithStatus(p, "succeeded"))
      <4>1. IsFiniteSet(AttemptIds)
        BY FS_Interval, AttemptsAssumption DEF AttemptIds
      <4> QED BY <4>1, FS_Subset DEF WithStatus, AttemptsOf
    <3>4. Made(p)' = Made(p) + 1
      BY <3>1, <3>2, <3>3, OneMore DEF Made
    <3>5. /\ Phase(p) = "attempting"
          /\ Phase(p)' = IF p \in Recurring THEN "waiting" ELSE "paid"
      BY <2>1, <2>2, <3>1 DEF Phase
    <3> QED BY <3>4, <3>5 DEF Promise!Succeed
  <2> QED BY <2>3, <2>4
<1> QED BY <1>1, <1>2

LEMMA PromiseStep ==
  ASSUME OrderInv, [Next]_vars
  PROVE  \A p \in Payments : Promise(p)!PromiseNext \/ UNCHANGED <<Phase(p), Made(p)>>
<1> SUFFICES ASSUME NEW p \in Payments
             PROVE  Promise(p)!PromiseNext \/ UNCHANGED <<Phase(p), Made(p)>>
  OBVIOUS
<1>1. ASSUME NEW e \in Executors, NEW n \in AttemptIds, Creates(e, n)
      PROVE  Promise(p)!PromiseNext \/ UNCHANGED <<Phase(p), Made(p)>>
  BY <1>1, PromiseStarts DEF Promise!PromiseNext
<1>2. ASSUME NEW a \in AttemptIds, NEW status \in {"succeeded", "failed"}, Ends(a, status)
      PROVE  Promise(p)!PromiseNext \/ UNCHANGED <<Phase(p), Made(p)>>
  BY <1>2, PromiseEnds DEF Promise!PromiseNext
<1>3. CASE \A a \in AttemptIds : SameRow(a)
  BY <1>3, ViewOfRows
<1>4. JobInv
  BY DEF OrderInv
<1> QED BY <1>1, <1>2, <1>3, <1>4, RowSteps

LEMMA PromiseStart == Init => \A p \in Payments : Promise(p)!PromiseInit
<1> SUFFICES ASSUME Init, NEW p \in Payments PROVE Promise(p)!PromiseInit
  OBVIOUS
<1>1. \A a \in AttemptIds : attempt[a].status = "none"
  BY DEF Init
<1>2. \A s \in {"inProgress", "succeeded"} : WithStatus(p, s) = {}
  BY <1>1 DEF WithStatus, AttemptsOf
<1>3. Phase(p) = "waiting" /\ Made(p) = 0
  BY <1>2, FS_EmptySet DEF Phase, Made
<1> QED BY <1>3 DEF Promise!PromiseInit

\* With one run of the executor, execution implements PaymentPromise: what happens
\* to each payment, seen through its phase and its successes, starts as a promise
\* does, and every step of the hub, the chain, the user or a fault is a step of the
\* promise or changes nothing of it.
THEOREM ImplementsPromise ==
  ASSUME OneExecutor
  PROVE  Spec => KeepsPromise
<1> DEFINE AtStart == \A p \in Payments : Promise(p)!PromiseInit
           Step == \A p \in Payments :
                     Promise(p)!PromiseNext \/ UNCHANGED <<Phase(p), Made(p)>>
<1>1. Init => OrderInv /\ AtStart
  BY OrderInit, PromiseStart
<1>2. OrderInv /\ [Next]_vars => OrderInv'
  BY OrderStep
<1>3. OrderInv /\ [Next]_vars => [Step]_vars
  BY PromiseStep
<1> HIDE DEF AtStart, Step
<1>4. Spec => AtStart /\ [][Step]_vars
  BY <1>1, <1>2, <1>3, PTL DEF Spec
<1> QED BY <1>4 DEF KeepsPromise, AtStart, Step

----------------------------------------------------------------------------
(* With one run of the executor, dates that are far enough apart and no    *)
(* faults, nothing is forgotten.                                           *)

\* What a payment may be tried for, from its date: it is fetched while it is valid,
\* on the last day to its end, and the run takes its time to get to it.
Validity == (ValidForDays + 1) * DAY
Window == Validity + MaxJobTime - 1
Gap == (MinMonthDays - ValidForDays) * DAY
FarApart == Window <= CycleLength /\ Window <= Gap

\* Runs of jobs are short.
Short(since) == since <= now /\ now <= since + MaxJobTime
InTime ==
  /\ \A e \in Executors : exec[e].pc # "idle" => Short(exec[e].since)
  /\ \A a \in AttemptIds : AtWork(a) => Short(waiter[a].since)

\* The attempt is in progress, or succeeded and is about to move payAt on.
Live(a) == attempt[a].status = "inProgress" \/ waiter[a].pc \in {"reset", "advance"}

\* The payments that a run has fetched were due: their payAt has not moved since then,
\* except for a success so late that the run will find it too recent.
Near(e, t) == exec[e].since + 1 < t + Validity
Lately(e, p) == \E b \in WithStatus(p, "succeeded") : Near(e, attempt[b].startedAt)
StillDue(e, p) ==
  Near(e, payment[p].payAt) /\ (payment[p].payAt <= exec[e].since \/ Lately(e, p))
RunDue(e) ==
  /\ \A r \in exec[e].batch :
       /\ StillDue(e, r.id)
       /\ exec[e].pc = "rows" \/ r.payAt = payment[r.id].payAt \/ Lately(e, r.id)
  /\ Checking(e) =>
       /\ StillDue(e, exec[e].cur)
       /\ exec[e].payAt = payment[exec[e].cur].payAt \/ Lately(e, exec[e].cur)

\* While a run has an attempt, no other of the payment is live, and the run knows its
\* row: nobody else writes payAt or the count.
Recorded(e) == exec[e].pc \in {"submit", "save", "enqueue", "fail", "backoff"}
RunAlone(e) ==
  Owns(e) \/ exec[e].pc = "backoff" =>
    /\ exec[e].payAt = payment[exec[e].cur].payAt
    /\ \A b \in AttemptsOf(exec[e].cur) : Live(b) => b = exec[e].att
    /\ exec[e].pc = "backoff" => attempt[exec[e].att].status = "failed"
    /\ exec[e].pc = "enqueue" => attempt[exec[e].att].hash
    /\ exec[e].pc \in {"count", "record"} =>
         \A b \in WithStatus(exec[e].cur, "succeeded") : ~TooRecent(b)
    /\ exec[e].pc = "record" => exec[e].count = Cardinality(CycleAttempts(exec[e].cur))
    /\ Recorded(e) => exec[e].count = payment[exec[e].cur].count

\* A live attempt is the only one of its payment, is of its current cycle, and its
\* job knows the row; jobs of earlier attempts may still have to schedule a retry.
Cycled(a) ==
  Live(a) =>
    LET p == attempt[a].payment IN
    /\ payment[p].payAt <= attempt[a].startedAt
    /\ attempt[a].startedAt < payment[p].payAt + Window
    /\ \A b \in AttemptsOf(p) : Live(b) => b = a
    /\ \A b \in AttemptsOf(p) :
         waiter[b].pc = "backoff" => waiter[b].since <= attempt[a].startedAt
    /\ AtWork(a) => waiter[a].payAt = payment[p].payAt
    /\ waiter[a].pc \in {"waiting", "succeed", "fail"} => waiter[a].count = payment[p].count
    /\ waiter[a].pc = "advance" => payment[p].count = 0
Sent(a) ==
  waiter[a].pc \in {"queued", "waiting"} => attempt[a].status = "inProgress" /\ attempt[a].hash

\* A job that is about to schedule a retry does it for the current cycle, unless a
\* later attempt has succeeded meanwhile, after which there is none to retry.
Backing(a) ==
  waiter[a].pc = "backoff" =>
    LET p == attempt[a].payment IN
    \/ waiter[a].payAt = payment[p].payAt /\ waiter[a].count <= payment[p].count
    \/ /\ payment[p].count = 0
       /\ \E b \in WithStatus(p, "succeeded") : waiter[a].since <= attempt[b].startedAt

\* Somebody sees to the end of each attempt, to the next date after each success, and
\* to the retry after each failure.
InHands(a) ==
  attempt[a].status = "inProgress" =>
    \/ \E e \in Executors : Owns(e) /\ exec[e].att = a
    \/ waiter[a].pc \in {"queued", "waiting", "succeed", "fail"}
Advanced(a) ==
  attempt[a].status = "succeeded" /\ attempt[a].payment \in Recurring =>
    LET p == attempt[a].payment IN
    \/ waiter[a].pc \in {"reset", "advance"}
    \/ attempt[a].startedAt < payment[p].payAt
    \/ payment[p].payAt + CycleLength > RecurringUntil[p]
NoRetryLeft(p) ==
  \/ payment[p].count >= Len(RetryBackoffs)
  \/ payment[p].payAt + ValidForDays * DAY <= now
SeenTo(p) ==
  \/ \E e \in Executors : Recorded(e) /\ exec[e].cur = p
  \/ \E a \in AttemptsOf(p) : waiter[a].pc \notin {"none", "done", "advance"}
Retried(p) ==
  payment[p].nextRetry # NULL \/ payment[p].count = 0 \/ NoRetryLeft(p) \/ SeenTo(p)
Tallied(p) == payment[p].count <= Cardinality(CycleAttempts(p))

Attended ==
  /\ \A e \in Executors : RunDue(e) /\ RunAlone(e)
  /\ \A a \in AttemptIds : Cycled(a) /\ Sent(a) /\ Backing(a) /\ InHands(a) /\ Advanced(a)
  /\ \A p \in Payments : Retried(p) /\ Tallied(p)
RestInv == OrderInv /\ InTime /\ (faults = 0 => Attended)

LEMMA Spans ==
  /\ Validity \in Nat /\ 1 <= Validity /\ Window \in Int /\ Gap \in Int
  /\ MaxJobTime \in Nat /\ CycleLength \in Nat /\ ValidForDays * DAY \in Nat
  /\ Window = Validity + MaxJobTime - 1
<1>1. /\ ValidForDays \in Nat /\ DAY \in Nat \ {0} /\ MinMonthDays \in Nat
      /\ MaxJobTime \in Nat /\ CycleLength \in Nat
  BY TimeAssumption
<1>2. ValidForDays * DAY \in Nat
  BY <1>1
<1>3. Validity = ValidForDays * DAY + DAY
  BY <1>1 DEF Validity
<1>4. Validity \in Nat /\ 1 <= Validity
  BY <1>1, <1>2, <1>3
<1>5. Gap \in Int
  BY <1>1 DEF Gap
<1> QED BY <1>1, <1>2, <1>4, <1>5 DEF Window

\* Fields are numbers.
LEMMA Numbers ==
  ASSUME TypeInv
  PROVE  /\ now \in Nat
         /\ \A e \in Executors : /\ exec[e] \in ExecState /\ exec[e].since \in Nat
                                 /\ exec[e].payAt \in Nat /\ exec[e].count \in Nat
         /\ \A p \in Payments : payment[p].payAt \in Nat /\ payment[p].count \in Nat
         /\ \A a \in AttemptIds : /\ attempt[a].startedAt \in Nat /\ waiter[a].since \in Nat
                                  /\ waiter[a].payAt \in Nat /\ waiter[a].count \in Nat
<1>1. now \in Nat
  BY TimeAssumption DEF TypeInv, TypeOK
<1>2. \A e \in Executors : exec[e] \in ExecState
  BY DEF TypeInv, TypeOK
<1>3. \A e \in Executors : /\ exec[e].since \in Nat /\ exec[e].payAt \in Nat
                           /\ exec[e].count \in Nat
  BY <1>2, AttemptsAssumption DEF ExecState
<1>4. \A p \in Payments : payment[p].payAt \in Nat /\ payment[p].count \in Nat
  BY AttemptsAssumption DEF TypeInv, TypeOK, PaymentRow
<1>5. \A a \in AttemptIds : attempt[a].startedAt \in Nat
  BY DEF TypeInv, TypeOK, AttemptRow
<1>6. \A a \in AttemptIds : /\ waiter[a].since \in Nat /\ waiter[a].payAt \in Nat
                            /\ waiter[a].count \in Nat
  BY AttemptsAssumption DEF TypeInv, TypeOK, WaiterState
<1> QED BY <1>1, <1>2, <1>3, <1>4, <1>5, <1>6

\* A run of the executor starts now or goes on.
LEMMA SinceKept ==
  ASSUME TypeInv, [Next]_vars, NEW e \in Executors, exec'[e].pc # "idle"
  PROVE  \/ Fetch(e) /\ exec'[e].since = now
         \/ exec[e].pc # "idle" /\ exec'[e].since = exec[e].since
<1>1. exec \in [Executors -> ExecState] /\ exec[e] \in ExecState
  BY DEF TypeInv, TypeOK
<1>2. ASSUME NEW pc \in ExecPc, Goto(e, pc), exec[e].pc # "idle"
      PROVE  exec[e].pc # "idle" /\ exec'[e].since = exec[e].since
  BY <1>1, <1>2 DEF Goto, ExecState
<1>3. ASSUME LeavePayment(e), exec[e].pc # "idle"
      PROVE  exec[e].pc # "idle" /\ exec'[e].since = exec[e].since
  BY <1>1, <1>3 DEF LeavePayment, LoopHead
<1>4. CASE Fetch(e)
  BY <1>1, <1>4 DEF Fetch, Idle, LoopHead
<1>5. CASE ReadRows(e)
  BY <1>1, <1>5 DEF ReadRows, LoopHead
<1>6. CASE PickNext(e) \/ CreateAttempt(e) \/ CountAttempts(e) \/ RecordAttempt(e)
  <2>1. PickNext(e) => exec[e].pc # "idle" /\ exec'[e].since = exec[e].since
    BY <1>1 DEF PickNext, ExecState
  <2>2. CreateAttempt(e) => exec[e].pc # "idle" /\ exec'[e].since = exec[e].since
    BY <1>1 DEF CreateAttempt, ExecState
  <2>3. CountAttempts(e) => exec[e].pc # "idle" /\ exec'[e].since = exec[e].since
    BY <1>1 DEF CountAttempts, ExecState
  <2>4. RecordAttempt(e) => exec[e].pc # "idle" /\ exec'[e].since = exec[e].since
    BY <1>1 DEF RecordAttempt, ExecState
  <2> QED BY <1>6, <2>1, <2>2, <2>3, <2>4
<1>7. CASE CheckInProgress(e) \/ CheckLastSuccess(e)
  BY <1>2, <1>3, <1>7 DEF CheckInProgress, CheckLastSuccess, ExecPc
<1>8. CASE NoQuote(e) \/ EnqueueWaiter(e) \/ ScheduleRetry(e)
  BY <1>3, <1>8 DEF NoQuote, EnqueueWaiter, ScheduleRetry
<1>9. CASE Submit(e) \/ SaveHash(e) \/ FailAttempt(e)
  BY <1>2, <1>9 DEF Submit, SaveHash, FailAttempt, ExecPc
<1>10. CASE ExecutorError(e)
  BY <1>2, <1>3, <1>10 DEF ExecutorError, ExecPc
<1>11. CASE ExecutorCrash(e)
  BY <1>1, <1>11 DEF ExecutorCrash, Idle, LoopHead
<1>12. \/ ExecutorStep(e) \/ ExecutorError(e) \/ ExecutorCrash(e)
       \/ exec'[e] = exec[e]
  BY OneRunMoves
<1> QED BY <1>4, <1>5, <1>6, <1>7, <1>8, <1>9, <1>10, <1>11, <1>12 DEF ExecutorStep

\* A job is moved by its own steps, or is queued by the executor.
LEMMA OneJobMoves ==
  ASSUME TypeInv, [Next]_vars, NEW a \in AttemptIds
  PROVE  \/ WaiterStep(a) \/ UnknownError(a) \/ WaiterFault(a)
         \/ \E e \in Executors : EnqueueWaiter(e) /\ exec[e].att = a
         \/ waiter'[a] = waiter[a]
<1>1. waiter \in [AttemptIds -> WaiterState]
  BY DEF TypeInv, TypeOK
<1>2. ASSUME NEW e \in Executors, ExecutorStep(e)
      PROVE  (EnqueueWaiter(e) /\ exec[e].att = a) \/ waiter'[a] = waiter[a]
  BY <1>1, <1>2 DEF ExecutorStep, Fetch, ReadRows, PickNext, CheckInProgress, CheckLastSuccess,
              NoQuote, CreateAttempt, CountAttempts, RecordAttempt, Submit, SaveHash,
              EnqueueWaiter, FailAttempt, ScheduleRetry
<1>3. ASSUME NEW b \in AttemptIds, b # a, WaiterStep(b) \/ UnknownError(b) \/ WaiterFault(b)
      PROVE  waiter'[a] = waiter[a]
  BY <1>3, WaiterMoves DEF WaiterMove
<1>4. \/ \E e \in Executors : ExecutorStep(e)
      \/ \E b \in AttemptIds : WaiterStep(b) \/ UnknownError(b) \/ WaiterFault(b)
      \/ waiter' = waiter
  BY DEF Next, vars, ExecutorError, ExecutorCrash, MineTx, LoseTx, SubmitCancel, PatchCancel,
         MineCancel, Tick
<1> QED BY <1>2, <1>3, <1>4

LEMMA JobSince ==
  ASSUME TypeInv, [Next]_vars, NEW a \in AttemptIds, AtWork(a)'
  PROVE  waiter'[a].since = now \/ (AtWork(a) /\ waiter'[a].since = waiter[a].since)
<1>1. waiter \in [AttemptIds -> WaiterState] /\ waiter[a] \in WaiterState
  BY DEF TypeInv, TypeOK
<1>2. CASE WaiterStep(a) \/ UnknownError(a) \/ WaiterFault(a)
  BY <1>1, <1>2 DEF WaiterStep, StartWaiter, TxConfirmed, TxRefused, TookTooLong, MarkSucceeded,
                    ResetRetries, AdvancePayAt, MarkFailed, WaiterScheduleRetry, UnknownError,
                    WaiterFault, WaiterGoto, JobDone, Requeue, Job, AtWork, WaiterState
<1>3. ~ \E e \in Executors : EnqueueWaiter(e) /\ exec[e].att = a
  BY <1>1 DEF EnqueueWaiter, Job, AtWork
<1>4. CASE waiter'[a] = waiter[a]
  BY <1>4 DEF AtWork
<1> QED BY <1>2, <1>3, <1>4, OneJobMoves

\* Runs stay short: time waits for those that have used up theirs.
LEMMA InTimeKept ==
  ASSUME TypeInv, InTime, [Next]_vars
  PROVE  InTime'
<1>1. now \in Nat /\ MaxJobTime \in Nat
  BY Numbers, Spans
<1>2. CASE now' = now
  <2>1. ASSUME NEW e \in Executors, exec'[e].pc # "idle" PROVE Short(exec[e].since)'
    BY <1>1, <1>2, <2>1, SinceKept DEF InTime, Short
  <2>2. ASSUME NEW a \in AttemptIds, AtWork(a)' PROVE Short(waiter[a].since)'
    BY <1>1, <1>2, <2>2, JobSince DEF InTime, Short
  <2> QED BY <2>1, <2>2 DEF InTime
<1>3. CASE Tick
  <2>1. ASSUME NEW e \in Executors, exec'[e].pc # "idle" PROVE Short(exec[e].since)'
    BY <1>1, <1>3, <2>1, Numbers DEF InTime, Short, Tick
  <2>2. ASSUME NEW a \in AttemptIds, AtWork(a)' PROVE Short(waiter[a].since)'
    BY <1>1, <1>3, <2>2, Numbers DEF InTime, Short, Tick, AtWork
  <2> QED BY <2>1, <2>2 DEF InTime
<1>4. now' = now \/ Tick
  <2>1. ASSUME NEW e \in Executors, ExecutorStep(e) \/ ExecutorError(e) \/ ExecutorCrash(e)
        PROVE  now' = now
    BY <2>1 DEF ExecutorStep, Fetch, ReadRows, PickNext, CheckInProgress, CheckLastSuccess,
                NoQuote, CreateAttempt, CountAttempts, RecordAttempt, Submit, SaveHash,
                EnqueueWaiter, FailAttempt, ScheduleRetry, ExecutorError, ExecutorCrash
  <2>2. ASSUME NEW a \in AttemptIds, WaiterStep(a) \/ UnknownError(a) \/ WaiterFault(a)
        PROVE  now' = now
    BY <2>2 DEF WaiterStep, StartWaiter, TxConfirmed, TxRefused, TookTooLong, MarkSucceeded,
                ResetRetries, AdvancePayAt, MarkFailed, WaiterScheduleRetry, UnknownError,
                WaiterFault
  <2> QED BY <2>1, <2>2 DEF Next, vars, MineTx, LoseTx, SubmitCancel, PatchCancel, MineCancel
<1> QED BY <1>2, <1>3, <1>4

----------------------------------------------------------------------------
(* The steps of a run that only look. *)

Calm == OrderInv /\ InTime /\ Attended

LEMMA CalmTypes == Calm => TypeInv /\ JobInv /\ Handed /\ OneInProgress
BY DEF Calm, OrderInv, JobInv, PaidInv, OneInv

LEMMA GotoFields ==
  ASSUME TypeInv, NEW e \in Executors, NEW pc \in ExecPc, Goto(e, pc)
  PROVE  /\ exec'[e].pc = pc /\ exec'[e].since = exec[e].since
         /\ exec'[e].batch = exec[e].batch /\ exec'[e].cur = exec[e].cur
         /\ exec'[e].payAt = exec[e].payAt /\ exec'[e].att = exec[e].att
         /\ exec'[e].count = exec[e].count
<1>1. exec'[e] = [exec[e] EXCEPT !.pc = pc] /\ exec[e] \in ExecState
  BY GotoMoves DEF TypeInv, TypeOK
<1> QED BY <1>1 DEF ExecState

LEMMA LeaveFields ==
  ASSUME TypeInv, NEW e \in Executors, LeavePayment(e)
  PROVE  /\ exec'[e].pc \in {"idle", "next"} /\ exec'[e].batch = exec[e].batch
         /\ exec[e].batch # {} => exec'[e].since = exec[e].since
         /\ exec'[e].cur = NULL
<1>1. exec'[e] = LoopHead(exec[e].since, exec[e].batch)
  BY DEF TypeInv, TypeOK, LeavePayment
<1> QED BY <1>1 DEF LoopHead

\* What is near to a run is no longer too recent only much later.
LEMMA NearIsRecent ==
  ASSUME FarApart, TypeInv, InTime, NEW e \in Executors, exec[e].pc # "idle",
         NEW t \in Nat, Near(e, t)
  PROVE  ~(t < now - Gap)
<1>1. /\ Validity \in Nat /\ Gap \in Int /\ MaxJobTime \in Nat
      /\ Validity + MaxJobTime - 1 <= Gap
  BY Spans DEF FarApart
<1>2. exec[e].since \in Nat /\ now \in Nat /\ now <= exec[e].since + MaxJobTime
  BY Numbers DEF InTime, Short
<1>3. exec[e].since + 1 < t + Validity
  BY DEF Near
<1> QED BY <1>1, <1>2, <1>3

\* A run that is about to create an attempt of a payment finds no success of it
\* near, and no attempt live.
LEMMA CreatesAlone ==
  ASSUME FarApart, OrderInv, InTime, NEW e \in Executors, exec[e].pc = "create",
         StillDue(e, exec[e].cur),
         \A b \in AttemptsOf(exec[e].cur) :
           Live(b) => payment[exec[e].cur].payAt <= attempt[b].startedAt
  PROVE  /\ exec[e].cur \in Payments /\ ~Lately(e, exec[e].cur)
         /\ \A b \in AttemptsOf(exec[e].cur) : ~Live(b)
         /\ \A b \in WithStatus(exec[e].cur, "succeeded") : ~TooRecent(b)
<1> DEFINE p == exec[e].cur
<1>1. TypeInv /\ JobInv /\ Handed
  BY DEF OrderInv, JobInv, PaidInv
<1>2. p \in Payments /\ Checking(e)
  BY <1>1 DEF TypeInv, ExecutorLocals, Placed, Checking
<1>3. Clear(p) /\ LongAgo(e)
  BY <1>2 DEF OrderInv, RunClear
<1>4. ASSUME NEW b \in WithStatus(p, "succeeded")
      PROVE  p \in Recurring /\ ~TooRecent(b) /\ ~Near(e, attempt[b].startedAt)
  <2>1. p \in Recurring /\ b \in AttemptIds
    BY <1>3, <1>4 DEF Clear, WithStatus, AttemptsOf
  <2>2. ~TooRecent(b)
    BY <1>3, <1>4, <2>1 DEF LongAgo
  <2>3. attempt[b].startedAt < now - Gap /\ attempt[b].startedAt \in Nat
    BY <1>1, <2>1, <2>2, Numbers DEF TooRecent, Gap
  <2> QED BY <1>1, <2>1, <2>2, <2>3, NearIsRecent
<1>5. ~Lately(e, p)
  BY <1>4 DEF Lately
<1>6. ASSUME NEW b \in AttemptsOf(p), Live(b) PROVE FALSE
  <2>1. b \in AttemptIds /\ attempt[b].payment = p
    BY DEF AttemptsOf
  <2>2. attempt[b].status # "inProgress"
    BY <1>3, <1>6 DEF Clear
  <2>3. attempt[b].status = "succeeded"
    BY <1>1, <1>6, <2>1, <2>2 DEF Live, Handed, JobFits
  <2>4. ~Near(e, attempt[b].startedAt)
    BY <1>4, <2>3 DEF WithStatus
  <2>5. payment[p].payAt <= attempt[b].startedAt
    BY <1>6
  <2>6. Near(e, payment[p].payAt)
    BY DEF StillDue
  <2>7. /\ exec[e].since \in Nat /\ payment[p].payAt \in Nat /\ attempt[b].startedAt \in Nat
        /\ Validity \in Nat
    BY <1>1, <1>2, <2>1, Numbers, Spans
  <2> QED BY <2>4, <2>5, <2>6, <2>7 DEF Near
<1> QED BY <1>2, <1>4, <1>5, <1>6

\* What it creates is of the current cycle.
LEMMA CreatesInCycle ==
  ASSUME TypeInv, InTime, NEW e \in Executors, exec[e].pc = "create",
         StillDue(e, exec[e].cur), ~Lately(e, exec[e].cur)
  PROVE  /\ payment[exec[e].cur].payAt <= now
         /\ now < payment[exec[e].cur].payAt + Window
<1>1. PICK p : p = exec[e].cur
  OBVIOUS
<1>2. p \in Payments
  BY <1>1 DEF TypeInv, ExecutorLocals, Placed
<1>3. payment[p].payAt <= exec[e].since /\ exec[e].since + 1 < payment[p].payAt + Validity
  BY <1>1 DEF StillDue, Near
<1>4. exec[e].since <= now /\ now <= exec[e].since + MaxJobTime
  BY DEF InTime, Short
<1>5. exec[e].since \in Nat /\ now \in Nat /\ payment[p].payAt \in Nat
  BY <1>2, Numbers
<1>6. payment[p].payAt <= now /\ now < payment[p].payAt + Window
  BY <1>3, <1>4, <1>5, Spans
<1> QED BY <1>1, <1>6

LEMMA FindsNone ==
  ASSUME FarApart, Calm, NEW e \in Executors, exec[e].pc = "create"
  PROVE  /\ exec[e].cur \in Payments /\ ~Lately(e, exec[e].cur)
         /\ \A b \in AttemptsOf(exec[e].cur) : ~Live(b)
         /\ \A b \in WithStatus(exec[e].cur, "succeeded") : ~TooRecent(b)
<1>1. StillDue(e, exec[e].cur)
  BY DEF Calm, Attended, RunDue, Checking
<1>2. \A b \in AttemptsOf(exec[e].cur) :
        Live(b) => payment[exec[e].cur].payAt <= attempt[b].startedAt
  BY DEF Calm, Attended, Cycled, AttemptsOf
<1> QED BY <1>1, <1>2, CreatesAlone DEF Calm

\* The rows that an executor's step without writes leaves, and what hangs on it.
LEMMA OnlyLooks ==
  ASSUME OneExecutor, Calm, NEW e \in Executors,
         UNCHANGED <<now, payment, attempt, waiter>>, RunDue(e)', RunAlone(e)',
         Owns(e) => Owns(e)' /\ exec'[e].att = exec[e].att,
         Recorded(e) => Recorded(e)' /\ exec'[e].cur = exec[e].cur
  PROVE  Attended'
<1>1. \A f \in Executors : f = e
  BY DEF OneExecutor
<1>2. \A f \in Executors : RunDue(f)' /\ RunAlone(f)'
  BY <1>1
<1>3. ASSUME NEW a \in AttemptIds
      PROVE  Cycled(a)' /\ Sent(a)' /\ Backing(a)' /\ Advanced(a)'
  <2>1. Cycled(a) /\ Sent(a) /\ Backing(a) /\ Advanced(a)
    BY DEF Calm, Attended
  <2>2. Cycled(a)'
    BY <2>1 DEF Cycled, Live, AttemptsOf, AtWork
  <2>3. Sent(a)' /\ Advanced(a)'
    BY <2>1 DEF Sent, Advanced
  <2>4. Backing(a)'
    BY <2>1 DEF Backing, WithStatus, AttemptsOf
  <2> QED BY <2>2, <2>3, <2>4
<1>4. ASSUME NEW a \in AttemptIds PROVE InHands(a)'
  <2>1. InHands(a)
    BY DEF Calm, Attended
  <2> QED BY <1>1, <2>1 DEF InHands
<1>5. ASSUME NEW p \in Payments PROVE Retried(p)' /\ Tallied(p)'
  <2>1. Retried(p) /\ Tallied(p)
    BY DEF Calm, Attended
  <2>2. SeenTo(p) => SeenTo(p)'
    BY <1>1 DEF SeenTo, AttemptsOf
  <2>3. Retried(p)'
    BY <2>1, <2>2 DEF Retried, NoRetryLeft
  <2> QED BY <2>1, <2>3 DEF Tallied, CycleAttempts, AttemptsOf
<1> QED BY <1>2, <1>3, <1>4, <1>5 DEF Attended

\* A run keeps what it knows of a payment as long as the rows stay.
LEMMA NearKept ==
  ASSUME NEW e \in Executors, UNCHANGED <<payment, attempt>>, exec'[e].since = exec[e].since,
         NEW p
  PROVE  /\ StillDue(e, p) => StillDue(e, p)'
         /\ Lately(e, p) => Lately(e, p)'
BY DEF StillDue, Lately, Near, WithStatus, AttemptsOf

LEMMA LeaveAttended ==
  ASSUME OneExecutor, Calm, NEW e \in Executors, LeavePayment(e), Checking(e),
         UNCHANGED <<now, payment, attempt, waiter>>
  PROVE  Attended'
<1>1. TypeInv /\ RunDue(e)
  BY CalmTypes DEF Calm, Attended
<1>2. /\ exec'[e].pc \in {"idle", "next"} /\ exec'[e].batch = exec[e].batch
      /\ exec[e].batch # {} => exec'[e].since = exec[e].since
  BY <1>1, LeaveFields
<1>3. RunDue(e)'
  <2>1. ASSUME NEW r \in exec[e].batch
        PROVE  StillDue(e, r.id)' /\ (r.payAt = payment[r.id].payAt \/ Lately(e, r.id))'
    <3>1. StillDue(e, r.id) /\ (r.payAt = payment[r.id].payAt \/ Lately(e, r.id))
      BY <1>1 DEF RunDue, Checking
    <3> QED BY <1>2, <3>1, NearKept
  <2> QED BY <1>2, <2>1 DEF RunDue, Checking
<1>4. RunAlone(e)' /\ ~Owns(e) /\ ~Recorded(e)
  BY <1>2 DEF RunAlone, Owns, Recorded, Checking
<1> QED BY <1>3, <1>4, OnlyLooks

LEMMA CheckAttended ==
  ASSUME OneExecutor, Calm, NEW e \in Executors, Checking(e),
         NEW pc \in {"recent", "create"}, Goto(e, pc),
         UNCHANGED <<now, payment, attempt, waiter>>
  PROVE  Attended'
<1>1. TypeInv /\ RunDue(e)
  BY CalmTypes DEF Calm, Attended
<1>2. /\ exec'[e].pc = pc /\ exec'[e].since = exec[e].since
      /\ exec'[e].batch = exec[e].batch /\ exec'[e].cur = exec[e].cur
      /\ exec'[e].payAt = exec[e].payAt
  BY <1>1, GotoFields DEF ExecPc
<1>3. RunDue(e)'
  <2>1. ASSUME NEW r \in exec[e].batch
        PROVE  StillDue(e, r.id)' /\ (r.payAt = payment[r.id].payAt \/ Lately(e, r.id))'
    <3>1. StillDue(e, r.id) /\ (r.payAt = payment[r.id].payAt \/ Lately(e, r.id))
      BY <1>1 DEF RunDue, Checking
    <3> QED BY <1>2, <3>1, NearKept
  <2>2. /\ StillDue(e, exec[e].cur)'
        /\ exec[e].payAt = payment[exec[e].cur].payAt \/ Lately(e, exec[e].cur)'
    <3>1. /\ StillDue(e, exec[e].cur)
          /\ exec[e].payAt = payment[exec[e].cur].payAt \/ Lately(e, exec[e].cur)
      BY <1>1 DEF RunDue
    <3> QED BY <1>2, <3>1, NearKept DEF StillDue, Lately, Near, WithStatus, AttemptsOf
  <2> QED BY <1>2, <2>1, <2>2 DEF RunDue, StillDue, Lately, Near, WithStatus, AttemptsOf
<1>4. RunAlone(e)' /\ ~Owns(e) /\ ~Recorded(e)
  BY <1>2 DEF RunAlone, Owns, Recorded, Checking
<1> QED BY <1>3, <1>4, OnlyLooks

\* What is due now is near.
LEMMA DueIsNear ==
  ASSUME TypeInv, NEW p \in Payments, IsDue(p)
  PROVE  payment[p].payAt <= now /\ now + 1 < payment[p].payAt + Validity
<1>1. DAY \in Nat \ {0} /\ ValidForDays \in Nat /\ now \in Nat /\ payment[p].payAt \in Nat
  BY TimeAssumption, Numbers
<1>2. ValidForDays * DAY \in Nat
  BY Spans
<1>3. Validity = ValidForDays * DAY + DAY
  BY <1>1 DEF Validity
<1>4. now % DAY \in Nat /\ now % DAY < DAY
  BY <1>1
<1>5. payment[p].payAt > (now - (now % DAY)) - ValidForDays * DAY /\ payment[p].payAt <= now
  BY DEF IsDue, TruncDay
<1> QED BY <1>1, <1>2, <1>3, <1>4, <1>5

LEMMA FetchAttended ==
  ASSUME OneExecutor, Calm, NEW e \in Executors, Fetch(e)
  PROVE  Attended'
<1>1. TypeInv /\ exec[e].pc = "idle" /\ UNCHANGED <<now, payment, attempt, waiter>>
  BY CalmTypes DEF Fetch, dbVars
<1>2. PICK b \in Batches : exec' = [exec EXCEPT ![e] = IF b = {} THEN Idle
                                   ELSE [LoopHead(now, b) EXCEPT !.pc = "rows"]]
  BY DEF Fetch
<1>3. exec'[e] = IF b = {} THEN Idle ELSE [LoopHead(now, b) EXCEPT !.pc = "rows"]
  BY <1>1, <1>2 DEF TypeInv, TypeOK
<1>4. /\ exec'[e].batch = b /\ exec'[e].pc \in {"idle", "rows"}
      /\ b # {} => exec'[e].pc = "rows" /\ exec'[e].since = now
  BY <1>3 DEF Idle, LoopHead
<1>5. ASSUME NEW r \in b PROVE r.id \in Payments /\ IsDue(r.id)
  BY <1>5 DEF Batches, AsFetched
<1>6. ASSUME NEW r \in b PROVE StillDue(e, r.id)'
  <2>1. payment[r.id].payAt <= now /\ now + 1 < payment[r.id].payAt + Validity
    BY <1>1, <1>5, DueIsNear
  <2> QED BY <1>1, <1>4, <2>1 DEF StillDue, Near
<1>7. RunDue(e)'
  BY <1>4, <1>6 DEF RunDue, Checking
<1>8. RunAlone(e)' /\ ~Owns(e) /\ ~Recorded(e)
  BY <1>1, <1>4 DEF RunAlone, Owns, Recorded
<1> QED BY <1>1, <1>7, <1>8, OnlyLooks

LEMMA ReadAttended ==
  ASSUME OneExecutor, Calm, NEW e \in Executors, ReadRows(e)
  PROVE  Attended'
<1>1. TypeInv /\ exec[e].pc = "rows" /\ UNCHANGED <<now, payment, attempt, waiter>>
  BY CalmTypes DEF ReadRows, dbVars
<1> DEFINE read == {AsRead(r) : r \in exec[e].batch}
<1>2. exec'[e] = LoopHead(exec[e].since, read)
  BY <1>1 DEF ReadRows, TypeInv, TypeOK
<1>3. /\ exec'[e].batch = read /\ exec'[e].pc \in {"idle", "next"}
      /\ read # {} => exec'[e].since = exec[e].since
  BY <1>2 DEF LoopHead
<1>4. ASSUME NEW s \in read
      PROVE  StillDue(e, s.id)' /\ s.payAt = payment[s.id].payAt
  <2>1. PICK r \in exec[e].batch : s = AsRead(r)
    OBVIOUS
  <2>2. r \in Fetched
    BY <1>1 DEF TypeInv, TypeOK, ExecState
  <2>3. s.id = r.id /\ s.payAt = payment[r.id].payAt
    BY <2>1, <2>2 DEF AsRead, Fetched
  <2>4. StillDue(e, r.id)
    BY DEF Calm, Attended, RunDue
  <2>5. exec'[e].since = exec[e].since
    BY <1>3
  <2>6. StillDue(e, s.id)
    BY <2>3, <2>4
  <2> HIDE DEF read
  <2> QED BY <1>1, <2>3, <2>5, <2>6, NearKept
<1>5. RunDue(e)'
  BY <1>1, <1>3, <1>4 DEF RunDue, Checking
<1>6. RunAlone(e)' /\ ~Owns(e) /\ ~Recorded(e)
  BY <1>1, <1>3 DEF RunAlone, Owns, Recorded
<1> QED BY <1>1, <1>5, <1>6, OnlyLooks

LEMMA PickAttended ==
  ASSUME OneExecutor, Calm, NEW e \in Executors, PickNext(e)
  PROVE  Attended'
<1>1. TypeInv /\ exec[e].pc = "next" /\ UNCHANGED <<now, payment, attempt, waiter>>
  BY CalmTypes DEF PickNext, dbVars
<1>2. PICK r \in exec[e].batch :
        exec' = [exec EXCEPT ![e].pc = "check", ![e].batch = @ \ {r},
                             ![e].cur = r.id, ![e].payAt = r.payAt]
  BY DEF PickNext
<1>3. /\ exec'[e].pc = "check" /\ exec'[e].since = exec[e].since
      /\ exec'[e].batch = exec[e].batch \ {r} /\ exec'[e].cur = r.id
      /\ exec'[e].payAt = r.payAt
  BY <1>1, <1>2 DEF TypeInv, TypeOK, ExecState
<1>4. ASSUME NEW s \in exec[e].batch
      PROVE  StillDue(e, s.id)' /\ (s.payAt = payment[s.id].payAt \/ Lately(e, s.id)')
  <2>1. StillDue(e, s.id) /\ (s.payAt = payment[s.id].payAt \/ Lately(e, s.id))
    BY <1>1 DEF Calm, Attended, RunDue
  <2> QED BY <1>1, <1>3, <2>1, NearKept
<1>5. ASSUME NEW q, q = exec'[e].cur, StillDue(e, r.id)', Lately(e, r.id)' \/ r.payAt = payment[r.id].payAt
      PROVE  StillDue(e, exec[e].cur)' /\ (exec'[e].payAt = payment'[q].payAt \/ Lately(e, exec[e].cur)')
  BY <1>1, <1>3, <1>5 DEF StillDue, Lately, Near, WithStatus, AttemptsOf
<1>6. RunDue(e)'
  BY <1>1, <1>3, <1>4, <1>5 DEF RunDue, Checking
<1>7. RunAlone(e)' /\ ~Owns(e) /\ ~Recorded(e)
  BY <1>1, <1>3 DEF RunAlone, Owns, Recorded
<1> QED BY <1>1, <1>6, <1>7, OnlyLooks

\* A run that keeps its place among those that have an attempt keeps what it knows.
LEMMA DueByFields ==
  ASSUME NEW e \in Executors, RunDue(e), ~Checking(e)', exec[e].pc # "rows",
         UNCHANGED <<payment, attempt>>, exec'[e].batch = exec[e].batch,
         exec[e].batch # {} => exec'[e].since = exec[e].since
  PROVE  RunDue(e)'
<1>1. ASSUME NEW r \in exec[e].batch
      PROVE  StillDue(e, r.id)' /\ (r.payAt = payment[r.id].payAt \/ Lately(e, r.id)')
  <2>1. StillDue(e, r.id) /\ (r.payAt = payment[r.id].payAt \/ Lately(e, r.id))
    BY DEF RunDue
  <2> QED BY <2>1, NearKept
<1> QED BY <1>1 DEF RunDue

LEMMA CountAttended ==
  ASSUME OneExecutor, Calm, NEW e \in Executors, CountAttempts(e)
  PROVE  Attended'
<1>1. /\ TypeInv /\ RunDue(e) /\ RunAlone(e) /\ exec[e].pc = "count"
      /\ UNCHANGED <<now, payment, attempt, waiter>>
  BY CalmTypes DEF Calm, Attended, CountAttempts, dbVars
<1> DEFINE c == Cardinality({a \in AttemptsOf(exec[e].cur) :
                              attempt[a].startedAt >= exec[e].payAt})
<1>2. exec' = [exec EXCEPT ![e].pc = "record", ![e].count = c]
  BY DEF CountAttempts
<1>3. exec[e].payAt = payment[exec[e].cur].payAt
  BY <1>1 DEF RunAlone, Owns
<1>4. c = Cardinality(CycleAttempts(exec[e].cur))
  BY <1>3 DEF CycleAttempts
<1> HIDE DEF c
<1>5. /\ exec'[e].pc = "record" /\ exec'[e].count = c /\ exec'[e].since = exec[e].since
      /\ exec'[e].batch = exec[e].batch /\ exec'[e].cur = exec[e].cur
      /\ exec'[e].payAt = exec[e].payAt /\ exec'[e].att = exec[e].att
  BY <1>1, <1>2 DEF TypeInv, TypeOK, ExecState
<1>6. RunDue(e)'
  BY <1>1, <1>5, DueByFields DEF Checking
<1>7. Cardinality(CycleAttempts(exec[e].cur))' = Cardinality(CycleAttempts(exec[e].cur))
  BY <1>1, <1>5 DEF CycleAttempts, AttemptsOf
<1>8. /\ \A b \in AttemptsOf(exec[e].cur) : Live(b) => b = exec[e].att
      /\ \A b \in WithStatus(exec[e].cur, "succeeded") : ~TooRecent(b)
  BY <1>1 DEF RunAlone, Owns
<1>9. /\ \A b \in AttemptsOf(exec[e].cur)' : Live(b)' => b = exec'[e].att
      /\ \A b \in WithStatus(exec[e].cur, "succeeded")' : ~TooRecent(b)'
  BY <1>1, <1>5, <1>8 DEF AttemptsOf, Live, WithStatus, TooRecent
<1>10. RunAlone(e)'
  BY <1>1, <1>3, <1>4, <1>5, <1>7, <1>9 DEF RunAlone, Recorded
<1>11. Owns(e)' /\ ~Recorded(e)
  BY <1>1, <1>5 DEF Owns, Recorded
<1> QED BY <1>1, <1>5, <1>6, <1>10, <1>11, OnlyLooks

LEMMA SubmitAttended ==
  ASSUME OneExecutor, Calm, NEW e \in Executors, Submit(e)
  PROVE  Attended'
<1>1. /\ TypeInv /\ RunDue(e) /\ RunAlone(e) /\ exec[e].pc = "submit"
      /\ UNCHANGED <<now, payment, attempt, waiter>>
  BY CalmTypes DEF Calm, Attended, Submit, dbVars
<1>2. PICK pc \in {"save", "fail"} : Goto(e, pc)
  BY DEF Submit
<1>3. /\ exec'[e].pc = pc /\ exec'[e].since = exec[e].since
      /\ exec'[e].batch = exec[e].batch /\ exec'[e].cur = exec[e].cur
      /\ exec'[e].payAt = exec[e].payAt /\ exec'[e].att = exec[e].att
      /\ exec'[e].count = exec[e].count
  BY <1>1, <1>2, GotoFields DEF ExecPc
<1>4. RunDue(e)'
  BY <1>1, <1>3, DueByFields DEF Checking
<1>5. /\ exec[e].payAt = payment[exec[e].cur].payAt
      /\ exec[e].count = payment[exec[e].cur].count
      /\ \A b \in AttemptsOf(exec[e].cur) : Live(b) => b = exec[e].att
  BY <1>1 DEF RunAlone, Owns, Recorded
<1>6. \A b \in AttemptsOf(exec[e].cur)' : Live(b)' => b = exec'[e].att
  BY <1>1, <1>3, <1>5 DEF AttemptsOf, Live
<1>7. RunAlone(e)'
  BY <1>1, <1>3, <1>5, <1>6 DEF RunAlone
<1>8. Owns(e)' /\ Recorded(e)'
  BY <1>3 DEF Owns, Recorded
<1> QED BY <1>1, <1>3, <1>4, <1>7, <1>8, OnlyLooks

----------------------------------------------------------------------------
(* The steps of a run that write. *)

LEMMA MoreAttempts ==
  ASSUME NEW S \in SUBSET AttemptIds, NEW T \in SUBSET AttemptIds, S \subseteq T
  PROVE  Cardinality(S) \in Nat /\ Cardinality(T) \in Nat /\ Cardinality(S) <= Cardinality(T)
<1>1. IsFiniteSet(AttemptIds)
  BY FS_Interval, AttemptsAssumption DEF AttemptIds
<1>2. IsFiniteSet(T)
  BY <1>1, FS_Subset
<1> QED BY <1>2, FS_Subset, FS_CardinalityType

LEMMA CreateAttended ==
  ASSUME OneExecutor, FarApart, Calm, NEW e \in Executors, CreateAttempt(e)
  PROVE  Attended'
<1>n. PICK n : n = NewAttempt
  OBVIOUS
<1>p. PICK p : p = exec[e].cur
  OBVIOUS
<1>1. /\ TypeInv /\ Handed /\ InTime /\ RunDue(e) /\ exec[e].pc = "create"
      /\ UNCHANGED <<now, payment, waiter>>
  BY CalmTypes DEF Calm, Attended, CreateAttempt
<1>2. n \in AttemptIds /\ attempt[n].status = "none"
  BY <1>n, FirstFree
<1>3. /\ p \in Payments /\ ~Lately(e, p) /\ \A b \in AttemptsOf(p) : ~Live(b)
      /\ \A b \in WithStatus(p, "succeeded") : ~TooRecent(b)
  BY <1>1, <1>p, FindsNone
<1>4. /\ attempt'[n].payment = p /\ attempt'[n].status = "inProgress"
      /\ attempt'[n].startedAt = now
      /\ \A b \in AttemptIds \ {n} : attempt'[b] = attempt[b]
  BY <1>1, <1>2, <1>n, <1>p DEF CreateAttempt, TypeInv, TypeOK
<1>5. /\ attempt[n].payment = NULL /\ NULL \notin Payments
      /\ waiter[n].pc = "none" /\ waiter'[n].pc = "none"
  BY <1>1, <1>2, NullAssumption DEF TypeInv, TypeOK, AttemptRow, AttemptRows, Handed, JobFits
<1>6. /\ exec'[e].pc = "count" /\ exec'[e].att = n /\ exec'[e].since = exec[e].since
      /\ exec'[e].batch = exec[e].batch /\ exec'[e].cur = p /\ exec'[e].payAt = exec[e].payAt
  BY <1>1, <1>n, <1>p DEF CreateAttempt, TypeInv, TypeOK, ExecState
<1>7. Near(e, payment[p].payAt) /\ payment[p].payAt <= exec[e].since /\ exec[e].payAt = payment[p].payAt
  BY <1>1, <1>3, <1>p DEF RunDue, StillDue, Checking
<1>8. payment[p].payAt <= now /\ now < payment[p].payAt + Window
  <2>1. StillDue(e, p)
    BY <1>1, <1>p DEF RunDue, Checking
  <2> QED BY <1>1, <1>3, <1>p, <2>1, CreatesInCycle
<1>10. ASSUME NEW q
       PROVE  /\ WithStatus(q, "succeeded")' = WithStatus(q, "succeeded")
              /\ \A b \in WithStatus(q, "succeeded") : attempt'[b] = attempt[b]
  BY <1>2, <1>4 DEF WithStatus, AttemptsOf
<1>11. \A q : q # p /\ q # NULL => AttemptsOf(q)' = AttemptsOf(q)
  BY <1>2, <1>4, <1>5 DEF AttemptsOf
<1>12. AttemptsOf(p)' = AttemptsOf(p) \cup {n}
  BY <1>2, <1>4 DEF AttemptsOf
<1>13. RunDue(e)'
  <2>1. ASSUME NEW q PROVE /\ StillDue(e, q) => StillDue(e, q)'
                           /\ Lately(e, q) => Lately(e, q)'
    BY <1>1, <1>6, <1>10 DEF StillDue, Lately, Near
  <2>2. ASSUME NEW r \in exec[e].batch
        PROVE  StillDue(e, r.id)' /\ (r.payAt = payment[r.id].payAt \/ Lately(e, r.id)')
    <3>1. StillDue(e, r.id) /\ (r.payAt = payment[r.id].payAt \/ Lately(e, r.id))
      BY <1>1 DEF RunDue
    <3> QED BY <2>1, <3>1
  <2> QED BY <1>1, <1>6, <2>2 DEF RunDue, Checking
<1>14. RunAlone(e)'
  <2>1. \A b \in AttemptsOf(p)' : Live(b)' => b = n
    BY <1>1, <1>3, <1>4, <1>12 DEF Live, AttemptsOf
  <2>2. \A b \in WithStatus(p, "succeeded")' : ~TooRecent(b)'
    BY <1>1, <1>3, <1>10 DEF TooRecent
  <2> QED BY <1>1, <1>6, <1>7, <2>1, <2>2 DEF RunAlone, Recorded
<1>15. \A f \in Executors : f = e
  BY DEF OneExecutor
<1>16. ASSUME NEW a \in AttemptIds PROVE Cycled(a)'
  <2>1. CASE a = n
    <3>1. \A b \in AttemptsOf(p)' : Live(b)' => b = n
      BY <1>1, <1>3, <1>4, <1>12 DEF Live, AttemptsOf
    <3>2. \A b \in AttemptsOf(p)' : waiter'[b].pc = "backoff" => waiter'[b].since <= now
      BY <1>1 DEF InTime, Short, AtWork, AttemptsOf
    <3>3. attempt'[a].payment = p /\ attempt'[a].startedAt = now /\ waiter'[a].pc = "none"
      BY <1>4, <1>5, <2>1
    <3>4. payment'[p].payAt <= now /\ now < payment'[p].payAt + Window
      BY <1>1, <1>8
    <3> QED BY <2>1, <3>1, <3>2, <3>3, <3>4 DEF Cycled, AtWork
  <2>2. CASE a # n /\ Live(a)
    <3> DEFINE q == attempt[a].payment
    <3>1. attempt'[a] = attempt[a] /\ q # p /\ q # NULL
      BY <1>1, <1>3, <1>4, <1>5, <2>2 DEF AttemptsOf, Live, TypeInv, AttemptRows, AtWork
    <3>2. AttemptsOf(q)' = AttemptsOf(q) /\ n \notin AttemptsOf(q)
      BY <1>5, <1>11, <3>1 DEF AttemptsOf
    <3>3. \A b \in AttemptsOf(q) : attempt'[b] = attempt[b]
      BY <1>4, <3>2 DEF AttemptsOf
    <3>4. Cycled(a)
      BY DEF Calm, Attended
    <3> QED BY <1>1, <2>2, <3>1, <3>2, <3>3, <3>4 DEF Cycled, Live, AtWork
  <2>3. CASE a # n /\ ~Live(a)
    BY <1>1, <1>4, <2>3 DEF Cycled, Live
  <2> QED BY <2>1, <2>2, <2>3
<1>17. ASSUME NEW a \in AttemptIds
       PROVE  Sent(a)' /\ Backing(a)' /\ InHands(a)' /\ Advanced(a)'
  <2>1. Sent(a) /\ Backing(a) /\ InHands(a) /\ Advanced(a)
    BY DEF Calm, Attended
  <2>2. CASE a = n
    BY <1>4, <1>5, <1>6, <2>2 DEF Sent, Backing, InHands, Advanced, Owns
  <2>3. CASE a # n
    <3>1. attempt'[a] = attempt[a]
      BY <1>4, <2>3
    <3>2. Sent(a)' /\ Advanced(a)'
      BY <1>1, <2>1, <3>1 DEF Sent, Advanced
    <3>3. Backing(a)'
      <4>1. \A b \in WithStatus(attempt[a].payment, "succeeded") : attempt'[b] = attempt[b]
        BY <1>2, <1>4 DEF WithStatus, AttemptsOf
      <4> QED BY <1>1, <1>10, <2>1, <3>1, <4>1 DEF Backing
    <3>4. InHands(a)'
      <4>1. ~Owns(e)
        BY <1>1 DEF Owns
      <4> QED BY <1>1, <1>15, <2>1, <3>1, <4>1 DEF InHands
    <3> QED BY <3>2, <3>3, <3>4
  <2> QED BY <2>2, <2>3
<1>18. ASSUME NEW q \in Payments PROVE Retried(q)' /\ Tallied(q)'
  <2>1. Retried(q) /\ Tallied(q)
    BY DEF Calm, Attended
  <2>2. AttemptsOf(q) \subseteq AttemptsOf(q)' /\ n \notin AttemptsOf(q)
    BY <1>5, <1>11, <1>12 DEF AttemptsOf
  <2>3. SeenTo(q) => SeenTo(q)'
    <3>1. ~Recorded(e)
      BY <1>1 DEF Recorded
    <3> QED BY <1>1, <1>15, <2>2, <3>1 DEF SeenTo
  <2>4. Retried(q)'
    BY <1>1, <2>1, <2>3 DEF Retried, NoRetryLeft
  <2>5. CycleAttempts(q) \subseteq CycleAttempts(q)'
    <3>1. \A b \in AttemptsOf(q) : attempt'[b] = attempt[b]
      BY <1>4, <2>2 DEF AttemptsOf
    <3> QED BY <1>1, <2>2, <3>1 DEF CycleAttempts
  <2>6. CycleAttempts(q) \subseteq AttemptIds /\ CycleAttempts(q)' \subseteq AttemptIds
    BY DEF CycleAttempts, AttemptsOf
  <2>7. Cardinality(CycleAttempts(q)) <= Cardinality(CycleAttempts(q)')
        /\ Cardinality(CycleAttempts(q)) \in Nat /\ Cardinality(CycleAttempts(q)') \in Nat
    BY <2>5, <2>6, MoreAttempts
  <2>8. payment[q].count \in Nat
    BY <1>1, Numbers
  <2>9. Tallied(q)'
    BY <1>1, <2>1, <2>7, <2>8 DEF Tallied
  <2> QED BY <2>4, <2>9
<1> QED BY <1>13, <1>14, <1>15, <1>16, <1>17, <1>18 DEF Attended

SuccessesStay ==
  \A a \in AttemptIds : attempt[a].status = "succeeded" =>
    /\ attempt'[a].status = "succeeded" /\ attempt'[a].payment = attempt[a].payment
    /\ attempt'[a].startedAt = attempt[a].startedAt
PayAtsStay == \A p \in Payments : payment'[p].payAt = payment[p].payAt

LEMMA NearStays ==
  ASSUME SuccessesStay, PayAtsStay, NEW e \in Executors, exec'[e].since = exec[e].since,
         NEW p \in Payments
  PROVE  /\ StillDue(e, p) => StillDue(e, p)'
         /\ Lately(e, p) => Lately(e, p)'
<1>1. Lately(e, p) => Lately(e, p)'
  BY DEF SuccessesStay, Lately, Near, WithStatus, AttemptsOf
<1> QED BY <1>1 DEF PayAtsStay, StillDue, Near

\* A run that writes keeps what it knows of the rest of its batch.
LEMMA DueStays ==
  ASSUME TypeInv, SuccessesStay, PayAtsStay, NEW e \in Executors, RunDue(e),
         ~Checking(e)', exec[e].pc # "rows", exec'[e].batch = exec[e].batch,
         exec[e].batch # {} => exec'[e].since = exec[e].since
  PROVE  RunDue(e)'
<1>1. ASSUME NEW r \in exec[e].batch
      PROVE  StillDue(e, r.id)' /\ (r.payAt = payment'[r.id].payAt \/ Lately(e, r.id)')
  <2>1. StillDue(e, r.id) /\ (r.payAt = payment[r.id].payAt \/ Lately(e, r.id))
    BY DEF RunDue
  <2>2. r.id \in Payments
    BY DEF TypeInv, TypeOK, ExecState, Fetched
  <2> QED BY <2>1, <2>2, NearStays DEF PayAtsStay
<1> QED BY <1>1 DEF RunDue

\* The attempt that a run has is its payment's, is in progress, and has no job.
LEMMA OwnAttempt ==
  ASSUME Calm, NEW e \in Executors, Owns(e) \/ exec[e].pc = "backoff"
  PROVE  /\ exec[e].cur \in Payments /\ exec[e].att \in AttemptIds
         /\ attempt[exec[e].att].payment = exec[e].cur
         /\ exec[e].payAt = payment[exec[e].cur].payAt
         /\ Owns(e) => /\ attempt[exec[e].att].status = "inProgress"
                       /\ waiter[exec[e].att].pc = "none"
BY CalmTypes DEF Calm, Attended, RunAlone, Owns, TypeInv, ExecutorLocals, Placed, Handed, RunFits

LEMMA RecordAttended ==
  ASSUME OneExecutor, FarApart, Calm, NEW e \in Executors, RecordAttempt(e)
  PROVE  Attended'
<1>p. PICK p : p = exec[e].cur
  OBVIOUS
<1>x. PICK x : x = exec[e].att
  OBVIOUS
<1>1. /\ TypeInv /\ InTime /\ RunDue(e) /\ RunAlone(e) /\ exec[e].pc = "record" /\ Owns(e)
      /\ UNCHANGED <<now, attempt, waiter>>
  BY CalmTypes DEF Calm, Attended, RecordAttempt, Owns
<1>2. /\ p \in Payments /\ x \in AttemptIds /\ attempt[x].payment = p
      /\ attempt[x].status = "inProgress" /\ waiter[x].pc = "none"
  BY <1>1, <1>p, <1>x, OwnAttempt
<1>3. /\ \A b \in AttemptsOf(p) : Live(b) => b = x
      /\ \A b \in WithStatus(p, "succeeded") : ~TooRecent(b)
      /\ exec[e].count = Cardinality(CycleAttempts(p))
  BY <1>1, <1>p, <1>x DEF RunAlone
<1>4. /\ payment'[p].count = exec[e].count
      /\ \A q \in Payments : /\ payment'[q].payAt = payment[q].payAt
                             /\ payment'[q].nextRetry = payment[q].nextRetry
      /\ \A q \in Payments \ {p} : payment'[q] = payment[q]
  <2> DEFINE mid == [payment EXCEPT ![p].last = x]
  <2>1. /\ \A q \in Payments : mid[q].payAt = payment[q].payAt /\ mid[q].nextRetry = payment[q].nextRetry
        /\ \A q \in Payments \ {p} : mid[q] = payment[q]
        /\ mid \in [Payments -> PaymentRow]
    BY <1>1, <1>2 DEF TypeInv, TypeOK, PaymentRow
  <2>2. payment' = [mid EXCEPT ![p].count = exec[e].count]
    BY <1>p, <1>x DEF RecordAttempt
  <2> HIDE DEF mid
  <2> QED BY <1>2, <2>1, <2>2 DEF PaymentRow
<1>5. /\ exec'[e].pc = "submit" /\ exec'[e].payAt = payment[p].payAt /\ exec'[e].att = x
      /\ exec'[e].since = exec[e].since /\ exec'[e].batch = exec[e].batch
      /\ exec'[e].cur = p /\ exec'[e].count = exec[e].count
  BY <1>1, <1>p, <1>x DEF RecordAttempt, TypeInv, TypeOK, ExecState
<1>6. SuccessesStay /\ PayAtsStay
  BY <1>1, <1>4 DEF SuccessesStay, PayAtsStay
<1>7. RunDue(e)'
  BY <1>1, <1>5, <1>6, DueStays DEF Checking
<1>8. RunAlone(e)'
  <2>1. \A b \in AttemptsOf(p)' : Live(b)' => b = x
    BY <1>1, <1>3 DEF Live, AttemptsOf
  <2> QED BY <1>2, <1>4, <1>5, <2>1 DEF RunAlone
<1>9. ASSUME NEW q \in Payments PROVE CycleAttempts(q)' = CycleAttempts(q)
  BY <1>1, <1>4 DEF CycleAttempts, AttemptsOf
<1>10. payment[p].count <= exec[e].count /\ payment[p].count \in Nat /\ exec[e].count \in Nat
  <2>1. Tallied(p)
    BY <1>2 DEF Calm, Attended
  <2> QED BY <1>1, <1>2, <1>3, <2>1, Numbers DEF Tallied
<1>11. ASSUME NEW a \in AttemptIds PROVE Cycled(a)' /\ Sent(a)' /\ InHands(a)' /\ Advanced(a)'
  <2>1. Cycled(a) /\ Sent(a) /\ InHands(a) /\ Advanced(a)
    BY DEF Calm, Attended
  <2>2. Sent(a)'
    BY <1>1, <2>1 DEF Sent
  <2>3. InHands(a)'
    BY <1>1, <1>5, <1>x, <2>1 DEF InHands, Owns, OneExecutor
  <2>4. Advanced(a)'
    BY <1>1, <1>4, <2>1, PaymentsAssumption DEF Advanced
  <2>5. CASE ~Live(a)
    BY <1>1, <2>2, <2>3, <2>4, <2>5 DEF Cycled, Live
  <2>6. CASE a = x
    <3>1. payment'[p].payAt = payment[p].payAt
      BY <1>2, <1>4
    <3> QED BY <1>1, <1>2, <2>1, <2>2, <2>3, <2>4, <2>6, <3>1
            DEF Cycled, Live, AttemptsOf, AtWork
  <2>7. CASE Live(a) /\ a # x
    <3>1. attempt[a].payment \in Payments \ {p}
      BY <1>1, <1>3, <2>7 DEF TypeInv, AttemptRows, AtWork, Live, AttemptsOf
    <3>2. payment'[attempt[a].payment] = payment[attempt[a].payment]
      BY <1>4, <3>1
    <3>3. Cycled(a)'
      BY <1>1, <2>1, <2>7, <3>2 DEF Cycled, Live, AttemptsOf, AtWork
    <3> QED BY <2>2, <2>3, <2>4, <3>3
  <2> QED BY <2>5, <2>6, <2>7
<1>12. ASSUME NEW a \in AttemptIds, waiter[a].pc = "backoff" PROVE Backing(a)'
  <2>1. Backing(a) /\ attempt[a].payment \in Payments
    BY <1>1, <1>12 DEF Calm, Attended, TypeInv, AttemptRows, AtWork
  <2>2. CASE attempt[a].payment # p
    <3>1. payment'[attempt[a].payment] = payment[attempt[a].payment]
      BY <1>4, <2>1, <2>2
    <3> QED BY <1>1, <2>1, <3>1 DEF Backing, WithStatus, AttemptsOf
  <2>3. CASE attempt[a].payment = p
    <3>1. ASSUME NEW b \in WithStatus(p, "succeeded"), waiter[a].since <= attempt[b].startedAt
          PROVE  FALSE
      <4>1. b \in AttemptIds /\ attempt[b].startedAt < now - Gap
        BY <1>1, <1>3, Numbers DEF TooRecent, Gap, WithStatus, AttemptsOf
      <4>2. now <= waiter[a].since + MaxJobTime
        BY <1>1, <1>12 DEF InTime, Short, AtWork
      <4>3. /\ now \in Nat /\ waiter[a].since \in Nat /\ attempt[b].startedAt \in Nat
            /\ Gap \in Int /\ MaxJobTime \in Nat /\ MaxJobTime <= Gap
        BY <1>1, <4>1, Numbers, Spans DEF FarApart
      <4> QED BY <3>1, <4>1, <4>2, <4>3
    <3>2. waiter[a].payAt = payment[p].payAt /\ waiter[a].count <= payment[p].count
      BY <1>12, <2>1, <2>3, <3>1 DEF Backing
    <3>3. waiter[a].count <= payment'[p].count /\ payment'[p].payAt = payment[p].payAt
      BY <1>1, <1>2, <1>4, <1>10, <3>2, Numbers
    <3> QED BY <1>1, <2>3, <3>2, <3>3 DEF Backing
  <2> QED BY <2>2, <2>3
<1>13. ASSUME NEW a \in AttemptIds PROVE Backing(a)'
  BY <1>1, <1>12 DEF Backing
<1>14. ASSUME NEW q \in Payments PROVE Retried(q)' /\ Tallied(q)'
  <2>1. Retried(q) /\ Tallied(q)
    BY DEF Calm, Attended
  <2>2. CASE q = p
    <3>1. SeenTo(q)'
      BY <1>5, <2>2 DEF SeenTo, Recorded
    <3>2. Cardinality(CycleAttempts(q)') = exec[e].count
      BY <1>3, <1>9, <2>2
    <3> QED BY <1>4, <1>10, <2>2, <3>1, <3>2 DEF Retried, Tallied
  <2>3. CASE q # p
    <3>1. payment'[q] = payment[q]
      BY <1>4, <2>3
    <3>2. SeenTo(q) => SeenTo(q)'
      BY <1>1, <1>5, <1>p DEF SeenTo, Recorded, OneExecutor, AttemptsOf
    <3> QED BY <1>1, <1>9, <2>1, <3>1, <3>2 DEF Retried, Tallied, NoRetryLeft
  <2> QED BY <2>2, <2>3
<1>15. \A f \in Executors : f = e
  BY DEF OneExecutor
<1> QED BY <1>7, <1>8, <1>11, <1>13, <1>14, <1>15 DEF Attended

LEMMA SaveHashAttended ==
  ASSUME OneExecutor, Calm, NEW e \in Executors, SaveHash(e)
  PROVE  Attended'
<1>p. PICK p : p = exec[e].cur
  OBVIOUS
<1>x. PICK x : x = exec[e].att
  OBVIOUS
<1>1. /\ TypeInv /\ RunDue(e) /\ RunAlone(e) /\ exec[e].pc = "save" /\ Owns(e)
      /\ UNCHANGED <<now, payment, waiter>>
  BY CalmTypes DEF Calm, Attended, SaveHash, Owns
<1>2. x \in AttemptIds
  BY <1>1, <1>x, OwnAttempt
<1>3. /\ attempt'[x].hash
      /\ \A a \in AttemptIds :
           /\ attempt'[a].payment = attempt[a].payment /\ attempt'[a].status = attempt[a].status
           /\ attempt'[a].startedAt = attempt[a].startedAt
           /\ attempt[a].hash => attempt'[a].hash
  BY <1>1, <1>2, <1>x DEF SaveHash, TypeInv, TypeOK, AttemptRow
<1>4. /\ exec'[e].pc = "enqueue" /\ exec'[e].since = exec[e].since
      /\ exec'[e].batch = exec[e].batch /\ exec'[e].cur = p
      /\ exec'[e].payAt = exec[e].payAt /\ exec'[e].att = x
      /\ exec'[e].count = exec[e].count
  BY <1>1, <1>p, <1>x, GotoFields DEF SaveHash, ExecPc
<1>5. ASSUME NEW q
      PROVE  /\ AttemptsOf(q)' = AttemptsOf(q) /\ CycleAttempts(q)' = CycleAttempts(q)
             /\ WithStatus(q, "succeeded")' = WithStatus(q, "succeeded")
  BY <1>1, <1>3 DEF AttemptsOf, CycleAttempts, WithStatus
<1>6. ASSUME NEW a \in AttemptIds PROVE Live(a)' = Live(a)
  BY <1>1, <1>3 DEF Live
<1>7. RunDue(e)'
  <2>1. SuccessesStay /\ PayAtsStay
    BY <1>1, <1>3 DEF SuccessesStay, PayAtsStay
  <2> QED BY <1>1, <1>4, <2>1, DueStays DEF Checking
<1>8. RunAlone(e)'
  <2>1. /\ exec[e].payAt = payment[p].payAt /\ exec[e].count = payment[p].count
        /\ \A b \in AttemptsOf(p) : Live(b) => b = x
    BY <1>1, <1>p, <1>x DEF RunAlone, Recorded
  <2>2. \A b \in AttemptsOf(p)' : Live(b)' => b = x
    BY <1>5, <1>6, <2>1 DEF AttemptsOf
  <2> QED BY <1>1, <1>3, <1>4, <2>1, <2>2 DEF RunAlone
<1>9. ASSUME NEW a \in AttemptIds
      PROVE  Cycled(a)' /\ Sent(a)' /\ Backing(a)' /\ InHands(a)' /\ Advanced(a)'
  <2>1. Cycled(a) /\ Sent(a) /\ Backing(a) /\ InHands(a) /\ Advanced(a)
    BY DEF Calm, Attended
  <2>2. Cycled(a)'
    <3>1. CASE ~Live(a)
      BY <1>6, <3>1 DEF Cycled
    <3>2. CASE Live(a)
      <4>1. \A b \in AttemptsOf(attempt[a].payment) : b \in AttemptIds
        BY DEF AttemptsOf
      <4> QED BY <1>1, <1>3, <1>5, <1>6, <2>1, <3>2, <4>1 DEF Cycled, AtWork
    <3> QED BY <3>1, <3>2
  <2>3. Sent(a)' /\ Advanced(a)'
    BY <1>1, <1>3, <2>1 DEF Sent, Advanced
  <2>4. Backing(a)'
    <3>1. \A b \in WithStatus(attempt[a].payment, "succeeded") : b \in AttemptIds
      BY DEF WithStatus, AttemptsOf
    <3> QED BY <1>1, <1>3, <1>5, <2>1, <3>1 DEF Backing
  <2>5. InHands(a)'
    BY <1>1, <1>3, <1>4, <1>x, <2>1 DEF InHands, Owns, OneExecutor
  <2> QED BY <2>2, <2>3, <2>4, <2>5
<1>10. ASSUME NEW q \in Payments PROVE Retried(q)' /\ Tallied(q)'
  <2>1. Retried(q) /\ Tallied(q)
    BY DEF Calm, Attended
  <2>2. SeenTo(q) => SeenTo(q)'
    BY <1>1, <1>4, <1>5, <1>p DEF SeenTo, Recorded, OneExecutor
  <2> QED BY <1>1, <1>5, <2>1, <2>2 DEF Retried, NoRetryLeft, Tallied
<1>11. \A f \in Executors : f = e
  BY DEF OneExecutor
<1> QED BY <1>7, <1>8, <1>9, <1>10, <1>11 DEF Attended

LEMMA FailAttended ==
  ASSUME OneExecutor, Calm, NEW e \in Executors, FailAttempt(e)
  PROVE  Attended'
<1>p. PICK p : p = exec[e].cur
  OBVIOUS
<1>x. PICK x : x = exec[e].att
  OBVIOUS
<1>1. /\ TypeInv /\ RunDue(e) /\ RunAlone(e) /\ exec[e].pc = "fail" /\ Owns(e)
      /\ UNCHANGED <<now, payment, waiter>>
  BY CalmTypes DEF Calm, Attended, FailAttempt, Owns
<1>2. /\ x \in AttemptIds /\ p \in Payments /\ attempt[x].payment = p
      /\ attempt[x].status = "inProgress" /\ waiter[x].pc = "none"
  BY <1>1, <1>p, <1>x, OwnAttempt
<1>3. /\ attempt'[x].status = "failed"
      /\ \A a \in AttemptIds :
           /\ attempt'[a].payment = attempt[a].payment
           /\ attempt'[a].startedAt = attempt[a].startedAt /\ attempt'[a].hash = attempt[a].hash
           /\ a # x => attempt'[a].status = attempt[a].status
  BY <1>1, <1>2, <1>x DEF FailAttempt, EndAttempt, TypeInv, TypeOK, AttemptRow
<1>4. /\ exec'[e].pc = "backoff" /\ exec'[e].since = exec[e].since
      /\ exec'[e].batch = exec[e].batch /\ exec'[e].cur = p
      /\ exec'[e].payAt = exec[e].payAt /\ exec'[e].att = x
      /\ exec'[e].count = exec[e].count
  BY <1>1, <1>p, <1>x, GotoFields DEF FailAttempt, ExecPc
<1>5. ASSUME NEW q
      PROVE  /\ AttemptsOf(q)' = AttemptsOf(q) /\ CycleAttempts(q)' = CycleAttempts(q)
             /\ WithStatus(q, "succeeded")' = WithStatus(q, "succeeded")
  BY <1>1, <1>2, <1>3 DEF AttemptsOf, CycleAttempts, WithStatus
<1>6. ~Live(x)' /\ \A a \in AttemptIds \ {x} : Live(a)' = Live(a)
  BY <1>1, <1>2, <1>3 DEF Live
<1>7. RunDue(e)'
  <2>1. SuccessesStay /\ PayAtsStay
    BY <1>1, <1>2, <1>3 DEF SuccessesStay, PayAtsStay
  <2> QED BY <1>1, <1>4, <2>1, DueStays DEF Checking
<1>8. RunAlone(e)'
  <2>1. /\ exec[e].payAt = payment[p].payAt /\ exec[e].count = payment[p].count
        /\ \A b \in AttemptsOf(p) : Live(b) => b = x
    BY <1>1, <1>p, <1>x DEF RunAlone, Recorded
  <2>2. \A b \in AttemptsOf(p)' : Live(b)' => b = x
    BY <1>5, <1>6, <2>1 DEF AttemptsOf
  <2> QED BY <1>1, <1>3, <1>4, <2>1, <2>2 DEF RunAlone
<1>9. ASSUME NEW a \in AttemptIds
      PROVE  Cycled(a)' /\ Sent(a)' /\ Backing(a)' /\ InHands(a)' /\ Advanced(a)'
  <2>1. Cycled(a) /\ Sent(a) /\ Backing(a) /\ InHands(a) /\ Advanced(a)
    BY DEF Calm, Attended
  <2>2. Cycled(a)'
    <3>1. CASE ~Live(a) \/ a = x
      BY <1>6, <3>1 DEF Cycled
    <3>2. CASE Live(a) /\ a # x
      <4>1. \A b \in AttemptsOf(attempt[a].payment) : b \in AttemptIds /\ (Live(b)' => Live(b))
        BY <1>6 DEF AttemptsOf
      <4> QED BY <1>1, <1>3, <1>5, <2>1, <3>2, <4>1 DEF Cycled, AtWork
    <3> QED BY <3>1, <3>2
  <2>3. Sent(a)' /\ Advanced(a)'
    BY <1>1, <1>2, <1>3, <2>1 DEF Sent, Advanced
  <2>4. Backing(a)'
    <3>1. \A b \in WithStatus(attempt[a].payment, "succeeded") : b \in AttemptIds
      BY DEF WithStatus, AttemptsOf
    <3> QED BY <1>1, <1>3, <1>5, <2>1, <3>1 DEF Backing
  <2>5. InHands(a)'
    BY <1>1, <1>3, <1>x, <2>1 DEF InHands, OneExecutor
  <2> QED BY <2>2, <2>3, <2>4, <2>5
<1>10. ASSUME NEW q \in Payments PROVE Retried(q)' /\ Tallied(q)'
  <2>1. Retried(q) /\ Tallied(q)
    BY DEF Calm, Attended
  <2>2. SeenTo(q) => SeenTo(q)'
    BY <1>1, <1>4, <1>5, <1>p DEF SeenTo, Recorded, OneExecutor
  <2> QED BY <1>1, <1>5, <2>1, <2>2 DEF Retried, NoRetryLeft, Tallied
<1>11. \A f \in Executors : f = e
  BY DEF OneExecutor
<1> QED BY <1>7, <1>8, <1>9, <1>10, <1>11 DEF Attended

LEMMA EnqueueAttended ==
  ASSUME OneExecutor, Calm, NEW e \in Executors, EnqueueWaiter(e)
  PROVE  Attended'
<1>p. PICK p : p = exec[e].cur
  OBVIOUS
<1>x. PICK x : x = exec[e].att
  OBVIOUS
<1>1. /\ TypeInv /\ RunDue(e) /\ RunAlone(e) /\ exec[e].pc = "enqueue" /\ Owns(e)
      /\ UNCHANGED <<now, payment, attempt>> /\ LeavePayment(e)
  BY CalmTypes DEF Calm, Attended, EnqueueWaiter, Owns, dbVars
<1>2. /\ x \in AttemptIds /\ p \in Payments /\ attempt[x].payment = p
      /\ attempt[x].status = "inProgress" /\ attempt[x].hash /\ waiter[x].pc = "none"
  BY <1>1, <1>p, <1>x, OwnAttempt DEF RunAlone
<1>3. /\ waiter'[x].pc = "queued"
      /\ \A a \in AttemptIds \ {x} : waiter'[a] = waiter[a]
  BY <1>1, <1>2, <1>x DEF EnqueueWaiter, TypeInv, TypeOK, Job
<1>4. /\ exec'[e].pc \in {"idle", "next"} /\ exec'[e].batch = exec[e].batch
      /\ exec[e].batch # {} => exec'[e].since = exec[e].since
  BY <1>1, LeaveFields
<1>5. ASSUME NEW q
      PROVE  /\ AttemptsOf(q)' = AttemptsOf(q) /\ CycleAttempts(q)' = CycleAttempts(q)
             /\ WithStatus(q, "succeeded")' = WithStatus(q, "succeeded")
  BY <1>1 DEF AttemptsOf, CycleAttempts, WithStatus
<1>6. \A a \in AttemptIds : Live(a)' = Live(a)
  BY <1>1, <1>2, <1>3 DEF Live
<1>7. RunDue(e)'
  BY <1>1, <1>4, DueByFields DEF Checking
<1>8. RunAlone(e)' /\ ~Owns(e)'
  BY <1>4 DEF RunAlone, Owns
<1>9. ASSUME NEW a \in AttemptIds
      PROVE  Cycled(a)' /\ Sent(a)' /\ Backing(a)' /\ InHands(a)' /\ Advanced(a)'
  <2>1. Cycled(a) /\ Sent(a) /\ Backing(a) /\ InHands(a) /\ Advanced(a)
    BY DEF Calm, Attended
  <2>2. Cycled(a)'
    <3>1. CASE ~Live(a)
      BY <1>6, <3>1 DEF Cycled
    <3>2. CASE Live(a)
      <4>1. \A b \in AttemptsOf(attempt[a].payment) : b \in AttemptIds
        BY DEF AttemptsOf
      <4>2. \A b \in AttemptsOf(attempt[a].payment) :
              /\ Live(b)' => b = a
              /\ waiter'[b].pc = "backoff" => waiter'[b].since <= attempt[a].startedAt
        BY <1>3, <1>6, <2>1, <3>2, <4>1 DEF Cycled
      <4>3. AtWork(a)' => waiter'[a] = waiter[a] /\ AtWork(a)
        BY <1>3 DEF AtWork
      <4>4. waiter'[a].pc \in {"waiting", "succeed", "fail", "advance"} => waiter'[a] = waiter[a]
        BY <1>3
      <4> QED BY <1>1, <1>5, <2>1, <3>2, <4>2, <4>3, <4>4 DEF Cycled
    <3> QED BY <3>1, <3>2
  <2>3. Sent(a)' /\ Advanced(a)'
    BY <1>1, <1>2, <1>3, <2>1 DEF Sent, Advanced
  <2>4. Backing(a)'
    BY <1>1, <1>2, <1>3, <1>5, <2>1 DEF Backing
  <2>5. InHands(a)'
    BY <1>1, <1>3, <1>x, <2>1 DEF InHands, OneExecutor
  <2> QED BY <2>2, <2>3, <2>4, <2>5
<1>10. ASSUME NEW q \in Payments PROVE Retried(q)' /\ Tallied(q)'
  <2>1. Retried(q) /\ Tallied(q)
    BY DEF Calm, Attended
  <2>2. SeenTo(q) => SeenTo(q)'
    BY <1>2, <1>3, <1>5, <1>p DEF SeenTo, OneExecutor, AttemptsOf
  <2> QED BY <1>1, <1>5, <2>1, <2>2 DEF Retried, NoRetryLeft, Tallied
<1>11. \A f \in Executors : f = e
  BY DEF OneExecutor
<1> QED BY <1>7, <1>8, <1>9, <1>10, <1>11 DEF Attended

\* There is no next retry only when there is none left.
LEMMA NoDateNoRetry ==
  ASSUME NEW payAt \in Nat, NEW count \in Nat, now \in Nat,
         NextRetryAttemptDate(payAt, count) = NULL
  PROVE  payAt + ValidForDays * DAY <= now \/ count >= Len(RetryBackoffs)
<1> SUFFICES ASSUME ~(payAt + ValidForDays * DAY <= now), ~(count >= Len(RetryBackoffs))
             PROVE  FALSE
  OBVIOUS
<1>1. RetryBackoffs \in Seq(Nat) /\ Len(RetryBackoffs) \in Nat
  BY TimeAssumption
<1>2. count + 1 \in 1..Len(RetryBackoffs)
  BY <1>1
<1>3. RetryBackoffs[count + 1] \in Nat
  BY <1>1, <1>2
<1>4. NULL = now + RetryBackoffs[count + 1]
  BY DEF NextRetryAttemptDate
<1> QED BY <1>3, <1>4, NullAssumption

LEMMA ScheduleRetryAttended ==
  ASSUME OneExecutor, Calm, NEW e \in Executors, ScheduleRetry(e)
  PROVE  Attended'
<1>p. PICK p : p = exec[e].cur
  OBVIOUS
<1>1. /\ TypeInv /\ RunDue(e) /\ RunAlone(e) /\ exec[e].pc = "backoff" /\ LeavePayment(e)
      /\ UNCHANGED <<now, attempt, waiter>>
  BY CalmTypes DEF Calm, Attended, ScheduleRetry
<1>2. /\ p \in Payments /\ exec[e].payAt = payment[p].payAt
      /\ exec[e].count = payment[p].count
  BY <1>1, <1>p, OwnAttempt DEF RunAlone, Recorded
<1>3. /\ payment'[p].nextRetry = NextRetryAttemptDate(payment[p].payAt, payment[p].count)
      /\ \A q \in Payments : /\ payment'[q].payAt = payment[q].payAt
                             /\ payment'[q].count = payment[q].count
                             /\ q # p => payment'[q] = payment[q]
  BY <1>1, <1>2, <1>p DEF ScheduleRetry, TypeInv, TypeOK, PaymentRow
<1>4. /\ exec'[e].pc \in {"idle", "next"} /\ exec'[e].batch = exec[e].batch
      /\ exec[e].batch # {} => exec'[e].since = exec[e].since
  BY <1>1, LeaveFields
<1>5. ASSUME NEW q \in Payments
      PROVE  /\ AttemptsOf(q)' = AttemptsOf(q) /\ CycleAttempts(q)' = CycleAttempts(q)
             /\ WithStatus(q, "succeeded")' = WithStatus(q, "succeeded")
  BY <1>1, <1>3 DEF AttemptsOf, CycleAttempts, WithStatus
<1>6. \A a \in AttemptIds : Live(a)' = Live(a)
  BY <1>1 DEF Live
<1>7. RunDue(e)'
  <2>1. SuccessesStay /\ PayAtsStay
    BY <1>1, <1>3 DEF SuccessesStay, PayAtsStay
  <2> QED BY <1>1, <1>4, <2>1, DueStays DEF Checking
<1>8. RunAlone(e)' /\ ~Owns(e)' /\ ~Owns(e)
  BY <1>1, <1>4 DEF RunAlone, Owns
<1>9. ASSUME NEW a \in AttemptIds
      PROVE  Cycled(a)' /\ Sent(a)' /\ Backing(a)' /\ InHands(a)' /\ Advanced(a)'
  <2>1. Cycled(a) /\ Sent(a) /\ Backing(a) /\ InHands(a) /\ Advanced(a)
    BY DEF Calm, Attended
  <2>2. Live(a) \/ waiter[a].pc = "backoff" => attempt[a].payment \in Payments
    BY <1>1 DEF TypeInv, AttemptRows, AtWork, Live
  <2>3. Cycled(a)'
    <3>1. CASE ~Live(a)
      BY <1>6, <3>1 DEF Cycled
    <3>2. CASE Live(a)
      <4>1. \A b \in AttemptsOf(attempt[a].payment) : b \in AttemptIds
        BY DEF AttemptsOf
      <4> QED BY <1>1, <1>3, <1>5, <1>6, <2>1, <2>2, <3>2, <4>1 DEF Cycled, AtWork
    <3> QED BY <3>1, <3>2
  <2>4. Sent(a)' /\ Advanced(a)'
    BY <1>1, <1>3, <2>1, PaymentsAssumption DEF Sent, Advanced
  <2>5. Backing(a)'
    BY <1>1, <1>3, <1>5, <2>1, <2>2 DEF Backing
  <2>6. InHands(a)'
    BY <1>1, <1>8, <2>1 DEF InHands, OneExecutor
  <2> QED BY <2>3, <2>4, <2>5, <2>6
<1>10. ASSUME NEW q \in Payments PROVE Retried(q)' /\ Tallied(q)'
  <2>1. Retried(q) /\ Tallied(q)
    BY DEF Calm, Attended
  <2>2. CASE q = p
    <3>1. now \in Nat /\ payment[p].payAt \in Nat /\ payment[p].count \in Nat
      BY <1>1, <1>2, Numbers
    <3>2. payment'[p].nextRetry # NULL \/ NoRetryLeft(p)
      BY <1>3, <3>1, NoDateNoRetry DEF NoRetryLeft
    <3>3. Retried(p)'
      BY <1>1, <1>2, <1>3, <3>2 DEF Retried, NoRetryLeft
    <3> QED BY <1>2, <1>3, <1>5, <2>1, <2>2, <3>3 DEF Tallied
  <2>3. CASE q # p
    <3>1. SeenTo(q) => SeenTo(q)'
      BY <1>1, <1>5, <1>p, <2>3 DEF SeenTo, OneExecutor
    <3> QED BY <1>1, <1>3, <1>5, <2>1, <2>3, <3>1 DEF Retried, NoRetryLeft, Tallied
  <2> QED BY <2>2, <2>3
<1>11. \A f \in Executors : f = e
  BY DEF OneExecutor
<1> QED BY <1>7, <1>8, <1>9, <1>10, <1>11 DEF Attended

----------------------------------------------------------------------------
(* The steps of the jobs. *)

\* What a run knows of its batch outlives a success.
LEMMA DueLasts ==
  ASSUME TypeInv, SuccessesStay, PayAtsStay, UNCHANGED exec, NEW e \in Executors, RunDue(e)
  PROVE  RunDue(e)'
<1>1. ASSUME NEW q \in Payments
      PROVE  /\ StillDue(e, q) => StillDue(e, q)'
             /\ Lately(e, q) => Lately(e, q)'
             /\ payment'[q].payAt = payment[q].payAt
  BY NearStays DEF PayAtsStay
<1>2. ASSUME NEW r \in exec[e].batch PROVE r.id \in Payments
  BY DEF TypeInv, TypeOK, ExecState, Fetched
<1>3. Checking(e) => exec[e].cur \in Payments
  BY DEF TypeInv, ExecutorLocals, Placed, Checking
<1>4. ASSUME NEW r \in exec[e].batch
      PROVE  /\ StillDue(e, r.id)'
             /\ exec[e].pc = "rows" \/ r.payAt = payment'[r.id].payAt \/ Lately(e, r.id)'
  <2>1. /\ StillDue(e, r.id)
        /\ exec[e].pc = "rows" \/ r.payAt = payment[r.id].payAt \/ Lately(e, r.id)
    BY DEF RunDue
  <2> QED BY <1>1, <1>2, <2>1
<1>5. PICK p : p = exec[e].cur
  OBVIOUS
<1>6. Checking(e) => /\ StillDue(e, p)'
                     /\ exec[e].payAt = payment'[p].payAt \/ Lately(e, p)'
  BY <1>1, <1>3, <1>5 DEF RunDue
<1> QED BY <1>4, <1>5, <1>6 DEF RunDue, StillDue, Lately, Near, Checking, WithStatus, AttemptsOf

\* A job does not work on the payment of a run that has an attempt.
LEMMA JobIsAlone ==
  ASSUME Calm, NEW a \in AttemptIds, NEW e \in Executors, Owns(e) \/ exec[e].pc = "backoff",
         waiter[a].pc \in {"waiting", "succeed", "reset", "advance", "fail"}
  PROVE  exec[e].cur # attempt[a].payment
<1> SUFFICES ASSUME exec[e].cur = attempt[a].payment
             PROVE  FALSE
  OBVIOUS
<1>1. TypeInv /\ JobFits(a) /\ RunAlone(e)
  BY CalmTypes DEF Handed, Calm, Attended
<1>2. Live(a) /\ attempt[a].status \in {"inProgress", "succeeded"} /\ waiter[a].pc # "none"
  BY <1>1 DEF JobFits, Live
<1>3. a = exec[e].att
  BY <1>1, <1>2 DEF RunAlone, AttemptsOf
<1> QED BY <1>1, <1>2, <1>3, OwnAttempt DEF RunAlone

\* Waiting, and what ends it.
LEMMA WaitAttended ==
  ASSUME Calm, NEW a \in AttemptIds, UNCHANGED <<now, payment, attempt, exec>>,
         \A b \in AttemptIds \ {a} : waiter'[b] = waiter[b],
         waiter[a].pc \in {"queued", "waiting"},
         waiter'[a].pc \in {"queued", "waiting", "succeed", "fail"},
         waiter'[a].pc # "queued" =>
           /\ waiter'[a].payAt = payment[attempt[a].payment].payAt
           /\ waiter'[a].count = payment[attempt[a].payment].count
  PROVE  Attended'
<1>1. TypeInv /\ Sent(a) /\ attempt[a].status = "inProgress" /\ attempt[a].hash
  BY CalmTypes DEF Calm, Attended, Sent
<1>2. \A b \in AttemptIds : Live(b)' = Live(b)
  BY <1>1 DEF Live
<1>3. ASSUME NEW e \in Executors PROVE RunDue(e)' /\ RunAlone(e)'
  <2>1. RunDue(e) /\ RunAlone(e)
    BY DEF Calm, Attended
  <2>2. RunDue(e)'
    BY <1>1, <2>1, DueLasts DEF SuccessesStay, PayAtsStay
  <2>3. RunAlone(e)'
    BY <1>2, <2>1 DEF RunAlone, Owns, Recorded, AttemptsOf, WithStatus, TooRecent, CycleAttempts
  <2> QED BY <2>2, <2>3
<1>4. ASSUME NEW b \in AttemptIds
      PROVE  Cycled(b)' /\ Sent(b)' /\ Backing(b)' /\ InHands(b)' /\ Advanced(b)'
  <2>1. Cycled(b) /\ Sent(b) /\ Backing(b) /\ InHands(b) /\ Advanced(b)
    BY DEF Calm, Attended
  <2>2. CASE Live(b)
    <3>1. \A c \in AttemptsOf(attempt[b].payment) :
            /\ Live(c)' => c = b
            /\ waiter'[c].pc = "backoff" => waiter'[c].since <= attempt[b].startedAt
      BY <1>2, <2>1, <2>2 DEF Cycled, AttemptsOf
    <3>2. b # a => waiter'[b] = waiter[b]
      OBVIOUS
    <3>3. Cycled(b)'
      BY <2>1, <2>2, <3>1, <3>2 DEF Cycled, AtWork, AttemptsOf
    <3> QED BY <1>1, <2>1, <3>2, <3>3 DEF Sent, Backing, InHands, Advanced, Owns, WithStatus, AttemptsOf
  <2>3. CASE ~Live(b)
    <3>1. b # a /\ waiter'[b] = waiter[b] /\ ~Live(b)'
      BY <1>1, <1>2, <2>3 DEF Live
    <3> QED BY <2>1, <3>1 DEF Cycled, Sent, Backing, InHands, Advanced, Owns, WithStatus, AttemptsOf
  <2> QED BY <2>2, <2>3
<1>5. ASSUME NEW q \in Payments PROVE Retried(q)' /\ Tallied(q)'
  <2>1. Retried(q) /\ Tallied(q)
    BY DEF Calm, Attended
  <2>2. SeenTo(q) => SeenTo(q)'
    BY DEF SeenTo, AttemptsOf, Recorded
  <2> QED BY <2>1, <2>2 DEF Retried, NoRetryLeft, Tallied, CycleAttempts, AttemptsOf
<1> QED BY <1>3, <1>4, <1>5 DEF Attended

LEMMA StartAttended ==
  ASSUME Calm, NEW a \in AttemptIds, StartWaiter(a)
  PROVE  Attended'
<1>1. TypeInv /\ waiter[a].pc = "queued" /\ Sent(a)
  BY CalmTypes DEF Calm, Attended, StartWaiter
<1>2. waiter' = [waiter EXCEPT ![a] =
                   [pc |-> "waiting", since |-> now,
                    payAt |-> payment[attempt[a].payment].payAt,
                    count |-> payment[attempt[a].payment].count]]
  BY <1>1 DEF Sent, StartWaiter
<1>3. /\ waiter'[a].pc = "waiting"
      /\ waiter'[a].payAt = payment[attempt[a].payment].payAt
      /\ waiter'[a].count = payment[attempt[a].payment].count
      /\ \A b \in AttemptIds \ {a} : waiter'[b] = waiter[b]
  BY <1>1, <1>2 DEF TypeInv, TypeOK
<1>4. UNCHANGED <<now, payment, attempt, exec>>
  BY DEF StartWaiter, dbVars
<1> QED BY <1>1, <1>3, <1>4, WaitAttended

LEMMA VerdictAttended ==
  ASSUME Calm, NEW a \in AttemptIds,
         TxConfirmed(a) \/ TxRefused(a) \/ TookTooLong(a) \/ UnknownError(a)
  PROVE  Attended'
<1>1. TypeInv /\ waiter[a].pc = "waiting" /\ UNCHANGED <<now, payment, attempt, exec>>
  BY CalmTypes DEF TxConfirmed, TxRefused, TookTooLong, UnknownError, dbVars
<1>2. WaiterGoto(a, "succeed") \/ WaiterGoto(a, "fail") \/ Requeue(a)
  BY DEF TxConfirmed, TxRefused, TookTooLong, UnknownError
<1>3. /\ waiter'[a].pc \in {"queued", "succeed", "fail"}
      /\ waiter'[a].pc # "queued" =>
           waiter'[a].payAt = waiter[a].payAt /\ waiter'[a].count = waiter[a].count
      /\ \A b \in AttemptIds \ {a} : waiter'[b] = waiter[b]
  BY <1>1, <1>2 DEF TypeInv, TypeOK, WaiterState, WaiterGoto, Requeue, Job
<1>4. /\ waiter[a].payAt = payment[attempt[a].payment].payAt
      /\ waiter[a].count = payment[attempt[a].payment].count
  BY <1>1, CalmTypes DEF Calm, Attended, Cycled, Live, AtWork, Handed, JobFits
<1> QED BY <1>1, <1>3, <1>4, WaitAttended

LEMMA MarkSucceededAttended ==
  ASSUME Calm, NEW a \in AttemptIds, MarkSucceeded(a)
  PROVE  Attended'
<1>1. /\ TypeInv /\ waiter[a].pc = "succeed" /\ Cycled(a) /\ UNCHANGED <<now, payment, exec>>
      /\ attempt[a].status = "inProgress"
  BY CalmTypes DEF Calm, Attended, MarkSucceeded, Handed, JobFits
<1>2. /\ attempt'[a].status = "succeeded" /\ waiter'[a].pc = "reset"
      /\ waiter'[a].payAt = waiter[a].payAt
      /\ \A b \in AttemptIds :
           /\ attempt'[b].payment = attempt[b].payment
           /\ attempt'[b].startedAt = attempt[b].startedAt /\ attempt'[b].hash = attempt[b].hash
           /\ b # a => attempt'[b].status = attempt[b].status /\ waiter'[b] = waiter[b]
  BY <1>1 DEF MarkSucceeded, EndAttempt, WaiterGoto, TypeInv, TypeOK, AttemptRow, WaiterState
<1>3. \A b \in AttemptIds : Live(b)' = Live(b)
  BY <1>1, <1>2 DEF Live
<1>4. ASSUME NEW q
      PROVE  AttemptsOf(q)' = AttemptsOf(q) /\ CycleAttempts(q)' = CycleAttempts(q)
  BY <1>1, <1>2 DEF AttemptsOf, CycleAttempts
<1>5. SuccessesStay /\ PayAtsStay
  BY <1>1, <1>2 DEF SuccessesStay, PayAtsStay
<1>6. ASSUME NEW e \in Executors PROVE RunDue(e)' /\ RunAlone(e)'
  <2>1. RunDue(e) /\ RunAlone(e)
    BY DEF Calm, Attended
  <2>2. RunDue(e)'
    BY <1>1, <1>5, <2>1, DueLasts
  <2>3. CASE Owns(e) \/ exec[e].pc = "backoff"
    <3>1. PICK q : q = exec[e].cur
      OBVIOUS
    <3>2. q # attempt[a].payment
      BY <1>1, <2>3, <3>1, JobIsAlone
    <3>3. WithStatus(q, "succeeded")' = WithStatus(q, "succeeded")
      BY <1>2, <3>2 DEF WithStatus, AttemptsOf
    <3>4. exec[e].att # a /\ exec[e].att \in AttemptIds
      BY <2>3, <3>1, <3>2, OwnAttempt
    <3>5. /\ \A b \in AttemptsOf(q) : Live(b)' => b = exec[e].att
          /\ exec[e].pc \in {"count", "record"} =>
               \A b \in WithStatus(q, "succeeded") : ~TooRecent(b)'
      BY <1>1, <1>2, <1>3, <2>1, <2>3, <3>1 DEF RunAlone, AttemptsOf, TooRecent, WithStatus
    <3> QED BY <1>1, <1>2, <1>4, <2>1, <2>2, <2>3, <3>1, <3>3, <3>4, <3>5
            DEF RunAlone, Recorded
  <2>4. CASE ~(Owns(e) \/ exec[e].pc = "backoff")
    BY <1>1, <2>2, <2>4 DEF RunAlone, Owns
  <2> QED BY <2>3, <2>4
<1>7. ASSUME NEW b \in AttemptIds
      PROVE  Cycled(b)' /\ Sent(b)' /\ Backing(b)' /\ InHands(b)' /\ Advanced(b)'
  <2>1. Cycled(b) /\ Sent(b) /\ Backing(b) /\ InHands(b) /\ Advanced(b)
    BY DEF Calm, Attended
  <2>2. Cycled(b)'
    <3>1. CASE ~Live(b)
      BY <1>3, <3>1 DEF Cycled
    <3>2. CASE Live(b)
      <4>1. \A c \in AttemptsOf(attempt[b].payment) :
              /\ Live(c)' => c = b
              /\ waiter'[c].pc = "backoff" => waiter'[c].since <= attempt[b].startedAt
        BY <1>2, <1>3, <2>1, <3>2 DEF Cycled, AttemptsOf
      <4>2. CASE b = a
        BY <1>1, <1>2, <1>4, <2>1, <3>2, <4>1, <4>2 DEF Cycled, AtWork
      <4>3. CASE b # a
        BY <1>1, <1>2, <1>4, <2>1, <3>2, <4>1, <4>3 DEF Cycled, AtWork
      <4> QED BY <4>2, <4>3
    <3> QED BY <3>1, <3>2
  <2>3. Sent(b)' /\ InHands(b)' /\ Advanced(b)'
    BY <1>1, <1>2, <2>1 DEF Sent, InHands, Advanced, Owns
  <2>4. Backing(b)'
    <3>1. ASSUME NEW c \in WithStatus(attempt[b].payment, "succeeded")
          PROVE  /\ c \in WithStatus(attempt[b].payment, "succeeded")'
                 /\ attempt'[c].startedAt = attempt[c].startedAt
      BY <1>2 DEF WithStatus, AttemptsOf
    <3>2. attempt'[b].payment = attempt[b].payment /\ (b # a => waiter'[b] = waiter[b])
      BY <1>2
    <3> QED BY <1>1, <1>2, <2>1, <3>1, <3>2 DEF Backing, WithStatus, AttemptsOf
  <2> QED BY <2>2, <2>3, <2>4
<1>8. ASSUME NEW q \in Payments PROVE Retried(q)' /\ Tallied(q)'
  <2>1. Retried(q) /\ Tallied(q)
    BY DEF Calm, Attended
  <2>2. SeenTo(q) => SeenTo(q)'
    BY <1>1, <1>2, <1>4 DEF SeenTo, Recorded, AttemptsOf
  <2> QED BY <1>1, <1>4, <2>1, <2>2 DEF Retried, NoRetryLeft, Tallied
<1> QED BY <1>6, <1>7, <1>8 DEF Attended

LEMMA MarkFailedAttended ==
  ASSUME Calm, NEW a \in AttemptIds, MarkFailed(a)
  PROVE  Attended'
<1>1. /\ TypeInv /\ waiter[a].pc = "fail" /\ Cycled(a) /\ UNCHANGED <<now, payment, exec>>
      /\ attempt[a].status = "inProgress" /\ attempt[a].payment \in Payments
  BY CalmTypes DEF Calm, Attended, MarkFailed, Handed, JobFits, TypeInv, AttemptRows, AtWork
<1>2. /\ attempt'[a].status = "failed" /\ waiter'[a].pc = "backoff"
      /\ waiter'[a].payAt = waiter[a].payAt /\ waiter'[a].count = waiter[a].count
      /\ \A b \in AttemptIds :
           /\ attempt'[b].payment = attempt[b].payment
           /\ attempt'[b].startedAt = attempt[b].startedAt /\ attempt'[b].hash = attempt[b].hash
           /\ b # a => attempt'[b].status = attempt[b].status /\ waiter'[b] = waiter[b]
  BY <1>1 DEF MarkFailed, EndAttempt, WaiterGoto, TypeInv, TypeOK, AttemptRow, WaiterState
<1>3. ~Live(a)' /\ Live(a) /\ \A b \in AttemptIds \ {a} : Live(b)' = Live(b)
  BY <1>1, <1>2 DEF Live
<1>4. ASSUME NEW q
      PROVE  /\ AttemptsOf(q)' = AttemptsOf(q) /\ CycleAttempts(q)' = CycleAttempts(q)
             /\ WithStatus(q, "succeeded")' = WithStatus(q, "succeeded")
  BY <1>1, <1>2 DEF AttemptsOf, CycleAttempts, WithStatus
<1>5. SuccessesStay /\ PayAtsStay
  BY <1>1, <1>2 DEF SuccessesStay, PayAtsStay
<1>6. ASSUME NEW e \in Executors PROVE RunDue(e)' /\ RunAlone(e)'
  <2>1. RunDue(e) /\ RunAlone(e)
    BY DEF Calm, Attended
  <2>2. RunDue(e)'
    BY <1>1, <1>5, <2>1, DueLasts
  <2>3. CASE Owns(e) \/ exec[e].pc = "backoff"
    <3>1. PICK q : q = exec[e].cur
      OBVIOUS
    <3>2. q # attempt[a].payment
      BY <1>1, <2>3, <3>1, JobIsAlone
    <3>3. exec[e].att # a /\ exec[e].att \in AttemptIds
      BY <2>3, <3>1, <3>2, OwnAttempt
    <3>4. /\ \A b \in AttemptsOf(q) : Live(b)' => b = exec[e].att
          /\ exec[e].pc \in {"count", "record"} =>
               \A b \in WithStatus(q, "succeeded") : ~TooRecent(b)'
      BY <1>1, <1>2, <1>3, <2>1, <2>3, <3>1 DEF RunAlone, AttemptsOf, TooRecent, WithStatus
    <3> QED BY <1>1, <1>2, <1>4, <2>1, <2>2, <2>3, <3>1, <3>3, <3>4
            DEF RunAlone, Recorded
  <2>4. CASE ~(Owns(e) \/ exec[e].pc = "backoff")
    BY <1>1, <2>2, <2>4 DEF RunAlone, Owns
  <2> QED BY <2>3, <2>4
<1>7. ASSUME NEW b \in AttemptIds
      PROVE  Cycled(b)' /\ Sent(b)' /\ Backing(b)' /\ InHands(b)' /\ Advanced(b)'
  <2>1. Cycled(b) /\ Sent(b) /\ Backing(b) /\ InHands(b) /\ Advanced(b)
    BY DEF Calm, Attended
  <2>2. Cycled(b)'
    <3>1. CASE ~Live(b) \/ b = a
      BY <1>3, <3>1 DEF Cycled
    <3>2. CASE Live(b) /\ b # a
      <4>1. a \notin AttemptsOf(attempt[b].payment)
        BY <1>3, <2>1, <3>2 DEF Cycled
      <4>2. \A c \in AttemptsOf(attempt[b].payment) :
              /\ Live(c)' => c = b
              /\ waiter'[c].pc = "backoff" => waiter'[c].since <= attempt[b].startedAt
        BY <1>2, <1>3, <2>1, <3>2, <4>1 DEF Cycled, AttemptsOf
      <4> QED BY <1>1, <1>2, <1>4, <2>1, <3>2, <4>2 DEF Cycled, AtWork
    <3> QED BY <3>1, <3>2
  <2>3. Sent(b)' /\ InHands(b)' /\ Advanced(b)'
    BY <1>1, <1>2, <2>1 DEF Sent, InHands, Advanced, Owns
  <2>4. Backing(b)'
    <3>1. CASE b = a
      <4>1. /\ waiter[a].payAt = payment[attempt[a].payment].payAt
            /\ waiter[a].count = payment[attempt[a].payment].count
        BY <1>1, <1>3 DEF Cycled, AtWork
      <4>2. payment[attempt[a].payment].count \in Nat
        BY <1>1, Numbers
      <4> QED BY <1>1, <1>2, <3>1, <4>1, <4>2 DEF Backing
    <3>2. CASE b # a
      <4>1. attempt'[b].payment = attempt[b].payment /\ waiter'[b] = waiter[b]
        BY <1>2, <3>2
      <4>2. \A c \in WithStatus(attempt[b].payment, "succeeded") :
              attempt'[c].startedAt = attempt[c].startedAt
        BY <1>2 DEF WithStatus, AttemptsOf
      <4> QED BY <1>1, <1>4, <2>1, <4>1, <4>2 DEF Backing
    <3> QED BY <3>1, <3>2
  <2> QED BY <2>2, <2>3, <2>4
<1>8. ASSUME NEW q \in Payments PROVE Retried(q)' /\ Tallied(q)'
  <2>1. Retried(q) /\ Tallied(q)
    BY DEF Calm, Attended
  <2>2. SeenTo(q) => SeenTo(q)'
    BY <1>1, <1>2, <1>4 DEF SeenTo, Recorded, AttemptsOf
  <2> QED BY <1>1, <1>4, <2>1, <2>2 DEF Retried, NoRetryLeft, Tallied
<1> QED BY <1>6, <1>7, <1>8 DEF Attended

LEMMA ResetAttended ==
  ASSUME Calm, NEW a \in AttemptIds, ResetRetries(a)
  PROVE  Attended'
<1>p. PICK p : p = attempt[a].payment
  OBVIOUS
<1>1. /\ TypeInv /\ waiter[a].pc = "reset" /\ Cycled(a) /\ UNCHANGED <<now, attempt, exec>>
      /\ attempt[a].status = "succeeded" /\ p \in Payments /\ Live(a)
  BY <1>p, CalmTypes
  DEF Calm, Attended, ResetRetries, Handed, JobFits, TypeInv, AttemptRows, AtWork, Live
<1>2. /\ waiter'[a].pc = IF p \in Recurring THEN "advance" ELSE "done"
      /\ p \in Recurring => waiter'[a].payAt = waiter[a].payAt
      /\ \A b \in AttemptIds \ {a} : waiter'[b] = waiter[b]
  BY <1>1, <1>p DEF ResetRetries, WaiterGoto, JobDone, Job, TypeInv, TypeOK, WaiterState
<1>3. /\ payment'[p].count = 0
      /\ \A q \in Payments : payment'[q].payAt = payment[q].payAt
      /\ \A q \in Payments \ {p} : payment'[q] = payment[q]
  BY <1>1, <1>p DEF ResetRetries, TypeInv, TypeOK, PaymentRow
<1>4. \A b \in AttemptIds : Live(b)' => Live(b)
  BY <1>1, <1>2 DEF Live
<1>5. ASSUME NEW q \in Payments
      PROVE  /\ AttemptsOf(q)' = AttemptsOf(q) /\ CycleAttempts(q)' = CycleAttempts(q)
             /\ WithStatus(q, "succeeded")' = WithStatus(q, "succeeded")
  BY <1>1, <1>3 DEF AttemptsOf, CycleAttempts, WithStatus
<1>6. SuccessesStay /\ PayAtsStay
  BY <1>1, <1>3 DEF SuccessesStay, PayAtsStay
<1>7. ASSUME NEW e \in Executors PROVE RunDue(e)' /\ RunAlone(e)'
  <2>1. RunDue(e) /\ RunAlone(e)
    BY DEF Calm, Attended
  <2>2. RunDue(e)'
    BY <1>1, <1>6, <2>1, DueLasts
  <2>3. CASE Owns(e) \/ exec[e].pc = "backoff"
    <3>1. PICK q : q = exec[e].cur
      OBVIOUS
    <3>2. q \in Payments \ {p}
      BY <1>1, <1>p, <2>3, <3>1, JobIsAlone, OwnAttempt
    <3>3. /\ \A b \in AttemptsOf(q) : Live(b)' => b = exec[e].att
          /\ exec[e].pc \in {"count", "record"} =>
               \A b \in WithStatus(q, "succeeded") : ~TooRecent(b)'
      BY <1>1, <1>4, <2>1, <2>3, <3>1 DEF RunAlone, AttemptsOf, TooRecent, WithStatus
    <3>4. payment'[q] = payment[q]
      BY <1>3, <3>2
    <3> QED BY <1>1, <1>5, <2>1, <2>2, <2>3, <3>1, <3>2, <3>3, <3>4 DEF RunAlone, Recorded
  <2>4. CASE ~(Owns(e) \/ exec[e].pc = "backoff")
    BY <1>1, <2>2, <2>4 DEF RunAlone, Owns
  <2> QED BY <2>3, <2>4
<1>8. ASSUME NEW b \in AttemptIds
      PROVE  Cycled(b)' /\ Sent(b)' /\ Backing(b)' /\ InHands(b)' /\ Advanced(b)'
  <2>1. Cycled(b) /\ Sent(b) /\ Backing(b) /\ InHands(b) /\ Advanced(b)
    BY DEF Calm, Attended
  <2>2. Live(b) \/ waiter[b].pc = "backoff" => attempt[b].payment \in Payments
    BY <1>1 DEF TypeInv, AttemptRows, AtWork, Live
  <2>3. b # a => waiter'[b] = waiter[b]
    BY <1>2
  <2>4. Cycled(b)'
    <3>1. CASE ~Live(b)'
      BY <3>1 DEF Cycled
    <3>2. CASE Live(b)' /\ b # a
      <4>1. Live(b) /\ a \notin AttemptsOf(attempt[b].payment) /\ attempt[b].payment # p
        BY <1>1, <1>4, <1>p, <2>1, <3>2 DEF Cycled, AttemptsOf
      <4>2. \A c \in AttemptsOf(attempt[b].payment) :
              /\ Live(c)' => c = b
              /\ waiter'[c].pc = "backoff" => waiter'[c].since <= attempt[b].startedAt
        BY <1>2, <1>4, <2>1, <4>1 DEF Cycled, AttemptsOf
      <4>3. payment'[attempt[b].payment] = payment[attempt[b].payment]
        BY <1>3, <2>2, <4>1
      <4> QED BY <1>1, <1>5, <2>1, <2>2, <2>3, <3>2, <4>1, <4>2, <4>3 DEF Cycled, AtWork
    <3>3. CASE Live(b)' /\ b = a
      <4>1. \A c \in AttemptsOf(p) :
              /\ Live(c)' => c = a
              /\ waiter'[c].pc = "backoff" => waiter'[c].since <= attempt[a].startedAt
        BY <1>1, <1>2, <1>4, <1>p DEF Cycled, AttemptsOf
      <4>2. p \in Recurring
        BY <1>1, <1>2, <3>3 DEF Live
      <4>3. waiter[a].payAt = payment[p].payAt
        BY <1>1, <1>p DEF Cycled, AtWork
      <4> QED BY <1>1, <1>2, <1>3, <1>5, <1>p, <3>3, <4>1, <4>2, <4>3 DEF Cycled, AtWork
    <3> QED BY <3>1, <3>2, <3>3
  <2>5. Sent(b)' /\ InHands(b)'
    BY <1>1, <1>2, <2>1, <2>3 DEF Sent, InHands, Owns
  <2>6. Advanced(b)'
    BY <1>1, <1>2, <1>3, <1>p, <2>1, <2>3, PaymentsAssumption DEF Advanced
  <2>7. Backing(b)'
    <3>1. CASE waiter'[b].pc # "backoff"
      BY <3>1 DEF Backing
    <3>2. CASE waiter'[b].pc = "backoff" /\ attempt[b].payment # p
      <4>1. waiter'[b] = waiter[b] /\ attempt[b].payment \in Payments
        BY <1>2, <2>2, <3>2
      <4>2. payment'[attempt[b].payment] = payment[attempt[b].payment]
        BY <1>3, <3>2, <4>1
      <4> QED BY <1>1, <1>5, <2>1, <4>1, <4>2 DEF Backing
    <3>3. CASE waiter'[b].pc = "backoff" /\ attempt[b].payment = p
      <4>1. waiter'[b] = waiter[b] /\ b \in AttemptsOf(p)
        BY <1>2, <3>3 DEF AttemptsOf
      <4>2. waiter[b].since <= attempt[a].startedAt
        BY <1>1, <1>p, <3>3, <4>1 DEF Cycled
      <4>3. a \in WithStatus(p, "succeeded")
        BY <1>1, <1>p DEF WithStatus, AttemptsOf
      <4> QED BY <1>1, <1>3, <1>5, <3>3, <4>1, <4>2, <4>3 DEF Backing
    <3> QED BY <3>1, <3>2, <3>3
  <2> QED BY <2>4, <2>5, <2>6, <2>7
<1>9. ASSUME NEW q \in Payments PROVE Retried(q)' /\ Tallied(q)'
  <2>1. Retried(q) /\ Tallied(q)
    BY DEF Calm, Attended
  <2>2. CASE q = p
    <3>1. CycleAttempts(q) \in SUBSET AttemptIds
      BY DEF CycleAttempts, AttemptsOf
    <3>2. Cardinality(CycleAttempts(q)) \in Nat
      BY <3>1, MoreAttempts
    <3> QED BY <1>3, <1>5, <2>2, <3>2 DEF Retried, Tallied
  <2>3. CASE q # p
    <3>1. payment'[q] = payment[q] /\ a \notin AttemptsOf(q)
      BY <1>3, <1>p, <2>3 DEF AttemptsOf
    <3>2. SeenTo(q) => SeenTo(q)'
      BY <1>1, <1>2, <1>5, <3>1 DEF SeenTo, Recorded, AttemptsOf
    <3> QED BY <1>1, <1>5, <2>1, <3>1, <3>2 DEF Retried, NoRetryLeft, Tallied
  <2> QED BY <2>2, <2>3
<1> QED BY <1>7, <1>8, <1>9 DEF Attended

LEMMA WaiterRetryAttended ==
  ASSUME Calm, NEW a \in AttemptIds, WaiterScheduleRetry(a)
  PROVE  Attended'
<1>p. PICK p : p = attempt[a].payment
  OBVIOUS
<1>1. /\ TypeInv /\ waiter[a].pc = "backoff" /\ Backing(a) /\ UNCHANGED <<now, attempt, exec>>
      /\ p \in Payments
  BY <1>p, CalmTypes
  DEF Calm, Attended, WaiterScheduleRetry, TypeInv, AttemptRows, AtWork
<1>2. /\ waiter'[a].pc = "done"
      /\ \A b \in AttemptIds \ {a} : waiter'[b] = waiter[b]
  BY <1>1 DEF WaiterScheduleRetry, JobDone, Job, TypeInv, TypeOK
<1>3. /\ payment'[p].nextRetry = NextRetryAttemptDate(waiter[a].payAt, waiter[a].count)
      /\ \A q \in Payments : /\ payment'[q].payAt = payment[q].payAt
                             /\ payment'[q].count = payment[q].count
                             /\ q # p => payment'[q] = payment[q]
  BY <1>1, <1>p DEF WaiterScheduleRetry, TypeInv, TypeOK, PaymentRow
<1>4. \A b \in AttemptIds : Live(b)' = Live(b)
  BY <1>1, <1>2 DEF Live
<1>5. ASSUME NEW q \in Payments
      PROVE  /\ AttemptsOf(q)' = AttemptsOf(q) /\ CycleAttempts(q)' = CycleAttempts(q)
             /\ WithStatus(q, "succeeded")' = WithStatus(q, "succeeded")
  BY <1>1, <1>3 DEF AttemptsOf, CycleAttempts, WithStatus
<1>6. SuccessesStay /\ PayAtsStay
  BY <1>1, <1>3 DEF SuccessesStay, PayAtsStay
<1>7. ASSUME NEW e \in Executors PROVE RunDue(e)' /\ RunAlone(e)'
  <2>1. RunDue(e) /\ RunAlone(e)
    BY DEF Calm, Attended
  <2>2. RunDue(e)'
    BY <1>1, <1>6, <2>1, DueLasts
  <2>3. CASE Owns(e) \/ exec[e].pc = "backoff"
    <3>1. PICK q : q = exec[e].cur
      OBVIOUS
    <3>2. q \in Payments
      BY <2>3, <3>1, OwnAttempt
    <3>3. /\ \A b \in AttemptsOf(q) : Live(b)' => b = exec[e].att
          /\ exec[e].pc \in {"count", "record"} =>
               \A b \in WithStatus(q, "succeeded") : ~TooRecent(b)'
      BY <1>1, <1>4, <2>1, <2>3, <3>1 DEF RunAlone, AttemptsOf, TooRecent, WithStatus
    <3>4. payment'[q].payAt = payment[q].payAt /\ payment'[q].count = payment[q].count
      BY <1>3, <3>2
    <3> QED BY <1>1, <1>5, <2>1, <2>2, <2>3, <3>1, <3>2, <3>3, <3>4 DEF RunAlone, Recorded
  <2>4. CASE ~(Owns(e) \/ exec[e].pc = "backoff")
    BY <1>1, <2>2, <2>4 DEF RunAlone, Owns
  <2> QED BY <2>3, <2>4
<1>8. ASSUME NEW b \in AttemptIds
      PROVE  Cycled(b)' /\ Sent(b)' /\ Backing(b)' /\ InHands(b)' /\ Advanced(b)'
  <2>1. Cycled(b) /\ Sent(b) /\ Backing(b) /\ InHands(b) /\ Advanced(b)
    BY DEF Calm, Attended
  <2>2. Live(b) \/ waiter[b].pc = "backoff" => attempt[b].payment \in Payments
    BY <1>1 DEF TypeInv, AttemptRows, AtWork, Live
  <2>3. b # a => waiter'[b] = waiter[b]
    BY <1>2
  <2>4. Cycled(b)'
    <3>1. CASE ~Live(b)
      BY <1>4, <3>1 DEF Cycled
    <3>2. CASE Live(b)
      <4>1. \A c \in AttemptsOf(attempt[b].payment) :
              /\ Live(c)' => c = b
              /\ waiter'[c].pc = "backoff" => waiter'[c].since <= attempt[b].startedAt
        BY <1>2, <1>4, <2>1, <3>2 DEF Cycled, AttemptsOf
      <4>2. waiter'[b].pc \in {"waiting", "succeed", "fail", "advance"} \/ AtWork(b)' =>
              waiter'[b] = waiter[b]
        BY <1>2, <2>3 DEF AtWork
      <4> QED BY <1>1, <1>3, <1>5, <2>1, <2>2, <3>2, <4>1, <4>2 DEF Cycled, AtWork
    <3> QED BY <3>1, <3>2
  <2>5. Sent(b)' /\ InHands(b)' /\ Advanced(b)'
    BY <1>1, <1>2, <1>3, <2>1, <2>3, PaymentsAssumption DEF Sent, InHands, Advanced, Owns
  <2>6. Backing(b)'
    BY <1>1, <1>2, <1>3, <1>5, <2>1, <2>2, <2>3 DEF Backing
  <2> QED BY <2>4, <2>5, <2>6
<1>9. ASSUME NEW q \in Payments PROVE Retried(q)' /\ Tallied(q)'
  <2>1. Retried(q) /\ Tallied(q)
    BY DEF Calm, Attended
  <2>2. CASE q = p
    <3>1. /\ now \in Nat /\ waiter[a].payAt \in Nat /\ waiter[a].count \in Nat
          /\ payment[p].payAt \in Nat /\ payment[p].count \in Nat
          /\ Len(RetryBackoffs) \in Nat
      BY <1>1, Numbers, TimeAssumption
    <3>2. \/ payment'[p].nextRetry # NULL \/ waiter[a].payAt + ValidForDays * DAY <= now
          \/ waiter[a].count >= Len(RetryBackoffs)
      BY <1>3, <3>1, NoDateNoRetry
    <3>3. \/ waiter[a].payAt = payment[p].payAt /\ waiter[a].count <= payment[p].count
          \/ payment[p].count = 0
      BY <1>1, <1>p DEF Backing
    <3>4. payment'[p].nextRetry # NULL \/ payment[p].count = 0 \/ NoRetryLeft(p)
      BY <3>1, <3>2, <3>3 DEF NoRetryLeft
    <3>5. Retried(p)'
      BY <1>1, <1>3, <3>4 DEF Retried, NoRetryLeft
    <3> QED BY <1>1, <1>3, <1>5, <2>1, <2>2, <3>5 DEF Tallied
  <2>3. CASE q # p
    <3>1. payment'[q] = payment[q] /\ a \notin AttemptsOf(q)
      BY <1>3, <1>p, <2>3 DEF AttemptsOf
    <3>2. SeenTo(q) => SeenTo(q)'
      BY <1>1, <1>2, <1>5, <3>1 DEF SeenTo, Recorded, AttemptsOf
    <3> QED BY <1>1, <1>5, <2>1, <3>1, <3>2 DEF Retried, NoRetryLeft, Tallied
  <2> QED BY <2>2, <2>3
<1> QED BY <1>7, <1>8, <1>9 DEF Attended

\* The cycle that was paid is over before the next payAt.
LEMMA AdvanceAttended ==
  ASSUME FarApart, Calm, NEW a \in AttemptIds, AdvancePayAt(a)
  PROVE  Attended'
<1>p. PICK p : p = attempt[a].payment
  OBVIOUS
<1>1. /\ TypeInv /\ waiter[a].pc = "advance" /\ Cycled(a) /\ UNCHANGED <<now, attempt, exec>>
      /\ attempt[a].status = "succeeded" /\ p \in Payments /\ Live(a)
  BY <1>p, CalmTypes
  DEF Calm, Attended, AdvancePayAt, Handed, JobFits, TypeInv, AttemptRows, AtWork, Live
<1>2. /\ waiter'[a].pc = "done"
      /\ \A b \in AttemptIds \ {a} : waiter'[b] = waiter[b]
  BY <1>1 DEF AdvancePayAt, JobDone, Job, TypeInv, TypeOK
<1>3. /\ payment[p].payAt <= attempt[a].startedAt
      /\ attempt[a].startedAt < payment[p].payAt + Window
      /\ \A b \in AttemptsOf(p) : Live(b) => b = a
      /\ \A b \in AttemptsOf(p) :
           waiter[b].pc = "backoff" => waiter[b].since <= attempt[a].startedAt
      /\ waiter[a].payAt = payment[p].payAt /\ payment[p].count = 0
  BY <1>1, <1>p DEF Cycled, AtWork
<1>4. /\ payment[p].payAt \in Nat /\ attempt[a].startedAt \in Nat /\ CycleLength \in Nat
      /\ Window \in Int /\ Window <= CycleLength /\ Validity \in Nat
  BY <1>1, Numbers, Spans DEF FarApart
<1>5. /\ payment'[p].count = 0
      /\ \/ /\ payment[p].payAt + CycleLength <= RecurringUntil[p]
            /\ payment'[p].payAt = payment[p].payAt + CycleLength
         \/ ~(payment[p].payAt + CycleLength <= RecurringUntil[p]) /\ payment' = payment
      /\ \A q \in Payments \ {p} : payment'[q] = payment[q]
  <2>1. payment' = IF payment[p].payAt + CycleLength <= RecurringUntil[p]
                   THEN [payment EXCEPT ![p].payAt = payment[p].payAt + CycleLength]
                   ELSE payment
    BY <1>3, <1>p DEF AdvancePayAt
  <2>2. payment \in [Payments -> PaymentRow]
    BY <1>1 DEF TypeInv, TypeOK
  <2> QED BY <1>1, <1>3, <2>1, <2>2 DEF PaymentRow
<1>6. ~Live(a)' /\ \A b \in AttemptIds \ {a} : Live(b)' = Live(b)
  BY <1>1, <1>2 DEF Live
<1>7. ASSUME NEW q
      PROVE  /\ AttemptsOf(q)' = AttemptsOf(q)
             /\ WithStatus(q, "succeeded")' = WithStatus(q, "succeeded")
  BY <1>1 DEF AttemptsOf, WithStatus
<1>8. a \in WithStatus(p, "succeeded")
  BY <1>1, <1>p DEF WithStatus, AttemptsOf
<1>9. ASSUME NEW e \in Executors PROVE RunDue(e)' /\ RunAlone(e)'
  <2>1. RunDue(e) /\ RunAlone(e)
    BY DEF Calm, Attended
  <2>2. ASSUME NEW q \in Payments PROVE Lately(e, q) => Lately(e, q)'
    BY <1>1, <1>7 DEF Lately, Near
  <2>3. ASSUME NEW q \in Payments, StillDue(e, q), q # p
        PROVE  StillDue(e, q)' /\ payment'[q].payAt = payment[q].payAt
    BY <1>1, <1>5, <2>2, <2>3 DEF StillDue, Near
  <2>4. ASSUME StillDue(e, p) PROVE StillDue(e, p)' /\ Lately(e, p)'
    <3>1. exec[e].since \in Nat
      BY <1>1, Numbers
    <3>2. Near(e, attempt[a].startedAt)
      BY <1>3, <1>4, <2>4, <3>1 DEF StillDue, Near
    <3>3. Lately(e, p)'
      BY <1>1, <1>8, <2>2, <3>2 DEF Lately
    <3>4. Near(e, payment[p].payAt)'
      BY <1>1, <1>4, <1>5, <2>4, <3>1 DEF StillDue, Near
    <3> QED BY <3>3, <3>4 DEF StillDue
  <2>5. ASSUME NEW q \in Payments, StillDue(e, q)
        PROVE  /\ StillDue(e, q)'
               /\ payment'[q].payAt = payment[q].payAt \/ Lately(e, q)'
    BY <2>3, <2>4, <2>5
  <2>6. ASSUME NEW r \in exec[e].batch
        PROVE  /\ StillDue(e, r.id)'
               /\ exec[e].pc = "rows" \/ r.payAt = payment'[r.id].payAt \/ Lately(e, r.id)'
    <3>1. r.id \in Payments
      BY <1>1 DEF TypeInv, TypeOK, ExecState, Fetched
    <3>2. /\ StillDue(e, r.id)
          /\ exec[e].pc = "rows" \/ r.payAt = payment[r.id].payAt \/ Lately(e, r.id)
      BY <2>1 DEF RunDue
    <3> QED BY <2>2, <2>5, <3>1, <3>2
  <2>7. PICK q : q = exec[e].cur
    OBVIOUS
  <2>8. Checking(e) => /\ StillDue(e, q)'
                       /\ exec[e].payAt = payment'[q].payAt \/ Lately(e, q)'
    <3>1. Checking(e) => q \in Payments
      BY <1>1, <2>7 DEF TypeInv, ExecutorLocals, Placed, Checking
    <3>2. Checking(e) => /\ StillDue(e, q)
                         /\ exec[e].payAt = payment[q].payAt \/ Lately(e, q)
      BY <2>1, <2>7 DEF RunDue
    <3> QED BY <2>2, <2>5, <3>1, <3>2
  <2>9. RunDue(e)'
    <3>1. /\ StillDue(e, q)' => StillDue(e, exec[e].cur)'
          /\ Lately(e, q)' => Lately(e, exec[e].cur)'
      BY <1>1, <2>7 DEF StillDue, Lately, Near, WithStatus, AttemptsOf
    <3> QED BY <1>1, <2>6, <2>7, <2>8, <3>1 DEF RunDue, Checking
  <2>10. CASE Owns(e) \/ exec[e].pc = "backoff"
    <3>1. q \in Payments \ {p}
      BY <1>1, <1>p, <2>7, <2>10, JobIsAlone, OwnAttempt
    <3>2. payment'[q] = payment[q] /\ CycleAttempts(q)' = CycleAttempts(q)
      BY <1>1, <1>5, <1>7, <3>1 DEF CycleAttempts
    <3>3. /\ \A b \in AttemptsOf(q) : Live(b)' => b = exec[e].att
          /\ exec[e].pc \in {"count", "record"} =>
               \A b \in WithStatus(q, "succeeded") : ~TooRecent(b)'
      BY <1>1, <1>6, <2>1, <2>7, <2>10 DEF RunAlone, AttemptsOf, TooRecent, WithStatus
    <3> QED BY <1>1, <1>7, <2>1, <2>7, <2>9, <2>10, <3>2, <3>3 DEF RunAlone, Recorded
  <2>11. CASE ~(Owns(e) \/ exec[e].pc = "backoff")
    BY <1>1, <2>9, <2>11 DEF RunAlone, Owns
  <2> QED BY <2>10, <2>11
<1>10. ASSUME NEW b \in AttemptIds
       PROVE  Cycled(b)' /\ Sent(b)' /\ Backing(b)' /\ InHands(b)' /\ Advanced(b)'
  <2>1. Cycled(b) /\ Sent(b) /\ Backing(b) /\ InHands(b) /\ Advanced(b)
    BY DEF Calm, Attended
  <2>2. Live(b) \/ waiter[b].pc = "backoff" => attempt[b].payment \in Payments
    BY <1>1 DEF TypeInv, AttemptRows, AtWork, Live
  <2>3. b # a => waiter'[b] = waiter[b]
    BY <1>2
  <2>4. Cycled(b)'
    <3>1. CASE ~Live(b)'
      BY <3>1 DEF Cycled
    <3>2. CASE Live(b)'
      <4>1. Live(b) /\ b # a /\ attempt[b].payment # p
        BY <1>3, <1>6, <3>2 DEF AttemptsOf
      <4>2. \A c \in AttemptsOf(attempt[b].payment) :
              /\ Live(c)' => c = b
              /\ waiter'[c].pc = "backoff" => waiter'[c].since <= attempt[b].startedAt
        BY <1>2, <1>6, <2>1, <4>1 DEF Cycled, AttemptsOf
      <4>3. payment'[attempt[b].payment] = payment[attempt[b].payment]
        BY <1>5, <2>2, <4>1
      <4> QED BY <1>1, <1>7, <2>1, <2>3, <4>1, <4>2, <4>3 DEF Cycled, AtWork
    <3> QED BY <3>1, <3>2
  <2>5. Sent(b)' /\ InHands(b)'
    BY <1>1, <1>2, <2>1, <2>3 DEF Sent, InHands, Owns
  <2>6. Advanced(b)'
    <3>1. CASE attempt[b].payment # p
      <4>1. attempt[b].payment \in Recurring =>
              payment'[attempt[b].payment] = payment[attempt[b].payment]
        BY <1>5, <3>1, PaymentsAssumption
      <4> QED BY <1>1, <1>p, <2>1, <2>3, <3>1, <4>1 DEF Advanced
    <3>2. CASE attempt[b].payment = p /\ b = a
      <4>1. RecurringUntil[p] \in Nat
        BY <1>1, TimeAssumption
      <4> QED BY <1>1, <1>3, <1>4, <1>5, <3>2, <4>1 DEF Advanced
    <3>3. CASE attempt[b].payment = p /\ b # a
      <4>1. RecurringUntil[p] \in Nat /\ attempt[b].startedAt \in Nat
        BY <1>1, TimeAssumption, Numbers
      <4> QED BY <1>1, <1>4, <1>5, <2>1, <2>3, <3>3, <4>1 DEF Advanced
    <3> QED BY <3>1, <3>2, <3>3
  <2>7. Backing(b)'
    <3>1. CASE waiter'[b].pc # "backoff"
      BY <3>1 DEF Backing
    <3>2. CASE waiter'[b].pc = "backoff" /\ attempt[b].payment # p
      <4>1. waiter'[b] = waiter[b] /\ attempt[b].payment \in Payments
        BY <1>2, <2>2, <3>2
      <4>2. payment'[attempt[b].payment] = payment[attempt[b].payment]
        BY <1>5, <3>2, <4>1
      <4> QED BY <1>1, <1>7, <2>1, <4>1, <4>2 DEF Backing
    <3>3. CASE waiter'[b].pc = "backoff" /\ attempt[b].payment = p
      <4>1. waiter'[b] = waiter[b] /\ b \in AttemptsOf(p)
        BY <1>2, <3>3 DEF AttemptsOf
      <4>2. waiter[b].since <= attempt[a].startedAt
        BY <1>3, <3>3, <4>1
      <4> QED BY <1>1, <1>5, <1>7, <1>8, <3>3, <4>1, <4>2 DEF Backing
    <3> QED BY <3>1, <3>2, <3>3
  <2> QED BY <2>4, <2>5, <2>6, <2>7
<1>11. ASSUME NEW q \in Payments PROVE Retried(q)' /\ Tallied(q)'
  <2>1. Retried(q) /\ Tallied(q)
    BY DEF Calm, Attended
  <2>2. CASE q = p
    <3>1. CycleAttempts(q)' \in SUBSET AttemptIds
      BY DEF CycleAttempts, AttemptsOf
    <3>2. Cardinality(CycleAttempts(q)') \in Nat
      BY <3>1, MoreAttempts
    <3> QED BY <1>5, <2>2, <3>2 DEF Retried, Tallied
  <2>3. CASE q # p
    <3>1. payment'[q] = payment[q] /\ a \notin AttemptsOf(q)
      BY <1>5, <1>p, <2>3 DEF AttemptsOf
    <3>2. SeenTo(q) => SeenTo(q)'
      BY <1>1, <1>2, <1>7, <3>1 DEF SeenTo, Recorded, AttemptsOf
    <3>3. CycleAttempts(q)' = CycleAttempts(q)
      BY <1>1, <1>7, <3>1 DEF CycleAttempts
    <3> QED BY <1>1, <2>1, <3>1, <3>2, <3>3 DEF Retried, NoRetryLeft, Tallied
  <2> QED BY <2>2, <2>3
<1> QED BY <1>9, <1>10, <1>11 DEF Attended

\* The chain, the user and time: recent successes only get older, and retries run out.
LEMMA TimeAttended ==
  ASSUME Calm, UNCHANGED <<attempt, exec, waiter>>, now' \in Nat, now <= now',
         \A q \in Payments : /\ payment'[q].payAt = payment[q].payAt
                             /\ payment'[q].count = payment[q].count
                             /\ payment'[q].nextRetry = payment[q].nextRetry
  PROVE  Attended'
<1>1. TypeInv
  BY CalmTypes
<1>2. \A b \in AttemptIds : Live(b)' = Live(b)
  BY DEF Live
<1>3. ASSUME NEW b \in AttemptIds, ~TooRecent(b) PROVE ~TooRecent(b)'
  <2>1. attempt[b].startedAt \in Nat /\ now \in Nat /\ Gap \in Int
    BY <1>1, Numbers, Spans
  <2>2. attempt[b].startedAt < now - Gap
    BY <1>3 DEF TooRecent, Gap
  <2>3. attempt[b].startedAt < now' - Gap
    BY <2>1, <2>2
  <2> QED BY <2>3 DEF TooRecent, Gap
<1>4. ASSUME NEW q \in Payments
      PROVE  /\ AttemptsOf(q)' = AttemptsOf(q) /\ CycleAttempts(q)' = CycleAttempts(q)
             /\ WithStatus(q, "succeeded")' = WithStatus(q, "succeeded")
  BY DEF AttemptsOf, CycleAttempts, WithStatus
<1>5. ASSUME NEW e \in Executors PROVE RunDue(e)' /\ RunAlone(e)'
  <2>1. RunDue(e) /\ RunAlone(e)
    BY DEF Calm, Attended
  <2>2. RunDue(e)'
    BY <1>1, <2>1, DueLasts DEF SuccessesStay, PayAtsStay
  <2>3. CASE Owns(e) \/ exec[e].pc = "backoff"
    <3>1. PICK q : q = exec[e].cur
      OBVIOUS
    <3>2. q \in Payments
      BY <2>3, <3>1, OwnAttempt
    <3>3. /\ \A b \in AttemptsOf(q) : Live(b)' => b = exec[e].att
          /\ exec[e].pc \in {"count", "record"} =>
               \A b \in WithStatus(q, "succeeded") : ~TooRecent(b)'
      BY <1>2, <1>3, <2>1, <2>3, <3>1 DEF RunAlone, AttemptsOf, WithStatus
    <3> QED BY <1>4, <2>1, <2>2, <2>3, <3>1, <3>2, <3>3 DEF RunAlone, Recorded
  <2>4. CASE ~(Owns(e) \/ exec[e].pc = "backoff")
    BY <2>2, <2>4 DEF RunAlone, Owns
  <2> QED BY <2>3, <2>4
<1>6. ASSUME NEW b \in AttemptIds
      PROVE  Cycled(b)' /\ Sent(b)' /\ Backing(b)' /\ InHands(b)' /\ Advanced(b)'
  <2>1. Cycled(b) /\ Sent(b) /\ Backing(b) /\ InHands(b) /\ Advanced(b)
    BY DEF Calm, Attended
  <2>2. Live(b) \/ waiter[b].pc = "backoff" => attempt[b].payment \in Payments
    BY <1>1 DEF TypeInv, AttemptRows, AtWork, Live
  <2>3. Cycled(b)'
    <3>1. CASE ~Live(b)
      BY <1>2, <3>1 DEF Cycled
    <3>2. CASE Live(b)
      <4>1. \A c \in AttemptsOf(attempt[b].payment) : c \in AttemptIds
        BY DEF AttemptsOf
      <4> QED BY <1>2, <1>4, <2>1, <2>2, <3>2, <4>1 DEF Cycled, AtWork
    <3> QED BY <3>1, <3>2
  <2>4. Sent(b)' /\ InHands(b)' /\ Advanced(b)'
    BY <2>1, PaymentsAssumption DEF Sent, InHands, Advanced, Owns
  <2>5. Backing(b)'
    BY <1>4, <2>1, <2>2 DEF Backing
  <2> QED BY <2>3, <2>4, <2>5
<1>7. ASSUME NEW q \in Payments PROVE Retried(q)' /\ Tallied(q)'
  <2>1. Retried(q) /\ Tallied(q)
    BY DEF Calm, Attended
  <2>2. SeenTo(q) => SeenTo(q)'
    BY DEF SeenTo, Recorded, AttemptsOf
  <2>3. NoRetryLeft(q) => NoRetryLeft(q)'
    <3>1. payment[q].payAt \in Nat /\ ValidForDays * DAY \in Nat /\ now \in Nat
      BY <1>1, Numbers, Spans
    <3> QED BY <3>1 DEF NoRetryLeft
  <2> QED BY <1>4, <2>1, <2>2, <2>3 DEF Retried, Tallied
<1> QED BY <1>5, <1>6, <1>7 DEF Attended

LEMMA RestInit == Init => RestInv
<1> SUFFICES ASSUME Init PROVE RestInv
  OBVIOUS
<1>1. OrderInv
  BY OrderInit
<1>2. /\ \A e \in Executors : exec[e].pc = "idle" /\ exec[e].batch = {}
      /\ \A a \in AttemptIds : /\ waiter[a].pc = "none" /\ attempt[a].status = "none"
                               /\ attempt[a].payment = NULL
      /\ \A p \in Payments : payment[p].count = 0
  BY DEF Init, Idle, LoopHead, Job
<1>3. InTime
  BY <1>2 DEF InTime, AtWork
<1>4. \A e \in Executors : RunDue(e) /\ RunAlone(e)
  BY <1>2 DEF RunDue, RunAlone, Checking, Owns
<1>5. \A a \in AttemptIds : Cycled(a) /\ Sent(a) /\ Backing(a) /\ InHands(a) /\ Advanced(a)
  BY <1>2 DEF Cycled, Live, Sent, Backing, InHands, Advanced
<1>6. ASSUME NEW p \in Payments PROVE Retried(p) /\ Tallied(p)
  <2>1. CycleAttempts(p) \in SUBSET AttemptIds
    BY DEF CycleAttempts, AttemptsOf
  <2>2. Cardinality(CycleAttempts(p)) \in Nat
    BY <2>1, MoreAttempts
  <2> QED BY <1>2, <2>2 DEF Retried, Tallied
<1> QED BY <1>1, <1>3, <1>4, <1>5, <1>6 DEF RestInv, Attended

LEMMA RunAttended ==
  ASSUME OneExecutor, FarApart, Calm, NEW e \in Executors, ExecutorStep(e)
  PROVE  Attended'
<1>1. CASE CheckInProgress(e)
  <2>1. Checking(e) /\ UNCHANGED <<now, payment, attempt, waiter>>
    BY <1>1 DEF CheckInProgress, Checking, dbVars
  <2>2. LeavePayment(e) \/ \E pc \in {"recent", "create"} : Goto(e, pc)
    BY <1>1 DEF CheckInProgress
  <2> QED BY <2>1, <2>2, LeaveAttended, CheckAttended
<1>2. CASE CheckLastSuccess(e)
  <2>1. Checking(e) /\ UNCHANGED <<now, payment, attempt, waiter>>
    BY <1>2 DEF CheckLastSuccess, Checking, dbVars
  <2>2. LeavePayment(e) \/ Goto(e, "create")
    BY <1>2 DEF CheckLastSuccess
  <2> QED BY <2>1, <2>2, LeaveAttended, CheckAttended
<1>3. CASE NoQuote(e)
  BY <1>3, LeaveAttended DEF NoQuote, Checking, dbVars
<1> QED BY <1>1, <1>2, <1>3, FetchAttended, ReadAttended, PickAttended, CreateAttended,
           CountAttended, RecordAttended, SubmitAttended, SaveHashAttended, EnqueueAttended,
           FailAttended, ScheduleRetryAttended DEF ExecutorStep

LEMMA WorldAttended ==
  ASSUME Calm,
         \/ \E a \in AttemptIds : MineTx(a) \/ LoseTx(a)
         \/ \E p \in Payments : SubmitCancel(p) \/ PatchCancel(p) \/ MineCancel(p)
         \/ Tick
         \/ UNCHANGED vars
  PROVE  Attended'
<1>1. TypeInv /\ now \in Nat
  BY CalmTypes, Numbers
<1>2. /\ UNCHANGED <<attempt, exec, waiter>> /\ now' \in {now, now + 1}
      /\ payment' = payment \/ \E p \in Payments : PatchCancel(p)
  BY DEF MineTx, LoseTx, SubmitCancel, PatchCancel, MineCancel, Tick, vars, dbVars
<1>3. ASSUME NEW q \in Payments
      PROVE  /\ payment'[q].payAt = payment[q].payAt /\ payment'[q].count = payment[q].count
             /\ payment'[q].nextRetry = payment[q].nextRetry
  BY <1>1, <1>2 DEF PatchCancel, TypeInv, TypeOK, PaymentRow
<1> QED BY <1>1, <1>2, <1>3, TimeAttended

LEMMA AttendedKept ==
  ASSUME OneExecutor, FarApart, Calm, [Next]_vars, faults' = 0
  PROVE  Attended'
<1>1. TypeInv /\ faults \in Nat
  BY CalmTypes, TimeAssumption DEF TypeInv, TypeOK
<1>2. CASE \E e \in Executors : ExecutorStep(e)
  BY <1>2, RunAttended
<1>3. CASE \E a \in AttemptIds : WaiterStep(a) \/ UnknownError(a)
  BY <1>3, StartAttended, VerdictAttended, MarkSucceededAttended, ResetAttended,
     AdvanceAttended, MarkFailedAttended, WaiterRetryAttended DEF WaiterStep
<1>4. ~ \E e \in Executors : ExecutorError(e) \/ ExecutorCrash(e)
  BY <1>1 DEF ExecutorError, ExecutorCrash
<1>5. ~ \E a \in AttemptIds : WaiterFault(a)
  BY <1>1 DEF WaiterFault
<1> QED BY <1>2, <1>3, <1>4, <1>5, WorldAttended DEF Next

LEMMA FaultsGrow ==
  ASSUME TypeInv, [Next]_vars, faults' = 0
  PROVE  faults = 0
<1>1. faults \in Nat
  BY TimeAssumption DEF TypeInv, TypeOK
<1>2. faults' = faults \/ faults' = faults + 1
  BY DEF Next, vars, ExecutorStep, Fetch, ReadRows, PickNext, CheckInProgress,
         CheckLastSuccess, NoQuote, CreateAttempt, CountAttempts, RecordAttempt, Submit,
         SaveHash, EnqueueWaiter, FailAttempt, ScheduleRetry, ExecutorError, ExecutorCrash,
         WaiterStep, StartWaiter, TxConfirmed, TxRefused, TookTooLong, UnknownError,
         MarkSucceeded, ResetRetries, AdvancePayAt, MarkFailed, WaiterScheduleRetry,
         WaiterFault, MineTx, LoseTx, SubmitCancel, PatchCancel, MineCancel, Tick
<1> QED BY <1>1, <1>2

LEMMA RestStep ==
  ASSUME OneExecutor, FarApart, RestInv, [Next]_vars
  PROVE  RestInv'
<1>1. TypeInv /\ OrderInv /\ InTime
  BY DEF RestInv, OrderInv, OneInv
<1>2. OrderInv' /\ InTime'
  BY <1>1, OrderStep, InTimeKept
<1>3. ASSUME faults' = 0 PROVE Attended'
  BY <1>1, <1>3, FaultsGrow, AttendedKept DEF RestInv, Calm
<1> QED BY <1>2, <1>3 DEF RestInv

LEMMA RestImplies == RestInv => NotForgotten
<1> SUFFICES ASSUME RestInv, faults = 0, NEW p \in Payments, AtRest(p)
             PROVE  /\ WithStatus(p, "inProgress") = {}
                    /\ \/ payment[p].nextRetry # NULL
                       \/ payment[p].count = 0
                       \/ payment[p].count >= Len(RetryBackoffs)
                       \/ payment[p].payAt + ValidForDays * DAY <= now
                    /\ p \in Recurring => MovedOn(p)
  BY DEF NotForgotten
<1>1. Attended /\ TypeInv
  BY DEF RestInv, OrderInv, OneInv
<1>2. /\ \A e \in Executors : exec[e].cur # p
      /\ \A a \in AttemptsOf(p) : waiter[a].pc \in {"none", "done"}
  BY DEF AtRest
<1>3. ASSUME NEW a \in WithStatus(p, "inProgress") PROVE FALSE
  <2>1. a \in AttemptIds /\ attempt[a].payment = p /\ InHands(a) /\ a \in AttemptsOf(p)
    BY <1>1 DEF WithStatus, AttemptsOf, Attended
  <2>2. PICK e \in Executors : Owns(e) /\ exec[e].att = a
    BY <1>2, <1>3, <2>1 DEF InHands, WithStatus
  <2>3. exec[e].cur = p
    BY <1>1, <2>1, <2>2 DEF TypeInv, ExecutorLocals, Placed, Owns
  <2> QED BY <1>2, <2>3
<1>4. ~SeenTo(p) /\ Retried(p)
  BY <1>1, <1>2 DEF SeenTo, Attended
<1>5. ASSUME p \in Recurring, NEW a \in WithStatus(p, "succeeded")
      PROVE  \/ attempt[a].startedAt < payment[p].payAt
             \/ payment[p].payAt + CycleLength > RecurringUntil[p]
  <2>1. a \in AttemptIds /\ attempt[a].payment = p /\ attempt[a].status = "succeeded"
    BY DEF WithStatus, AttemptsOf
  <2>2. Advanced(a) /\ waiter[a].pc \in {"none", "done"}
    BY <1>1, <1>2, <2>1 DEF Attended, AttemptsOf
  <2> QED BY <1>5, <2>1, <2>2 DEF Advanced
<1>6. p \in Recurring => MovedOn(p)
  BY <1>5 DEF MovedOn
<1> QED BY <1>3, <1>4, <1>6 DEF Retried, NoRetryLeft

\* When one run of the executor works at a time, and a payment's dates are further
\* apart than it can be tried for, no step sequence loses a payment as long as nothing
\* fails: at rest it has no attempt in progress, it has a retry or a reason to have
\* none, and each success has moved payAt on.  The runs of the jobs are short against
\* the days of validity, and those against the month between two dates.
THEOREM NoPaymentForgotten ==
  ASSUME OneExecutor, FarApart
  PROVE  Spec => []NotForgotten
<1>1. Init => RestInv
  BY RestInit
<1>2. RestInv /\ [Next]_vars => RestInv'
  BY RestStep
<1>3. RestInv => NotForgotten
  BY RestImplies
<1> QED BY <1>1, <1>2, <1>3, PTL DEF Spec

----------------------------------------------------------------------------
(* Any number of runs.  Each run is counted for one attempt in progress: a *)
(* run that found none of its payment is about to create at most one, and  *)
(* one that looks again finds those that are there.                        *)

InProgress(p) ==
  {a \in AttemptIds : attempt[a].payment = p /\ attempt[a].status = "inProgress"}
AboutTo(p) == {e \in Executors : exec[e].pc \in {"recent", "create"} /\ exec[e].cur = p}
SlotsInv ==
  /\ TypeInv
  /\ \A p \in Payments :
       Cardinality(InProgress(p)) + Cardinality(AboutTo(p)) <= Cardinality(Executors)

\* Attempts and runs can be counted, before a step and after it.
LEMMA CanBeCounted ==
  ASSUME IsFiniteSet(Executors), NEW p
  PROVE  /\ IsFiniteSet(InProgress(p)) /\ Cardinality(InProgress(p)) \in Nat
         /\ IsFiniteSet(AboutTo(p)) /\ Cardinality(AboutTo(p)) \in Nat
         /\ IsFiniteSet(InProgress(p)') /\ Cardinality(InProgress(p)') \in Nat
         /\ IsFiniteSet(AboutTo(p)') /\ Cardinality(AboutTo(p)') \in Nat
<1>1. IsFiniteSet(AttemptIds)
  BY FS_Interval, AttemptsAssumption DEF AttemptIds
<1>2. /\ InProgress(p) \in SUBSET AttemptIds /\ InProgress(p)' \in SUBSET AttemptIds
      /\ AboutTo(p) \in SUBSET Executors /\ AboutTo(p)' \in SUBSET Executors
  BY DEF InProgress, AboutTo
<1>3. IsFiniteSet(InProgress(p)) /\ IsFiniteSet(InProgress(p)')
  BY <1>1, <1>2, FS_Subset
<1>4. IsFiniteSet(AboutTo(p)) /\ IsFiniteSet(AboutTo(p)')
  BY <1>2, FS_Subset
<1> QED BY <1>3, <1>4, FS_CardinalityType

\* A run comes to where it may create an attempt only by finding none.
LEMMA NewcomerFindsNone ==
  ASSUME TypeInv, [Next]_vars, NEW p, NEW e \in Executors, e \in AboutTo(p)', e \notin AboutTo(p)
  PROVE  InProgress(p) = {}
<1>1. exec'[e].pc \in {"recent", "create"} /\ exec'[e].cur = p
  BY DEF AboutTo
<1>2. exec'[e] # exec[e]
  BY <1>1 DEF AboutTo
<1>3. CheckInProgress(e) \/ CheckLastSuccess(e)
  BY <1>1, <1>2, OneRunMoves, WayToCreation
<1>4. CASE CheckInProgress(e)
  <2>1. WithStatus(exec[e].cur, "inProgress") = {} /\ exec'[e].cur = exec[e].cur
    BY <1>1, <1>4, LeaveMoves DEF CheckInProgress, TypeInv, TypeOK, Goto, ExecState
  <2> QED BY <1>1, <2>1 DEF WithStatus, AttemptsOf, InProgress
<1>5. CASE CheckLastSuccess(e)
  <2>1. exec[e].pc = "recent" /\ exec'[e].cur = exec[e].cur
    BY <1>1, <1>5, LeaveMoves DEF CheckLastSuccess, TypeInv, TypeOK, Goto, ExecState
  <2> QED BY <1>1, <2>1 DEF AboutTo
<1> QED BY <1>3, <1>4, <1>5

\* What a creation adds to the attempts in progress, its run no longer stands for.
LEMMA CreationTakesASlot ==
  ASSUME IsFiniteSet(Executors), SlotsInv, [Next]_vars, NEW e \in Executors, CreateAttempt(e),
         NEW p \in Payments
  PROVE  Cardinality(InProgress(p)') + Cardinality(AboutTo(p)') <= Cardinality(Executors)
<1>1. TypeInv /\ Cardinality(Executors) \in Nat
  BY FS_CardinalityType DEF SlotsInv
<1>2. PICK n \in AttemptIds : Creates(e, n)
  BY <1>1, NewRow
<1>3. exec[e].pc = "create" /\ exec'[e].pc = "count" /\ exec[e].cur = exec'[e].cur
      /\ \A f \in Executors \ {e} : exec'[f] = exec[f]
  BY <1>1 DEF CreateAttempt, TypeInv, TypeOK, ExecState
<1>4. \A f \in AboutTo(p)' : f \in AboutTo(p) /\ f # e
  BY <1>3 DEF AboutTo
<1>5. \A a \in InProgress(p)' : a \in InProgress(p) \/ a = n
  BY <1>2 DEF InProgress, Creates, SameRow
<1>6. Cardinality(InProgress(p)) + Cardinality(AboutTo(p)) <= Cardinality(Executors)
  BY DEF SlotsInv
<1>7. CASE exec[e].cur = p
  <2>1. e \in AboutTo(p) /\ AboutTo(p)' \in SUBSET (AboutTo(p) \ {e})
    BY <1>3, <1>4, <1>7 DEF AboutTo
  <2>2. /\ IsFiniteSet(AboutTo(p) \ {e})
        /\ Cardinality(AboutTo(p) \ {e}) = Cardinality(AboutTo(p)) - 1
    BY <2>1, CanBeCounted, FS_RemoveElement
  <2>3. Cardinality(AboutTo(p)') <= Cardinality(AboutTo(p)) - 1
    BY <2>1, <2>2, FS_Subset
  <2>4. InProgress(p)' \in SUBSET (InProgress(p) \cup {n})
    BY <1>5
  <2>5. /\ IsFiniteSet(InProgress(p) \cup {n}) /\ Cardinality(InProgress(p) \cup {n}) \in Nat
        /\ Cardinality(InProgress(p) \cup {n}) <= Cardinality(InProgress(p)) + 1
    BY CanBeCounted, OneMore
  <2>6. Cardinality(InProgress(p)') <= Cardinality(InProgress(p) \cup {n})
    BY <2>4, <2>5, FS_Subset
  <2> QED BY <1>1, <1>6, <2>3, <2>5, <2>6, CanBeCounted
<1>8. CASE exec[e].cur # p
  <2>1. n \notin InProgress(p)'
    BY <1>2, <1>8 DEF InProgress, Creates
  <2>2. InProgress(p)' \in SUBSET InProgress(p) /\ AboutTo(p)' \in SUBSET AboutTo(p)
    BY <1>4, <1>5, <2>1
  <2>3. /\ Cardinality(InProgress(p)') <= Cardinality(InProgress(p))
        /\ Cardinality(AboutTo(p)') <= Cardinality(AboutTo(p))
    BY <2>2, CanBeCounted, FS_Subset
  <2> QED BY <1>1, <1>6, <2>3, CanBeCounted
<1> QED BY <1>7, <1>8

\* Without a creation, a run is counted for a payment only if it was before, or if
\* the payment has no attempt in progress at all.
LEMMA OtherStepsKeepSlots ==
  ASSUME IsFiniteSet(Executors), SlotsInv, [Next]_vars, NoNewAttempt, NEW p \in Payments
  PROVE  Cardinality(InProgress(p)') + Cardinality(AboutTo(p)') <= Cardinality(Executors)
<1>1. TypeInv /\ Cardinality(Executors) \in Nat
  BY FS_CardinalityType DEF SlotsInv
<1>2. InProgress(p)' \in SUBSET InProgress(p)
  BY DEF NoNewAttempt, InProgress
<1>3. CASE AboutTo(p)' \in SUBSET AboutTo(p)
  <2>1. /\ Cardinality(InProgress(p)') <= Cardinality(InProgress(p))
        /\ Cardinality(AboutTo(p)') <= Cardinality(AboutTo(p))
    BY <1>2, <1>3, CanBeCounted, FS_Subset
  <2>2. Cardinality(InProgress(p)) + Cardinality(AboutTo(p)) <= Cardinality(Executors)
    BY DEF SlotsInv
  <2> QED BY <1>1, <2>1, <2>2, CanBeCounted
<1>4. CASE ~(AboutTo(p)' \in SUBSET AboutTo(p))
  <2>1. PICK e \in AboutTo(p)' : e \notin AboutTo(p)
    BY <1>4
  <2>2. InProgress(p) = {}
    BY <1>1, <2>1, NewcomerFindsNone DEF AboutTo
  <2>3. Cardinality(InProgress(p)') = 0
    BY <1>2, <2>2, FS_EmptySet
  <2>4. AboutTo(p)' \in SUBSET Executors
    BY DEF AboutTo
  <2>5. Cardinality(AboutTo(p)') <= Cardinality(Executors)
    BY <2>4, FS_Subset
  <2> QED BY <1>1, <2>3, <2>5, CanBeCounted
<1> QED BY <1>3, <1>4

LEMMA SlotsInit ==
  ASSUME IsFiniteSet(Executors)
  PROVE  Init => SlotsInv
<1> SUFFICES ASSUME Init, NEW p \in Payments
             PROVE  Cardinality(InProgress(p)) + Cardinality(AboutTo(p)) <= Cardinality(Executors)
  BY TypeInit DEF SlotsInv
<1>1. InProgress(p) = {} /\ AboutTo(p) = {}
  BY DEF Init, InProgress, AboutTo, Idle, LoopHead
<1>2. Cardinality(Executors) \in Nat
  BY FS_CardinalityType
<1> QED BY <1>1, <1>2, FS_EmptySet

LEMMA SlotsStep ==
  ASSUME IsFiniteSet(Executors)
  PROVE  SlotsInv /\ [Next]_vars => SlotsInv'
<1> SUFFICES ASSUME SlotsInv, [Next]_vars PROVE SlotsInv'
  OBVIOUS
<1>1. TypeInv /\ TypeInv'
  BY TypeStep DEF SlotsInv
<1>2. ASSUME NEW p \in Payments
      PROVE  Cardinality(InProgress(p)') + Cardinality(AboutTo(p)') <= Cardinality(Executors)
  BY <1>1, CreationTakesASlot, OtherStepsKeepSlots, OnlyCreateAttemptCreates
<1> QED BY <1>1, <1>2 DEF SlotsInv

\* However many runs of the executor overlap, crash and start again, a payment has
\* no more attempts in progress than there are runs: the check before the creation
\* bounds what overlapping runs can do, although it does not stop it (SP_overlap).
THEOREM OneForEachRun ==
  ASSUME IsFiniteSet(Executors)
  PROVE  Spec => []OnePerRun
<1>1. Init => SlotsInv
  BY SlotsInit
<1>2. SlotsInv /\ [Next]_vars => SlotsInv'
  BY SlotsStep
<1>3. SlotsInv => OnePerRun
  <2> SUFFICES ASSUME SlotsInv, NEW p \in Payments
               PROVE  Cardinality(InProgress(p)) <= Cardinality(Executors)
    BY DEF OnePerRun, InProgress
  <2>1. Cardinality(InProgress(p)) + Cardinality(AboutTo(p)) <= Cardinality(Executors)
    BY DEF SlotsInv
  <2> QED BY <2>1, CanBeCounted, FS_CardinalityType
<1> QED BY <1>1, <1>2, <1>3, PTL DEF Spec

----------------------------------------------------------------------------
(* In time.  Whatever fails, a run gets only to payments that are due: what*)
(* moves payAt on is the success of a live attempt of the current cycle,   *)
(* and after it the run finds the payment too recent.                      *)

\* The payments that a run has yet to attempt are due, or were paid lately.
Awaited(e) ==
  exec[e].pc # "idle" =>
    /\ \A r \in exec[e].batch : StillDue(e, r.id)
    /\ Checking(e) => StillDue(e, exec[e].cur)

\* A live attempt is the only one of its payment, was started in its current cycle,
\* and its job has read the date of that cycle.
InCycle(a) ==
  Live(a) =>
    LET p == attempt[a].payment IN
    /\ payment[p].payAt <= attempt[a].startedAt
    /\ attempt[a].startedAt < payment[p].payAt + Window
    /\ \A b \in AttemptsOf(p) : Live(b) => b = a
    /\ AtWork(a) => waiter[a].payAt = payment[p].payAt

TimelyInv ==
  /\ OrderInv /\ InTime
  /\ \A e \in Executors : Awaited(e)
  /\ \A a \in AttemptIds : InCycle(a)

LEMMA TimelyTypes == TimelyInv => TypeInv /\ JobInv /\ Handed
BY DEF TimelyInv, OrderInv, JobInv, PaidInv

\* The attempt that a run creates is the only live one, and is of the current cycle.
LEMMA StartsItsCycle ==
  ASSUME FarApart, TimelyInv, NEW e \in Executors, CreateAttempt(e)
  PROVE  /\ exec[e].cur \in Payments
         /\ \A b \in AttemptsOf(exec[e].cur) : ~Live(b)
         /\ payment[exec[e].cur].payAt <= now
         /\ now < payment[exec[e].cur].payAt + Window
<1>1. exec[e].pc = "create" /\ TypeInv
  BY TimelyTypes DEF CreateAttempt
<1>2. StillDue(e, exec[e].cur)
  BY <1>1 DEF TimelyInv, Awaited, Checking
<1>3. \A b \in AttemptsOf(exec[e].cur) :
        Live(b) => payment[exec[e].cur].payAt <= attempt[b].startedAt
  BY DEF TimelyInv, InCycle, AttemptsOf
<1>4. /\ exec[e].cur \in Payments /\ ~Lately(e, exec[e].cur)
      /\ \A b \in AttemptsOf(exec[e].cur) : ~Live(b)
  BY <1>1, <1>2, <1>3, CreatesAlone DEF TimelyInv
<1> QED BY <1>1, <1>2, <1>4, CreatesInCycle DEF TimelyInv

\* A success is never taken back.
LEMMA SuccessesLast ==
  ASSUME JobInv, [Next]_vars
  PROVE  SuccessesStay
<1> SUFFICES ASSUME NEW a \in AttemptIds, attempt[a].status = "succeeded"
             PROVE  /\ attempt'[a].status = "succeeded"
                    /\ attempt'[a].payment = attempt[a].payment
                    /\ attempt'[a].startedAt = attempt[a].startedAt
  BY DEF SuccessesStay
<1>1. ASSUME NEW e \in Executors, NEW n \in AttemptIds, Creates(e, n) PROVE SameRow(a)
  BY <1>1 DEF Creates
<1>2. ASSUME NEW b \in AttemptIds, NEW status \in {"succeeded", "failed"}, Ends(b, status)
      PROVE  SameRow(a)
  BY <1>2 DEF Ends
<1>3. SameRow(a)
  BY <1>1, <1>2, RowSteps
<1> QED BY <1>3 DEF SameRow

\* A payment that a run waits to attempt stays due, or has just been paid.
LEMMA DueOrPaid ==
  ASSUME TimelyInv, [Next]_vars, NEW e \in Executors, exec'[e].since = exec[e].since,
         NEW q \in Payments, StillDue(e, q)
  PROVE  StillDue(e, q)'
<1>1. TypeInv /\ JobInv /\ Handed /\ SuccessesStay
  BY TimelyTypes, SuccessesLast
<1>2. Lately(e, q) => Lately(e, q)'
  BY <1>1 DEF SuccessesStay, Lately, Near, WithStatus, AttemptsOf
<1>3. CASE payment'[q].payAt = payment[q].payAt
  BY <1>2, <1>3 DEF StillDue, Near
<1>4. ASSUME NEW a \in AttemptIds, AdvancePayAt(a), attempt[a].payment = q,
             payment'[q].payAt = waiter[a].payAt + CycleLength
      PROVE  StillDue(e, q)'
  <2>1. Live(a) /\ AtWork(a) /\ attempt[a].status = "succeeded"
    BY <1>1, <1>4 DEF AdvancePayAt, Live, AtWork, Handed, JobFits
  <2>2. payment[q].payAt <= attempt[a].startedAt /\ waiter[a].payAt = payment[q].payAt
    BY <1>4, <2>1 DEF TimelyInv, InCycle
  <2>3. /\ exec[e].since \in Nat /\ payment[q].payAt \in Nat /\ attempt[a].startedAt \in Nat
        /\ CycleLength \in Nat /\ Validity \in Nat
    BY <1>1, Numbers, Spans
  <2>4. exec[e].since + 1 < payment[q].payAt + Validity
    BY DEF StillDue, Near
  <2>5. Near(e, attempt[a].startedAt)
    BY <2>2, <2>3, <2>4 DEF Near
  <2>6. Lately(e, q)'
    BY <1>2, <1>4, <2>1, <2>5 DEF Lately, WithStatus, AttemptsOf
  <2>7. exec[e].since + 1 < payment'[q].payAt + Validity
    BY <1>4, <2>2, <2>3, <2>4
  <2> QED BY <2>6, <2>7 DEF StillDue, Near
<1> QED BY <1>1, <1>3, <1>4, PayAtWriter

LEMMA AwaitedByFetch ==
  ASSUME TypeInv, NEW e \in Executors, Fetch(e)
  PROVE  Awaited(e)'
<1>1. exec[e].pc = "idle" /\ UNCHANGED <<now, payment, attempt>>
  BY DEF Fetch, dbVars
<1>2. PICK b \in Batches : exec' = [exec EXCEPT ![e] = IF b = {} THEN Idle
                                   ELSE [LoopHead(now, b) EXCEPT !.pc = "rows"]]
  BY DEF Fetch
<1>3. exec'[e] = IF b = {} THEN Idle ELSE [LoopHead(now, b) EXCEPT !.pc = "rows"]
  BY <1>2 DEF TypeInv, TypeOK
<1>4. /\ exec'[e].batch = b /\ exec'[e].pc \in {"idle", "rows"}
      /\ b # {} => exec'[e].since = now
  BY <1>3 DEF Idle, LoopHead
<1>5. ASSUME NEW r \in b PROVE StillDue(e, r.id)'
  <2>1. r.id \in Payments /\ IsDue(r.id)
    BY <1>5 DEF Batches, AsFetched
  <2>2. payment[r.id].payAt <= now /\ now + 1 < payment[r.id].payAt + Validity
    BY <2>1, DueIsNear
  <2> QED BY <1>1, <1>4, <2>2 DEF StillDue, Near
<1> QED BY <1>4, <1>5 DEF Awaited, Checking

LEMMA AwaitedKept ==
  ASSUME TimelyInv, [Next]_vars, NEW e \in Executors
  PROVE  Awaited(e)'
<1>1. TypeInv
  BY TimelyTypes
<1>2. CASE ~Fetch(e) /\ exec'[e].pc # "idle"
  <2>1. exec[e].pc # "idle" /\ exec'[e].since = exec[e].since
    BY <1>1, <1>2, SinceKept
  <2>2. /\ \A r \in exec[e].batch : StillDue(e, r.id)
        /\ Checking(e) => StillDue(e, exec[e].cur)
    BY <2>1 DEF TimelyInv, Awaited
  <2>3. exec[e].batch \in SUBSET Fetched /\ \A r \in exec[e].batch : r.id \in Payments
    BY <1>1 DEF TypeInv, TypeOK, ExecState, Fetched
  <2>4. \A r \in exec[e].batch : StillDue(e, r.id)'
    BY <2>1, <2>2, <2>3, DueOrPaid
  <2>5. ASSUME NEW q \in Payments, q = exec'[e].cur, StillDue(e, q)'
        PROVE  StillDue(e, exec[e].cur)'
    BY <2>5 DEF StillDue, Lately, WithStatus, AttemptsOf
  <2>6. CASE RereadBatch(e)
    <3>1. \A r \in exec[e].batch : AsRead(r).id = r.id
      BY <2>3 DEF AsRead, Fetched
    <3>2. ASSUME NEW s \in exec'[e].batch PROVE StillDue(e, s.id)'
      <4>1. PICK r \in exec[e].batch : s = AsRead(r)
        BY <2>6 DEF RereadBatch
      <4>2. s.id = r.id
        BY <3>1, <4>1
      <4> QED BY <2>4, <4>2 DEF StillDue, Lately, WithStatus, AttemptsOf
    <3> QED BY <2>6, <3>2 DEF RereadBatch, Awaited
  <2>7. CASE TakesNext(e)
    <3>1. PICK r \in exec[e].batch : /\ exec'[e].batch = exec[e].batch \ {r}
                                     /\ exec'[e].cur = r.id
      BY <2>7 DEF TakesNext
    <3>2. StillDue(e, exec[e].cur)'
      BY <2>3, <2>4, <2>5, <3>1
    <3> QED BY <2>4, <3>1, <3>2 DEF Awaited
  <2>8. CASE GoesOn(e)
    <3>1. ASSUME Checking(e)' PROVE StillDue(e, exec[e].cur)'
      <4>1. Checking(e) /\ exec'[e].cur = exec[e].cur
        BY <2>8, <3>1 DEF GoesOn
      <4>2. PICK q : q = exec[e].cur
        OBVIOUS
      <4>3. q \in Payments
        BY <1>1, <4>1, <4>2 DEF TypeInv, ExecutorLocals, Placed, Checking
      <4>4. StillDue(e, q)'
        BY <2>1, <2>2, <4>1, <4>2, <4>3, DueOrPaid
      <4> QED BY <2>5, <4>1, <4>2, <4>3, <4>4
    <3> QED BY <2>4, <2>8, <3>1 DEF GoesOn, Awaited
  <2> QED BY <1>1, <1>2, <2>6, <2>7, <2>8, RunMoves DEF NewBatch
<1>3. CASE exec'[e].pc = "idle"
  BY <1>3 DEF Awaited
<1> QED BY <1>1, <1>2, <1>3, AwaitedByFetch

\* Only its creation makes an attempt live.
LEMMA NoNewLife ==
  ASSUME JobInv, [Next]_vars, \A e \in Executors : ~CreateAttempt(e),
         NEW a \in AttemptIds, Live(a)'
  PROVE  /\ Live(a) /\ attempt'[a].payment = attempt[a].payment
         /\ attempt'[a].startedAt = attempt[a].startedAt
<1>1. TypeInv /\ JobFits(a)
  BY DEF JobInv, PaidInv, Handed
<1>2. SameRow(a) \/ \E status \in {"succeeded", "failed"} : Ends(a, status)
  BY RowSteps DEF Creates, Ends
<1>3. /\ attempt'[a].payment = attempt[a].payment
      /\ attempt'[a].startedAt = attempt[a].startedAt
      /\ attempt'[a].status = "inProgress" => attempt[a].status = "inProgress"
  BY <1>2 DEF SameRow, Ends
<1>4. ASSUME waiter'[a].pc \in {"reset", "advance"} PROVE Live(a)
  <2>1. ASSUME WaiterStep(a) \/ UnknownError(a) \/ WaiterFault(a) PROVE Live(a)
    <3>1. Parked(a) \/ Started(a) \/ Onward(a) \/ Ended(a)
      BY <1>1, <2>1, WaiterMoves
    <3> QED BY <1>1, <1>4, <3>1 DEF Parked, Started, Onward, Ended, Live, JobFits
  <2>2. ASSUME NEW e \in Executors, EnqueueWaiter(e), exec[e].att = a PROVE FALSE
    BY <1>1, <1>4, <2>2 DEF EnqueueWaiter, Job, TypeInv, TypeOK
  <2> QED BY <1>1, <1>4, <2>1, <2>2, OneJobMoves DEF Live
<1> QED BY <1>3, <1>4 DEF Live

\* A job reads the date when it starts, and keeps it.
LEMMA JobReadsDate ==
  ASSUME TypeInv, [Next]_vars, NEW a \in AttemptIds, AtWork(a)'
  PROVE  \/ AtWork(a) /\ waiter'[a].payAt = waiter[a].payAt
         \/ waiter'[a].payAt = payment[attempt[a].payment].payAt
<1>1. ASSUME WaiterStep(a) \/ UnknownError(a) \/ WaiterFault(a)
      PROVE  \/ AtWork(a) /\ waiter'[a].payAt = waiter[a].payAt
             \/ waiter'[a].payAt = payment[attempt[a].payment].payAt
  <2>1. Parked(a) \/ Started(a) \/ Onward(a) \/ Ended(a)
    BY <1>1, WaiterMoves
  <2> QED BY <2>1 DEF Parked, Started, Onward, Ended, AtWork
<1>2. ASSUME NEW e \in Executors, EnqueueWaiter(e), exec[e].att = a PROVE FALSE
  BY <1>2 DEF EnqueueWaiter, Job, TypeInv, TypeOK, AtWork
<1>3. CASE waiter'[a] = waiter[a]
  BY <1>3 DEF AtWork
<1> QED BY <1>1, <1>2, <1>3, OneJobMoves

LEMMA InCycleByCreation ==
  ASSUME FarApart, TimelyInv, [Next]_vars, NEW e \in Executors, CreateAttempt(e),
         NEW a \in AttemptIds
  PROVE  InCycle(a)'
<1>1. TypeInv /\ Handed /\ UNCHANGED <<now, payment, waiter>>
  BY TimelyTypes DEF CreateAttempt
<1>2. PICK n \in AttemptIds : Creates(e, n)
  BY <1>1, NewRow
<1>p. PICK p : p = exec[e].cur
  OBVIOUS
<1>3. /\ p \in Payments /\ \A b \in AttemptsOf(p) : ~Live(b)
      /\ payment[p].payAt <= now /\ now < payment[p].payAt + Window
  BY <1>p, StartsItsCycle
<1>4. /\ attempt[n].status = "none" /\ attempt'[n].payment = p /\ attempt'[n].startedAt = now
      /\ attempt'[n].status = "inProgress" /\ \A b \in AttemptIds \ {n} : SameRow(b)
  BY <1>2, <1>p DEF Creates
<1>5. waiter[n].pc = "none"
  BY <1>1, <1>4 DEF Handed, JobFits
<1>6. \A b \in AttemptIds \ {n} : Live(b)' = Live(b)
  BY <1>1, <1>4 DEF Live, SameRow
<1>7. \A b \in AttemptIds : Live(b)' /\ attempt'[b].payment = p => b = n
  BY <1>3, <1>4, <1>6 DEF AttemptsOf, SameRow
<1>8. CASE a = n
  BY <1>1, <1>3, <1>4, <1>5, <1>7, <1>8 DEF InCycle, AtWork, AttemptsOf
<1>9. CASE a # n /\ Live(a)'
  <2>1. SameRow(a) /\ Live(a) /\ InCycle(a) /\ attempt[a].payment # p
    BY <1>4, <1>6, <1>7, <1>9 DEF TimelyInv, SameRow
  <2>2. \A b \in AttemptIds : Live(b)' /\ attempt'[b].payment = attempt[a].payment => b = a
    BY <1>4, <1>6, <2>1 DEF InCycle, AttemptsOf, SameRow
  <2> QED BY <1>1, <2>1, <2>2 DEF InCycle, SameRow, AtWork, AttemptsOf
<1> QED BY <1>8, <1>9 DEF InCycle

LEMMA InCycleOtherwise ==
  ASSUME TimelyInv, [Next]_vars, \A e \in Executors : ~CreateAttempt(e), NEW a \in AttemptIds
  PROVE  InCycle(a)'
<1> SUFFICES ASSUME Live(a)' PROVE InCycle(a)'
  BY DEF InCycle
<1>q. PICK q : q = attempt[a].payment
  OBVIOUS
<1>1. TypeInv /\ JobInv /\ Handed
  BY TimelyTypes
<1>2. /\ Live(a) /\ attempt'[a].payment = q /\ attempt'[a].startedAt = attempt[a].startedAt
  BY <1>1, <1>q, NoNewLife
<1>3. q \in Payments
  BY <1>1, <1>2, <1>q DEF TypeInv, AttemptRows, Live, AtWork
<1>4. /\ payment[q].payAt <= attempt[a].startedAt
      /\ attempt[a].startedAt < payment[q].payAt + Window
      /\ \A b \in AttemptsOf(q) : Live(b) => b = a
      /\ AtWork(a) => waiter[a].payAt = payment[q].payAt
  BY <1>2, <1>q DEF TimelyInv, InCycle
<1>5. ASSUME NEW b \in AttemptIds, AdvancePayAt(b), attempt[b].payment = q PROVE FALSE
  <2>1. waiter[b].pc = "advance" /\ waiter'[b].pc = "done" /\ attempt' = attempt
    BY <1>1, <1>5 DEF AdvancePayAt, JobDone, Job, TypeInv, TypeOK, dbVars
  <2>2. b = a
    BY <1>4, <1>5, <2>1 DEF Live, AttemptsOf
  <2>3. attempt'[a].status = "succeeded"
    BY <1>1, <2>1, <2>2 DEF Handed, JobFits
  <2> QED BY <2>1, <2>2, <2>3 DEF Live
<1>6. payment'[q].payAt = payment[q].payAt
  BY <1>1, <1>3, <1>5, PayAtWriter
<1>7. \A b \in AttemptIds : Live(b)' /\ attempt'[b].payment = q => b = a
  BY <1>1, <1>4, NoNewLife DEF AttemptsOf
<1>8. AtWork(a)' => waiter'[a].payAt = payment[q].payAt
  BY <1>1, <1>4, <1>q, JobReadsDate
<1> QED BY <1>2, <1>4, <1>6, <1>7, <1>8 DEF InCycle, AttemptsOf

LEMMA TimelyInit == Init => TimelyInv
<1> SUFFICES ASSUME Init PROVE TimelyInv
  OBVIOUS
<1>1. OrderInv
  BY OrderInit
<1>2. /\ \A e \in Executors : exec[e].pc = "idle"
      /\ \A a \in AttemptIds : waiter[a].pc = "none" /\ attempt[a].status = "none"
  BY DEF Init, Idle, LoopHead, Job
<1>3. InTime
  BY <1>2 DEF InTime, AtWork
<1>4. (\A e \in Executors : Awaited(e)) /\ (\A a \in AttemptIds : InCycle(a))
  BY <1>2 DEF Awaited, InCycle, Live
<1> QED BY <1>1, <1>3, <1>4 DEF TimelyInv

LEMMA TimelyStep ==
  ASSUME OneExecutor, FarApart, TimelyInv, [Next]_vars
  PROVE  TimelyInv'
<1>1. OrderInv' /\ InTime'
  BY TimelyTypes, OrderStep, InTimeKept DEF TimelyInv
<1>2. \A e \in Executors : Awaited(e)'
  BY AwaitedKept
<1>3. \A a \in AttemptIds : InCycle(a)'
  BY InCycleByCreation, InCycleOtherwise
<1> QED BY <1>1, <1>2, <1>3 DEF TimelyInv

\* With one run of the executor, and dates further apart than a payment can be tried
\* for, an attempt starts after its payment is due and not later than the end of its
\* validity and one run, faults or not: neither a batch that was fetched long ago nor
\* a job that moves payAt meanwhile gets a payment attempted outside its time.
THEOREM AttemptsStartInTime ==
  ASSUME OneExecutor, FarApart
  PROVE  Spec => AttemptsInTime
<1> DEFINE InTheirTime ==
      \A a \in AttemptIds : Created(a) =>
        LET due == payment[attempt'[a].payment].payAt
        IN due <= now /\ now < due + (ValidForDays + 1) * DAY + MaxJobTime
<1>1. Init => TimelyInv
  BY TimelyInit
<1>2. TimelyInv /\ [Next]_vars => TimelyInv'
  BY TimelyStep
<1>3. TimelyInv /\ [Next]_vars => InTheirTime
  <2> SUFFICES ASSUME TimelyInv, [Next]_vars, NEW a \in AttemptIds, Created(a),
                      NEW due, due = payment[attempt'[a].payment].payAt
               PROVE  due <= now /\ now < due + (ValidForDays + 1) * DAY + MaxJobTime
    OBVIOUS
  <2>1. TypeInv
    BY TimelyTypes
  <2>2. PICK e \in Executors : CreateAttempt(e)
    BY <2>1, OnlyCreateAttemptCreates DEF NoNewAttempt, Created
  <2>3. PICK n \in AttemptIds : Creates(e, n)
    BY <2>1, <2>2, NewRow
  <2>4. attempt'[a].payment = exec[e].cur
    BY <2>3 DEF Creates, SameRow, Created
  <2>5. exec[e].cur \in Payments /\ due <= now /\ now < due + Window
    BY <2>2, <2>4, StartsItsCycle
  <2>6. due \in Nat /\ now \in Nat
    BY <2>1, <2>4, <2>5, Numbers
  <2>7. now < due + Validity + MaxJobTime
    BY <2>5, <2>6, Spans
  <2> QED BY <2>5, <2>7 DEF Validity
<1> HIDE DEF InTheirTime
<1>4. Spec => [][InTheirTime]_vars
  BY <1>1, <1>2, <1>3, PTL DEF Spec
<1> QED BY <1>4 DEF AttemptsInTime, InTheirTime
==============================================================================
