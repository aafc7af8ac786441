------------------------------ MODULE CrankNonce ------------------------------
(***************************************************************************)
(* The nonce of the crank's account: callers of withNonce share one stored *)
(* nonce per chain, behind an advisory lock that the database transaction  *)
(* of the call holds, and send a transaction with it.  One chain is        *)
(* modelled.  The RPC node and the chain are external, and so is Prisma,   *)
(* which closes a transaction that is open for TxTimeout: what the call    *)
(* wrote is rolled back and the lock is free, but its callback goes on.    *)
(***************************************************************************)
EXTENDS Integers, FiniteSets

CONSTANTS
  Callers,     \* concurrent calls of withNonce
  StartCounts, \* transactions the crank may have sent before
  TTL,         \* nonceTTL
  TxTimeout,   \* timeout of the database transaction
  MaxNonce,    \* bound on the nonces that are sent
  MaxTime,     \* bound on the clock
  MaxFaults,   \* bound on rollbacks of calls that sent or still can send
  NULL

ASSUME CrankAssumption ==
  /\ StartCounts \subseteq Nat /\ StartCounts # {}
  /\ TTL \in Nat /\ TxTimeout \in Nat \ {0}
  /\ MaxNonce \in Nat /\ MaxTime \in Nat /\ MaxFaults \in Nat
  /\ NULL \notin Callers \cup [nonce: Nat, updatedAt: Nat]

VARIABLES
  now,     \* nowUtc()
  row,     \* the committed row of crank_nonces, or NULL
  holder,  \* who holds pg_advisory_xact_lock
  caller,  \* control state and locals of each call
  start,   \* the crank's transaction count at the start
  count,   \* mined transactions: getTransactionCount(crank, 'latest')
  pool,    \* transactions that wait in the node's pool, and since when
  sent,    \* nonces of all transactions the node ever accepted from withNonce
  faults

vars == <<now, row, holder, caller, start, count, pool, sent, faults>>
chainVars == <<start, count, pool, sent>>

NonceRow == [nonce: Nat, updatedAt: Nat]
CallState == [pc: {"idle", "lock", "read", "chain", "upsert", "send", "end"},
              tx: {"open", "closed"}, since: Nat, nonce: Nat, wroteAt: Nat]

TypeOK ==
  /\ now \in 0..MaxTime /\ faults \in 0..MaxFaults
  /\ row = NULL \/ row \in NonceRow
  /\ holder \in Callers \cup {NULL}
  /\ caller \in [Callers -> CallState]
  /\ start \in StartCounts /\ count \in Nat
  /\ \A t \in pool : t \in [nonce: Nat, at: Nat]
  /\ sent \subseteq Nat

NotCalling == [pc |-> "idle", tx |-> "closed", since |-> 0, nonce |-> 0, wroteAt |-> 0]

Init ==
  /\ now = 0 /\ row = NULL /\ holder = NULL /\ faults = 0
  /\ caller = [c \in Callers |-> NotCalling]
  /\ start \in StartCounts /\ count = start
  /\ pool = {} /\ sent = {}

----------------------------------------------------------------------------
(* withNonce. *)

Return(c) == caller' = [caller EXCEPT ![c] = NotCalling]
Release(c) == holder' = IF holder = c THEN NULL ELSE holder

Begin(c) ==
  /\ caller[c].pc = "idle"
  /\ caller' = [caller EXCEPT ![c].pc = "lock", ![c].tx = "open", ![c].since = now]
  /\ UNCHANGED <<now, row, holder, chainVars, faults>>

LockIgnored(c) ==
  /\ caller[c].pc = "lock"
  /\ holder' = c
  /\ caller' = [caller EXCEPT ![c].pc = "read"]
  /\ UNCHANGED <<now, row, chainVars, faults>>

\* pg_advisory_xact_lock
Lock(c) ==
  /\ caller[c].pc = "lock" /\ holder = NULL
  /\ holder' = c
  /\ caller' = [caller EXCEPT ![c].pc = "read"]
  /\ UNCHANGED <<now, row, chainVars, faults>>

\* A stored nonce of 0 counts as none.
NextNonce == IF row # NULL /\ row.nonce # 0 THEN row.nonce + 1 ELSE 0
Expired == row # NULL /\ row.updatedAt + TTL <= now

\* getNonce reads the row and decides whether to ask the chain.
ReadNonce(c) ==
  /\ caller[c].pc = "read"
  /\ caller' = [caller EXCEPT
       ![c].pc = IF NextNonce <= 1 \/ Expired THEN "chain" ELSE "upsert",
       ![c].nonce = NextNonce]
  /\ UNCHANGED <<now, row, holder, chainVars, faults>>

AskChainOffByOne(c) ==
  /\ caller[c].pc = "chain"
  /\ caller' = [caller EXCEPT ![c].pc = "upsert", ![c].nonce = count - 1]
  /\ UNCHANGED <<now, row, holder, chainVars, faults>>

AskChain(c) ==
  /\ caller[c].pc = "chain"
  /\ caller' = [caller EXCEPT ![c].pc = "upsert", ![c].nonce = count]
  /\ UNCHANGED <<now, row, holder, chainVars, faults>>

UpsertKeepsUpdatedAt(c) ==
  /\ caller[c].pc = "upsert"
  /\ caller' = [caller EXCEPT ![c].pc = "send",
                              ![c].wroteAt = IF row = NULL THEN now ELSE row.updatedAt]
  /\ UNCHANGED <<now, row, holder, chainVars, faults>>

\* Others see what the upsert wrote once it is committed.
Upsert(c) ==
  /\ caller[c].pc = "upsert"
  /\ caller' = [caller EXCEPT ![c].pc = "send", ![c].wroteAt = now]
  /\ UNCHANGED <<now, row, holder, chainVars, faults>>

\* The callback (external): the node accepts the transaction, which replaces
\* one of the same nonce in the pool.
Send(c) ==
  /\ caller[c].pc = "send" /\ caller[c].nonce >= count /\ caller[c].nonce <= MaxNonce
  /\ pool' = {t \in pool : t.nonce # caller[c].nonce}
               \cup {[nonce |-> caller[c].nonce, at |-> now]}
  /\ sent' = sent \cup {caller[c].nonce}
  /\ caller' = [caller EXCEPT ![c].pc = "end"]
  /\ UNCHANGED <<now, row, holder, start, count, faults>>

Commit(c) ==
  /\ caller[c].pc = "end" /\ caller[c].tx = "open"
  /\ row' = [nonce |-> caller[c].nonce, updatedAt |-> caller[c].wroteAt]
  /\ Release(c)
  /\ Return(c)
  /\ UNCHANGED <<now, chainVars, faults>>

FailCommits(c) ==
  /\ caller[c].pc \in {"lock", "read", "chain", "upsert", "send"}
  /\ IF caller[c].pc = "send"
     THEN row' = [nonce |-> caller[c].nonce, updatedAt |-> caller[c].wroteAt]
     ELSE UNCHANGED row
  /\ Release(c)
  /\ Return(c)
  /\ UNCHANGED <<now, chainVars, faults>>

\* An error before the node accepts anything, its refusal included: the call
\* is rolled back.
Fail(c) ==
  /\ caller[c].pc \in {"lock", "read", "chain", "upsert", "send"}
  /\ Release(c)
  /\ Return(c)
  /\ UNCHANGED <<now, row, chainVars, faults>>

\* The node's answer is lost, or the process dies: rolled back although sent.
LoseAnswer(c) ==
  /\ caller[c].pc = "end" /\ caller[c].tx = "open" /\ faults < MaxFaults
  /\ faults' = faults + 1
  /\ Release(c)
  /\ caller' = [caller EXCEPT ![c].tx = "closed"]
  /\ UNCHANGED <<now, row, chainVars>>

\* The transaction is closed.  A callback that was started is not stopped; any
\* other query of the call fails.
Timeout(c) ==
  /\ caller[c].tx = "open" /\ now >= caller[c].since + TxTimeout
  /\ Release(c)
  /\ IF caller[c].pc \in {"send", "end"}
     THEN /\ faults < MaxFaults /\ faults' = faults + 1
          /\ caller' = [caller EXCEPT ![c].tx = "closed"]
     ELSE Return(c) /\ UNCHANGED faults
  /\ UNCHANGED <<now, row, chainVars>>

\* The commit of a closed transaction throws.
EndClosed(c) ==
  /\ caller[c].pc = "end" /\ caller[c].tx = "closed"
  /\ Return(c)
  /\ UNCHANGED <<now, row, holder, chainVars, faults>>

----------------------------------------------------------------------------
(* The chain (external) and time. *)

Mine ==
  /\ \E t \in pool : t.nonce = count /\ pool' = pool \ {t}
  /\ count' = count + 1
  /\ UNCHANGED <<now, row, holder, caller, start, sent, faults>>

\* The node forgets a transaction.
Evict ==
  /\ \E t \in pool : pool' = pool \ {t}
  /\ UNCHANGED <<now, row, holder, caller, start, count, sent, faults>>

Tick ==
  /\ now < MaxTime
  /\ \A c \in Callers : caller[c].tx = "open" => now < caller[c].since + TxTimeout
  /\ now' = now + 1
  /\ UNCHANGED <<row, holder, caller, chainVars, faults>>

Next ==
  \/ \E c \in Callers :
       \/ Begin(c) \/ Lock(c) \/ ReadNonce(c) \/ AskChain(c) \/ Upsert(c) \/ Send(c)
       \/ Commit(c) \/ Fail(c) \/ LoseAnswer(c) \/ Timeout(c) \/ EndClosed(c)
  \/ Mine \/ Evict \/ Tick

Spec == Init /\ [][Next]_vars

----------------------------------------------------------------------------
(* Properties. *)

\* The stored nonce never leaves a hole: the node has accepted a transaction
\* for it and for every nonce below it, whatever was rolled back, timed out or
\* forgotten.  A hole would hold up every later transaction of the crank.
NoHole == row # NULL => start..row.nonce \subseteq sent

\* While no sent transaction is rolled back, a transaction in the pool is
\* replaced only after it has waited there for nonceTTL, less the time one call
\* may take.  Nonce 0 is the exception: it is always asked for again.
PatientReplacement ==
  [][\A c \in Callers, t \in pool :
       /\ faults = 0 /\ caller[c].pc = "send" /\ caller'[c].pc = "end"
       /\ t.nonce = caller[c].nonce /\ t.nonce # 0
       => now >= t.at + TTL - TxTimeout]_vars

\* The stored nonce grows by one with each commit, also when calls time out and
\* their callbacks go on, unless it is older than nonceTTL or 0.
CommitsInSequence ==
  [][row # NULL /\ row' # row =>
       \/ row'.nonce = row.nonce + 1
       \/ row.nonce = 0
       \/ now >= row.updatedAt + TTL]_vars

\* A nonce is rolled back only for an execution that failed ("because if the
\* execution failed the nonce should be rollback"): no call whose transaction
\* the node accepted is rolled back.
RolledBackUnsent ==
  \A c \in Callers : caller[c].pc = "end" => caller[c].tx = "open"
==============================================================================
