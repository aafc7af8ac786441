--------------------------- MODULE CrankNonceProofs ---------------------------
(***************************************************************************)
(* What withNonce guarantees for any number of callers, any timeout and    *)
(* any rollback: its types, that stored nonces leave no hole, that they    *)
(* are committed in sequence, and that a transaction in the pool is not    *)
(* replaced before it has waited.                                          *)
(***************************************************************************)
EXTENDS CrankNonce, TLAPS

Pcs == {"idle", "lock", "read", "chain", "upsert", "send", "end"}
Calls == [Callers -> CallState]

\* The step leaves every call but c's alone.
Others(c) == \A d \in Callers \ {c} : caller'[d] = caller[d]

\* Call c after the step: where it is, its transaction and its nonce.
After(c, pc, tx, nonce) ==
  /\ caller' \in Calls /\ Others(c)
  /\ caller'[c].pc = pc /\ caller'[c].tx = tx /\ caller'[c].nonce = nonce

----------------------------------------------------------------------------
(* What each action does to the calls. *)

LEMMA AfterPc ==
  ASSUME caller \in Calls, NEW c \in Callers, NEW pc \in Pcs,
         caller' = [caller EXCEPT ![c].pc = pc]
  PROVE  After(c, pc, caller[c].tx, caller[c].nonce)
BY DEF Calls, CallState, Pcs, After, Others

LEMMA AfterTx ==
  ASSUME caller \in Calls, NEW c \in Callers, NEW tx \in {"open", "closed"},
         caller' = [caller EXCEPT ![c].tx = tx]
  PROVE  After(c, caller[c].pc, tx, caller[c].nonce)
BY DEF Calls, CallState, After, Others

LEMMA AfterReturn ==
  ASSUME caller \in Calls, NEW c \in Callers, Return(c)
  PROVE  After(c, "idle", "closed", 0)
BY DEF Return, NotCalling, Calls, CallState, After, Others

LEMMA AfterNonce ==
  ASSUME caller \in Calls, NEW c \in Callers, NEW pc \in Pcs, NEW n \in Nat,
         caller' = [caller EXCEPT ![c].pc = pc, ![c].nonce = n]
  PROVE  After(c, pc, caller[c].tx, n)
<1> DEFINE mid == [caller EXCEPT ![c].pc = pc]
<1>1. /\ mid \in Calls /\ mid[c].pc = pc /\ mid[c].tx = caller[c].tx
      /\ \A d \in Callers \ {c} : mid[d] = caller[d]
  BY DEF Calls, CallState, Pcs
<1>2. caller' = [mid EXCEPT ![c].nonce = n]
  OBVIOUS
<1> HIDE DEF mid
<1>3. caller' \in Calls
  <2> DEFINE x == [mid[c] EXCEPT !.nonce = n]
  <2>1. mid[c] \in CallState /\ mid \in [Callers -> CallState]
    BY <1>1 DEF Calls
  <2>2. x \in CallState
    BY <2>1 DEF CallState
  <2>3. caller' = [mid EXCEPT ![c] = x]
    BY <1>2
  <2> HIDE DEF x
  <2> QED BY <2>1, <2>2, <2>3 DEF Calls
<1>4. /\ caller'[c].pc = mid[c].pc /\ caller'[c].tx = mid[c].tx /\ caller'[c].nonce = n
      /\ \A d \in Callers \ {c} : caller'[d] = mid[d]
  BY <1>1, <1>2 DEF Calls, CallState
<1> QED BY <1>1, <1>3, <1>4 DEF After, Others

LEMMA AfterBegin ==
  ASSUME caller \in Calls, now \in Nat, NEW c \in Callers, Begin(c)
  PROVE  After(c, "lock", "open", caller[c].nonce)
<1> DEFINE mid == [caller EXCEPT ![c].pc = "lock"]
           later == [mid EXCEPT ![c].tx = "open"]
<1>1. /\ mid \in Calls /\ mid[c].pc = "lock" /\ mid[c].nonce = caller[c].nonce
      /\ \A d \in Callers \ {c} : mid[d] = caller[d]
  BY DEF Calls, CallState
<1>2. caller' = [later EXCEPT ![c].since = now]
  BY DEF Begin
<1> HIDE DEF mid
<1>3. /\ later \in Calls /\ later[c].pc = mid[c].pc /\ later[c].nonce = mid[c].nonce
      /\ later[c].tx = "open" /\ \A d \in Callers \ {c} : later[d] = mid[d]
  BY <1>1 DEF Calls, CallState
<1> HIDE DEF later
<1> QED BY <1>1, <1>2, <1>3 DEF Calls, CallState, After, Others

LEMMA AfterUpsert ==
  ASSUME caller \in Calls, now \in Nat, NEW c \in Callers, Upsert(c)
  PROVE  After(c, "send", caller[c].tx, caller[c].nonce)
<1> DEFINE mid == [caller EXCEPT ![c].pc = "send"]
<1>1. /\ mid \in Calls /\ mid[c].pc = "send" /\ mid[c].tx = caller[c].tx
      /\ mid[c].nonce = caller[c].nonce /\ \A d \in Callers \ {c} : mid[d] = caller[d]
  BY DEF Calls, CallState
<1>2. caller' = [mid EXCEPT ![c].wroteAt = now]
  BY DEF Upsert
<1> HIDE DEF mid
<1> QED BY <1>1, <1>2 DEF Calls, CallState, After, Others
----------------------------------------------------------------------------
(* Types. *)

LEMMA Typed == TypeOK => caller \in Calls /\ now \in Nat /\ NextNonce \in Nat /\ count \in Nat
BY CrankAssumption DEF TypeOK, Calls, NextNonce, NonceRow

\* The calls after each action of withNonce.
LEMMA AfterStep ==
  ASSUME TypeOK, NEW c \in Callers
  PROVE  /\ Begin(c) => After(c, "lock", "open", caller[c].nonce)
         /\ Lock(c) => After(c, "read", caller[c].tx, caller[c].nonce)
         /\ ReadNonce(c) =>
              After(c, IF NextNonce <= 1 \/ Expired THEN "chain" ELSE "upsert",
                    caller[c].tx, NextNonce)
         /\ AskChain(c) => After(c, "upsert", caller[c].tx, count)
         /\ Upsert(c) => After(c, "send", caller[c].tx, caller[c].nonce)
         /\ Send(c) => After(c, "end", caller[c].tx, caller[c].nonce)
         /\ LoseAnswer(c) => After(c, "end", "closed", caller[c].nonce)
<1>1. Begin(c) => After(c, "lock", "open", caller[c].nonce)
  BY Typed, AfterBegin
<1>2. Lock(c) => After(c, "read", caller[c].tx, caller[c].nonce)
  BY Typed, AfterPc DEF Lock, Pcs
<1>3. ReadNonce(c) => After(c, IF NextNonce <= 1 \/ Expired THEN "chain" ELSE "upsert",
                            caller[c].tx, NextNonce)
  <2> DEFINE pc == IF NextNonce <= 1 \/ Expired THEN "chain" ELSE "upsert"
  <2>1. pc \in Pcs
    BY DEF Pcs
  <2>2. ReadNonce(c) => caller' = [caller EXCEPT ![c].pc = pc, ![c].nonce = NextNonce]
    BY DEF ReadNonce
  <2> HIDE DEF pc
  <2>3. ReadNonce(c) => After(c, pc, caller[c].tx, NextNonce)
    BY <2>1, <2>2, Typed, AfterNonce
  <2> QED BY <2>3 DEF pc
<1>4. AskChain(c) => After(c, "upsert", caller[c].tx, count)
  BY Typed, AfterNonce DEF AskChain, Pcs
<1>5. Upsert(c) => After(c, "send", caller[c].tx, caller[c].nonce)
  BY Typed, AfterUpsert
<1>6. Send(c) => After(c, "end", caller[c].tx, caller[c].nonce)
  BY Typed, AfterPc DEF Send, Pcs
<1>7. LoseAnswer(c) => After(c, "end", "closed", caller[c].nonce)
  <2>1. SUFFICES ASSUME LoseAnswer(c) PROVE After(c, "end", "closed", caller[c].nonce)
    OBVIOUS
  <2>2. After(c, caller[c].pc, "closed", caller[c].nonce)
    BY <2>1, Typed, AfterTx DEF LoseAnswer
  <2> QED BY <2>1, <2>2 DEF LoseAnswer
<1> QED BY <1>1, <1>2, <1>3, <1>4, <1>5, <1>6, <1>7

\* A call returns, or it goes on although its transaction was closed.
LEMMA AfterEnd ==
  ASSUME TypeOK, NEW c \in Callers
  PROVE  /\ Commit(c) \/ Fail(c) \/ EndClosed(c) => After(c, "idle", "closed", 0)
         /\ Timeout(c) =>
              \/ After(c, "idle", "closed", 0)
              \/ /\ caller[c].pc \in {"send", "end"}
                 /\ After(c, caller[c].pc, "closed", caller[c].nonce)
<1>1. Commit(c) \/ Fail(c) \/ EndClosed(c) => After(c, "idle", "closed", 0)
  BY Typed, AfterReturn DEF Commit, Fail, EndClosed
<1>2. Timeout(c) =>
        \/ After(c, "idle", "closed", 0)
        \/ /\ caller[c].pc \in {"send", "end"}
           /\ After(c, caller[c].pc, "closed", caller[c].nonce)
  BY Typed, AfterReturn, AfterTx DEF Timeout
<1> QED BY <1>1, <1>2

LEMMA TypeInit == Init => TypeOK
BY CrankAssumption DEF Init, TypeOK, NotCalling, CallState

LEMMA TypeNext == TypeOK /\ [Next]_vars => TypeOK'
<1> SUFFICES ASSUME TypeOK, [Next]_vars PROVE TypeOK'
  OBVIOUS
<1> USE CrankAssumption
<1>1. ASSUME NEW c \in Callers, Begin(c) \/ Lock(c) \/ ReadNonce(c) \/ AskChain(c) \/ Upsert(c)
      PROVE  TypeOK'
  <2>1. caller' \in Calls
    BY <1>1, AfterStep DEF After
  <2> QED BY <1>1, <2>1 DEF Begin, Lock, ReadNonce, AskChain, Upsert, chainVars, TypeOK, Calls
<1>2. ASSUME NEW c \in Callers, Send(c) PROVE TypeOK'
  <2>1. caller' \in Calls /\ caller[c].nonce \in Nat
    BY <1>2, AfterStep, Typed DEF After, Calls, CallState
  <2> QED BY <1>2, <2>1 DEF Send, TypeOK, Calls
<1>3. ASSUME NEW c \in Callers, Commit(c) PROVE TypeOK'
  <2>1. caller' \in Calls /\ caller[c].nonce \in Nat /\ caller[c].wroteAt \in Nat
    BY <1>3, AfterEnd, Typed DEF After, Calls, CallState
  <2> QED BY <1>3, <2>1 DEF Commit, Release, chainVars, TypeOK, Calls, NonceRow
<1>4. ASSUME NEW c \in Callers, Fail(c) \/ EndClosed(c) \/ LoseAnswer(c) \/ Timeout(c)
      PROVE  TypeOK'
  <2>1. caller' \in Calls
    BY <1>4, AfterEnd, AfterStep DEF After
  <2>2. holder' \in Callers \cup {NULL}
    BY <1>4 DEF Fail, EndClosed, LoseAnswer, Timeout, Release, TypeOK
  <2>3. faults' \in 0..MaxFaults
    BY <1>4 DEF Fail, EndClosed, LoseAnswer, Timeout, TypeOK
  <2> QED BY <1>4, <2>1, <2>2, <2>3 DEF Fail, EndClosed, LoseAnswer, Timeout, chainVars, TypeOK, Calls
<1>5. CASE Mine
  BY <1>5 DEF Mine, TypeOK
<1>6. CASE Evict
  BY <1>6 DEF Evict, TypeOK
<1>7. CASE Tick
  BY <1>7 DEF Tick, chainVars, TypeOK
<1>8. CASE UNCHANGED vars
  BY <1>8 DEF vars, TypeOK
<1> QED
  BY <1>1, <1>2, <1>3, <1>4, <1>5, <1>6, <1>7, <1>8 DEF Next

\* Every reachable state of the crank's nonce is well typed.
THEOREM TypeCorrect == Spec => []TypeOK
BY TypeInit, TypeNext, PTL DEF Spec

----------------------------------------------------------------------------
(* No hole. *)

\* What call c relies on: everything below its nonce was accepted before.
SendsAbove(c) ==
  /\ caller[c].pc \in {"upsert", "send"} => start..(caller[c].nonce - 1) \subseteq sent
  /\ caller[c].pc = "end" => start..caller[c].nonce \subseteq sent

HoleInv ==
  /\ TypeOK /\ NoHole
  /\ start..(count - 1) \subseteq sent
  /\ \A t \in pool : t.nonce \in sent
  /\ \A c \in Callers : SendsAbove(c)

\* The calls that a step leaves alone keep what they rely on: nothing is unsent.
LEMMA OthersSendAbove ==
  ASSUME TypeOK, \A d \in Callers : SendsAbove(d), NEW c \in Callers, Others(c),
         start' = start, sent \subseteq sent', SendsAbove(c)'
  PROVE  \A d \in Callers : SendsAbove(d)'
<1> SUFFICES ASSUME NEW d \in Callers, d # c PROVE SendsAbove(d)'
  OBVIOUS
<1>1. caller'[d] = caller[d]
  BY DEF Others
<1> QED BY <1>1 DEF SendsAbove

LEMMA HoleNext == HoleInv /\ [Next]_vars => HoleInv'
<1> SUFFICES ASSUME HoleInv, [Next]_vars PROVE HoleInv'
  OBVIOUS
<1>0. TypeOK'
  BY TypeNext DEF HoleInv
<1>t. TypeOK /\ (\A d \in Callers : SendsAbove(d))
  BY DEF HoleInv
<1>1. ASSUME NEW c \in Callers, Begin(c) \/ Lock(c) PROVE HoleInv'
  <2>1. Others(c) /\ caller'[c].pc \in {"lock", "read"}
    BY <1>1, <1>t, AfterStep DEF After
  <2>2. UNCHANGED <<row, chainVars>>
    BY <1>1 DEF Begin, Lock
  <2>3. SendsAbove(c)'
    BY <2>1 DEF SendsAbove
  <2>4. \A d \in Callers : SendsAbove(d)'
    BY <1>t, <2>1, <2>2, <2>3, OthersSendAbove DEF chainVars
  <2> QED BY <1>0, <2>2, <2>4 DEF HoleInv, NoHole, chainVars
<1>2. ASSUME NEW c \in Callers, ReadNonce(c) PROVE HoleInv'
  <2> DEFINE pc == IF NextNonce <= 1 \/ Expired THEN "chain" ELSE "upsert"
  <2>1. Others(c) /\ caller'[c].pc = pc /\ caller'[c].nonce = NextNonce
    BY <1>2, <1>t, AfterStep DEF After
  <2>2. UNCHANGED <<row, chainVars>>
    BY <1>2 DEF ReadNonce
  <2>3. pc = "upsert" => row # NULL /\ NextNonce - 1 = row.nonce
    BY <1>t DEF NextNonce, TypeOK, NonceRow
  <2>4. pc \in {"chain", "upsert"}
    OBVIOUS
  <2> HIDE DEF pc
  <2>5. pc = "upsert" => start..(NextNonce - 1) \subseteq sent
    BY <2>3 DEF HoleInv, NoHole
  <2>6. SendsAbove(c)'
    BY <2>1, <2>2, <2>4, <2>5 DEF SendsAbove, chainVars
  <2>7. \A d \in Callers : SendsAbove(d)'
    BY <1>t, <2>1, <2>2, <2>6, OthersSendAbove DEF chainVars
  <2> QED BY <1>0, <2>2, <2>7 DEF HoleInv, NoHole, chainVars
<1>3. ASSUME NEW c \in Callers, AskChain(c) PROVE HoleInv'
  <2>1. Others(c) /\ caller'[c].pc = "upsert" /\ caller'[c].nonce = count
    BY <1>3, <1>t, AfterStep DEF After
  <2>2. UNCHANGED <<row, chainVars>>
    BY <1>3 DEF AskChain
  <2>3. SendsAbove(c)'
    BY <2>1, <2>2 DEF SendsAbove, chainVars, HoleInv
  <2>4. \A d \in Callers : SendsAbove(d)'
    BY <1>t, <2>1, <2>2, <2>3, OthersSendAbove DEF chainVars
  <2> QED BY <1>0, <2>2, <2>4 DEF HoleInv, NoHole, chainVars
<1>4. ASSUME NEW c \in Callers, Upsert(c) PROVE HoleInv'
  <2>1. Others(c) /\ caller'[c].pc = "send" /\ caller'[c].nonce = caller[c].nonce
    BY <1>4, <1>t, AfterStep DEF After
  <2>2. caller[c].pc = "upsert" /\ UNCHANGED <<row, chainVars>>
    BY <1>4 DEF Upsert
  <2>3. SendsAbove(c)'
    BY <1>t, <2>1, <2>2 DEF SendsAbove, chainVars
  <2>4. \A d \in Callers : SendsAbove(d)'
    BY <1>t, <2>1, <2>2, <2>3, OthersSendAbove DEF chainVars
  <2> QED BY <1>0, <2>2, <2>4 DEF HoleInv, NoHole, chainVars
<1>5. ASSUME NEW c \in Callers, Send(c) PROVE HoleInv'
  <2>1. Others(c) /\ caller'[c].pc = "end" /\ caller'[c].nonce = caller[c].nonce
    BY <1>5, <1>t, AfterStep DEF After
  <2>2. /\ caller[c].pc = "send" /\ sent' = sent \cup {caller[c].nonce}
        /\ UNCHANGED <<row, start, count>>
    BY <1>5 DEF Send
  <2>3. caller[c].nonce \in Nat /\ start \in Nat
    BY <1>t, CrankAssumption DEF TypeOK, CallState
  <2>4. start..(caller[c].nonce - 1) \subseteq sent
    BY <1>t, <2>2 DEF SendsAbove
  <2>5. SendsAbove(c)'
    BY <2>1, <2>2, <2>3, <2>4 DEF SendsAbove
  <2>6. \A d \in Callers : SendsAbove(d)'
    BY <1>t, <2>1, <2>2, <2>5, OthersSendAbove
  <2>7. \A t \in pool' : t.nonce \in sent'
    BY <1>5 DEF Send, HoleInv
  <2> QED BY <1>0, <2>2, <2>6, <2>7 DEF HoleInv, NoHole
<1>6. ASSUME NEW c \in Callers, Commit(c) PROVE HoleInv'
  <2>1. Others(c) /\ caller'[c].pc = "idle"
    BY <1>6, <1>t, AfterEnd DEF After
  <2>2. /\ caller[c].pc = "end" /\ UNCHANGED chainVars
        /\ row' = [nonce |-> caller[c].nonce, updatedAt |-> caller[c].wroteAt]
    BY <1>6 DEF Commit
  <2>3. NoHole'
    BY <1>t, <2>2 DEF SendsAbove, NoHole, chainVars
  <2>4. SendsAbove(c)'
    BY <2>1 DEF SendsAbove
  <2>5. \A d \in Callers : SendsAbove(d)'
    BY <1>t, <2>1, <2>2, <2>4, OthersSendAbove DEF chainVars
  <2> QED BY <1>0, <2>2, <2>3, <2>5 DEF HoleInv, chainVars
<1>7. ASSUME NEW c \in Callers, Fail(c) \/ EndClosed(c) \/ LoseAnswer(c) \/ Timeout(c)
      PROVE  HoleInv'
  <2>1. \/ Others(c) /\ caller'[c].pc = "idle"
        \/ Others(c) /\ caller'[c].pc = caller[c].pc /\ caller'[c].nonce = caller[c].nonce
    BY <1>7, <1>t, AfterEnd, AfterStep DEF After, LoseAnswer
  <2>2. UNCHANGED <<row, chainVars>>
    BY <1>7 DEF Fail, EndClosed, LoseAnswer, Timeout
  <2>3. SendsAbove(c)'
    BY <1>t, <2>1, <2>2 DEF SendsAbove, chainVars
  <2>4. \A d \in Callers : SendsAbove(d)'
    BY <1>t, <2>1, <2>2, <2>3, OthersSendAbove DEF chainVars
  <2> QED BY <1>0, <2>2, <2>4 DEF HoleInv, NoHole, chainVars
<1>8. CASE Mine
  <2>1. start \in Nat /\ count \in Nat /\ count \in sent
    BY <1>8, <1>t, CrankAssumption DEF Mine, HoleInv, TypeOK
  <2>2. /\ UNCHANGED <<row, caller, start, sent>> /\ count' = count + 1 /\ pool' \subseteq pool
    BY <1>8 DEF Mine
  <2>3. start..(count' - 1) \subseteq sent
    BY <2>1, <2>2 DEF HoleInv
  <2> QED BY <1>0, <2>2, <2>3 DEF HoleInv, NoHole, SendsAbove
<1>9. CASE Evict \/ Tick \/ UNCHANGED vars
  <2>1. UNCHANGED <<row, caller, start, sent, count>> /\ pool' \subseteq pool
    BY <1>9 DEF Evict, Tick, vars, chainVars
  <2> QED BY <1>0, <2>1 DEF HoleInv, NoHole, SendsAbove
<1> QED
  BY <1>1, <1>2, <1>3, <1>4, <1>5, <1>6, <1>7, <1>8, <1>9 DEF Next

\* With any number of calls, timeouts, lost answers and forgotten transactions,
\* the stored nonce and all below it were accepted by the node.
THEOREM LeavesNoHole == Spec => []NoHole
<1>1. Init => HoleInv
  BY TypeInit, CrankAssumption DEF Init, HoleInv, NoHole, SendsAbove, NotCalling
<1>2. HoleInv => NoHole
  BY DEF HoleInv
<1> QED BY <1>1, <1>2, HoleNext, PTL DEF Spec

----------------------------------------------------------------------------
(* In sequence. *)

\* n may be committed next.
InOrder(n) == row # NULL =>
  n = row.nonce + 1 \/ row.nonce = 0 \/ now >= row.updatedAt + TTL

Reading == {"read", "chain", "upsert"}

\* What the lock is for: a call that still can commit holds it, and the row it
\* has read is the row its commit replaces.
KeepsOrder(c) ==
  /\ caller[c].pc \in Reading \cup {"lock"} => caller[c].tx = "open"
  /\ caller[c].tx = "open" /\ caller[c].pc \in Reading \cup {"send", "end"} => holder = c
  /\ caller[c].pc = "chain" => \A n \in Nat : InOrder(n)
  /\ caller[c].tx = "open" /\ caller[c].pc \in {"upsert", "send", "end"} =>
       InOrder(caller[c].nonce)

OrderInv == TypeOK /\ \A c \in Callers : KeepsOrder(c)

\* A step that leaves the row and call d alone, and the lock if d holds it,
\* keeps the order for d; the clock only runs forward.
LEMMA KeepsOrderStable ==
  ASSUME TypeOK, TypeOK', NEW d \in Callers, KeepsOrder(d), caller'[d] = caller[d],
         row' = row, now <= now', holder = d => holder' = d
  PROVE  KeepsOrder(d)'
<1>1. ASSUME NEW n, InOrder(n) PROVE InOrder(n)'
  BY <1>1, CrankAssumption DEF InOrder, TypeOK, NonceRow
<1>2. caller[d].pc = "chain" => \A n \in Nat : InOrder(n)'
  BY <1>1 DEF KeepsOrder
<1>3. (caller[d].tx = "open" /\ caller[d].pc \in {"upsert", "send", "end"})' =>
        InOrder(caller[d].nonce)'
  BY <1>1 DEF KeepsOrder
<1> QED BY <1>2, <1>3 DEF KeepsOrder, InOrder

\* The same for all calls but the one that steps.
LEMMA OthersKeepOrder ==
  ASSUME OrderInv, TypeOK', NEW c \in Callers, Others(c), UNCHANGED <<row, now>>,
         holder' = holder \/ holder = NULL \/ (holder = c /\ holder' = NULL),
         KeepsOrder(c)'
  PROVE  OrderInv'
<1> SUFFICES ASSUME NEW d \in Callers, d # c PROVE KeepsOrder(d)'
  BY DEF OrderInv
<1>1. caller'[d] = caller[d] /\ (holder = d => holder' = d)
  BY CrankAssumption DEF Others
<1>2. now <= now'
  BY DEF OrderInv, TypeOK
<1> QED BY <1>1, <1>2, KeepsOrderStable DEF OrderInv

LEMMA OrderNext == OrderInv /\ [Next]_vars => OrderInv'
<1> SUFFICES ASSUME OrderInv, [Next]_vars PROVE OrderInv'
  OBVIOUS
<1>0. TypeOK /\ TypeOK'
  BY TypeNext DEF OrderInv
<1>1. ASSUME NEW c \in Callers, Begin(c) PROVE OrderInv'
  <2>1. Others(c) /\ caller'[c].pc = "lock" /\ caller'[c].tx = "open"
    BY <1>1, <1>0, AfterStep DEF After
  <2>2. KeepsOrder(c)'
    BY <2>1 DEF KeepsOrder, Reading
  <2>3. UNCHANGED <<row, now, holder>>
    BY <1>1 DEF Begin
  <2> QED BY <1>0, <2>1, <2>2, <2>3, OthersKeepOrder
<1>2. ASSUME NEW c \in Callers, Lock(c) PROVE OrderInv'
  <2>1. Others(c) /\ caller'[c].pc = "read" /\ caller'[c].tx = caller[c].tx
    BY <1>2, <1>0, AfterStep DEF After
  <2>2. caller[c].tx = "open" /\ holder = NULL /\ holder' = c /\ UNCHANGED <<row, now>>
    BY <1>2 DEF Lock, OrderInv, KeepsOrder
  <2>3. KeepsOrder(c)'
    BY <2>1, <2>2 DEF KeepsOrder, Reading
  <2> QED BY <1>0, <2>1, <2>2, <2>3, OthersKeepOrder
<1>3. ASSUME NEW c \in Callers, ReadNonce(c) PROVE OrderInv'
  <2> DEFINE pc == IF NextNonce <= 1 \/ Expired THEN "chain" ELSE "upsert"
  <2>1. /\ Others(c) /\ caller'[c].pc = pc /\ caller'[c].tx = caller[c].tx
        /\ caller'[c].nonce = NextNonce
    BY <1>3, <1>0, AfterStep DEF After
  <2>2. caller[c].pc = "read" /\ UNCHANGED <<row, now, holder>>
    BY <1>3 DEF ReadNonce
  <2>3. caller[c].tx = "open" /\ holder = c
    BY <2>2 DEF OrderInv, KeepsOrder, Reading
  <2>4. pc = "chain" => \A n \in Nat : InOrder(n)
    BY <1>0, CrankAssumption DEF NextNonce, Expired, InOrder, TypeOK, NonceRow
  <2>5. pc = "upsert" => InOrder(NextNonce)
    BY <1>0 DEF NextNonce, InOrder, TypeOK, NonceRow
  <2>6. pc \in {"chain", "upsert"}
    OBVIOUS
  <2> HIDE DEF pc
  <2>7. KeepsOrder(c)'
    BY <2>1, <2>2, <2>3, <2>4, <2>5, <2>6 DEF KeepsOrder, Reading, InOrder
  <2> QED BY <1>0, <2>1, <2>2, <2>7, OthersKeepOrder
<1>4. ASSUME NEW c \in Callers, AskChain(c) PROVE OrderInv'
  <2>1. /\ Others(c) /\ caller'[c].pc = "upsert" /\ caller'[c].tx = caller[c].tx
        /\ caller'[c].nonce = count
    BY <1>4, <1>0, AfterStep DEF After
  <2>2. caller[c].pc = "chain" /\ UNCHANGED <<row, now, holder>>
    BY <1>4 DEF AskChain
  <2>3. caller[c].tx = "open" /\ holder = c /\ InOrder(count)
    BY <1>0, <2>2 DEF OrderInv, KeepsOrder, Reading, TypeOK
  <2>4. KeepsOrder(c)'
    BY <2>1, <2>2, <2>3 DEF KeepsOrder, Reading, InOrder
  <2> QED BY <1>0, <2>1, <2>2, <2>4, OthersKeepOrder
<1>5. ASSUME NEW c \in Callers, Upsert(c) \/ Send(c) PROVE OrderInv'
  <2>1. /\ Others(c) /\ caller'[c].pc \in {"send", "end"}
        /\ caller'[c].tx = caller[c].tx /\ caller'[c].nonce = caller[c].nonce
    BY <1>5, <1>0, AfterStep DEF After
  <2>2. caller[c].pc \in {"upsert", "send"} /\ UNCHANGED <<row, now, holder>>
    BY <1>5 DEF Upsert, Send
  <2>3. caller[c].tx = "open" => holder = c /\ InOrder(caller[c].nonce)
    BY <2>2 DEF OrderInv, KeepsOrder, Reading
  <2>4. KeepsOrder(c)'
    BY <2>1, <2>2, <2>3 DEF KeepsOrder, Reading, InOrder
  <2> QED BY <1>0, <2>1, <2>2, <2>4, OthersKeepOrder
<1>6. ASSUME NEW c \in Callers, Commit(c) PROVE OrderInv'
  <2>1. Others(c) /\ caller'[c].pc = "idle" /\ caller'[c].tx = "closed"
    BY <1>6, <1>0, AfterEnd DEF After
  <2>2. holder = c
    BY <1>6 DEF Commit, OrderInv, KeepsOrder
  <2>3. ASSUME NEW d \in Callers PROVE KeepsOrder(d)'
    <3>1. CASE d = c
      BY <2>1, <3>1 DEF KeepsOrder, Reading
    <3>2. CASE d # c
      <4>1. caller'[d] = caller[d]
        BY <2>1, <3>2 DEF Others
      <4>2. ~(caller[d].tx = "open" /\ caller[d].pc \in Reading \cup {"send", "end"})
        BY <2>2, <3>2 DEF OrderInv, KeepsOrder
      <4>3. caller[d].pc \notin Reading
        BY <4>2 DEF OrderInv, KeepsOrder
      <4> QED BY <4>1, <4>2, <4>3 DEF OrderInv, KeepsOrder, Reading
    <3> QED BY <3>1, <3>2
  <2> QED BY <1>0, <2>3 DEF OrderInv
<1>7. ASSUME NEW c \in Callers, Fail(c) \/ EndClosed(c) \/ LoseAnswer(c) \/ Timeout(c)
      PROVE  OrderInv'
  <2>1. /\ Others(c) /\ caller'[c].tx = "closed"
        /\ caller'[c].pc \in {"idle", "send", "end"}
    BY <1>7, <1>0, AfterEnd, AfterStep DEF After
  <2>2. UNCHANGED <<row, now>> /\ (holder' = holder \/ (holder = c /\ holder' = NULL))
    BY <1>7 DEF Fail, EndClosed, LoseAnswer, Timeout, Release, chainVars
  <2>3. KeepsOrder(c)'
    BY <2>1 DEF KeepsOrder, Reading
  <2> QED BY <1>0, <2>1, <2>2, <2>3, OthersKeepOrder
<1>8. CASE Mine \/ Evict \/ Tick \/ UNCHANGED vars
  <2>1. UNCHANGED <<row, caller, holder>> /\ now <= now'
    BY <1>0, <1>8 DEF Mine, Evict, Tick, vars, TypeOK
  <2> QED BY <1>0, <2>1, KeepsOrderStable DEF OrderInv
<1> QED
  BY <1>1, <1>2, <1>3, <1>4, <1>5, <1>6, <1>7, <1>8 DEF Next

\* With any number of calls and timeouts, the nonce grows by one with each
\* commit, unless the stored one is older than nonceTTL or 0.
THEOREM InSequence == Spec => CommitsInSequence
<1> DEFINE Seq == row # NULL /\ row' # row =>
                    row'.nonce = row.nonce + 1 \/ row.nonce = 0 \/ now >= row.updatedAt + TTL
<1>1. Init => OrderInv
  BY TypeInit DEF Init, OrderInv, KeepsOrder, Reading, NotCalling
<1>2. OrderInv /\ [Next]_vars => [Seq]_vars
  <2> SUFFICES ASSUME OrderInv, [Next]_vars, row' # row PROVE Seq
    BY DEF vars
  <2>1. PICK c \in Callers : Commit(c)
    BY DEF Next, Begin, Lock, ReadNonce, AskChain, Upsert, Send, Fail, LoseAnswer, Timeout,
           EndClosed, Mine, Evict, Tick, vars
  <2>2. row' = [nonce |-> caller[c].nonce, updatedAt |-> caller[c].wroteAt]
    BY <2>1 DEF Commit
  <2>3. InOrder(caller[c].nonce)
    BY <2>1 DEF Commit, OrderInv, KeepsOrder
  <2> QED BY <2>2, <2>3 DEF InOrder
<1> QED BY <1>1, <1>2, OrderNext, PTL DEF Spec, CommitsInSequence

----------------------------------------------------------------------------
(* Patience. *)

\* When call c began and wrote, after the step.
Timed(c, since, wroteAt) == caller'[c].since = since /\ caller'[c].wroteAt = wroteAt

LEMMA TimedStep ==
  ASSUME TypeOK, NEW c \in Callers
  PROVE  /\ Begin(c) => caller'[c].since = now
         /\ Lock(c) \/ ReadNonce(c) \/ AskChain(c) \/ Send(c) =>
              Timed(c, caller[c].since, caller[c].wroteAt)
         /\ Upsert(c) => Timed(c, caller[c].since, now)
<1>1. caller \in Calls /\ caller[c] \in CallState
  BY Typed DEF Calls
<1>2. Begin(c) => caller'[c].since = now
  BY <1>1 DEF Begin, Calls, CallState
<1>3. ASSUME NEW pc, NEW n,
             \/ caller' = [caller EXCEPT ![c].pc = pc]
             \/ caller' = [caller EXCEPT ![c].pc = pc, ![c].nonce = n]
      PROVE  Timed(c, caller[c].since, caller[c].wroteAt)
  BY <1>1, <1>3 DEF Timed, Calls, CallState
<1>4. Lock(c) => Timed(c, caller[c].since, caller[c].wroteAt)
  BY <1>3 DEF Lock
<1>5. ReadNonce(c) => Timed(c, caller[c].since, caller[c].wroteAt)
  <2> DEFINE pc == IF NextNonce <= 1 \/ Expired THEN "chain" ELSE "upsert"
  <2>1. ReadNonce(c) => caller' = [caller EXCEPT ![c].pc = pc, ![c].nonce = NextNonce]
    BY DEF ReadNonce
  <2> HIDE DEF pc
  <2> QED BY <1>3, <2>1
<1>6. AskChain(c) => Timed(c, caller[c].since, caller[c].wroteAt)
  BY <1>3 DEF AskChain
<1>7. Send(c) => Timed(c, caller[c].since, caller[c].wroteAt)
  BY <1>3 DEF Send
<1>8. Upsert(c) => Timed(c, caller[c].since, now)
  BY <1>1 DEF Upsert, Timed, Calls, CallState
<1> QED BY <1>2, <1>4, <1>5, <1>6, <1>7, <1>8

\* A call has its transaction and is younger than TxTimeout, and so is what it wrote.
Timely(c) ==
  LET me == caller[c] IN
  /\ me.pc # "idle" => me.tx = "open" /\ me.since <= now /\ now <= me.since + TxTimeout
  /\ me.pc \in {"send", "end"} =>
       /\ me.since <= me.wroteAt /\ me.wroteAt <= now
       /\ row # NULL => row.updatedAt <= me.wroteAt

\* A transaction of the pool that has not waited for long is the stored nonce's or one
\* below, or that of the call that is about to store it.
Waited(t) == now >= t.at + TTL - TxTimeout
Stored(t) == row # NULL /\ t.nonce <= row.nonce /\ t.at <= row.updatedAt + TxTimeout
Storing(t, c) ==
  /\ caller[c].pc = "end" /\ t.nonce = caller[c].nonce
  /\ t.at <= caller[c].wroteAt + TxTimeout
Known(t) == t.nonce = 0 \/ Waited(t) \/ Stored(t) \/ \E c \in Callers : Storing(t, c)

Patient ==
  /\ row # NULL => row.updatedAt <= now
  /\ \A c \in Callers : Timely(c)
  /\ \A t \in pool : Known(t)
PatientInv == faults = 0 => Patient

\* Times and nonces are numbers.
LEMMA Numbers ==
  ASSUME TypeOK
  PROVE  /\ now \in Nat /\ TTL \in Nat /\ TxTimeout \in Nat /\ faults \in Nat
         /\ row # NULL => row.nonce \in Nat /\ row.updatedAt \in Nat
         /\ \A t \in pool : t.nonce \in Nat /\ t.at \in Nat
         /\ \A c \in Callers : /\ caller[c].since \in Nat /\ caller[c].wroteAt \in Nat
                               /\ caller[c].nonce \in Nat
<1>1. now \in Nat /\ TTL \in Nat /\ TxTimeout \in Nat /\ faults \in Nat
  BY CrankAssumption DEF TypeOK
<1>2. row # NULL => row.nonce \in Nat /\ row.updatedAt \in Nat
  BY DEF TypeOK, NonceRow
<1>3. \A t \in pool : t.nonce \in Nat /\ t.at \in Nat
  BY DEF TypeOK
<1>4. \A c \in Callers : /\ caller[c].since \in Nat /\ caller[c].wroteAt \in Nat
                         /\ caller[c].nonce \in Nat
  BY DEF TypeOK, CallState
<1> QED BY <1>1, <1>2, <1>3, <1>4

LEMMA KnownStable ==
  ASSUME TypeOK, TypeOK', NEW t \in pool, Known(t), row' = row, now <= now',
         \A d \in Callers : caller[d].pc = "end" =>
           /\ caller'[d].pc = "end" /\ caller'[d].nonce = caller[d].nonce
           /\ caller'[d].wroteAt = caller[d].wroteAt
  PROVE  Known(t)'
<1>1. Waited(t) => Waited(t)'
  <2>1. t.at \in Nat /\ TTL \in Nat /\ TxTimeout \in Nat /\ now \in Nat /\ now' \in Nat
    BY Numbers, CrankAssumption DEF TypeOK
  <2> QED BY <2>1 DEF Waited
<1>2. Stored(t) => Stored(t)'
  BY DEF Stored
<1>3. \A d \in Callers : Storing(t, d) => Storing(t, d)'
  BY DEF Storing
<1> QED BY <1>1, <1>2, <1>3 DEF Known

\* A step of a call that stores nothing.
LEMMA PatientStep ==
  ASSUME TypeOK, TypeOK', Patient, NEW c \in Callers, Others(c), UNCHANGED <<row, now, pool>>,
         caller[c].pc # "end", Timely(c)'
  PROVE  Patient'
<1>1. \A d \in Callers \ {c} : Timely(d)'
  BY DEF Patient, Timely, Others
<1>2. \A d \in Callers : caller[d].pc = "end" => caller'[d] = caller[d]
  BY DEF Others
<1>3. now <= now'
  BY Numbers
<1>4. \A t \in pool : Known(t)'
  BY <1>2, <1>3, KnownStable DEF Patient
<1> QED BY <1>1, <1>4 DEF Patient

\* A transaction of the pool with the nonce that a call may store now has waited.
LEMMA WaitedOrStored ==
  ASSUME TypeOK, OrderInv, Patient, NEW c \in Callers, caller[c].pc \in {"send", "end"},
         NEW t \in pool, Stored(t)
  PROVE  t.nonce = 0 \/ Waited(t) \/ t.nonce < caller[c].nonce
<1>1. InOrder(caller[c].nonce)
  BY DEF OrderInv, KeepsOrder, Patient, Timely
<1>2. /\ t.nonce \in Nat /\ t.at \in Nat /\ row.nonce \in Nat /\ row.updatedAt \in Nat
      /\ caller[c].nonce \in Nat /\ now \in Nat /\ TTL \in Nat /\ TxTimeout \in Nat
  BY Numbers DEF Stored
<1> QED BY <1>1, <1>2 DEF InOrder, Stored, Waited

\* The calls that have sent and not stored their nonce hold the lock.
LEMMA OneStoring ==
  ASSUME OrderInv, Patient, NEW c \in Callers, NEW d \in Callers,
         caller[c].pc \in {"send", "end"}, caller[d].pc \in {"send", "end"}
  PROVE  c = d
BY DEF OrderInv, KeepsOrder, Patient, Timely

LEMMA PatientSend ==
  ASSUME TypeOK, TypeOK', OrderInv, Patient, NEW c \in Callers, Send(c)
  PROVE  Patient' /\ \A t \in pool : t.nonce = caller[c].nonce => t.nonce = 0 \/ Waited(t)
<1> DEFINE n == caller[c].nonce
           mine == [nonce |-> n, at |-> now]
<1>1. /\ caller[c].pc = "send" /\ UNCHANGED <<row, now>>
      /\ pool' = {t \in pool : t.nonce # n} \cup {mine}
  BY DEF Send
<1>2. /\ Others(c) /\ caller'[c].pc = "end" /\ caller'[c].tx = caller[c].tx
      /\ caller'[c].nonce = n
      /\ caller'[c].since = caller[c].since /\ caller'[c].wroteAt = caller[c].wroteAt
  BY AfterStep, TimedStep DEF After, Timed
<1>3. \A t \in pool : t.nonce = n => t.nonce = 0 \/ Waited(t)
  <2>1. ASSUME NEW t \in pool, t.nonce = n PROVE t.nonce = 0 \/ Waited(t)
    <3>1. Known(t)
      BY DEF Patient
    <3>2. n \in Nat
      BY Numbers
    <3>3. Stored(t) => t.nonce = 0 \/ Waited(t)
      BY <1>1, <2>1, <3>2, WaitedOrStored
    <3>4. \A d \in Callers : ~Storing(t, d)
      BY <1>1, OneStoring DEF Storing
    <3> QED BY <3>1, <3>3, <3>4 DEF Known
  <2> QED BY <2>1
<1>4. Timely(c) /\ caller[c].since \in Nat /\ caller[c].wroteAt \in Nat /\ now \in Nat
      /\ TxTimeout \in Nat
  BY Numbers DEF Patient
<1>5. \A d \in Callers : Timely(d)'
  <2>1. Timely(c)'
    BY <1>1, <1>2, <1>4 DEF Timely
  <2>2. \A d \in Callers \ {c} : Timely(d)'
    BY <1>1, <1>2 DEF Patient, Timely, Others
  <2> QED BY <2>1, <2>2
<1>6. ASSUME NEW t, t = mine PROVE Known(t)'
  <2>1. now <= caller[c].wroteAt + TxTimeout
    BY <1>1, <1>4 DEF Timely
  <2>2. Storing(t, c)'
    BY <1>2, <1>6, <2>1 DEF Storing
  <2> QED BY <2>2 DEF Known
<1>7. ASSUME NEW t \in pool, t.nonce # n PROVE Known(t)'
  <2>1. now <= now' /\ \A d \in Callers : caller[d].pc = "end" => caller'[d] = caller[d]
    BY <1>1, <1>2, Numbers DEF Others
  <2> QED BY <1>1, <2>1, KnownStable DEF Patient
<1>8. \A t \in pool' : Known(t)'
  BY <1>1, <1>6, <1>7
<1> QED BY <1>1, <1>3, <1>5, <1>8 DEF Patient

LEMMA PatientCommit ==
  ASSUME TypeOK, TypeOK', OrderInv, Patient, NEW c \in Callers, Commit(c)
  PROVE  Patient'
<1>1. /\ caller[c].pc = "end" /\ UNCHANGED <<now, pool>>
      /\ row' = [nonce |-> caller[c].nonce, updatedAt |-> caller[c].wroteAt]
  BY DEF Commit, chainVars
<1>2. Others(c) /\ caller'[c].pc = "idle"
  BY AfterEnd DEF After
<1>3. Timely(c) /\ caller[c].nonce \in Nat /\ caller[c].wroteAt \in Nat /\ now \in Nat
      /\ TxTimeout \in Nat
  BY Numbers DEF Patient
<1>4. ASSUME NEW d \in Callers PROVE Timely(d)'
  <2>1. CASE d = c
    BY <1>2, <2>1 DEF Timely
  <2>2. CASE d # c
    <3>1. caller'[d] = caller[d] /\ caller[d].pc \notin {"send", "end"}
      BY <1>1, <1>2, <2>2, OneStoring DEF Others
    <3> QED BY <1>1, <3>1 DEF Patient, Timely
  <2> QED BY <2>1, <2>2
<1>5. row'.updatedAt <= now' /\ row' # NULL
  <2>1. row' # NULL
    BY <1>1, <1>3, CrankAssumption
  <2> QED BY <1>1, <1>3, <2>1 DEF Timely
<1>6. ASSUME NEW t \in pool PROVE Known(t)'
  <2>1. t.nonce \in Nat /\ t.at \in Nat
    BY Numbers
  <2>2. Waited(t) => Waited(t)'
    BY <1>1 DEF Waited
  <2>3. ASSUME Stored(t), t.nonce < caller[c].nonce PROVE Stored(t)'
    <3>1. row.updatedAt <= caller[c].wroteAt /\ row.updatedAt \in Nat
      BY <1>1, <1>3, <2>3, Numbers DEF Timely, Stored
    <3>2. t.nonce <= caller[c].nonce /\ t.at <= caller[c].wroteAt + TxTimeout
      BY <1>3, <2>1, <2>3, <3>1 DEF Stored
    <3> QED BY <1>1, <1>5, <3>2 DEF Stored
  <2>4. ASSUME NEW d \in Callers, Storing(t, d) PROVE Stored(t)'
    <3>1. d = c
      BY <1>1, <2>4, OneStoring DEF Storing
    <3>2. t.nonce <= caller[c].nonce /\ t.at <= caller[c].wroteAt + TxTimeout
      BY <1>3, <2>4, <3>1 DEF Storing
    <3> QED BY <1>1, <1>5, <3>2 DEF Stored
  <2>5. Known(t)
    BY DEF Patient
  <2> QED BY <1>1, <2>2, <2>3, <2>4, <2>5, WaitedOrStored DEF Known
<1> QED BY <1>1, <1>4, <1>5, <1>6 DEF Patient

LEMMA PatientNext == OrderInv /\ TypeOK' /\ PatientInv /\ [Next]_vars => PatientInv'
<1> SUFFICES ASSUME OrderInv, TypeOK', PatientInv, [Next]_vars, faults' = 0 PROVE Patient'
  BY DEF PatientInv
<1>0. TypeOK
  BY DEF OrderInv
<1>1. faults = 0
  <2>1. faults \in Nat /\ (faults' = faults \/ faults' = faults + 1)
    BY <1>0, Numbers DEF Next, Begin, Lock, ReadNonce, AskChain, Upsert, Send, Commit, Fail,
       LoseAnswer, Timeout, EndClosed, Mine, Evict, Tick, vars
  <2> QED BY <2>1
<1>2. Patient
  BY <1>1 DEF PatientInv
<1>3. ASSUME NEW c \in Callers, Begin(c) PROVE Patient'
  <2>1. /\ Others(c) /\ caller'[c].pc = "lock" /\ caller'[c].tx = "open"
        /\ caller'[c].since = now
    BY <1>0, <1>3, AfterStep, TimedStep DEF After
  <2>2. UNCHANGED <<row, now, pool>> /\ caller[c].pc # "end"
    BY <1>3 DEF Begin, chainVars
  <2>3. now \in Nat /\ TxTimeout \in Nat
    BY <1>0, Numbers
  <2>4. Timely(c)'
    BY <2>1, <2>2, <2>3 DEF Timely
  <2> QED BY <1>0, <1>2, <2>1, <2>2, <2>4, PatientStep
<1>4. ASSUME NEW c \in Callers, Lock(c) \/ ReadNonce(c) \/ AskChain(c) PROVE Patient'
  <2>1. /\ Others(c) /\ caller'[c].pc \in {"read", "chain", "upsert"}
        /\ caller'[c].tx = caller[c].tx /\ caller'[c].since = caller[c].since
    BY <1>0, <1>4, AfterStep, TimedStep DEF After, Timed
  <2>2. UNCHANGED <<row, now, pool>> /\ caller[c].pc \in {"lock", "read", "chain"}
    BY <1>4 DEF Lock, ReadNonce, AskChain, chainVars
  <2>3. Timely(c)'
    BY <1>2, <2>1, <2>2 DEF Timely, Patient
  <2> QED BY <1>0, <1>2, <2>1, <2>2, <2>3, PatientStep
<1>5. ASSUME NEW c \in Callers, Upsert(c) PROVE Patient'
  <2>1. /\ Others(c) /\ caller'[c].pc = "send" /\ caller'[c].tx = caller[c].tx
        /\ caller'[c].since = caller[c].since /\ caller'[c].wroteAt = now
    BY <1>0, <1>5, AfterStep, TimedStep DEF After, Timed
  <2>2. UNCHANGED <<row, now, pool>> /\ caller[c].pc = "upsert"
    BY <1>5 DEF Upsert, chainVars
  <2>3. now \in Nat
    BY <1>0, Numbers
  <2>4. Timely(c)'
    BY <1>2, <2>1, <2>2, <2>3 DEF Timely, Patient
  <2> QED BY <1>0, <1>2, <2>1, <2>2, <2>4, PatientStep
<1>6. ASSUME NEW c \in Callers, Send(c) PROVE Patient'
  BY <1>0, <1>2, <1>6, PatientSend
<1>7. ASSUME NEW c \in Callers, Commit(c) PROVE Patient'
  BY <1>0, <1>2, <1>7, PatientCommit
\* A call that has sent can only commit: anything else is a fault.
<1>8. ASSUME NEW c \in Callers, Fail(c) \/ LoseAnswer(c) \/ Timeout(c) \/ EndClosed(c)
      PROVE  Patient'
  <2>1. ~LoseAnswer(c) /\ ~EndClosed(c) /\ (Timeout(c) => caller[c].pc \notin {"send", "end"})
    <3>1. ~LoseAnswer(c)
      BY <1>1 DEF LoseAnswer
    <3>2. ~EndClosed(c)
      BY <1>2 DEF EndClosed, Patient, Timely
    <3>3. Timeout(c) => caller[c].pc \notin {"send", "end"}
      BY <1>1 DEF Timeout
    <3> QED BY <3>1, <3>2, <3>3
  <2>2. Others(c) /\ caller'[c].pc = "idle" /\ caller[c].pc # "end"
    BY <1>0, <1>8, <2>1, AfterEnd DEF After, Fail
  <2>3. UNCHANGED <<row, now, pool>>
    BY <1>8, <2>1 DEF Fail, Timeout, chainVars
  <2>4. Timely(c)'
    BY <2>2 DEF Timely
  <2> QED BY <1>0, <1>2, <2>2, <2>3, <2>4, PatientStep
\* The chain takes from the pool, and the clock waits for the calls.
<1>9. CASE Mine \/ Evict \/ Tick \/ UNCHANGED vars
  <2>1. UNCHANGED <<row, caller>> /\ pool' \subseteq pool
    BY <1>9 DEF Mine, Evict, Tick, vars, chainVars
  <2>2. /\ now \in Nat /\ TxTimeout \in Nat /\ (now' = now \/ now' = now + 1)
        /\ (row # NULL => row.updatedAt \in Nat)
        /\ \A c \in Callers : caller[c].since \in Nat /\ caller[c].wroteAt \in Nat
    BY <1>0, <1>9, Numbers DEF Mine, Evict, Tick, vars
  <2>3. now <= now' /\ (row' # NULL => row'.updatedAt <= now')
    BY <1>2, <2>1, <2>2 DEF Patient
  <2>4. ASSUME NEW c \in Callers PROVE Timely(c)'
    <3>1. Timely(c)
      BY <1>2 DEF Patient
    <3>2. caller[c].tx = "open" /\ caller[c].since <= now /\ now <= caller[c].since + TxTimeout =>
            caller[c].since <= now' /\ now' <= caller[c].since + TxTimeout
      BY <1>9, <2>2 DEF Mine, Evict, Tick, vars
    <3>3. caller[c].wroteAt <= now => caller[c].wroteAt <= now'
      BY <2>2
    <3> QED BY <2>1, <3>1, <3>2, <3>3 DEF Timely
  <2>5. \A t \in pool : Known(t)'
    BY <1>0, <1>2, <2>1, <2>3, KnownStable DEF Patient
  <2> QED BY <2>1, <2>3, <2>4, <2>5 DEF Patient
<1> QED BY <1>3, <1>4, <1>5, <1>6, <1>7, <1>8, <1>9 DEF Next

\* With any number of calls, while no sent transaction is rolled back, one is replaced
\* in the pool only after it has waited for nonceTTL less the time of a call
\* (services/crank-nonce-lock.ts).
THEOREM ReplacesPatiently == Spec => PatientReplacement
<1> DEFINE Spares == \A c \in Callers, t \in pool :
                       /\ faults = 0 /\ caller[c].pc = "send" /\ caller'[c].pc = "end"
                       /\ t.nonce = caller[c].nonce /\ t.nonce # 0
                       => now >= t.at + TTL - TxTimeout
<1>1. Init => PatientInv
  <2> SUFFICES ASSUME Init PROVE Patient
    BY DEF PatientInv
  <2>1. row = NULL /\ pool = {} /\ \A c \in Callers : caller[c].pc = "idle"
    BY DEF Init, NotCalling
  <2> QED BY <2>1 DEF Patient, Timely
<1>2. OrderInv /\ TypeOK' /\ PatientInv /\ [Next]_vars => [Spares]_vars
  <2> SUFFICES ASSUME OrderInv, TypeOK', PatientInv, [Next]_vars, NEW c \in Callers, faults = 0,
                      caller[c].pc = "send", caller'[c].pc = "end"
               PROVE  \A t \in pool : t.nonce = caller[c].nonce /\ t.nonce # 0 =>
                                        now >= t.at + TTL - TxTimeout
    OBVIOUS
  <2>1. TypeOK /\ Patient
    BY DEF OrderInv, PatientInv
  <2>2. Send(c)
    <3>1. ASSUME NEW d \in Callers, Others(d), d # c PROVE FALSE
      BY <3>1 DEF Others
    <3>2. ASSUME NEW d \in Callers,
                 \/ Begin(d) \/ Lock(d) \/ ReadNonce(d) \/ AskChain(d) \/ Upsert(d) \/ Commit(d)
                 \/ Fail(d) \/ LoseAnswer(d) \/ Timeout(d) \/ EndClosed(d)
          PROVE  FALSE
      <4>1. Others(d)
        BY <2>1, <3>2, AfterStep, AfterEnd, AfterReturn, Typed DEF After
      <4>2. d = c
        BY <3>1, <4>1
      <4>3. ~(Begin(d) \/ Lock(d) \/ ReadNonce(d) \/ AskChain(d) \/ Upsert(d))
        BY <4>2 DEF Begin, Lock, ReadNonce, AskChain, Upsert
      <4>4. ~(Commit(d) \/ LoseAnswer(d) \/ EndClosed(d))
        BY <4>2 DEF Commit, LoseAnswer, EndClosed
      <4>5. caller'[c].pc \in {"idle", "send"}
        BY <2>1, <3>2, <4>2, <4>3, <4>4, AfterEnd DEF After
      <4> QED BY <4>5
    <3>3. ASSUME NEW d \in Callers, Send(d) PROVE d = c
      BY <2>1, <3>1, <3>3, AfterStep DEF After
    <3>4. caller' # caller
      OBVIOUS
    <3>5. PICK d \in Callers :
            \/ Begin(d) \/ Lock(d) \/ ReadNonce(d) \/ AskChain(d) \/ Upsert(d) \/ Send(d)
            \/ Commit(d) \/ Fail(d) \/ LoseAnswer(d) \/ Timeout(d) \/ EndClosed(d)
      BY <3>4 DEF Next, Mine, Evict, Tick, vars
    <3> QED BY <3>2, <3>3, <3>5
  <2> QED BY <2>1, <2>2, PatientSend DEF Waited
<1>3. OrderInv => TypeOK
  BY DEF OrderInv
<1>4. Init => OrderInv
  BY TypeInit DEF Init, OrderInv, KeepsOrder, Reading, NotCalling
<1> QED BY <1>1, <1>2, <1>3, <1>4, OrderNext, PatientNext, PTL DEF Spec, PatientReplacement
==============================================================================
