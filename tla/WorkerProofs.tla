----------------------------- MODULE WorkerProofs -----------------------------
(***************************************************************************)
(* Proofs about tasks of the hub's worker that do not meet.                *)
(*                                                                         *)
(* EventNotifications, for any number of events, blocks, jobs, dead        *)
(* processes and failed calls: type correctness, and that notifications    *)
(* implement NotificationPromise.                                          *)
(*                                                                         *)
(* RewardRoots, for any number of cycles, checks, failures and writes of   *)
(* other tasks: type correctness, and that no root that was submitted is   *)
(* skipped unless its job failed.                                          *)
(***************************************************************************)
EXTENDS EventNotifications, RewardRoots, SequenceTheorems, WellFoundedInduction, TLAPS

\* A set of numbers has a least one.
LEMMA LeastNat ==
  ASSUME NEW S \in SUBSET Nat, S # {}
  PROVE  \E m \in S : \A n \in S : m <= n
<1> DEFINE R == OpToRel(<, Nat)
<1>1. IsWellFoundedOn(R, Nat)
  BY NatLessThanWellFounded
<1>2. R = {ss \in Nat \X Nat : ss[1] < ss[2]}
  BY DEF OpToRel
<1> HIDE DEF R
<1>3. PICK m \in S : \A n \in S : ~(<<n, m>> \in R)
  BY <1>1, WFMin
<1>4. ASSUME NEW n \in S PROVE m <= n
  <2>1. <<n, m>> \in Nat \X Nat /\ <<n, m>> \notin R
    BY <1>3
  <2>2. ~(<<n, m>>[1] < <<n, m>>[2])
    BY <1>2, <2>1
  <2>3. ~(n < m)
    BY <2>2
  <2> QED BY <2>3
<1> QED BY <1>4

----------------------------------------------------------------------------
(* Notifications.  The key, the rows and the recorded block each stop some  *)
(* way in which an event could be told again; and while an event is due,    *)
(* somebody has it.                                                         *)

\* A slot is free until a job for an event takes it.
SlotsTaken == \A j \in Slots : sendJob[j].pc = "free" <=> sendJob[j].event = NoEvent

\* Only what has happened is delivered, or has jobs.
AfterItHappened ==
  \A e \in Events : e \in undelivered \/ callback[e] # "none" \/ InJobs(e) => e \in Happened

\* The recorded block is that of an event.
BlockSeen == IF seen = {} THEN latest = 0 ELSE \E d \in seen : EventBlock[d] = latest

\* What a row, or a job about to write one, says was sent has been.
SendAt(j, e, pcs) == sendJob[j].event = e /\ sendJob[j].pc \in pcs
Sent(e) == e \in recorded \/ \E j \in Slots : SendAt(j, e, {"record"})
SentIsTold == \A e \in Events : Sent(e) => notified[e] > 0

\* The event's row was removed when nothing was left that would tell it again, and
\* the blocks that a listener starts from are past it.
Gone(e) ==
  /\ mined - EventBlock[e] >= Week
  /\ e \notin undelivered /\ callback[e] = "none" /\ ~InJobs(e)

\* Of an event that nothing got in the way of, one job at most is past the check
\* of the rows; once it was told none is about to send it, and something keeps the
\* next from it: the row, the job that will write it, or that there is no next.
Alone(e) ==
  \A i, j \in Slots :
    SendAt(i, e, {"send", "record"}) /\ SendAt(j, e, {"send", "record"}) => i = j
Settled(e) == (\A j \in Slots : ~SendAt(j, e, {"send"})) /\ (Sent(e) \/ Gone(e))
OnceTold(e) == Alone(e) /\ (notified[e] > 0 => Settled(e))
ToldOnce == \A e \in Events \ disturbed : OnceTold(e)

TellInv ==
  NotificationsTypeOK /\ SlotsTaken /\ AfterItHappened /\ BlockSeen /\ SentIsTold /\ ToldOnce

----------------------------------------------------------------------------
(* What a step means to the promise. *)

Live(e) == InListener(e) \/ InJobs(e)

\* An event that was not told is not dropped unless something got in its way.
NotDropped(e) ==
  /\ notified'[e] = notified[e]
  /\ EventBlock[e] <= mined' /\ notified[e] = 0 =>
       Live(e)' \/ (EventBlock[e] <= mined /\ (e \in disturbed' \/ ~Live(e)))
ToldNow(e) ==
  /\ notified'[e] = notified[e] + 1
  /\ EventBlock[e] <= mined /\ Live(e) /\ (notified[e] > 0 => e \in disturbed)

Turns(e, from, to) == Phase(e) = from /\ Phase(e)' = to

\* What every step does.
Promised ==
  /\ mined <= mined' /\ disturbed \subseteq disturbed'
  /\ \A e \in Events : NotDropped(e) \/ ToldNow(e)

LEMMA BlocksOfEvents ==
  \A e \in Events : EventBlock[e] \in Nat /\ EventBlock[e] # 0
<1>1. \A n \in 1..LastBlock : n \in Nat /\ n # 0
  BY NotificationsAssumption
<1> QED BY <1>1, NotificationsAssumption

LEMMA Numbers ==
  ASSUME NotificationsTypeOK
  PROVE  mined \in Nat /\ latest \in Nat /\ \A e \in Events : notified[e] \in Nat
<1>1. mined \in 0..LastBlock /\ latest \in 0..LastBlock /\ notified \in [Events -> Nat]
  BY DEF NotificationsTypeOK
<1> QED BY <1>1, NotificationsAssumption

LEMMA FaultCounted ==
  ASSUME NotificationsTypeOK, Fault
  PROVE  faults' \in 0..MaxFaults
<1>1. faults \in 0..MaxFaults /\ faults < MaxFaults /\ faults' = faults + 1
  BY DEF NotificationsTypeOK, Fault
<1> QED BY <1>1, NotificationsAssumption

LEMMA PromisedStep ==
  ASSUME NotificationsTypeOK, NotificationsTypeOK', Promised
  PROVE  Promise!PromiseNext
<1>1. ASSUME NEW e \in Events
      PROVE  \/ notified'[e] = notified[e] /\ Phase(e)' = Phase(e)
             \/ Turns(e, "ahead", "due") /\ notified'[e] = 0
             \/ Turns(e, "due", "told") /\ notified'[e] = 1
             \/ e \in disturbed /\ Turns(e, "told", "told") /\ notified'[e] = notified[e] + 1
             \/ e \in disturbed' /\ Turns(e, "due", "dropped") /\ notified'[e] = 0
             \/ Turns(e, "dropped", "due") /\ notified'[e] = 0
  <2>1. /\ notified[e] \in Nat /\ mined \in Nat /\ mined' \in Nat /\ mined <= mined'
        /\ EventBlock[e] \in Nat
    <3>1. mined' \in 0..LastBlock
      BY DEF NotificationsTypeOK
    <3> QED BY <1>1, <3>1, Numbers, BlocksOfEvents, NotificationsAssumption DEF Promised
  <2>2. /\ notified[e] # 0 => Phase(e) = "told"
        /\ notified[e] = 0 /\ ~(EventBlock[e] <= mined) => Phase(e) = "ahead"
        /\ notified[e] = 0 /\ EventBlock[e] <= mined /\ Live(e) => Phase(e) = "due"
        /\ notified[e] = 0 /\ EventBlock[e] <= mined /\ ~Live(e) => Phase(e) = "dropped"
    BY <2>1 DEF Phase, Live
  <2>3. /\ notified'[e] \in Nat /\ notified'[e] # 0 => Phase(e)' = "told"
        /\ notified'[e] = 0 /\ ~(EventBlock[e] <= mined') => Phase(e)' = "ahead"
        /\ notified'[e] = 0 /\ EventBlock[e] <= mined' /\ Live(e)' => Phase(e)' = "due"
        /\ notified'[e] = 0 /\ EventBlock[e] <= mined' /\ ~Live(e)' => Phase(e)' = "dropped"
    BY <2>1 DEF Phase, Live
  <2>4. CASE NotDropped(e)
    BY <2>1, <2>2, <2>3, <2>4 DEF NotDropped, Turns
  <2>5. CASE ToldNow(e)
    <3>1. notified'[e] > 0 /\ Phase(e)' = "told"
      BY <2>1, <2>3, <2>5 DEF ToldNow
    <3>2. notified[e] = 0 => Phase(e) = "due" /\ notified'[e] = 1
      BY <2>1, <2>2, <2>5 DEF ToldNow
    <3>3. notified[e] # 0 => Phase(e) = "told" /\ e \in disturbed
      BY <2>1, <2>2, <2>5 DEF ToldNow
    <3> QED BY <2>5, <3>1, <3>2, <3>3 DEF ToldNow, Turns
  <2> QED BY <1>1, <2>4, <2>5 DEF Promised
<1>2. disturbed \subseteq disturbed'
  BY DEF Promised
<1> QED
  BY <1>1, <1>2 DEF Turns, Promise!PromiseNext, Promise!Move, Promise!Happen, Promise!Tell,
     Promise!TellAgain, Promise!GiveUp, Promise!TryAgain, Promise!Rest

----------------------------------------------------------------------------
(* The listener's steps, and time's. *)

\* They leave the jobs that send, and their rows.
LEMMA Spared ==
  ASSUME TellInv, UNCHANGED <<sendJob, recorded, notified>>, disturbed \subseteq disturbed',
         NotificationsTypeOK', AfterItHappened', BlockSeen',
         \A e \in Events : Gone(e) => Gone(e)' \/ e \in disturbed'
  PROVE  TellInv'
<1>1. SlotsTaken'
  BY DEF TellInv, SlotsTaken
<1>2. \A e, j, pcs : SendAt(j, e, pcs)' = SendAt(j, e, pcs)
  BY DEF SendAt
<1>3. \A e : Sent(e)' = Sent(e)
  BY <1>2 DEF Sent
<1>4. SentIsTold'
  BY <1>3 DEF TellInv, SentIsTold
<1>5. ASSUME NEW e \in Events \ disturbed' PROVE OnceTold(e)'
  <2>1. OnceTold(e)
    BY <1>5 DEF TellInv, ToldOnce
  <2> QED BY <1>2, <1>3, <1>5, <2>1 DEF OnceTold, Alone, Settled
<1> QED BY <1>1, <1>4, <1>5 DEF TellInv, ToldOnce

\* The block from which a subscription starts is past what was told and removed,
\* and what it leaves out, seen by no job, is disturbed.
LEMMA SubscribeStep ==
  ASSUME TellInv, Subscribe
  PROVE  TellInv' /\ Promised
<1>1. NotificationsTypeOK'
  BY DEF TellInv, NotificationsTypeOK, Subscribe, Disturb, Happened
<1>2. \A e : InJobs(e)' = InJobs(e)
  BY DEF Subscribe, InJobs
<1>3. AfterItHappened'
  BY <1>2 DEF TellInv, AfterItHappened, Subscribe, Happened
<1>4. BlockSeen' /\ UNCHANGED <<sendJob, recorded, notified, mined>> /\ disturbed \subseteq disturbed'
  BY DEF TellInv, BlockSeen, Subscribe, Disturb
<1>5. /\ mined \in Nat /\ latest \in Nat /\ Historic \in Nat /\ Week \in Nat
      /\ Historic <= Week /\ mined' = mined
  BY Numbers, NotificationsAssumption DEF TellInv, Subscribe
<1>6. /\ FromBlock \in Int /\ (latest = 0 => FromBlock = mined + 1)
      /\ latest # 0 => /\ FromBlock >= mined - Historic + 1
                       /\ FromBlock = mined - Historic + 1 \/ FromBlock = latest
  BY <1>5 DEF FromBlock, Higher
<1>7. \A e \in Events : EventBlock[e] \in Nat
  BY BlocksOfEvents
<1>8. ASSUME NEW e \in Events, Gone(e) PROVE Gone(e)'
  <2>1. e \notin undelivered'
    BY <1>5, <1>6, <1>7, <1>8 DEF Gone, Subscribe
  <2> QED BY <1>2, <1>8, <2>1 DEF Gone, Subscribe
<1>9. ASSUME NEW e \in Events PROVE NotDropped(e)
  <2>1. CASE InJobs(e)
    BY <1>2, <1>4, <2>1 DEF NotDropped, Live
  <2>2. CASE ~InJobs(e) /\ EventBlock[e] <= mined
    <3>1. CASE EventBlock[e] >= FromBlock
      BY <1>4, <1>9, <2>2, <3>1 DEF NotDropped, Live, InListener, Subscribe, Happened
    <3>2. CASE EventBlock[e] < FromBlock
      <4>1. \/ seen = {} \/ mined - EventBlock[e] >= Historic
            \/ \E d \in seen : EventBlock[d] > EventBlock[e]
        <5>1. CASE seen = {} \/ latest = 0
          <6>1. \A d \in seen : EventBlock[d] # 0
            BY BlocksOfEvents DEF TellInv, NotificationsTypeOK
          <6> QED BY <5>1, <6>1 DEF TellInv, BlockSeen
        <5>2. CASE seen # {} /\ latest # 0
          <6>1. PICK d \in seen : EventBlock[d] = latest
            BY <5>2 DEF TellInv, BlockSeen
          <6> QED BY <1>5, <1>6, <1>7, <1>9, <3>2, <5>2, <6>1
        <5> QED BY <5>1, <5>2
      <4>2. e \in disturbed'
        BY <1>9, <2>2, <4>1 DEF Subscribe, Disturb, Happened
      <4> QED BY <1>4, <2>2, <4>2 DEF NotDropped
    <3> QED BY <1>6, <1>7, <1>9, <3>1, <3>2
  <2>3. CASE ~(EventBlock[e] <= mined)
    BY <1>4, <2>3 DEF NotDropped
  <2> QED BY <2>1, <2>2, <2>3
<1> QED BY <1>1, <1>3, <1>4, <1>5, <1>8, <1>9, Spared DEF Promised

LEMMA ListenerDiesStep ==
  ASSUME TellInv, ListenerDies
  PROVE  TellInv' /\ Promised
<1>1. NotificationsTypeOK'
  BY FaultCounted DEF TellInv, NotificationsTypeOK, ListenerDies
<1>2. \A e : InJobs(e)' = InJobs(e)
  BY DEF ListenerDies, InJobs
<1>3. /\ UNCHANGED <<sendJob, recorded, notified, mined, disturbed, latest, seen>>
      /\ ~up' /\ undelivered' = {} /\ \A e \in Events : callback'[e] = "none"
  BY DEF ListenerDies
<1>4. AfterItHappened' /\ BlockSeen'
  BY <1>2, <1>3 DEF TellInv, AfterItHappened, BlockSeen, Happened
<1>5. \A e \in Events : Gone(e) => Gone(e)'
  BY <1>2, <1>3 DEF Gone
<1>6. \A e \in Events : NotDropped(e)
  BY <1>3 DEF NotDropped, Live, InListener
<1>7. mined <= mined'
  BY <1>3, Numbers DEF TellInv
<1> QED BY <1>1, <1>3, <1>4, <1>5, <1>6, <1>7, Spared DEF Promised

\* The callback of an event moves on, or the event is handed to it or to a job.
HandedOn(e) ==
  /\ UNCHANGED <<mined, up, sendJob, recorded, notified>> /\ disturbed \subseteq disturbed'
  /\ e \in undelivered \/ callback[e] # "none"
  /\ e \in disturbed' \/ callback'[e] # "none" \/ notifyJobs'[e] > 0
  /\ \A d \in Events \ {e} : /\ d \in undelivered' <=> d \in undelivered
                             /\ callback'[d] = callback[d] /\ notifyJobs'[d] = notifyJobs[d]

LEMMA HandedOnKeeps ==
  ASSUME TellInv, NEW e \in Events, HandedOn(e), NotificationsTypeOK', BlockSeen'
  PROVE  TellInv' /\ Promised
<1>1. \A d \in Events \ {e} : InJobs(d)' = InJobs(d) /\ InListener(d)' = InListener(d)
  BY DEF HandedOn, InJobs, InListener
<1>2. e \in Happened /\ Happened' = Happened
  BY DEF TellInv, AfterItHappened, HandedOn, Happened
<1>3. AfterItHappened'
  BY <1>1, <1>2 DEF TellInv, AfterItHappened, HandedOn
<1>4. \A d \in Events : Gone(d) => Gone(d)'
  BY <1>1 DEF Gone, HandedOn
<1>5. NotDropped(e)
  BY <1>2 DEF NotDropped, HandedOn, Live, InListener, InJobs, Happened
<1>6. \A d \in Events \ {e} : NotDropped(d)
  BY <1>1 DEF NotDropped, HandedOn, Live
<1>7. mined <= mined'
  BY Numbers DEF TellInv, HandedOn
<1> QED BY <1>3, <1>4, <1>5, <1>6, <1>7, Spared DEF Promised, HandedOn

LEMMA CallbackSteps ==
  ASSUME TellInv, NEW e \in Events,
         TakeEvent(e) \/ RecordBlock(e) \/ AddNotifyJob(e) \/ CallbackFails(e)
  PROVE  TellInv' /\ Promised
<1> USE DEF TellInv
<1>1. CASE TakeEvent(e)
  <2>1. NotificationsTypeOK'
    BY <1>1 DEF NotificationsTypeOK, TakeEvent
  <2>2. HandedOn(e) /\ BlockSeen'
    BY <1>1 DEF NotificationsTypeOK, BlockSeen, TakeEvent, HandedOn
  <2> QED BY <2>1, <2>2, HandedOnKeeps
<1>2. CASE RecordBlock(e)
  <2>1. EventBlock[e] \in 0..LastBlock /\ latest' \in {EventBlock[e], latest}
    <3>1. EventBlock[e] \in 1..LastBlock
      BY NotificationsAssumption
    <3> QED BY <1>2, <3>1, NotificationsAssumption DEF RecordBlock, Higher
  <2>2. NotificationsTypeOK'
    BY <1>2, <2>1 DEF NotificationsTypeOK, RecordBlock
  <2>3. HandedOn(e)
    BY <1>2 DEF NotificationsTypeOK, RecordBlock, HandedOn
  <2>4. BlockSeen'
    <3>1. seen' = seen \cup {e}
      BY <1>2 DEF RecordBlock
    <3>2. CASE latest' = EventBlock[e]
      BY <3>1, <3>2 DEF BlockSeen
    <3>3. CASE latest' # EventBlock[e]
      <4>1. latest' = latest /\ ~(EventBlock[e] > latest)
        BY <1>2, <3>3 DEF RecordBlock, Higher
      <4>2. latest # 0
        BY <3>3, <4>1, Numbers, BlocksOfEvents
      <4> QED BY <3>1, <4>1, <4>2 DEF BlockSeen
    <3> QED BY <3>2, <3>3
  <2> QED BY <2>2, <2>3, <2>4, HandedOnKeeps
<1>3. CASE AddNotifyJob(e)
  <2>1. notifyJobs[e] + 1 \in 0..MaxJobs /\ notifyJobs[e] + 1 > 0
    <3>1. notifyJobs[e] \in 0..MaxJobs /\ notifyJobs[e] < MaxJobs
      BY <1>3 DEF NotificationsTypeOK, AddNotifyJob
    <3> QED BY <3>1, NotificationsAssumption
  <2>2. NotificationsTypeOK'
    BY <1>3, <2>1 DEF NotificationsTypeOK, AddNotifyJob
  <2>3. /\ notifyJobs'[e] = notifyJobs[e] + 1
        /\ \A d \in Events \ {e} : callback'[d] = callback[d] /\ notifyJobs'[d] = notifyJobs[d]
    BY <1>3 DEF NotificationsTypeOK, AddNotifyJob
  <2>4. HandedOn(e) /\ BlockSeen'
    BY <1>3, <2>1, <2>3 DEF BlockSeen, AddNotifyJob, HandedOn
  <2> QED BY <2>2, <2>4, HandedOnKeeps
<1>4. CASE CallbackFails(e)
  <2>1. NotificationsTypeOK'
    BY <1>4, FaultCounted DEF NotificationsTypeOK, CallbackFails, Disturb
  <2>2. HandedOn(e) /\ BlockSeen'
    BY <1>4 DEF NotificationsTypeOK, BlockSeen, CallbackFails, Disturb, HandedOn
  <2> QED BY <2>1, <2>2, HandedOnKeeps
<1> QED BY <1>1, <1>2, <1>3, <1>4

LEMMA MineBlockStep ==
  ASSUME TellInv, MineBlock
  PROVE  TellInv' /\ Promised
<1>1. mined \in Nat /\ mined' = mined + 1 /\ mined' \in 0..LastBlock
  <2>1. mined \in 0..LastBlock /\ mined < LastBlock
    BY DEF TellInv, NotificationsTypeOK, MineBlock
  <2> QED BY <2>1, NotificationsAssumption DEF MineBlock
<1>2. /\ UNCHANGED <<latest, up, callback, seen, notifyJobs, sendJob, recorded, notified, disturbed>>
      /\ undelivered' = IF up THEN undelivered \cup {e \in Events : EventBlock[e] = mined + 1}
                        ELSE undelivered
  BY DEF MineBlock
<1>3. NotificationsTypeOK'
  BY <1>1, <1>2 DEF TellInv, NotificationsTypeOK, MineBlock
<1>4. \A e : InJobs(e)' = InJobs(e)
  BY <1>2 DEF InJobs
<1>5. \A e \in Events : EventBlock[e] <= mined => EventBlock[e] <= mined' /\ EventBlock[e] # mined + 1
  BY <1>1, BlocksOfEvents
<1>6. AfterItHappened' /\ BlockSeen'
  BY <1>1, <1>2, <1>4, <1>5, BlocksOfEvents DEF TellInv, AfterItHappened, BlockSeen, Happened
<1>7. ASSUME NEW e \in Events, Gone(e) PROVE Gone(e)'
  <2>1. EventBlock[e] <= mined /\ mined' - EventBlock[e] >= Week
    BY <1>1, <1>7, BlocksOfEvents, NotificationsAssumption DEF Gone
  <2> QED BY <1>2, <1>4, <1>5, <1>7, <2>1 DEF Gone
<1>8. ASSUME NEW e \in Events PROVE NotDropped(e)
  <2>1. CASE EventBlock[e] <= mined
    BY <1>2, <1>4, <1>8, <2>1 DEF NotDropped, Live, InListener
  <2>2. CASE EventBlock[e] = mined + 1
    BY <1>2, <1>8, <2>2 DEF NotDropped, Live, InListener
  <2>3. CASE ~(EventBlock[e] <= mined')
    BY <1>2, <2>3 DEF NotDropped
  <2> QED BY <1>1, <1>8, <2>1, <2>2, <2>3, BlocksOfEvents
<1> QED BY <1>1, <1>2, <1>3, <1>6, <1>7, <1>8, Spared DEF Promised

LEMMA PassSendByStep ==
  ASSUME TellInv, NEW e \in Events, PassSendBy(e)
  PROVE  TellInv' /\ Promised
<1>1. /\ UNCHANGED <<mined, latest, up, undelivered, callback, seen, notifyJobs, sendJob,
                     recorded, notified, disturbed>>
      /\ late' = late \cup {e} /\ e \in HasSendBy
  BY DEF PassSendBy, listenerVars
<1>2. NotificationsTypeOK'
  BY <1>1 DEF TellInv, NotificationsTypeOK, PassSendBy
<1>3. \A d : InJobs(d)' = InJobs(d)
  BY <1>1 DEF InJobs
<1>4. AfterItHappened' /\ BlockSeen' /\ \A d \in Events : Gone(d) => Gone(d)'
  BY <1>1, <1>3 DEF TellInv, AfterItHappened, BlockSeen, Happened, Gone
<1>5. \A d \in Events : NotDropped(d)
  BY <1>1, <1>3 DEF NotDropped, Live, InListener
<1>6. mined <= mined'
  BY <1>1, Numbers DEF TellInv
<1> QED BY <1>1, <1>2, <1>4, <1>5, <1>6, Spared DEF Promised

----------------------------------------------------------------------------
(* The jobs' steps. *)

\* A notify job adds a job that sends unless one with the key waits; jobs of the
\* event that run only lose the key.
AddsJob(e) ==
  /\ sendJob' \in [Slots -> SendJob]
  /\ \A j \in Slots :
       \/ sendJob'[j].event = sendJob[j].event /\ sendJob'[j].pc = sendJob[j].pc
       \/ sendJob[j].pc = "free" /\ sendJob'[j].event = e /\ sendJob'[j].pc = "queued"
  /\ \E j \in Slots : sendJob'[j].event = e

LEMMA AddSendJobAdds ==
  ASSUME NotificationsTypeOK, NEW e \in Events, AddSendJob(e)
  PROVE  AddsJob(e)
<1>1. sendJob \in [Slots -> SendJob]
  BY DEF NotificationsTypeOK
<1>2. CASE KeyedQueued(e)
  <2>1. \E j \in Slots : sendJob[j].event = e
    BY <1>2 DEF KeyedQueued
  <2> QED BY <1>1, <1>2, <2>1 DEF AddSendJob, AddsJob
<1>3. CASE ~KeyedQueued(e)
  <2> DEFINE new == CHOOSE j \in Free : \A i \in Free : j <= i
             row == [event |-> e, keyed |-> TRUE, pc |-> "queued"]
  <2>1. Free \in SUBSET Nat /\ Free # {}
    BY <1>3 DEF AddSendJob, Free, Slots
  <2>2. \E j \in Free : \A i \in Free : j <= i
    BY <2>1, LeastNat
  <2>3. new \in Free
    BY <2>2
  <2>4. sendJob' = [j \in Slots |->
          IF j = new THEN row
          ELSE IF sendJob[j].event = e THEN [sendJob[j] EXCEPT !.keyed = FALSE]
          ELSE sendJob[j]]
    BY <1>3 DEF AddSendJob
  <2> HIDE DEF new
  <2>5. row \in SendJob /\ row.event = e /\ row.pc = "queued"
    BY DEF SendJob
  <2> HIDE DEF row
  <2>6. ASSUME NEW j \in Slots
        PROVE  LET v == [sendJob[j] EXCEPT !.keyed = FALSE] IN
               v \in SendJob /\ v.event = sendJob[j].event /\ v.pc = sendJob[j].pc
    BY <1>1, <2>6 DEF SendJob
  <2>7. new \in Slots /\ sendJob[new].pc = "free" /\ sendJob'[new] = row
    BY <2>3, <2>4 DEF Free
  <2>8. ASSUME NEW j \in Slots \ {new}
        PROVE  sendJob'[j].event = sendJob[j].event /\ sendJob'[j].pc = sendJob[j].pc
    BY <2>4, <2>6, <2>8
  <2>9. sendJob' \in [Slots -> SendJob]
    BY <1>1, <2>4, <2>5, <2>6
  <2> QED BY <2>5, <2>7, <2>8, <2>9 DEF AddsJob
<1> QED BY <1>2, <1>3

LEMMA NotifyClientStep ==
  ASSUME TellInv, NEW e \in Events, NotifyClient(e)
  PROVE  TellInv' /\ Promised
<1> USE DEF TellInv
<1>1. /\ notifyJobs[e] > 0
      /\ UNCHANGED <<mined, latest, up, undelivered, callback, seen, recorded, notified, late>>
  BY DEF NotifyClient, listenerVars
<1>2. \/ AddsJob(e) /\ UNCHANGED disturbed
      \/ sendJob' = sendJob /\ disturbed' = disturbed \cup {e}
  BY AddSendJobAdds DEF NotifyClient, Disturb
<1>3. \/ notifyJobs' = [notifyJobs EXCEPT ![e] = @ - 1]
      \/ notifyJobs' = notifyJobs /\ AddsJob(e)
  BY AddSendJobAdds DEF NotifyClient, NotifyJobDone
<1>4. notifyJobs[e] - 1 \in 0..MaxJobs
  <2>1. notifyJobs[e] \in 0..MaxJobs
    BY DEF NotificationsTypeOK
  <2> QED BY <1>1, <2>1, NotificationsAssumption
<1>5. faults' \in 0..MaxFaults
  BY FaultCounted DEF NotifyClient, NotificationsTypeOK
<1>6. /\ notifyJobs' \in [Events -> 0..MaxJobs]
      /\ \A d \in Events \ {e} : notifyJobs'[d] = notifyJobs[d]
  BY <1>3, <1>4 DEF NotificationsTypeOK
<1>7. sendJob' \in [Slots -> SendJob] /\ disturbed \subseteq disturbed' /\ disturbed' \subseteq Events
  BY <1>2 DEF AddsJob, NotificationsTypeOK
<1>8. NotificationsTypeOK'
  BY <1>1, <1>5, <1>6, <1>7 DEF NotificationsTypeOK
<1>9. \A j \in Slots :
        \/ sendJob'[j].event = sendJob[j].event /\ sendJob'[j].pc = sendJob[j].pc
        \/ sendJob[j].pc = "free" /\ sendJob'[j].event = e /\ sendJob'[j].pc = "queued"
  BY <1>2 DEF AddsJob
<1>10. SlotsTaken'
  BY <1>9, NotificationsAssumption DEF SlotsTaken
<1>11. \A d \in Events, j \in Slots, pcs \in SUBSET {"send", "record"} :
         SendAt(j, d, pcs)' <=> SendAt(j, d, pcs)
  BY <1>9 DEF SendAt
<1>12. \A d \in Events \ {e} : InJobs(d)' <=> InJobs(d)
  BY <1>6, <1>9, NotificationsAssumption DEF InJobs, SlotsTaken
<1>13. InJobs(e) /\ (InJobs(e)' \/ e \in disturbed')
  BY <1>1, <1>2 DEF InJobs, AddsJob
<1>14. \A d : InListener(d)' <=> InListener(d)
  BY <1>1 DEF InListener
<1>15. BlockSeen' /\ AfterItHappened'
  BY <1>1, <1>12, <1>13 DEF BlockSeen, AfterItHappened, Happened
<1>16. \A d \in Events : Sent(d)' <=> Sent(d)
  BY <1>1, <1>11 DEF Sent
<1>17. SentIsTold'
  BY <1>1, <1>16 DEF SentIsTold
<1>18. \A d \in Events : Gone(d) => Gone(d)'
  BY <1>1, <1>12, <1>13 DEF Gone
<1>19. ASSUME NEW d \in Events \ disturbed' PROVE OnceTold(d)'
  <2>1. OnceTold(d)
    BY <1>7, <1>19 DEF ToldOnce
  <2> QED BY <1>1, <1>11, <1>16, <1>18, <1>19, <2>1 DEF OnceTold, Alone, Settled
<1>20. \A d \in Events \ {e} : NotDropped(d)
  BY <1>1, <1>12, <1>14 DEF NotDropped, Live
<1>21. NotDropped(e)
  BY <1>1, <1>13 DEF NotDropped, Live, AfterItHappened, Happened
<1>22. mined <= mined'
  BY <1>1, Numbers
<1> QED
  BY <1>7, <1>8, <1>10, <1>15, <1>17, <1>19, <1>20, <1>21, <1>22 DEF ToldOnce, Promised

\* Slot j's job, for event e, goes to pc, or ends; nothing changes for other events.
JobMoves(j, e, pc) ==
  /\ sendJob' \in [Slots -> SendJob]
  /\ sendJob'[j].pc = pc /\ sendJob'[j].event = IF pc = "free" THEN NoEvent ELSE e
  /\ \A i \in Slots \ {j} : sendJob'[i] = sendJob[i]
Sends(j, e, pc) ==
  /\ sendJob[j].event = e /\ sendJob[j].pc # "free" /\ JobMoves(j, e, pc)
  /\ UNCHANGED <<mined, latest, up, undelivered, callback, seen, notifyJobs>>
  /\ disturbed \subseteq disturbed'
  /\ \A d \in Events \ {e} : (d \in recorded' <=> d \in recorded) /\ notified'[d] = notified[d]

LEMMA SendGotoMoves ==
  ASSUME NotificationsTypeOK, NEW j \in Slots, NEW pc \in {"queued", "send", "record"}, SendGoto(j, pc)
  PROVE  JobMoves(j, sendJob[j].event, pc)
<1>1. sendJob \in [Slots -> SendJob]
  BY DEF NotificationsTypeOK
<1>2. [sendJob[j] EXCEPT !.pc = pc] \in SendJob /\ [sendJob[j] EXCEPT !.pc = pc].pc = pc
      /\ [sendJob[j] EXCEPT !.pc = pc].event = sendJob[j].event
  BY <1>1 DEF SendJob
<1>3. sendJob' = [sendJob EXCEPT ![j] = [sendJob[j] EXCEPT !.pc = pc]]
  BY DEF SendGoto
<1> QED BY <1>1, <1>2, <1>3 DEF JobMoves

LEMMA SendDoneMoves ==
  ASSUME NotificationsTypeOK, NEW j \in Slots, SendDone(j)
  PROVE  JobMoves(j, sendJob[j].event, "free")
<1>1. sendJob \in [Slots -> SendJob]
  BY DEF NotificationsTypeOK
<1>2. FreeSlot \in SendJob /\ FreeSlot.pc = "free" /\ FreeSlot.event = NoEvent
  BY DEF FreeSlot, SendJob
<1> QED BY <1>1, <1>2 DEF JobMoves, SendDone

LEMMA JobOfEvent ==
  ASSUME TellInv, NEW j \in Slots, sendJob[j].pc # "free"
  PROVE  /\ sendJob[j].event \in Events /\ InJobs(sendJob[j].event)
         /\ EventBlock[sendJob[j].event] <= mined
<1>1. sendJob[j].event \in Events
  BY DEF TellInv, NotificationsTypeOK, SendJob, SlotsTaken
<1>2. InJobs(sendJob[j].event)
  BY DEF InJobs
<1> QED BY <1>1, <1>2 DEF TellInv, AfterItHappened, Happened

\* Other events' jobs are where they were; so are this event's others.
LEMMA SendsKeeps ==
  ASSUME TellInv, NotificationsTypeOK', NEW j \in Slots, NEW e \in Events,
         NEW pc \in {"free", "queued", "send", "record"}, Sends(j, e, pc),
         Sent(e)' => notified'[e] > 0, e \in disturbed' \/ OnceTold(e)',
         NotDropped(e) \/ ToldNow(e)
  PROVE  TellInv' /\ Promised
<1> USE DEF TellInv
<1>1. SlotsTaken'
  BY NotificationsAssumption DEF SlotsTaken, Sends, JobMoves
<1>2. \A d \in Events \ {e}, i \in Slots :
        \/ sendJob'[i] = sendJob[i]
        \/ sendJob'[i].event # d /\ sendJob[i].event # d
  BY NotificationsAssumption DEF Sends, JobMoves
<1>3. \A d \in Events \ {e}, i \in Slots : \A pcs : SendAt(i, d, pcs)' <=> SendAt(i, d, pcs)
  BY <1>2 DEF SendAt
<1>4. \A d \in Events \ {e} : (InJobs(d)' <=> InJobs(d)) /\ (InListener(d)' <=> InListener(d))
  BY <1>2 DEF InJobs, InListener, Sends
<1>5. BlockSeen' /\ Happened' = Happened /\ mined <= mined'
  BY Numbers DEF BlockSeen, Happened, Sends
<1>6. e \in Happened
  BY JobOfEvent DEF Sends, Happened
<1>7. AfterItHappened'
  BY <1>4, <1>5, <1>6 DEF AfterItHappened, Sends
<1>8. \A d \in Events \ {e} : Sent(d)' <=> Sent(d)
  BY <1>3 DEF Sent, Sends
<1>9. SentIsTold'
  BY <1>8 DEF SentIsTold, Sends
<1>10. ASSUME NEW d \in Events \ disturbed', d # e PROVE OnceTold(d)'
  <2>1. OnceTold(d)
    BY <1>10 DEF ToldOnce, Sends
  <2>2. Alone(d)'
    BY <1>3, <1>10, <2>1 DEF OnceTold, Alone
  <2>3. Gone(d)' <=> Gone(d)
    BY <1>4, <1>10 DEF Gone, Sends
  <2> QED BY <1>3, <1>8, <1>10, <2>1, <2>2, <2>3 DEF OnceTold, Settled, Sends
<1>11. ToldOnce'
  BY <1>10 DEF ToldOnce
<1>12. \A d \in Events \ {e} : NotDropped(d)
  BY <1>4 DEF NotDropped, Live, Sends
<1> QED BY <1>1, <1>5, <1>7, <1>9, <1>11, <1>12 DEF Promised, Sends

\* When the event stays as often told as it was, it is not dropped.
LEMMA SendsNotDropped ==
  ASSUME TellInv, NEW j \in Slots, NEW e \in Events,
         NEW pc \in {"free", "queued", "send", "record"}, Sends(j, e, pc),
         notified'[e] = notified[e], pc # "free" \/ e \in disturbed' \/ notified[e] # 0
  PROVE  NotDropped(e)
<1>1. EventBlock[e] <= mined
  BY JobOfEvent DEF Sends
<1>2. pc # "free" => Live(e)'
  BY DEF Live, InJobs, Sends, JobMoves
<1> QED BY <1>1, <1>2 DEF NotDropped

LEMMA StartSendStep ==
  ASSUME TellInv, NEW j \in Slots, NEW e \in Events, sendJob[j].event = e, StartSend(j)
  PROVE  TellInv' /\ Promised
<1>1. e \in Events /\ InJobs(e) /\ sendJob[j].pc = "queued"
  BY JobOfEvent DEF StartSend
<1>2. /\ UNCHANGED <<mined, latest, up, undelivered, callback, seen, notifyJobs, recorded,
                     notified, late, faults>>
      /\ NotificationsTypeOK
  BY DEF TellInv, StartSend, listenerVars
<1>3. \/ e \in recorded /\ JobMoves(j, e, "free") /\ UNCHANGED disturbed
      \/ JobMoves(j, e, "free") /\ disturbed' = disturbed \cup {e}
      \/ /\ e \notin recorded /\ JobMoves(j, e, "send")
         /\ (e \in disturbed' /\ disturbed' = disturbed \cup {e}) \/ (~Beside(j) /\ UNCHANGED disturbed)
  BY <1>2, SendGotoMoves, SendDoneMoves DEF StartSend, Disturb
<1>4. disturbed \subseteq disturbed' /\ disturbed' \subseteq Events
  BY <1>1, <1>2, <1>3 DEF NotificationsTypeOK
<1>5. sendJob' \in [Slots -> SendJob]
  BY <1>3 DEF JobMoves
<1>6. NotificationsTypeOK'
  BY <1>2, <1>4, <1>5 DEF NotificationsTypeOK
<1>7. \A pc : JobMoves(j, e, pc) => Sends(j, e, pc)
  BY <1>1, <1>2, <1>4 DEF Sends
<1>8. \A i \in Slots, pc \in {"free", "send"} :
        JobMoves(j, e, pc) /\ SendAt(i, e, {"record"})' => SendAt(i, e, {"record"})
  BY DEF JobMoves, SendAt
<1>9. Sent(e)' => notified'[e] > 0
  <2>1. Sent(e)' => Sent(e)
    BY <1>2, <1>3, <1>8 DEF Sent
  <2> QED BY <1>1, <1>2, <2>1 DEF TellInv, SentIsTold
<1>10. CASE e \in recorded /\ JobMoves(j, e, "free") /\ UNCHANGED disturbed
  <2>1. notified[e] # 0
    BY <1>1, <1>2, <1>10, Numbers DEF TellInv, SentIsTold, Sent
  <2>2. e \in disturbed' \/ OnceTold(e)'
    <3>1. e \in disturbed \/ OnceTold(e)
      BY <1>1 DEF TellInv, ToldOnce
    <3>2. \A i \in Slots, pcs \in SUBSET {"send", "record"} :
            SendAt(i, e, pcs)' => SendAt(i, e, pcs)
      BY <1>10 DEF JobMoves, SendAt
    <3>3. OnceTold(e) => Alone(e)'
      BY <3>2 DEF OnceTold, Alone
    <3>4. OnceTold(e) /\ notified'[e] > 0 => Settled(e)'
      BY <1>2, <1>10, <3>2 DEF OnceTold, Settled, Sent
    <3> QED BY <1>4, <3>1, <3>3, <3>4 DEF OnceTold
  <2>3. NotDropped(e)
    BY <1>1, <1>2, <1>7, <1>10, <2>1, SendsNotDropped
  <2> QED BY <1>1, <1>6, <1>7, <1>9, <1>10, <2>2, <2>3, SendsKeeps
<1>11. CASE JobMoves(j, e, "free") /\ disturbed' = disturbed \cup {e}
  <2>1. NotDropped(e)
    BY <1>1, <1>2, <1>7, <1>11, SendsNotDropped
  <2> QED BY <1>1, <1>6, <1>7, <1>9, <1>11, <2>1, SendsKeeps
<1>12. CASE /\ e \notin recorded /\ JobMoves(j, e, "send")
            /\ (e \in disturbed' /\ disturbed' = disturbed \cup {e}) \/ (~Beside(j) /\ UNCHANGED disturbed)
  <2>1. NotDropped(e)
    BY <1>1, <1>2, <1>7, <1>12, SendsNotDropped
  <2>2. ASSUME e \notin disturbed' PROVE OnceTold(e)'
    <3>1. ~Beside(j) /\ OnceTold(e)
      BY <1>1, <1>4, <1>12, <2>2 DEF TellInv, ToldOnce
    <3>2. \A i \in Slots \ {j} : ~SendAt(i, e, {"send", "record"})
      BY <3>1 DEF Beside, SendAt
    <3>3. Alone(e)'
      BY <1>12, <3>2 DEF Alone, SendAt, JobMoves
    <3>4. ~(Sent(e) \/ Gone(e))
      BY <1>1, <1>12, <3>2 DEF Sent, Gone, SendAt
    <3> QED BY <1>2, <3>1, <3>3, <3>4 DEF OnceTold, Settled
  <2> QED BY <1>1, <1>6, <1>7, <1>9, <1>12, <2>1, <2>2, SendsKeeps
<1> QED BY <1>3, <1>10, <1>11, <1>12

LEMMA FirebaseSendStep ==
  ASSUME TellInv, NEW j \in Slots, NEW e \in Events, sendJob[j].event = e, FirebaseSend(j)
  PROVE  TellInv' /\ Promised
<1>1. e \in Events /\ InJobs(e) /\ EventBlock[e] <= mined /\ sendJob[j].pc = "send"
  BY JobOfEvent DEF FirebaseSend
<1>2. /\ UNCHANGED <<mined, latest, up, undelivered, callback, seen, notifyJobs, recorded,
                     late, faults>>
      /\ NotificationsTypeOK
  BY DEF TellInv, FirebaseSend, listenerVars
<1>3. \/ /\ JobMoves(j, e, "record") /\ UNCHANGED disturbed
         /\ notified' = [notified EXCEPT ![e] = @ + 1]
      \/ JobMoves(j, e, "free") /\ disturbed' = disturbed \cup {e} /\ UNCHANGED notified
  BY <1>2, SendGotoMoves, SendDoneMoves DEF FirebaseSend, Disturb
<1>4. SendAt(j, e, {"send", "record"}) /\ SendAt(j, e, {"send"})
  BY <1>1 DEF SendAt
<1>5. notified \in [Events -> Nat] /\ notified[e] \in Nat
  BY <1>1, <1>2 DEF NotificationsTypeOK
<1>6. /\ disturbed \subseteq disturbed' /\ disturbed' \subseteq Events
      /\ notified' \in [Events -> Nat] /\ \A d \in Events \ {e} : notified'[d] = notified[d]
  BY <1>1, <1>2, <1>3, <1>5 DEF NotificationsTypeOK
<1>7. sendJob' \in [Slots -> SendJob]
  BY <1>3 DEF JobMoves
<1>8. NotificationsTypeOK'
  BY <1>2, <1>6, <1>7 DEF NotificationsTypeOK
<1>9. \A pc : JobMoves(j, e, pc) => Sends(j, e, pc)
  BY <1>1, <1>2, <1>6 DEF Sends
<1>10. e \in disturbed \/ OnceTold(e)
  BY <1>1 DEF TellInv, ToldOnce
<1>11. CASE /\ JobMoves(j, e, "record") /\ UNCHANGED disturbed
            /\ notified' = [notified EXCEPT ![e] = @ + 1]
  <2>1. notified'[e] = notified[e] + 1 /\ notified'[e] > 0
    BY <1>1, <1>5, <1>11
  <2>2. notified[e] > 0 => e \in disturbed
    BY <1>4, <1>10 DEF OnceTold, Settled
  <2>3. ToldNow(e)
    BY <1>1, <2>1, <2>2 DEF ToldNow, Live
  <2>4. ASSUME e \notin disturbed PROVE OnceTold(e)'
    <3>1. \A i \in Slots \ {j} : ~SendAt(i, e, {"send", "record"})
      BY <1>4, <1>10, <2>4 DEF OnceTold, Alone
    <3>2. SendAt(j, e, {"record"})' /\ \A i \in Slots \ {j} : ~SendAt(i, e, {"send", "record"})'
      BY <1>11, <3>1 DEF JobMoves, SendAt
    <3>3. Alone(e)'
      BY <3>2 DEF Alone
    <3>4. \A i \in Slots : ~SendAt(i, e, {"send"})'
      BY <3>2 DEF SendAt
    <3> QED BY <3>2, <3>3, <3>4 DEF OnceTold, Settled, Sent
  <2> QED BY <1>1, <1>8, <1>9, <1>11, <2>1, <2>3, <2>4, SendsKeeps
<1>12. CASE JobMoves(j, e, "free") /\ disturbed' = disturbed \cup {e} /\ UNCHANGED notified
  <2>1. NotDropped(e)
    BY <1>1, <1>9, <1>12, SendsNotDropped
  <2>2. \A i \in Slots : SendAt(i, e, {"record"})' => SendAt(i, e, {"record"})
    BY <1>12 DEF JobMoves, SendAt
  <2>3. Sent(e)' => notified'[e] > 0
    BY <1>1, <1>2, <1>12, <2>2 DEF TellInv, SentIsTold, Sent
  <2> QED BY <1>1, <1>8, <1>9, <1>12, <2>1, <2>3, SendsKeeps
<1> QED BY <1>3, <1>11, <1>12

LEMMA RecordSentStep ==
  ASSUME TellInv, NEW j \in Slots, NEW e \in Events, sendJob[j].event = e, RecordSent(j)
  PROVE  TellInv' /\ Promised
<1>1. SendAt(j, e, {"record"}) /\ sendJob[j].pc = "record"
  BY DEF RecordSent, SendAt
<1>2. /\ UNCHANGED <<mined, latest, up, undelivered, callback, seen, notifyJobs, notified, late>>
      /\ NotificationsTypeOK
  BY DEF TellInv, RecordSent, listenerVars
<1>3. /\ JobMoves(j, e, "free")
      /\ \/ recorded' = recorded \cup {e} /\ UNCHANGED disturbed
         \/ recorded' = recorded /\ disturbed' = disturbed \cup {e}
  BY <1>2, SendDoneMoves DEF RecordSent, Disturb
<1>4. notified[e] > 0 /\ notified'[e] > 0
  BY <1>1, <1>2 DEF TellInv, SentIsTold, Sent
<1>5. /\ disturbed \subseteq disturbed' /\ disturbed' \subseteq Events /\ recorded' \subseteq Events
      /\ sendJob' \in [Slots -> SendJob] /\ faults' \in 0..MaxFaults
  BY <1>2, <1>3, FaultCounted DEF NotificationsTypeOK, JobMoves, RecordSent
<1>6. NotificationsTypeOK'
  BY <1>2, <1>5 DEF NotificationsTypeOK
<1>7. Sends(j, e, "free")
  BY <1>1, <1>2, <1>3, <1>5 DEF Sends
<1>8. NotDropped(e)
  BY <1>2, <1>4, <1>7, Numbers, SendsNotDropped
<1>9. ASSUME e \notin disturbed' PROVE OnceTold(e)'
  <2>1. Alone(e) /\ \A i \in Slots : ~SendAt(i, e, {"send"})
    BY <1>4, <1>5, <1>9 DEF TellInv, ToldOnce, OnceTold, Settled
  <2>2. \A i \in Slots, pcs \in SUBSET {"send", "record"} :
          SendAt(i, e, pcs)' => SendAt(i, e, pcs)
    BY <1>3 DEF JobMoves, SendAt
  <2>3. e \in recorded'
    BY <1>3, <1>9
  <2> QED BY <2>1, <2>2, <2>3 DEF OnceTold, Alone, Settled, Sent
<1> QED BY <1>4, <1>6, <1>7, <1>8, <1>9, SendsKeeps

LEMMA SendFailsStep ==
  ASSUME TellInv, NEW j \in Slots, NEW e \in Events, sendJob[j].event = e, SendFails(j)
  PROVE  TellInv' /\ Promised
<1>1. SendAt(j, e, {"send", "record"}) /\ sendJob[j].pc \in {"send", "record"}
  BY DEF SendFails, SendAt
<1>2. /\ UNCHANGED <<mined, latest, up, undelivered, callback, seen, notifyJobs, recorded,
                     notified, late>>
      /\ NotificationsTypeOK
  BY DEF TellInv, SendFails, listenerVars
<1>3. \/ /\ JobMoves(j, e, "queued")
         /\ \/ disturbed' = disturbed \cup {e}
            \/ sendJob[j].pc = "send" /\ UNCHANGED disturbed
      \/ JobMoves(j, e, "free") /\ disturbed' = disturbed \cup {e}
  BY <1>1, <1>2, SendGotoMoves, SendDoneMoves DEF SendFails, Disturb
<1>4. PICK pc \in {"queued", "free"} :
        JobMoves(j, e, pc) /\ (pc = "queued" \/ disturbed' = disturbed \cup {e})
  BY <1>3
<1>5. /\ disturbed \subseteq disturbed' /\ disturbed' \subseteq Events
      /\ sendJob' \in [Slots -> SendJob] /\ faults' \in 0..MaxFaults
  BY <1>2, <1>3, <1>4, FaultCounted DEF NotificationsTypeOK, JobMoves, SendFails
<1>6. NotificationsTypeOK'
  BY <1>2, <1>5 DEF NotificationsTypeOK
<1>7. Sends(j, e, pc)
  BY <1>1, <1>2, <1>4, <1>5 DEF Sends
<1>8. NotDropped(e)
  BY <1>2, <1>4, <1>7, SendsNotDropped
<1>9. \A i \in Slots, pcs \in SUBSET {"send", "record"} :
        SendAt(i, e, pcs)' => SendAt(i, e, pcs)
  BY <1>4 DEF JobMoves, SendAt
<1>10. Sent(e)' => notified'[e] > 0
  BY <1>2, <1>9 DEF TellInv, SentIsTold, Sent
<1>11. ASSUME e \notin disturbed' PROVE OnceTold(e)'
  <2>1. sendJob[j].pc = "send" /\ OnceTold(e)
    BY <1>3, <1>5, <1>11 DEF TellInv, ToldOnce
  <2>2. ~(notified[e] > 0)
    BY <2>1 DEF OnceTold, Settled, SendAt
  <2>3. Alone(e)'
    BY <1>9, <2>1 DEF OnceTold, Alone
  <2> QED BY <1>2, <2>2, <2>3 DEF OnceTold
<1> QED BY <1>6, <1>7, <1>8, <1>10, <1>11, SendsKeeps

\* A row is removed when the block is out of a new subscription's reach.
LEMMA RemoveOldSentStep ==
  ASSUME TellInv, NEW e \in Events, RemoveOldSent(e)
  PROVE  TellInv' /\ Promised
<1> USE DEF TellInv
<1>1. /\ UNCHANGED <<mined, latest, up, undelivered, callback, seen, notifyJobs, sendJob,
                     notified, late, faults>>
      /\ recorded' = recorded \ {e}
  BY DEF RemoveOldSent, listenerVars
<1>2. disturbed \subseteq disturbed' /\ disturbed' \subseteq Events
  BY DEF RemoveOldSent, Disturb, NotificationsTypeOK
<1>3. NotificationsTypeOK'
  BY <1>1, <1>2 DEF NotificationsTypeOK
<1>4. \A d : InJobs(d)' = InJobs(d) /\ InListener(d)' = InListener(d) /\ Gone(d)' = Gone(d)
  BY <1>1 DEF InJobs, InListener, Gone
<1>5. \A i, d, pcs : SendAt(i, d, pcs)' = SendAt(i, d, pcs)
  BY <1>1 DEF SendAt
<1>6. SlotsTaken' /\ AfterItHappened' /\ BlockSeen'
  BY <1>1, <1>4 DEF SlotsTaken, AfterItHappened, BlockSeen, Happened
<1>7. \A d \in Events : /\ Sent(d)' => Sent(d)
                        /\ d # e /\ Sent(d) => Sent(d)'
  BY <1>1, <1>5 DEF Sent
<1>8. SentIsTold'
  BY <1>1, <1>7 DEF SentIsTold
<1>9. e \in disturbed' \/ Gone(e)
  BY DEF RemoveOldSent, Disturb, Gone, InListener
<1>10. ASSUME NEW d \in Events \ disturbed' PROVE OnceTold(d)'
  <2>1. OnceTold(d)
    BY <1>2, <1>10 DEF ToldOnce
  <2> QED BY <1>1, <1>4, <1>5, <1>7, <1>9, <1>10, <2>1 DEF OnceTold, Alone, Settled
<1>11. \A d \in Events : NotDropped(d)
  BY <1>1, <1>4 DEF NotDropped, Live
<1>12. mined <= mined'
  BY <1>1, Numbers
<1> QED BY <1>2, <1>3, <1>6, <1>8, <1>10, <1>11, <1>12 DEF ToldOnce, Promised

----------------------------------------------------------------------------
(* The theorems about notifications. *)

LEMMA TellStart == NotificationsInit => TellInv /\ Promise!PromiseInit
<1> SUFFICES ASSUME NotificationsInit PROVE TellInv /\ Promise!PromiseInit
  OBVIOUS
<1>1. NotificationsTypeOK
  <2>1. FreeSlot \in SendJob
    BY DEF FreeSlot, SendJob
  <2>2. 0 \in 0..LastBlock /\ 0 \in 0..MaxJobs /\ 0 \in 0..MaxFaults
    BY NotificationsAssumption
  <2> QED BY <2>1, <2>2 DEF NotificationsInit, NotificationsTypeOK
<1>2. \A j \in Slots : sendJob[j].event = NoEvent /\ sendJob[j].pc = "free"
  BY DEF NotificationsInit, FreeSlot
<1>3. \A e \in Events : /\ e # NoEvent /\ ~InJobs(e) /\ ~Sent(e) /\ notified[e] = 0
                        /\ e \notin undelivered /\ callback[e] = "none"
  BY <1>2, NotificationsAssumption DEF NotificationsInit, InJobs, Sent, SendAt
<1>4. SlotsTaken /\ AfterItHappened /\ BlockSeen /\ SentIsTold
  BY <1>2, <1>3 DEF NotificationsInit, SlotsTaken, AfterItHappened, BlockSeen, SentIsTold
<1>5. \A e \in Events : OnceTold(e)
  BY <1>2, <1>3 DEF OnceTold, Alone, SendAt
<1>6. \A e \in Events : Phase(e) = "ahead"
  BY <1>3, BlocksOfEvents DEF NotificationsInit, Phase
<1>7. Promise!PromiseInit
  BY <1>6 DEF Promise!PromiseInit, NotificationsInit
<1> QED BY <1>1, <1>4, <1>5, <1>7 DEF TellInv, ToldOnce

LEMMA TellStep ==
  ASSUME TellInv, NotificationsNext
  PROVE  TellInv' /\ Promised
<1>1. ASSUME NEW e \in Events,
             TakeEvent(e) \/ RecordBlock(e) \/ AddNotifyJob(e) \/ CallbackFails(e)
      PROVE  TellInv' /\ Promised
  BY <1>1, CallbackSteps
<1>2. ASSUME NEW e \in Events, NotifyClient(e) \/ RemoveOldSent(e) \/ PassSendBy(e)
      PROVE  TellInv' /\ Promised
  BY <1>2, NotifyClientStep, RemoveOldSentStep, PassSendByStep
<1>3. ASSUME NEW j \in Slots, StartSend(j) \/ FirebaseSend(j) \/ RecordSent(j) \/ SendFails(j)
      PROVE  TellInv' /\ Promised
  <2>1. sendJob[j].event \in Events
    BY <1>3, JobOfEvent DEF StartSend, FirebaseSend, RecordSent, SendFails
  <2> QED BY <1>3, <2>1, StartSendStep, FirebaseSendStep, RecordSentStep, SendFailsStep
<1> QED
  BY <1>1, <1>2, <1>3, SubscribeStep, ListenerDiesStep, MineBlockStep DEF NotificationsNext

LEMMA TellStutter ==
  ASSUME TellInv, UNCHANGED notificationVars
  PROVE  TellInv'
BY DEF TellInv, NotificationsTypeOK, SlotsTaken, AfterItHappened, BlockSeen, SentIsTold, ToldOnce,
   OnceTold, Alone, Settled, Sent, Gone, SendAt, InJobs, Happened, notificationVars, listenerVars

LEMMA PromiseStutter ==
  ASSUME UNCHANGED notificationVars
  PROVE  UNCHANGED Promise!promiseVars
BY DEF Promise!promiseVars, Phase, InListener, InJobs, notificationVars, listenerVars

\* Each variable has its type, for any number of events, blocks, jobs and faults.
THEOREM NotificationsTyped == NotificationsSpec => []NotificationsTypeOK
<1>1. NotificationsInit => TellInv
  BY TellStart
<1>2. TellInv /\ [NotificationsNext]_notificationVars => TellInv'
  BY TellStep, TellStutter
<1>3. TellInv => NotificationsTypeOK
  BY DEF TellInv
<1> QED BY <1>1, <1>2, <1>3, PTL DEF NotificationsSpec

\* Notifications implement NotificationPromise: what becomes of each event, and how
\* often it was told, starts as the promise does; every step of the listener, of the
\* jobs, of the chain and of time, and every fault, is a step of the promise.
THEOREM ImplementsTelling == NotificationsSpec => TellsOnce
<1>1. NotificationsInit => TellInv /\ Promise!PromiseInit
  BY TellStart
<1>2. TellInv /\ [NotificationsNext]_notificationVars => TellInv'
  BY TellStep, TellStutter
<1>3. TellInv /\ TellInv' /\ [NotificationsNext]_notificationVars
        => [Promise!PromiseNext]_(Promise!promiseVars)
  <2> SUFFICES ASSUME TellInv, TellInv', [NotificationsNext]_notificationVars
               PROVE  [Promise!PromiseNext]_(Promise!promiseVars)
    OBVIOUS
  <2>1. CASE NotificationsNext
    <3>1. Promised
      BY <2>1, TellStep
    <3> QED BY <3>1, PromisedStep DEF TellInv
  <2>2. CASE UNCHANGED notificationVars
    BY <2>2, PromiseStutter
  <2> QED BY <2>1, <2>2
<1> QED BY <1>1, <1>2, <1>3, PTL DEF NotificationsSpec, TellsOnce, Promise!PromiseSpec

----------------------------------------------------------------------------
(* Reward roots.  What was taken from the subgraph stays with somebody, and *)
(* it was taken in the order of the blocks, so that a root that nobody has  *)
(* is not before any that somebody has.                                     *)

Handled(c) ==
  \/ c \in Indexed \/ Contains(queue, c) \/ job.cycle = c \/ c \in failed
  \/ \E k \in Checks : c \in check[k].roots
HandledSubmitted == \A c \in Cycles : Handled(c) => Block[c] <= head
HandledInOrder == \A c, d \in Cycles : Handled(d) /\ Block[c] < Block[d] => Handled(c)

\* A check asks for blocks that are not past a root that nobody has.
AskedFromHandled == \A k \in Checks, c \in Cycles : Handled(c) \/ check[k].from <= Block[c]

\* What the transaction holds is the running job's.
JobFits ==
  /\ job.pc = "idle" <=> job.cycle = NoCycle
  /\ open.index = IF job.pc \in {"proofs", "commit"} THEN {job.cycle} ELSE {}
  /\ job.pc = "rollback" => job.cycle \in index

\* A check has roots only while it adds their jobs.
ChecksFit == \A k \in Checks : check[k].pc # "add" => check[k].roots = {}

RootsInv ==
  /\ RootsTypeOK /\ JobFits /\ ChecksFit
  /\ HandledSubmitted /\ HandledInOrder /\ AskedFromHandled

\* A step that takes no root keeps the order.
SameHands ==
  /\ \A c \in Cycles : Handled(c)' <=> Handled(c)
  /\ head <= head'
  /\ \A k \in Checks : check'[k].from \in {0, check[k].from, LastIndexedBlock}

\* The last indexed block is not past a root that nobody has.
LEMMA LastIndexedKnown ==
  ASSUME RootsInv
  PROVE  /\ LastIndexedBlock \in Nat
         /\ \A c \in Cycles : Handled(c) \/ LastIndexedBlock <= Block[c]
<1>1. \A c \in Cycles : Block[c] \in Nat
  BY RootsAssumption
<1>2. CASE Indexed = {}
  BY <1>1, <1>2 DEF LastIndexedBlock
<1>3. CASE Indexed # {}
  <2> DEFINE B == {Block[c] : c \in Indexed}
             S == {head - b : b \in B}
  <2>1. Indexed \subseteq Cycles /\ head \in Nat
    BY RootsAssumption DEF RootsInv, RootsTypeOK, Indexed, Transaction
  <2>2. \A c \in Indexed : Block[c] \in Nat /\ Block[c] <= head
    BY <1>1, <2>1 DEF RootsInv, HandledSubmitted, Handled
  <2>3. S \in SUBSET Nat /\ S # {}
    <3>1. \A b \in B : head - b \in Nat
      BY <2>1, <2>2
    <3> QED BY <1>3, <3>1
  <2>4. PICK m \in S : \A n \in S : m <= n
    BY <2>3, LeastNat
  <2>5. PICK b \in B : m = head - b
    BY <2>4
  <2>6. \A c \in Indexed : head - Block[c] \in S
    OBVIOUS
  <2>7. \A c \in Indexed : Block[c] <= b
    <3>1. b \in Nat
      BY <2>2, <2>5
    <3>2. ASSUME NEW c \in Indexed PROVE Block[c] <= b
      <4>1. m <= head - Block[c]
        BY <2>4, <2>6
      <4>2. head - b <= head - Block[c]
        BY <2>5, <4>1
      <4> QED BY <2>1, <2>2, <3>1, <4>2
    <3> QED BY <3>2
  <2>8. LastIndexedBlock \in B
    BY <1>3, <2>5, <2>7 DEF LastIndexedBlock
  <2>9. PICK d \in Indexed : LastIndexedBlock = Block[d]
    BY <2>8
  <2>10. Handled(d) /\ d \in Cycles
    BY <2>1 DEF Handled
  <2>11. \A c \in Cycles : Handled(c) \/ Block[d] <= Block[c]
    BY <1>1, <2>10 DEF RootsInv, HandledInOrder
  <2> QED BY <1>1, <2>9, <2>10, <2>11
<1> QED BY <1>2, <1>3

LEMMA SameHandsKeeps ==
  ASSUME RootsInv, SameHands, RootsTypeOK', JobFits', ChecksFit'
  PROVE  RootsInv'
<1>1. \A c \in Cycles : Block[c] \in Nat
  BY RootsAssumption
<1>2. head \in Nat /\ head' \in Nat
  BY DEF RootsInv, RootsTypeOK
<1>3. HandledSubmitted'
  BY <1>1, <1>2 DEF RootsInv, HandledSubmitted, SameHands
<1>4. HandledInOrder'
  BY DEF RootsInv, HandledInOrder, SameHands
<1>5. AskedFromHandled'
  BY <1>1, LastIndexedKnown DEF RootsInv, AskedFromHandled, SameHands
<1> QED BY <1>3, <1>4, <1>5 DEF RootsInv

----------------------------------------------------------------------------
(* The checks' steps. *)

LEMMA SequenceWithout ==
  ASSUME NEW S, NEW q \in Seq(S), NEW i \in 1..Len(q)
  PROVE  /\ RemoveAt(q, i) \in Seq(S)
         /\ \A x : x # q[i] => (Contains(RemoveAt(q, i), x) <=> Contains(q, x))
<1> DEFINE r == RemoveAt(q, i)
           front == SubSeq(q, 1, i - 1)
           back == SubSeq(q, i + 1, Len(q))
<1>a. Len(q) \in Nat /\ i \in Int /\ 1 <= i /\ i <= Len(q) /\ \A j \in 1..Len(q) : q[j] \in S
  OBVIOUS
<1>b. front \in Seq(S) /\ Len(front) = i - 1 /\ \A j \in 1..(i - 1) : front[j] = q[j]
  BY <1>a, SubSeqProperties
<1>c. back \in Seq(S) /\ Len(back) = Len(q) - i /\ \A j \in 1..(Len(q) - i) : back[j] = q[j + i]
  BY <1>a, SubSeqProperties
<1>d. r = front \o back
  BY DEF RemoveAt
<1> HIDE DEF r, front, back
<1>1. r \in Seq(S) /\ Len(r) = Len(q) - 1
  BY <1>a, <1>b, <1>c, <1>d, ConcatProperties
<1>2. ASSUME NEW j \in 1..Len(r) PROVE r[j] = IF j < i THEN q[j] ELSE q[j + 1]
  <2>1. r[j] = IF j <= Len(front) THEN front[j] ELSE back[j - Len(front)]
    BY <1>1, <1>a, <1>b, <1>c, <1>d, ConcatProperties
  <2>2. CASE j < i
    BY <1>a, <1>b, <2>1, <2>2
  <2>3. CASE ~(j < i)
    <3>1. j - (i - 1) \in 1..(Len(q) - i) /\ (j - (i - 1)) + i = j + 1
      BY <1>1, <1>a, <1>2, <2>3
    <3>2. r[j] = back[j - (i - 1)]
      BY <1>a, <1>b, <2>1, <2>3
    <3> QED BY <1>c, <2>3, <3>1, <3>2
  <2> QED BY <2>2, <2>3
<1>3. ASSUME NEW x, NEW j \in 1..Len(r), r[j] = x PROVE Contains(q, x)
  <2>1. CASE j < i
    BY <1>1, <1>2, <1>3, <2>1 DEF Contains
  <2>2. CASE ~(j < i)
    <3>1. j + 1 \in 1..Len(q)
      BY <1>1, <1>3
    <3> QED BY <1>2, <1>3, <2>2, <3>1 DEF Contains
  <2> QED BY <2>1, <2>2
<1>4. ASSUME NEW x, x # q[i], NEW j \in 1..Len(q), q[j] = x PROVE Contains(r, x)
  <2>1. CASE j < i
    <3>1. j \in 1..Len(r)
      BY <1>1, <1>4, <2>1
    <3> QED BY <1>2, <1>4, <2>1, <3>1 DEF Contains
  <2>2. CASE j > i
    <3>1. j - 1 \in 1..Len(r) /\ ~(j - 1 < i) /\ (j - 1) + 1 = j
      BY <1>1, <1>4, <2>2
    <3>2. r[j - 1] = x
      BY <1>2, <1>4, <3>1
    <3> QED BY <3>1, <3>2 DEF Contains
  <2>3. j # i
    BY <1>4
  <2> QED BY <1>4, <2>1, <2>2, <2>3
<1>5. \A x : Contains(r, x) => Contains(q, x)
  BY <1>3 DEF Contains
<1>6. \A x : x # q[i] /\ Contains(q, x) => Contains(r, x)
  BY <1>4 DEF Contains
<1> QED BY <1>1, <1>5, <1>6 DEF r

LEMMA Requeued ==
  ASSUME queue \in Seq(Cycles), NEW c \in Cycles, queue' = Append(Without(c), c)
  PROVE  /\ queue' \in Seq(Cycles)
         /\ \A x : Contains(queue, x)' <=> x = c \/ Contains(queue, x)
<1>1. Without(c) \in Seq(Cycles) /\ \A x : x # c => (Contains(Without(c), x) <=> Contains(queue, x))
  <2>1. CASE Contains(queue, c)
    <3> DEFINE i == CHOOSE n \in 1..Len(queue) : queue[n] = c
    <3>1. i \in 1..Len(queue) /\ queue[i] = c
      BY <2>1 DEF Contains
    <3>2. Without(c) = RemoveAt(queue, i)
      BY <2>1 DEF Without
    <3> HIDE DEF i
    <3> QED BY <3>1, <3>2, SequenceWithout
  <2>2. CASE ~Contains(queue, c)
    BY <2>2 DEF Without
  <2> QED BY <2>1, <2>2
<1> DEFINE w == Without(c)
<1>2. /\ Append(w, c) \in Seq(Cycles) /\ Len(Append(w, c)) = Len(w) + 1 /\ Len(w) \in Nat
      /\ \A j \in 1..Len(w) : Append(w, c)[j] = w[j]
      /\ Append(w, c)[Len(w) + 1] = c
  <2> HIDE DEF w
  <2>1. w \in Seq(Cycles)
    BY <1>1 DEF w
  <2> QED BY <2>1, AppendProperties
<1>3. queue' = Append(w, c)
  OBVIOUS
<1> HIDE DEF w
<1>4. \A x : Contains(queue', x) <=> x = c \/ Contains(w, x)
  <2>1. \A x : Contains(queue', x) => x = c \/ Contains(w, x)
    BY <1>2, <1>3 DEF Contains
  <2>2. \A x : Contains(w, x) => Contains(queue', x)
    BY <1>2, <1>3 DEF Contains
  <2>3. Contains(queue', c)
    BY <1>2, <1>3 DEF Contains
  <2> QED BY <2>1, <2>2, <2>3
<1>5. \A x : Contains(queue, x)' <=> Contains(queue', x)
  BY DEF Contains
<1> QED BY <1>1, <1>2, <1>3, <1>4, <1>5 DEF w

LEMMA AddingRow ==
  ASSUME NEW roots \in SUBSET Cycles
  PROVE  /\ Adding(roots) \in [pc: CheckSteps, from: Nat, roots: SUBSET Cycles]
         /\ Adding(roots).from = 0 /\ Adding(roots).roots = roots
         /\ Adding(roots).pc # "add" => roots = {}
BY DEF Adding, NoCheck, CheckSteps

LEMMA AddRootJobStep ==
  ASSUME RootsInv, NEW k \in Checks, AddRootJob(k)
  PROVE  RootsInv'
<1> USE DEF RootsInv
<1>1. PICK c \in check[k].roots :
        /\ queue' = Append(Without(c), c)
        /\ check' = [check EXCEPT ![k] = Adding(check[k].roots \ {c})]
  BY DEF AddRootJob
<1>2. /\ UNCHANGED <<head, job, checks, index, open, done, kept, failed, failures>>
      /\ check \in [Checks -> [pc: CheckSteps, from: Nat, roots: SUBSET Cycles]]
      /\ c \in Cycles /\ queue \in Seq(Cycles)
  BY <1>1 DEF AddRootJob, connection, RootsTypeOK
<1>3. /\ Adding(check[k].roots \ {c}) \in [pc: CheckSteps, from: Nat, roots: SUBSET Cycles]
      /\ Adding(check[k].roots \ {c}).from = 0
      /\ Adding(check[k].roots \ {c}).roots = check[k].roots \ {c}
      /\ Adding(check[k].roots \ {c}).pc # "add" => check[k].roots \ {c} = {}
  <2>1. check[k].roots \ {c} \in SUBSET Cycles
    BY <1>2
  <2> QED BY <2>1, AddingRow
<1>4. /\ check' \in [Checks -> [pc: CheckSteps, from: Nat, roots: SUBSET Cycles]]
      /\ check'[k].from = 0 /\ check'[k].roots = check[k].roots \ {c}
      /\ check'[k].pc # "add" => check'[k].roots = {}
      /\ \A g \in Checks \ {k} : check'[g] = check[g]
  BY <1>1, <1>2, <1>3
<1>5. /\ queue' \in Seq(Cycles)
      /\ \A x : Contains(queue, x)' <=> x = c \/ Contains(queue, x)
  BY <1>1, <1>2, Requeued
<1>6. RootsTypeOK'
  BY <1>2, <1>4, <1>5 DEF RootsTypeOK
<1>7. JobFits' /\ ChecksFit'
  BY <1>2, <1>4 DEF JobFits, ChecksFit
<1>8. \A x \in Cycles : Handled(x)' <=> Handled(x)
  BY <1>1, <1>2, <1>4, <1>5 DEF Handled, Indexed
<1>9. head <= head'
  BY <1>2 DEF RootsTypeOK
<1> QED BY <1>4, <1>6, <1>7, <1>8, <1>9, SameHandsKeeps DEF SameHands

LEMMA StartCheckStep ==
  ASSUME RootsInv, NEW k \in Checks, StartCheck(k)
  PROVE  RootsInv'
<1> USE DEF RootsInv
<1> DEFINE new == [NoCheck EXCEPT !.pc = "query", !.from = LastIndexedBlock]
<1>1. /\ UNCHANGED <<head, queue, job, index, open, done, kept, failed, failures>>
      /\ check' = [check EXCEPT ![k] = new] /\ check[k].pc = "idle"
      /\ check \in [Checks -> [pc: CheckSteps, from: Nat, roots: SUBSET Cycles]]
  BY DEF StartCheck, connection, RootsTypeOK
<1>2. new \in [pc: CheckSteps, from: Nat, roots: SUBSET Cycles] /\ new.from = LastIndexedBlock
  BY LastIndexedKnown DEF NoCheck, CheckSteps
<1>3. new.roots = {}
  BY DEF NoCheck
<1> HIDE DEF new
<1>4. checks' \in 0..MaxChecks
  <2>1. checks \in 0..MaxChecks /\ checks < MaxChecks /\ checks' = checks + 1
    BY DEF StartCheck, RootsTypeOK
  <2> QED BY <2>1, RootsAssumption
<1>5. /\ check' \in [Checks -> [pc: CheckSteps, from: Nat, roots: SUBSET Cycles]]
      /\ check'[k] = new /\ \A g \in Checks \ {k} : check'[g] = check[g]
  BY <1>1, <1>2
<1>6. RootsTypeOK' /\ JobFits' /\ ChecksFit'
  BY <1>1, <1>3, <1>4, <1>5 DEF RootsTypeOK, JobFits, ChecksFit
<1>7. check[k].roots = {}
  BY <1>1 DEF ChecksFit
<1>8. \A x \in Cycles : Handled(x)' <=> Handled(x)
  BY <1>1, <1>3, <1>5, <1>7 DEF Handled, Indexed
<1>9. head <= head'
  BY <1>1 DEF RootsTypeOK
<1> QED BY <1>2, <1>5, <1>6, <1>8, <1>9, SameHandsKeeps DEF SameHands

\* The roots taken are the first ones from a block on, and those before are in hand.
LEMMA QueryRootsStep ==
  ASSUME RootsInv, NEW k \in Checks, QueryRoots(k)
  PROVE  RootsInv'
<1> USE DEF RootsInv
<1>1. PICK roots \in FirstRoots(RootsFrom(check[k].from)) :
        check' = [check EXCEPT ![k] = Adding(roots)]
  BY DEF QueryRoots
<1>2. /\ UNCHANGED <<head, queue, job, checks, index, open, done, kept, failed, failures>>
      /\ check \in [Checks -> [pc: CheckSteps, from: Nat, roots: SUBSET Cycles]]
      /\ check[k].roots = {} /\ head \in Nat /\ check[k].from \in Nat
  BY DEF QueryRoots, connection, RootsTypeOK, ChecksFit
<1>3. /\ roots \in SUBSET Cycles /\ \A c \in roots : Block[c] <= head
      /\ \A c \in Cycles : Block[c] <= head /\ Block[c] >= check[k].from /\ c \notin roots =>
           \A d \in roots : Block[d] <= Block[c]
  BY <1>1 DEF FirstRoots, RootsFrom
<1>4. /\ check' \in [Checks -> [pc: CheckSteps, from: Nat, roots: SUBSET Cycles]]
      /\ check'[k].from = 0 /\ check'[k].roots = roots
      /\ check'[k].pc # "add" => check'[k].roots = {}
      /\ \A g \in Checks \ {k} : check'[g] = check[g]
  BY <1>1, <1>2, <1>3, AddingRow
<1>5. RootsTypeOK' /\ JobFits' /\ ChecksFit'
  BY <1>2, <1>4 DEF RootsTypeOK, JobFits, ChecksFit
<1>6. \A x \in Cycles : Handled(x)' <=> x \in roots \/ Handled(x)
  BY <1>2, <1>4 DEF Handled, Indexed
<1>7. HandledSubmitted'
  BY <1>2, <1>3, <1>6 DEF HandledSubmitted
<1>8. ASSUME NEW c \in Cycles, NEW d \in Cycles, Handled(d)', Block[c] < Block[d]
      PROVE  Handled(c)'
  <2>1. Block[c] \in Nat /\ Block[d] \in Nat
    BY RootsAssumption
  <2>2. CASE Handled(d)
    BY <1>6, <1>8, <2>2 DEF HandledInOrder
  <2>3. CASE d \in roots
    <3>1. CASE Handled(c)
      BY <1>6, <3>1
    <3>2. CASE ~Handled(c)
      <4>1. check[k].from <= Block[c] /\ Block[c] <= head
        BY <1>2, <1>3, <1>8, <2>1, <2>3, <3>2 DEF AskedFromHandled
      <4>2. c \in roots
        BY <1>2, <1>3, <1>8, <2>1, <2>3, <4>1
      <4> QED BY <1>6, <4>2
    <3> QED BY <3>1, <3>2
  <2> QED BY <1>6, <1>8, <2>2, <2>3
<1>9. AskedFromHandled'
  BY <1>4, <1>6, RootsAssumption DEF AskedFromHandled
<1>10. HandledInOrder'
  BY <1>2, <1>8 DEF HandledInOrder
<1> QED BY <1>5, <1>7, <1>9, <1>10

----------------------------------------------------------------------------
(* The jobs' steps, other tasks and the chain. *)

\* The queue's first becomes the job.
LEMMA StartRootJobStep ==
  ASSUME RootsInv, StartRootJob
  PROVE  RootsInv'
<1> USE DEF RootsInv
<1>1. /\ UNCHANGED <<head, check, checks, index, open, done, kept, failed, failures>>
      /\ queue # <<>> /\ queue \in Seq(Cycles) /\ queue' = Tail(queue)
      /\ job' = [pc |-> "read", cycle |-> Head(queue)] /\ job.pc = "idle"
  BY DEF StartRootJob, JobAt, connection, RootsTypeOK
<1>2. /\ Head(queue) \in Cycles /\ Tail(queue) \in Seq(Cycles) /\ Len(Tail(queue)) = Len(queue) - 1
      /\ Len(queue) \in Nat /\ Len(queue) > 0 /\ Head(queue) = queue[1]
      /\ \A i \in 1..Len(Tail(queue)) : Tail(queue)[i] = queue[i + 1]
  BY <1>1, HeadTailProperties
<1>3. \A x : Contains(queue, x) <=> x = Head(queue) \/ Contains(Tail(queue), x)
  <2>1. ASSUME NEW x, NEW i \in 1..Len(queue), queue[i] = x
        PROVE  x = Head(queue) \/ Contains(Tail(queue), x)
    <3>1. CASE i = 1
      BY <1>2, <2>1, <3>1
    <3>2. CASE i # 1
      <4>1. i - 1 \in 1..Len(Tail(queue)) /\ (i - 1) + 1 = i
        BY <1>2, <2>1, <3>2
      <4> QED BY <1>2, <2>1, <4>1 DEF Contains
    <3> QED BY <3>1, <3>2
  <2>2. Contains(queue, Head(queue))
    BY <1>2 DEF Contains
  <2>3. ASSUME NEW x, NEW i \in 1..Len(Tail(queue)), Tail(queue)[i] = x PROVE Contains(queue, x)
    <3>1. i + 1 \in 1..Len(queue) /\ queue[i + 1] = x
      BY <1>2, <2>3
    <3> QED BY <3>1 DEF Contains
  <2> QED BY <2>1, <2>2, <2>3 DEF Contains
<1>4. \A x : Contains(queue, x)' <=> Contains(Tail(queue), x)
  BY <1>1 DEF Contains
<1>5. job.cycle = NoCycle /\ job'.cycle = Head(queue) /\ job'.pc = "read"
  BY <1>1 DEF JobFits
<1>6. job' \in [pc: JobSteps, cycle: Cycles \cup {NoCycle}]
  BY <1>1, <1>2 DEF JobSteps
<1>7. RootsTypeOK' /\ ChecksFit'
  BY <1>1, <1>2, <1>6 DEF RootsTypeOK, ChecksFit
<1>8. JobFits'
  BY <1>1, <1>2, <1>5, RootsAssumption DEF JobFits
<1>9. \A x \in Cycles : Handled(x)' <=> Handled(x)
  BY <1>1, <1>3, <1>4, <1>5, RootsAssumption DEF Handled, Indexed
<1>10. head <= head'
  BY <1>1 DEF RootsTypeOK
<1> QED BY <1>1, <1>7, <1>8, <1>9, <1>10, SameHandsKeeps DEF SameHands

\* The job, what it has written and what has failed are all that these change.
AtWork(c) == c \in Indexed \/ job.cycle = c \/ c \in failed

LEMMA WorkKeeps ==
  ASSUME RootsInv, UNCHANGED <<queue, check, checks>>, head <= head', RootsTypeOK', JobFits',
         \A c \in Cycles : AtWork(c)' <=> AtWork(c)
  PROVE  RootsInv'
<1>1. ChecksFit'
  BY DEF RootsInv, ChecksFit
<1>2. \A c : Contains(queue, c)' <=> Contains(queue, c)
  BY DEF Contains
<1>3. \A c \in Cycles : Handled(c)' <=> Handled(c)
  BY <1>2 DEF Handled, AtWork
<1> QED BY <1>1, <1>3, SameHandsKeeps DEF SameHands

LEMMA RootJobSteps ==
  ASSUME RootsInv,
         \/ ReadProofs \/ InsertOne \/ BeginIndex \/ InsertIndex \/ InsertProofs
         \/ CommitIndex \/ RollbackIndex \/ RootJobFails
  PROVE  RootsInv'
<1> USE DEF RootsInv
<1> DEFINE c == job.cycle
<1>1. /\ UNCHANGED <<head, queue, check, checks, done>> /\ job.pc # "idle"
      /\ job \in [pc: JobSteps, cycle: Cycles \cup {NoCycle}] /\ open \in Transaction
      /\ index \subseteq Cycles /\ kept \subseteq OtherWrites /\ failed \subseteq Cycles
      /\ failures \in 0..MaxFailures
  BY DEF ReadProofs, InsertOne, BeginIndex, InsertIndex, InsertProofs, CommitIndex,
     RollbackIndex, RootJobFails, JobAt, connection, RootsTypeOK
<1>2. c \in Cycles /\ head <= head'
  BY <1>1 DEF JobFits, RootsTypeOK
<1>3. /\ NoJob \in [pc: JobSteps, cycle: Cycles \cup {NoCycle}] /\ NoJob.pc = "idle"
      /\ NoJob.cycle = NoCycle
      /\ NoTransaction \in Transaction /\ NoTransaction.index = {}
  BY DEF NoJob, JobSteps, NoTransaction, Transaction
<1>4. ASSUME NEW pc \in JobSteps, JobGoto(pc)
      PROVE  /\ job' \in [pc: JobSteps, cycle: Cycles \cup {NoCycle}]
             /\ job'.pc = pc /\ job'.cycle = c
  BY <1>1, <1>4 DEF JobGoto
<1>5. c # NoCycle
  BY <1>2, RootsAssumption
<1>6. CASE ReadProofs \/ InsertProofs
  <2>1. UNCHANGED <<index, open, done, kept, failed, failures>>
    BY <1>6 DEF ReadProofs, InsertProofs, connection
  <2>2. \/ job.pc = "read" /\ (JobGoto("begin") \/ JobGoto("single"))
        \/ job.pc = "proofs" /\ JobGoto("commit")
    BY <1>6 DEF ReadProofs, InsertProofs, JobAt
  <2>3. /\ job' \in [pc: JobSteps, cycle: Cycles \cup {NoCycle}] /\ job'.cycle = c
        /\ \/ job.pc = "read" /\ job'.pc \in {"begin", "single"}
           \/ job.pc = "proofs" /\ job'.pc = "commit"
    BY <1>4, <2>2 DEF JobSteps
  <2>4. RootsTypeOK'
    BY <1>1, <2>1, <2>3 DEF RootsTypeOK
  <2>5. JobFits'
    BY <1>1, <1>5, <2>1, <2>3 DEF JobFits
  <2>6. \A x \in Cycles : AtWork(x)' <=> AtWork(x)
    BY <2>1, <2>3 DEF AtWork, Indexed
  <2> QED BY <1>1, <1>2, <2>4, <2>5, <2>6, WorkKeeps
<1>7. CASE InsertOne
  <2>1. /\ UNCHANGED <<open, kept, failed, failures>> /\ job.pc = "single"
        /\ job' = NoJob /\ index' = index \cup {c}
    BY <1>7 DEF InsertOne, JobAt
  <2>2. RootsTypeOK'
    BY <1>1, <1>2, <1>3, <2>1 DEF RootsTypeOK
  <2>3. JobFits'
    BY <1>3, <2>1 DEF JobFits
  <2>4. \A x \in Cycles : AtWork(x)' <=> AtWork(x)
    BY <1>3, <2>1, RootsAssumption DEF AtWork, Indexed
  <2> QED BY <1>1, <1>2, <2>2, <2>3, <2>4, WorkKeeps
<1>8. CASE BeginIndex
  <2>1. /\ UNCHANGED <<index, kept, failed, failures>> /\ job.pc = "begin"
        /\ JobGoto("index") /\ open' = [open EXCEPT !.active = TRUE]
    BY <1>8 DEF BeginIndex, JobAt
  <2>2. open' \in Transaction /\ open'.index = open.index
    BY <1>1, <2>1 DEF Transaction
  <2>3. /\ job' \in [pc: JobSteps, cycle: Cycles \cup {NoCycle}]
        /\ job'.pc = "index" /\ job'.cycle = c
    BY <1>4, <2>1 DEF JobSteps
  <2>4. RootsTypeOK'
    BY <1>1, <2>1, <2>2, <2>3 DEF RootsTypeOK
  <2>5. JobFits'
    BY <1>5, <2>1, <2>2, <2>3 DEF JobFits
  <2>6. \A x \in Cycles : AtWork(x)' <=> AtWork(x)
    BY <2>1, <2>2, <2>3 DEF AtWork, Indexed
  <2> QED BY <1>1, <1>2, <2>4, <2>5, <2>6, WorkKeeps
<1>9. CASE InsertIndex
  <2>1. UNCHANGED <<index, kept, failed, failures>> /\ job.pc = "index" /\ open.index = {}
    BY <1>9 DEF InsertIndex, JobAt, JobFits
  <2>2. \/ c \in index /\ JobGoto("rollback") /\ open' = [open EXCEPT !.aborted = TRUE]
        \/ JobGoto("proofs") /\ open' = [open EXCEPT !.index = {c}]
    BY <1>9 DEF InsertIndex
  <2>3. \/ c \in index /\ JobGoto("rollback") /\ open' \in Transaction /\ open'.index = {}
        \/ JobGoto("proofs") /\ open' \in Transaction /\ open'.index = {c}
    <3>1. LET o == [open EXCEPT !.aborted = TRUE] IN o \in Transaction /\ o.index = {}
      BY <1>1, <2>1 DEF Transaction
    <3>2. LET o == [open EXCEPT !.index = {c}] IN o \in Transaction /\ o.index = {c}
      <4>1. {c} \in SUBSET Cycles
        BY <1>2
      <4> HIDE DEF c
      <4> QED BY <1>1, <4>1 DEF Transaction
    <3> QED BY <2>2, <3>1, <3>2
  <2>4. /\ job' \in [pc: JobSteps, cycle: Cycles \cup {NoCycle}] /\ job'.cycle = c
        /\ open' \in Transaction
        /\ \/ c \in index /\ job'.pc = "rollback" /\ open'.index = {}
           \/ job'.pc = "proofs" /\ open'.index = {c}
    BY <1>4, <2>3 DEF JobSteps
  <2>5. RootsTypeOK'
    BY <1>1, <2>1, <2>4 DEF RootsTypeOK
  <2>6. JobFits'
    BY <1>5, <2>1, <2>4 DEF JobFits
  <2>7. \A x \in Cycles : AtWork(x)' <=> AtWork(x)
    BY <2>1, <2>4 DEF AtWork, Indexed
  <2> QED BY <1>1, <1>2, <2>5, <2>6, <2>7, WorkKeeps
<1>10. CASE CommitIndex \/ RollbackIndex
  <2>1. /\ UNCHANGED <<failed, failures>> /\ job' = NoJob /\ open' = NoTransaction
        /\ \/ job.pc = "commit" /\ index' = index \cup open.index /\ kept' = kept \cup open.others
           \/ job.pc = "rollback" /\ UNCHANGED <<index, kept>>
    BY <1>10 DEF CommitIndex, RollbackIndex, JobAt
  <2>2. /\ index' = index \cup {c} /\ open.index \subseteq {c}
        /\ kept' \subseteq OtherWrites
    BY <1>1, <2>1 DEF JobFits, Transaction
  <2>3. RootsTypeOK'
    BY <1>1, <1>2, <1>3, <2>1, <2>2 DEF RootsTypeOK
  <2>4. JobFits'
    BY <1>3, <2>1 DEF JobFits
  <2>5. \A x \in Cycles : AtWork(x)' <=> AtWork(x)
    BY <1>3, <2>1, <2>2, RootsAssumption DEF AtWork, Indexed
  <2> QED BY <1>1, <1>2, <2>3, <2>4, <2>5, WorkKeeps
<1>11. CASE RootJobFails
  <2>1. /\ UNCHANGED <<index, kept>> /\ job' = NoJob /\ open' = NoTransaction
        /\ failed' = failed \cup {c} /\ failures < MaxFailures /\ failures' = failures + 1
    BY <1>11 DEF RootJobFails
  <2>2. failures' \in 0..MaxFailures
    BY <1>1, <2>1, RootsAssumption
  <2>3. RootsTypeOK'
    BY <1>1, <1>2, <1>3, <2>1, <2>2 DEF RootsTypeOK
  <2>4. JobFits' /\ open.index \subseteq {c}
    BY <1>3, <2>1 DEF JobFits
  <2>5. \A x \in Cycles : AtWork(x)' <=> AtWork(x)
    BY <1>3, <2>1, <2>4, RootsAssumption DEF AtWork, Indexed
  <2> QED BY <1>1, <1>2, <2>3, <2>4, <2>5, WorkKeeps
<1> QED BY <1>6, <1>7, <1>8, <1>9, <1>10, <1>11

LEMMA OtherWriteStep ==
  ASSUME RootsInv, NEW w \in OtherWrites, OtherWrite(w)
  PROVE  RootsInv'
<1> USE DEF RootsInv
<1>1. /\ UNCHANGED <<head, index, queue, job, check, checks, failed, failures>>
      /\ done' = done \cup {w}
      /\ \/ open' = [open EXCEPT !.others = open.others \cup {w}] /\ UNCHANGED kept
         \/ kept' = kept \cup {w} /\ UNCHANGED open
  BY DEF OtherWrite
<1>2. /\ open' \in Transaction /\ open'.index = open.index
      /\ kept' \subseteq OtherWrites /\ done' \subseteq OtherWrites
  BY <1>1 DEF RootsTypeOK, Transaction
<1>3. RootsTypeOK'
  BY <1>1, <1>2 DEF RootsTypeOK
<1>4. JobFits' /\ head <= head'
  BY <1>1, <1>2 DEF JobFits, RootsTypeOK
<1>5. \A x \in Cycles : AtWork(x)' <=> AtWork(x)
  BY <1>1, <1>2 DEF AtWork, Indexed
<1> QED BY <1>1, <1>3, <1>4, <1>5, WorkKeeps

LEMMA SubgraphAdvancesStep ==
  ASSUME RootsInv, SubgraphAdvances
  PROVE  RootsInv'
<1> USE DEF RootsInv
<1>1. /\ UNCHANGED <<queue, job, check, checks, index, open, done, kept, failed, failures>>
      /\ \E c \in Cycles : Block[c] > head /\ head' = Block[c]
  BY DEF SubgraphAdvances, connection
<1>2. head' \in Nat /\ head <= head'
  BY <1>1, RootsAssumption DEF RootsTypeOK
<1>3. RootsTypeOK' /\ JobFits'
  BY <1>1, <1>2 DEF RootsTypeOK, JobFits
<1>4. \A x \in Cycles : AtWork(x)' <=> AtWork(x)
  BY <1>1 DEF AtWork, Indexed
<1> QED BY <1>1, <1>2, <1>3, <1>4, WorkKeeps

----------------------------------------------------------------------------
(* The theorems about reward roots. *)

LEMMA RootsStart == RootsInit => RootsInv
<1> SUFFICES ASSUME RootsInit PROVE RootsInv
  OBVIOUS
<1>1. /\ NoJob \in [pc: JobSteps, cycle: Cycles \cup {NoCycle}] /\ NoTransaction \in Transaction
      /\ NoCheck \in [pc: CheckSteps, from: Nat, roots: SUBSET Cycles] /\ <<>> \in Seq(Cycles)
      /\ 0 \in 0..MaxChecks /\ 0 \in 0..MaxFailures
  BY RootsAssumption DEF NoJob, JobSteps, NoTransaction, Transaction, NoCheck, CheckSteps
<1>2. RootsTypeOK
  BY <1>1 DEF RootsInit, RootsTypeOK
<1>3. \A x : ~Contains(queue, x)
  BY DEF RootsInit, Contains
<1>4. \A k \in Checks : check[k].roots = {} /\ check[k].from = 0
  BY DEF RootsInit, NoCheck
<1>5. job.pc = "idle" /\ job.cycle = NoCycle /\ open.index = {} /\ index = {} /\ failed = {}
  BY DEF RootsInit, NoJob, NoTransaction
<1>6. \A c \in Cycles : ~Handled(c) /\ Block[c] \in Nat
  BY <1>3, <1>4, <1>5, RootsAssumption DEF Handled, Indexed
<1>7. HandledSubmitted /\ HandledInOrder /\ AskedFromHandled
  BY <1>4, <1>6 DEF HandledSubmitted, HandledInOrder, AskedFromHandled
<1>8. JobFits /\ ChecksFit
  BY <1>4, <1>5 DEF JobFits, ChecksFit
<1> QED BY <1>2, <1>7, <1>8 DEF RootsInv

LEMMA RootsStep == RootsInv /\ [RootsNext]_rootVars => RootsInv'
<1> SUFFICES ASSUME RootsInv, [RootsNext]_rootVars PROVE RootsInv'
  OBVIOUS
<1>1. CASE \E k \in Checks : StartCheck(k) \/ QueryRoots(k) \/ AddRootJob(k)
  BY <1>1, StartCheckStep, QueryRootsStep, AddRootJobStep
<1>2. CASE \/ ReadProofs \/ InsertOne \/ BeginIndex \/ InsertIndex \/ InsertProofs
           \/ CommitIndex \/ RollbackIndex \/ RootJobFails
  BY <1>2, RootJobSteps
<1>3. CASE \/ StartRootJob \/ SubgraphAdvances \/ \E w \in OtherWrites : OtherWrite(w)
  BY <1>3, StartRootJobStep, SubgraphAdvancesStep, OtherWriteStep
<1>4. CASE UNCHANGED rootVars
  <2>1. UNCHANGED <<head, index, queue, job, check, checks, open, done, kept, failed, failures>>
    BY <1>4 DEF rootVars
  <2>2. RootsTypeOK' /\ JobFits' /\ head <= head'
    BY <2>1 DEF RootsInv, RootsTypeOK, JobFits
  <2>3. \A x \in Cycles : AtWork(x)' <=> AtWork(x)
    BY <2>1 DEF AtWork, Indexed
  <2> QED BY <2>1, <2>2, <2>3, WorkKeeps
<1> QED BY <1>1, <1>2, <1>3, <1>4 DEF RootsNext

\* Each variable of the indexing of reward roots has its type, for any number of cycles,
\* checks, other tasks and failures.
THEOREM RootsTyped == RootsSpec => []RootsTypeOK
<1>1. RootsInv => RootsTypeOK
  BY DEF RootsInv
<1> QED BY <1>1, RootsStart, RootsStep, PTL DEF RootsSpec

\* A root that was submitted is skipped only after its job failed: getRewardRoots asks
\* for blocks from the last indexed one on, and takes the first of what it finds.
THEOREM SkipsNoRoot == RootsSpec => []RootSkippedOnlyAfterFailure
<1>1. RootsInv => RootSkippedOnlyAfterFailure
  <2> SUFFICES ASSUME RootsInv, NEW c \in Cycles, Block[c] <= head, c \notin failed, ~Handled(c)
               PROVE  InHand(c)
    BY DEF RootSkippedOnlyAfterFailure, Handled, InHand
  <2>1. LastIndexedBlock \in Nat /\ LastIndexedBlock <= Block[c] /\ Block[c] \in Nat
    BY LastIndexedKnown, RootsAssumption
  <2>2. c \in RootsFrom(LastIndexedBlock)
    BY <2>1 DEF RootsFrom
  <2> QED BY <2>2 DEF InHand
<1> QED BY <1>1, RootsStart, RootsStep, PTL DEF RootsSpec
===============================================================================
