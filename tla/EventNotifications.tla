--------------------------- MODULE EventNotifications ---------------------------
(***************************************************************************)
(* Push notifications about events of contracts.  The event listener       *)
(* subscribes to the events, raises latest_event_block and adds a notify   *)
(* job for each; that job adds a send-notifications job, whose key is the  *)
(* notification's id; that one has Firebase send it and records that it    *)
(* was sent.  A listener that is started again subscribes from the block   *)
(* it recorded, and events it had handled come again.                      *)
(*                                                                         *)
(* Each query and call is a step.  An event is of interest to one client   *)
(* at most: with several, the jobs of the others are independent.  The     *)
(* chain, the node of the subscription and Firebase are external.          *)
(***************************************************************************)
EXTENDS Integers, FiniteSets

CONSTANTS
  Events,
  EventBlock, \* the block of each event
  Contract,   \* the contract, whose events come in order
  LastBlock,  \* bound: blocks of the chain
  Historic,   \* HISTORIC_BLOCKS_AVAILABLE
  Week,       \* blocks in the week for which sent notifications are kept
  HasSendBy,  \* events whose notification is not sent late
  MaxJobs,    \* bound: send-notifications jobs at a time, notify jobs of an event
  MaxFaults,  \* bound: processes that die and calls that fail
  NoEvent

ASSUME NotificationsAssumption ==
  /\ LastBlock \in Nat /\ EventBlock \in [Events -> 1..LastBlock] /\ HasSendBy \subseteq Events
  /\ Historic \in Nat \ {0} /\ Week \in Nat /\ Historic <= Week
  /\ MaxJobs \in Nat /\ MaxFaults \in Nat /\ NoEvent \notin Events

Slots == 1..MaxJobs

VARIABLES
  mined,        \* the chain's last block
  latest,       \* latest_event_block (0 for none)
  up,           \* the listener is subscribed
  undelivered,  \* events that the subscription has still to deliver
  callback,     \* the callback of each event in the listener
  notifyJobs,   \* notify jobs for each event
  sendJob,      \* send-notifications jobs, queued or running
  recorded,     \* events with a row in sent_push_notifications
  notified,     \* how often Firebase sent each notification
  late,         \* events whose sendBy has passed
  seen,         \* events whose block was recorded
  disturbed,    \* events that a fault, or an end without notification, concerned
  faults

listenerVars == <<latest, up, undelivered, callback, seen>>
notificationVars == <<mined, listenerVars, notifyJobs, sendJob, recorded, notified, late,
                      disturbed, faults>>

----------------------------------------------------------------------------

SendJob == [event: Events \cup {NoEvent}, keyed: BOOLEAN,
            pc: {"free", "queued", "send", "record"}]
FreeSlot == [event |-> NoEvent, keyed |-> FALSE, pc |-> "free"]

NotificationsTypeOK ==
  /\ mined \in 0..LastBlock /\ latest \in 0..LastBlock /\ up \in BOOLEAN
  /\ undelivered \subseteq Events /\ callback \in [Events -> {"none", "block", "job"}]
  /\ notifyJobs \in [Events -> 0..MaxJobs] /\ sendJob \in [Slots -> SendJob]
  /\ recorded \subseteq Events /\ notified \in [Events -> Nat]
  /\ late \subseteq HasSendBy /\ seen \subseteq Events
  /\ disturbed \subseteq Events /\ faults \in 0..MaxFaults

NotificationsInit ==
  /\ mined = 0 /\ latest = 0 /\ up = TRUE /\ undelivered = {}
  /\ callback = [e \in Events |-> "none"] /\ notifyJobs = [e \in Events |-> 0]
  /\ sendJob = [j \in Slots |-> FreeSlot] /\ recorded = {}
  /\ notified = [e \in Events |-> 0] /\ late = {} /\ seen = {} /\ disturbed = {} /\ faults = 0

----------------------------------------------------------------------------

Happened == {e \in Events : EventBlock[e] <= mined}
InListener(e) == ~up \/ e \in undelivered \/ callback[e] # "none"
InJobs(e) == notifyJobs[e] > 0 \/ \E j \in Slots : sendJob[j].event = e
Fault == faults < MaxFaults /\ faults' = faults + 1
Disturb(es) == disturbed' = disturbed \cup es
Higher(a, b) == IF a > b THEN a ELSE b

----------------------------------------------------------------------------
(* The listener. *)

\* Without a recorded block the subscription is for what happens from now on.
FromBlockAfter == IF latest = 0 THEN mined + 1 ELSE Higher(mined - Historic + 1, latest + 1)
FromBlock == IF latest = 0 THEN mined + 1 ELSE Higher(mined - Historic + 1, latest)

\* Events that no job has and a later one was recorded of, or that happened too
\* long ago or before any was recorded, are missed.
Subscribe ==
  /\ ~up /\ up' = TRUE
  /\ undelivered' = {e \in Happened : EventBlock[e] >= FromBlock}
  /\ Disturb({e \in Happened : ~InJobs(e) /\
       \/ seen = {} \/ mined - EventBlock[e] >= Historic
       \/ \E d \in seen : EventBlock[d] > EventBlock[e]})
  /\ UNCHANGED <<mined, latest, callback, seen, notifyJobs, sendJob, recorded, notified, late, faults>>

ListenerDies ==
  /\ up /\ Fault /\ up' = FALSE /\ undelivered' = {}
  /\ callback' = [e \in Events |-> "none"]
  /\ UNCHANGED <<mined, latest, seen, notifyJobs, sendJob, recorded, notified, late, disturbed>>

\* The events of a contract come in order; the callbacks do not wait for each other.
TakeEvent(e) ==
  /\ e \in undelivered /\ callback[e] = "none"
  /\ \A d \in undelivered : Contract[d] = Contract[e] => EventBlock[d] >= EventBlock[e]
  /\ undelivered' = undelivered \ {e}
  /\ callback' = [callback EXCEPT ![e] = "block"]
  /\ UNCHANGED <<mined, latest, up, seen, notifyJobs, sendJob, recorded, notified, late,
                 disturbed, faults>>

\* updateBlockNumber keeps the higher one.
RecordBlock(e) ==
  /\ callback[e] = "block" /\ callback' = [callback EXCEPT ![e] = "job"]
  /\ latest' = Higher(EventBlock[e], latest) /\ seen' = seen \cup {e}
  /\ UNCHANGED <<mined, up, undelivered, notifyJobs, sendJob, recorded, notified, late,
                 disturbed, faults>>

\* A notify job has no key.  An update or an addJob that fails leaves the event.
AddNotifyJob(e) ==
  /\ callback[e] = "job" /\ notifyJobs[e] < MaxJobs
  /\ callback' = [callback EXCEPT ![e] = "none"]
  /\ notifyJobs' = [notifyJobs EXCEPT ![e] = @ + 1]
  /\ UNCHANGED <<mined, latest, up, undelivered, seen, sendJob, recorded, notified, late,
                 disturbed, faults>>
CallbackFails(e) ==
  /\ callback[e] # "none" /\ callback' = [callback EXCEPT ![e] = "none"]
  /\ Fault /\ Disturb({e})
  /\ UNCHANGED <<mined, latest, up, undelivered, seen, notifyJobs, sendJob, recorded, notified, late>>

----------------------------------------------------------------------------
(* The notify jobs. *)

Free == {j \in Slots : sendJob[j].pc = "free"}
KeyedQueued(e) == \E j \in Slots : sendJob[j] = [event |-> e, keyed |-> TRUE, pc |-> "queued"]
NotifyJobDone(e) == notifyJobs' = [notifyJobs EXCEPT ![e] = @ - 1]

\* addJob with the notification's id for key: a job of this key that is queued is
\* replaced; one that runs goes on without the key, beside a new one.
AddSendJob(e) ==
  IF KeyedQueued(e) THEN UNCHANGED sendJob ELSE
    /\ Free # {}
    /\ LET new == CHOOSE j \in Free : \A i \in Free : j <= i IN
       sendJob' = [j \in Slots |->
         IF j = new THEN [event |-> e, keyed |-> TRUE, pc |-> "queued"]
         ELSE IF sendJob[j].event = e THEN [sendJob[j] EXCEPT !.keyed = FALSE]
         ELSE sendJob[j]]

\* It adds the job, and ends or is retried (for another client's); or it finds no
\* client that wants to be told; or it fails for good.
NotifyClient(e) ==
  /\ notifyJobs[e] > 0
  /\ \/ AddSendJob(e) /\ NotifyJobDone(e) /\ UNCHANGED <<disturbed, faults>>
     \/ AddSendJob(e) /\ Fault /\ UNCHANGED <<notifyJobs, disturbed>>
     \/ NotifyJobDone(e) /\ Disturb({e}) /\ UNCHANGED <<sendJob, faults>>
     \/ NotifyJobDone(e) /\ Disturb({e}) /\ Fault /\ UNCHANGED sendJob
  /\ UNCHANGED <<mined, listenerVars, recorded, notified, late>>

----------------------------------------------------------------------------
(* The send-notifications jobs. *)

SendGoto(j, pc) == sendJob' = [sendJob EXCEPT ![j].pc = pc]
SendDone(j) == sendJob' = [sendJob EXCEPT ![j] = FreeSlot]

\* Another run is between its check and its row.
Beside(j) == \E i \in Slots \ {j} :
               sendJob[i].event = sendJob[j].event /\ sendJob[i].pc \in {"send", "record"}

\* Nothing is sent that has been, or later than its sendBy.
StartSend(j) ==
  LET e == sendJob[j].event IN
  /\ sendJob[j].pc = "queued"
  /\ IF e \in recorded THEN SendDone(j) /\ UNCHANGED disturbed
     ELSE IF e \in late THEN SendDone(j) /\ Disturb({e})
     ELSE SendGoto(j, "send") /\ IF Beside(j) THEN Disturb({e}) ELSE UNCHANGED disturbed
  /\ UNCHANGED <<mined, listenerVars, notifyJobs, recorded, notified, late, faults>>

\* Firebase sends it, or says that the client is not registered.
FirebaseSend(j) ==
  LET e == sendJob[j].event IN
  /\ sendJob[j].pc = "send"
  /\ \/ /\ SendGoto(j, "record") /\ notified' = [notified EXCEPT ![e] = @ + 1]
        /\ UNCHANGED disturbed
     \/ SendDone(j) /\ Disturb({e}) /\ UNCHANGED notified
  /\ UNCHANGED <<mined, listenerVars, notifyJobs, recorded, late, faults>>

\* The row's id is unique, and an error of the insert is only reported.
RecordSent(j) ==
  LET e == sendJob[j].event IN
  /\ sendJob[j].pc = "record" /\ SendDone(j)
  /\ \/ recorded' = recorded \cup {e} /\ UNCHANGED <<disturbed, faults>>
     \/ Fault /\ Disturb({e}) /\ UNCHANGED recorded
  /\ UNCHANGED <<mined, listenerVars, notifyJobs, notified, late>>

\* A run that fails before Firebase's answer, or whose worker dies, is retried or
\* had its last attempt.
SendFails(j) ==
  LET e == sendJob[j].event IN
  /\ sendJob[j].pc \in {"send", "record"} /\ Fault
  /\ \/ SendGoto(j, "queued")
        /\ IF sendJob[j].pc = "record" THEN Disturb({e}) ELSE UNCHANGED disturbed
     \/ SendDone(j) /\ Disturb({e})
  /\ UNCHANGED <<mined, listenerVars, notifyJobs, recorded, notified, late>>

\* remove-old-sent-notifications: a job that is still there would tell it again.
RemoveOldSent(e) ==
  /\ e \in recorded /\ mined - EventBlock[e] >= Week /\ recorded' = recorded \ {e}
  /\ IF InListener(e) \/ InJobs(e) THEN Disturb({e}) ELSE UNCHANGED disturbed
  /\ UNCHANGED <<mined, listenerVars, notifyJobs, sendJob, notified, late, faults>>

----------------------------------------------------------------------------
(* The chain, and time. *)

MineBlock ==
  /\ mined < LastBlock /\ mined' = mined + 1
  /\ undelivered' = IF up THEN undelivered \cup {e \in Events : EventBlock[e] = mined + 1} ELSE undelivered
  /\ UNCHANGED <<latest, up, callback, seen, notifyJobs, sendJob, recorded, notified, late,
                 disturbed, faults>>

PassSendBy(e) ==
  /\ e \in (HasSendBy \cap Happened) \ late /\ late' = late \cup {e}
  /\ UNCHANGED <<mined, listenerVars, notifyJobs, sendJob, recorded, notified, disturbed, faults>>

NotificationsNext ==
  \/ Subscribe \/ ListenerDies \/ MineBlock
  \/ \E e \in Events :
       \/ TakeEvent(e) \/ RecordBlock(e) \/ AddNotifyJob(e) \/ CallbackFails(e)
       \/ NotifyClient(e) \/ RemoveOldSent(e) \/ PassSendBy(e)
  \/ \E j \in Slots : StartSend(j) \/ FirebaseSend(j) \/ RecordSent(j) \/ SendFails(j)

NotificationsSpec == NotificationsInit /\ [][NotificationsNext]_notificationVars

----------------------------------------------------------------------------
(* Property. *)

Phase(e) ==
  IF notified[e] > 0 THEN "told" ELSE IF EventBlock[e] > mined THEN "ahead"
  ELSE IF InListener(e) \/ InJobs(e) THEN "due" ELSE "dropped"

Promise == INSTANCE NotificationPromise WITH
  phase <- [e \in Events |-> Phase(e)], told <- notified, upset <- disturbed

\* An event is told once (NotificationPromise): the block that the listener starts
\* from, the key of the jobs and the rows of what was sent neither miss nor repeat
\* one, but for events that a fault concerned, that were recorded out of order
\* before the listener died, that nobody wants to know of or that came too late.
TellsOnce == Promise!PromiseSpec
==============================================================================
