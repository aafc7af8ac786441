-------------------------- MODULE PaymentRegistration --------------------------
(***************************************************************************)
(* How a scheduled payment gets to the chain and off it.  The SDK of the   *)
(* client records the payment in the hub, submits the transaction that     *)
(* registers it, tells the hub its hash and polls the hub; the hub waits   *)
(* for the transaction in a job.  A cancelation goes the same way, from    *)
(* any of the user's devices (Cancelers).  The relay server, the contract  *)
(* and its transactions are external.                                      *)
(*                                                                         *)
(* Payments do not meet each other here, so the module is about one.       *)
(* Each request and query is a step.  Requests that fail, answers that are *)
(* lost and devices that go away are steps counted by mishaps.             *)
(***************************************************************************)
EXTENDS Integers, FiniteSets

CONSTANTS
  Cancelers,    \* devices that cancel the payment
  MaxMishaps,   \* bound: failed requests, lost answers, transactions that fail
  NoTx

ASSUME RegistrationAssumption == MaxMishaps \in Nat /\ NoTx \notin Cancelers

VARIABLES
  hub,          \* the row of scheduled_payments
  age,          \* how long ago it was created
  cancelAge,    \* how long ago canceledAt is
  client,       \* the SDK's schedulePayment
  canceler,     \* the SDK's cancelScheduledPayment on each device
  createTx,     \* the transaction that registers the payment
  cancelTx,     \* each device's transaction that cancels it
  contract,     \* the payment on the chain
  creationJob,  \* the creation waiter
  cancelJob,    \* the cancelation waiter that each device's request added
  mishaps,
  overlap       \* two devices were canceling at a time

registrationVars == <<hub, age, cancelAge, client, canceler, createTx, cancelTx, contract,
                      creationJob, cancelJob, mishaps, overlap>>
time == <<age, cancelAge>>
chain == <<createTx, cancelTx, contract>>
jobs == <<creationJob, cancelJob>>

----------------------------------------------------------------------------

\* Ages that the code tells apart: less than 2 minutes, less than 3 hours, less
\* than a day, and more.
Ages == 0..3
TwoMinutes == 1
ThreeHours == 2
OneDay == 3

HubRow == [state: {"none", "live", "deleted"}, hash: BOOLEAN, block: BOOLEAN, error: BOOLEAN,
           canceled: BOOLEAN, cancelHash: Cancelers \cup {NoTx}, cancelBlock: BOOLEAN,
           cancelError: BOOLEAN]
ClientPc == {"start", "submit", "patch", "add job", "delete", "wait", "ended"}
CancelerPc == {"start", "submit", "patch", "add job", "delete", "wait", "ended"}
TxStates == {"none", "pending", "mined", "reverted", "dropped"}
JobPc == {"none", "queued", "waiting", "block", "error", "done"}

RegistrationTypeOK ==
  /\ hub \in HubRow /\ age \in Ages /\ cancelAge \in Ages
  /\ client \in ClientPc /\ canceler \in [Cancelers -> CancelerPc]
  /\ createTx \in TxStates /\ cancelTx \in [Cancelers -> TxStates]
  /\ contract \in {"unknown", "scheduled", "canceled"}
  /\ creationJob \in JobPc
  /\ cancelJob \in [Cancelers -> [pc: JobPc, tx: Cancelers \cup {NoTx}]]
  /\ mishaps \in 0..MaxMishaps /\ overlap \in BOOLEAN

CancelJob(pc, tx) == [pc |-> pc, tx |-> tx]

RegistrationInit ==
  /\ hub = [state |-> "none", hash |-> FALSE, block |-> FALSE, error |-> FALSE,
            canceled |-> FALSE, cancelHash |-> NoTx, cancelBlock |-> FALSE,
            cancelError |-> FALSE]
  /\ age = 0 /\ cancelAge = 0 /\ client = "start" /\ canceler = [c \in Cancelers |-> "start"]
  /\ createTx = "none" /\ cancelTx = [c \in Cancelers |-> "none"] /\ contract = "unknown"
  /\ creationJob = "none" /\ cancelJob = [c \in Cancelers |-> CancelJob("none", NoTx)]
  /\ mishaps = 0 /\ overlap = FALSE

Live == hub.state = "live"
Mishap == mishaps < MaxMishaps /\ mishaps' = mishaps + 1
CancelerAt(c, pc) == canceler' = [canceler EXCEPT ![c] = pc]

----------------------------------------------------------------------------
(* schedulePayment of the SDK, with the hub's routes. *)

\* POST /scheduled-payments.  The payment stays when only the answer is lost.
Register ==
  /\ client = "start" /\ hub' = [hub EXCEPT !.state = "live"]
  /\ \/ client' = "submit" /\ UNCHANGED mishaps
     \/ client' = "ended" /\ Mishap
  /\ UNCHANGED <<time, canceler, chain, jobs, overlap>>

\* schedulePaymentOnChain: the relay server submits the transaction, or does not.
\* Any error from here to the end of the PATCH has the client delete the payment.
SubmitRegistration ==
  /\ client = "submit"
  /\ \/ client' = "patch" /\ createTx' = "pending" /\ UNCHANGED mishaps
     \/ client' = "delete" /\ UNCHANGED <<createTx, mishaps>>
     \/ client' = "delete" /\ createTx' = "pending" /\ Mishap
  /\ UNCHANGED <<hub, time, canceler, cancelTx, contract, jobs, overlap>>

\* PATCH with the hash, in two steps: the row, and the job.
PatchHash ==
  /\ client = "patch"
  /\ \/ Live /\ hub' = [hub EXCEPT !.hash = TRUE] /\ client' = "add job" /\ UNCHANGED mishaps
     \/ ~Live /\ client' = "delete" /\ UNCHANGED <<hub, mishaps>>
     \/ client' = "delete" /\ Mishap /\ UNCHANGED hub
  /\ UNCHANGED <<time, canceler, chain, jobs, overlap>>

AddCreationJob ==
  /\ client = "add job"
  /\ \/ client' = "wait" /\ creationJob' = "queued" /\ UNCHANGED mishaps
     \/ client' = "delete" /\ creationJob' \in {"none", "queued"} /\ Mishap
  /\ UNCHANGED <<hub, time, canceler, chain, cancelJob, overlap>>

RemoveFromHub ==
  /\ client = "delete" /\ client' = "ended"
  /\ \/ hub' = [hub EXCEPT !.state = "deleted"] /\ UNCHANGED mishaps
     \/ Mishap /\ UNCHANGED hub
  /\ UNCHANGED <<time, canceler, chain, jobs, overlap>>

\* waitUntilSchedulePaymentTransactionMined: a poll that times out, fails or finds
\* a result ends the wait.
PollCreationDeletes ==
  /\ client = "wait" /\ (~Live \/ hub.block \/ hub.error \/ age >= TwoMinutes)
  /\ client' = IF hub.block THEN "ended" ELSE "delete"
  /\ UNCHANGED <<hub, time, canceler, chain, jobs, mishaps, overlap>>
PollCreation ==
  /\ client = "wait" /\ (~Live \/ hub.block \/ hub.error \/ age >= TwoMinutes)
  /\ client' = "ended"
  /\ UNCHANGED <<hub, time, canceler, chain, jobs, mishaps, overlap>>

----------------------------------------------------------------------------
(* cancelScheduledPayment of the SDK. *)

\* What a device does depends on what it gets from the hub.
CancelStepAnyHash(row) ==
  IF row.state # "live" THEN "ended" ELSE IF row.error THEN "delete"
  ELSE IF row.cancelBlock THEN "ended" ELSE "submit"
CancelStep(row) ==
  IF row.state # "live" THEN "ended" ELSE IF row.error THEN "delete"
  ELSE IF row.cancelBlock THEN "ended"
  ELSE IF row.cancelHash # NoTx THEN "wait" ELSE "submit"

GetForCancel(c) ==
  /\ canceler[c] = "start" /\ hub.state # "none" /\ CancelerAt(c, CancelStep(hub))
  /\ overlap' = (overlap \/ \E d \in Cancelers \ {c} : canceler[d] \in {"submit", "patch"})
  /\ UNCHANGED <<hub, time, client, chain, jobs, mishaps>>

SubmitCancelation(c) ==
  /\ canceler[c] = "submit"
  /\ \/ CancelerAt(c, "patch") /\ cancelTx' = [cancelTx EXCEPT ![c] = "pending"] /\ UNCHANGED mishaps
     \/ CancelerAt(c, "ended") /\ UNCHANGED <<cancelTx, mishaps>>
     \/ CancelerAt(c, "ended") /\ cancelTx' = [cancelTx EXCEPT ![c] = "pending"] /\ Mishap
  /\ UNCHANGED <<hub, time, client, createTx, contract, jobs, overlap>>

PatchCancelation(c) ==
  /\ canceler[c] = "patch"
  /\ \/ /\ Live /\ hub' = [hub EXCEPT !.cancelHash = c, !.canceled = TRUE] /\ cancelAge' = 0
        /\ CancelerAt(c, "add job") /\ UNCHANGED mishaps
     \/ ~Live /\ CancelerAt(c, "ended") /\ UNCHANGED <<hub, cancelAge, mishaps>>
     \/ CancelerAt(c, "ended") /\ Mishap /\ UNCHANGED <<hub, cancelAge>>
  /\ UNCHANGED <<age, client, chain, jobs, overlap>>

AddCancelJob(c) ==
  /\ canceler[c] = "add job"
  /\ \/ /\ CancelerAt(c, "wait") /\ UNCHANGED mishaps
        /\ cancelJob' = [cancelJob EXCEPT ![c] = CancelJob("queued", NoTx)]
     \/ CancelerAt(c, "ended") /\ Mishap /\ UNCHANGED cancelJob
  /\ UNCHANGED <<hub, time, client, chain, creationJob, overlap>>

\* A payment whose creation failed is deleted.
DeleteFailed(c) ==
  /\ canceler[c] = "delete" /\ CancelerAt(c, "ended")
  /\ \/ hub' = [hub EXCEPT !.state = "deleted"] /\ UNCHANGED mishaps
     \/ Mishap /\ UNCHANGED hub
  /\ UNCHANGED <<time, client, chain, jobs, overlap>>

PollCancelation(c) ==
  /\ canceler[c] = "wait"
  /\ ~Live \/ hub.cancelBlock \/ hub.cancelError \/ cancelAge >= TwoMinutes
  /\ CancelerAt(c, "ended")
  /\ UNCHANGED <<hub, time, client, chain, jobs, mishaps, overlap>>

----------------------------------------------------------------------------
(* The waiter jobs.  A run that throws is queued again; it finds no row when the *)
(* payment was deleted, and throws.                                              *)

StartCreationWaiterBriefly ==
  /\ creationJob = "queued" /\ Live
  /\ creationJob' = IF hub.block \/ ~hub.hash \/ age >= TwoMinutes THEN "done" ELSE "waiting"
  /\ UNCHANGED <<hub, time, client, canceler, chain, cancelJob, mishaps, overlap>>

StartCreationWaiter ==
  /\ creationJob = "queued" /\ Live
  /\ creationJob' = IF hub.block \/ ~hub.hash \/ age >= OneDay THEN "done" ELSE "waiting"
  /\ UNCHANGED <<hub, time, client, canceler, chain, cancelJob, mishaps, overlap>>

\* The transaction is mined, or reverted, or the wait throws.
AwaitCreation ==
  /\ creationJob = "waiting"
  /\ \/ createTx = "mined" /\ creationJob' = "block"
     \/ createTx = "reverted" /\ creationJob' = "error"
     \/ creationJob' = "queued"
  /\ UNCHANGED <<hub, time, client, canceler, chain, cancelJob, mishaps, overlap>>

\* The update, which throws when the payment was deleted.
RecordCreation ==
  /\ creationJob \in {"block", "error"}
  /\ IF Live THEN /\ hub' = [hub EXCEPT !.block = (@ \/ creationJob = "block"),
                                        !.error = (@ \/ creationJob = "error")]
                  /\ creationJob' = "done"
             ELSE creationJob' = "queued" /\ UNCHANGED hub
  /\ UNCHANGED <<time, client, canceler, chain, cancelJob, mishaps, overlap>>

StartCancelWaiter(c) ==
  /\ cancelJob[c].pc = "queued" /\ Live
  /\ cancelJob' = [cancelJob EXCEPT ![c] =
       IF hub.cancelBlock \/ hub.cancelHash = NoTx \/ cancelAge >= OneDay
         THEN CancelJob("done", NoTx) ELSE CancelJob("waiting", hub.cancelHash)]
  /\ UNCHANGED <<hub, time, client, canceler, chain, creationJob, mishaps, overlap>>

AwaitCancelation(c) ==
  /\ cancelJob[c].pc = "waiting"
  /\ \/ /\ cancelTx[cancelJob[c].tx] = "mined"
        /\ cancelJob' = [cancelJob EXCEPT ![c].pc = "block"]
     \/ /\ cancelTx[cancelJob[c].tx] = "reverted"
        /\ cancelJob' = [cancelJob EXCEPT ![c].pc = "error"]
     \/ cancelJob' = [cancelJob EXCEPT ![c] = CancelJob("queued", NoTx)]
  /\ UNCHANGED <<hub, time, client, canceler, chain, creationJob, mishaps, overlap>>

RecordCancelation(c) ==
  LET pc == cancelJob[c].pc IN
  /\ pc \in {"block", "error"}
  /\ IF Live THEN /\ hub' = [hub EXCEPT !.cancelBlock = (@ \/ pc = "block"),
                                        !.cancelError = (@ \/ pc = "error")]
                  /\ cancelJob' = [cancelJob EXCEPT ![c] = CancelJob("done", NoTx)]
             ELSE /\ cancelJob' = [cancelJob EXCEPT ![c] = CancelJob("queued", NoTx)]
                  /\ UNCHANGED hub
  /\ UNCHANGED <<time, client, canceler, chain, creationJob, mishaps, overlap>>

----------------------------------------------------------------------------
(* The chain, and time. *)

\* A registration may revert (the Safe's own checks), or be dropped by the nodes.
MineRegistration ==
  /\ createTx = "pending"
  /\ \/ createTx' = "mined" /\ contract' = "scheduled" /\ UNCHANGED mishaps
     \/ createTx' = "reverted" /\ UNCHANGED <<contract, mishaps>>
     \/ createTx' = "dropped" /\ UNCHANGED contract /\ Mishap
  /\ UNCHANGED <<hub, time, client, canceler, cancelTx, jobs, overlap>>

\* The contract cancels what is scheduled, and reverts otherwise.
MineCancelation(c) ==
  /\ cancelTx[c] = "pending"
  /\ \/ /\ contract = "scheduled" /\ contract' = "canceled" /\ UNCHANGED mishaps
        /\ cancelTx' = [cancelTx EXCEPT ![c] = "mined"]
     \/ /\ contract # "scheduled" /\ UNCHANGED <<contract, mishaps>>
        /\ cancelTx' = [cancelTx EXCEPT ![c] = "reverted"]
     \/ cancelTx' = [cancelTx EXCEPT ![c] = "dropped"] /\ UNCHANGED contract /\ Mishap
  /\ UNCHANGED <<hub, time, client, canceler, createTx, jobs, overlap>>

GrowOlder ==
  /\ hub.state # "none" /\ age < OneDay /\ age' = age + 1
  /\ cancelAge' = IF hub.canceled THEN cancelAge + 1 ELSE cancelAge
  /\ UNCHANGED <<hub, client, canceler, chain, jobs, mishaps, overlap>>
CancelGrowsOlder ==
  /\ hub.canceled /\ age = OneDay /\ cancelAge < OneDay /\ cancelAge' = cancelAge + 1
  /\ UNCHANGED <<hub, age, client, canceler, chain, jobs, mishaps, overlap>>

----------------------------------------------------------------------------

RegistrationNext ==
  \/ Register \/ SubmitRegistration \/ PatchHash \/ AddCreationJob \/ RemoveFromHub
  \/ PollCreation \/ StartCreationWaiter \/ AwaitCreation \/ RecordCreation
  \/ MineRegistration \/ GrowOlder \/ CancelGrowsOlder
  \/ \E c \in Cancelers :
       \/ GetForCancel(c) \/ SubmitCancelation(c) \/ PatchCancelation(c) \/ AddCancelJob(c)
       \/ DeleteFailed(c) \/ PollCancelation(c) \/ StartCancelWaiter(c)
       \/ AwaitCancelation(c) \/ RecordCancelation(c) \/ MineCancelation(c)

RegistrationSpec == RegistrationInit /\ [][RegistrationNext]_registrationVars

----------------------------------------------------------------------------
(* The data integrity check. *)

\* Payments that the check reports: no hash for 2 minutes, or not mined for 3 hours.
UnminedCreation == ~hub.block /\ ~hub.error /\ age >= ThreeHours
UnminedCancelation ==
  hub.canceled /\ ~hub.cancelBlock /\ ~hub.cancelError /\ cancelAge >= ThreeHours
Reported ==
  /\ Live
  /\ \/ ~hub.hash /\ age >= TwoMinutes
     \/ UnminedCreation
     \/ hub.canceled /\ hub.cancelHash = NoTx /\ cancelAge >= TwoMinutes
     \/ UnminedCancelation

----------------------------------------------------------------------------
(* Properties. *)

\* A payment that is scheduled on the chain is in the hub, which executes it, as
\* long as no request or answer was lost: neither the client of schedulePayment
\* (which deletes a payment that it could not submit) nor a cancelation (which
\* deletes one whose creation failed) removes one that got to the chain.
ScheduledIsKnown == contract = "scheduled" /\ mishaps = 0 => Live

\* A cancelation that the hub records as failed did fail: the payment is not
\* canceled on the chain, unless two devices canceled at a time or something was
\* lost (cancelScheduledPayment looks for a cancelation under way).
CancelErrorIsTrue ==
  hub.cancelError => contract # "canceled" \/ overlap \/ mishaps > 0

\* A waiter that gives up has the data integrity check report the payment: nothing
\* stays unmined silently (the waiter's day against the check's hours).
NoSilentGiveUp ==
  Live =>
    /\ creationJob = "done" => hub.block \/ hub.error \/ Reported
    /\ (\E c \in Cancelers : cancelJob[c].pc = "done")
       /\ (\A c \in Cancelers : cancelJob[c].pc \in {"none", "done"} /\ canceler[c] # "add job")
       => hub.cancelBlock \/ hub.cancelError \/ Reported \/ mishaps > 0
==============================================================================
