---------------------- MODULE PaymentRegistrationProofs ----------------------
(***************************************************************************)
(* Proofs about what comes before and between the executions of a payment. *)
(* PaymentRegistration, for any number of devices and mishaps: the types;  *)
(* that the hub does not lose a payment that got to the chain; that a      *)
(* cancelation recorded as failed did fail; and that a waiter does not     *)
(* give up silently.  RetrySchedule, for any validity and outages: the     *)
(* types; that the retries that are shown as left are left; that each      *)
(* waits as documented; and that they fill the validity.  The two share    *)
(* no variable.                                                            *)
(***************************************************************************)
EXTENDS PaymentRegistration, RetrySchedule, SequenceTheorems, TLAPS

----------------------------------------------------------------------------
(* The inductive invariant.                                                *)

\* A payment's registration, from the client's transaction to the hub's row.
Creation ==
  /\ client = "start" <=> hub.state = "none"
  /\ client \in {"start", "submit"} => createTx = "none"
  /\ contract # "unknown" => createTx = "mined"
  /\ creationJob = "error" \/ hub.error => createTx = "reverted"
  /\ \A c \in Cancelers :
       /\ canceler[c] # "start" => hub.state # "none"
       /\ canceler[c] = "delete" => createTx = "reverted"

\* What is deleted did not get to the chain, and never will.
Deletion ==
  /\ client = "delete" => createTx \in {"none", "reverted"}
  /\ hub.state = "deleted" => createTx = "reverted" \/ (createTx = "none" /\ client = "ended")

\* The hub knows the hash of a transaction it waits for, and waits for a day.
CreationWait ==
  /\ client = "add job" \/ creationJob # "none" => hub.hash
  /\ creationJob = "done" => hub.block \/ hub.error \/ age >= OneDay

\* The transactions that the hub, the contract, and each device and its job have seen.
HubHasSeen ==
  /\ hub.canceled <=> hub.cancelHash # NoTx
  /\ hub.cancelHash # NoTx => cancelTx[hub.cancelHash] # "none"
  /\ hub.cancelError => \E c \in Cancelers : cancelTx[c] = "reverted"
  /\ contract = "canceled" => \E c \in Cancelers : cancelTx[c] = "mined"
DeviceFits(c) ==
  /\ canceler[c] \in {"start", "submit"} => cancelTx[c] = "none"
  /\ canceler[c] = "patch" => cancelTx[c] # "none"
  /\ canceler[c] = "add job" => hub.canceled
JobFits(c) ==
  /\ cancelJob[c].pc # "none" => hub.canceled
  /\ cancelJob[c].pc \in {"waiting", "block", "error"} => cancelJob[c].tx \in Cancelers
  /\ cancelJob[c].pc = "error" => cancelTx[cancelJob[c].tx] = "reverted"
Cancelation == HubHasSeen /\ \A c \in Cancelers : DeviceFits(c) /\ JobFits(c)

\* While devices cancel one at a time and nothing is lost, there is one transaction.
Canceling(c) == canceler[c] \in {"submit", "patch"}
OneCancelation ==
  /\ \A c, d \in Cancelers : Canceling(c) /\ Canceling(d) => c = d
  /\ \A c, d \in Cancelers : canceler[c] = "submit" => cancelTx[d] = "none"
  /\ \A c, d \in Cancelers : cancelTx[c] # "none" /\ cancelTx[d] # "none" => c = d
  /\ \A c \in Cancelers : cancelTx[c] # "none" =>
       canceler[c] = "patch" \/ hub.cancelHash = c \/ hub.state = "deleted"

\* A canceled payment has a result, a job under way, or an age of a day.
CancelWait ==
  hub.canceled =>
    \/ hub.cancelBlock \/ hub.cancelError \/ cancelAge >= OneDay
    \/ \E c \in Cancelers :
         canceler[c] = "add job" \/ cancelJob[c].pc \in {"queued", "waiting", "block", "error"}

RegistrationInv ==
  /\ RegistrationTypeOK /\ cancelAge <= age
  /\ Creation /\ CreationWait /\ Cancelation
  /\ mishaps = 0 => Deletion /\ CancelWait
  /\ mishaps = 0 /\ ~overlap => OneCancelation

----------------------------------------------------------------------------
(* The steps, by who takes them.                                           *)

ClientStep ==
  \/ Register \/ SubmitRegistration \/ PatchHash \/ AddCreationJob \/ RemoveFromHub
  \/ PollCreation
WaiterStep == StartCreationWaiter \/ AwaitCreation \/ RecordCreation
AgeStep == GrowOlder \/ CancelGrowsOlder
DeviceStep(c) ==
  \/ GetForCancel(c) \/ SubmitCancelation(c) \/ PatchCancelation(c) \/ AddCancelJob(c)
  \/ DeleteFailed(c) \/ PollCancelation(c)
CancelWaiterStep(c) == StartCancelWaiter(c) \/ AwaitCancelation(c) \/ RecordCancelation(c)

LEMMA Steps ==
  ASSUME RegistrationNext
  PROVE  \/ ClientStep \/ WaiterStep \/ AgeStep \/ MineRegistration
         \/ \E c \in Cancelers : DeviceStep(c) \/ CancelWaiterStep(c) \/ MineCancelation(c)
BY DEF RegistrationNext, ClientStep, WaiterStep, AgeStep, DeviceStep, CancelWaiterStep

LEMMA Counts ==
  ASSUME RegistrationTypeOK, RegistrationNext
  PROVE  /\ mishaps' \in 0..MaxMishaps /\ mishaps <= mishaps'
         /\ overlap' \in BOOLEAN /\ (overlap => overlap')
<1>1. mishaps' = mishaps \/ (mishaps < MaxMishaps /\ mishaps' = mishaps + 1)
  BY DEF RegistrationNext, Register, SubmitRegistration, PatchHash, AddCreationJob, RemoveFromHub,
         PollCreation, StartCreationWaiter, AwaitCreation, RecordCreation, MineRegistration,
         GrowOlder, CancelGrowsOlder, GetForCancel, SubmitCancelation, PatchCancelation,
         AddCancelJob, DeleteFailed, PollCancelation, StartCancelWaiter, AwaitCancelation,
         RecordCancelation, MineCancelation, Mishap
<1>2. UNCHANGED overlap \/ \E c \in Cancelers : GetForCancel(c)
  BY DEF RegistrationNext, Register, SubmitRegistration, PatchHash, AddCreationJob, RemoveFromHub,
         PollCreation, StartCreationWaiter, AwaitCreation, RecordCreation, MineRegistration,
         GrowOlder, CancelGrowsOlder, SubmitCancelation, PatchCancelation,
         AddCancelJob, DeleteFailed, PollCancelation, StartCancelWaiter, AwaitCancelation,
         RecordCancelation, MineCancelation
<1>3. overlap' \in BOOLEAN /\ (overlap => overlap')
  BY <1>2 DEF GetForCancel, RegistrationTypeOK
<1>4. mishaps \in 0..MaxMishaps /\ MaxMishaps \in Nat
  BY RegistrationAssumption DEF RegistrationTypeOK
<1>5. mishaps' \in 0..MaxMishaps /\ mishaps <= mishaps'
  BY <1>1, <1>4
<1> QED BY <1>3, <1>5

----------------------------------------------------------------------------
(* The types, and the ages.                                                *)

LEMMA ClientTypes ==
  ASSUME RegistrationInv, ClientStep \/ WaiterStep
  PROVE  /\ hub' \in HubRow /\ client' \in ClientPc /\ createTx' \in TxStates
         /\ creationJob' \in JobPc
         /\ UNCHANGED <<time, canceler, cancelTx, contract, cancelJob>>
<1>1. /\ hub \in HubRow /\ client \in ClientPc /\ createTx \in TxStates
      /\ creationJob \in JobPc
  BY DEF RegistrationInv, RegistrationTypeOK
<1>2. hub' \in HubRow
  BY <1>1 DEF HubRow, ClientStep, WaiterStep, Register, SubmitRegistration, PatchHash,
              AddCreationJob, RemoveFromHub, PollCreation, StartCreationWaiter, AwaitCreation,
              RecordCreation
<1>3. client' \in ClientPc /\ createTx' \in TxStates /\ creationJob' \in JobPc
  BY <1>1 DEF ClientPc, TxStates, JobPc, ClientStep, WaiterStep, Register, SubmitRegistration,
              PatchHash, AddCreationJob, RemoveFromHub, PollCreation, StartCreationWaiter,
              AwaitCreation, RecordCreation, chain, jobs
<1>4. UNCHANGED <<time, canceler, cancelTx, contract, cancelJob>>
  BY DEF ClientStep, WaiterStep, Register, SubmitRegistration, PatchHash, AddCreationJob,
         RemoveFromHub, PollCreation, StartCreationWaiter, AwaitCreation, RecordCreation,
         chain, jobs
<1> QED BY <1>2, <1>3, <1>4

LEMMA DeviceTypes ==
  ASSUME RegistrationInv, NEW c \in Cancelers, DeviceStep(c) \/ CancelWaiterStep(c)
  PROVE  /\ hub' \in HubRow /\ canceler' \in [Cancelers -> CancelerPc]
         /\ cancelTx' \in [Cancelers -> TxStates]
         /\ cancelJob' \in [Cancelers -> [pc: JobPc, tx: Cancelers \cup {NoTx}]]
         /\ cancelAge' \in {cancelAge, 0}
         /\ UNCHANGED <<age, client, createTx, contract, creationJob>>
<1>1. /\ hub \in HubRow /\ canceler \in [Cancelers -> CancelerPc]
      /\ cancelTx \in [Cancelers -> TxStates]
      /\ cancelJob \in [Cancelers -> [pc: JobPc, tx: Cancelers \cup {NoTx}]]
  BY DEF RegistrationInv, RegistrationTypeOK
<1>2. hub' \in HubRow
  <2>1. \/ hub' = hub
        \/ hub' = [hub EXCEPT !.cancelHash = c, !.canceled = TRUE]
        \/ hub' = [hub EXCEPT !.state = "deleted"]
        \/ \E block, error \in BOOLEAN : hub' = [hub EXCEPT !.cancelBlock = block, !.cancelError = error]
    <3>1. CASE DeviceStep(c)
      BY <3>1 DEF DeviceStep, GetForCancel, SubmitCancelation, PatchCancelation, AddCancelJob,
                  DeleteFailed, PollCancelation
    <3>2. CASE CancelWaiterStep(c)
      BY <1>1, <3>2 DEF CancelWaiterStep, StartCancelWaiter, AwaitCancelation, RecordCancelation,
                        HubRow
    <3> QED BY <3>1, <3>2
  <2> QED BY <1>1, <2>1 DEF HubRow
<1>3. canceler' \in [Cancelers -> CancelerPc]
  BY <1>1 DEF CancelerPc, DeviceStep, CancelWaiterStep, GetForCancel, CancelStep,
              SubmitCancelation, PatchCancelation, AddCancelJob, DeleteFailed, PollCancelation,
              StartCancelWaiter, AwaitCancelation, RecordCancelation, CancelerAt
<1>4. cancelTx' \in [Cancelers -> TxStates]
  BY <1>1 DEF TxStates, DeviceStep, CancelWaiterStep, GetForCancel, SubmitCancelation,
              PatchCancelation, AddCancelJob, DeleteFailed, PollCancelation, StartCancelWaiter,
              AwaitCancelation, RecordCancelation, chain
<1>5. cancelJob' \in [Cancelers -> [pc: JobPc, tx: Cancelers \cup {NoTx}]]
  <2>1. hub.cancelHash \in Cancelers \cup {NoTx}
    BY <1>1 DEF HubRow
  <2>2. ASSUME NEW pc \in JobPc, NEW tx \in Cancelers \cup {NoTx},
               \/ cancelJob' = [cancelJob EXCEPT ![c] = CancelJob(pc, tx)]
               \/ cancelJob' = [cancelJob EXCEPT ![c].pc = pc]
        PROVE  cancelJob' \in [Cancelers -> [pc: JobPc, tx: Cancelers \cup {NoTx}]]
    BY <1>1, <2>2 DEF CancelJob
  <2>3. \/ UNCHANGED cancelJob
        \/ \E pc \in JobPc, tx \in Cancelers \cup {NoTx} :
             \/ cancelJob' = [cancelJob EXCEPT ![c] = CancelJob(pc, tx)]
             \/ cancelJob' = [cancelJob EXCEPT ![c].pc = pc]
    BY <2>1 DEF JobPc, DeviceStep, CancelWaiterStep, GetForCancel, SubmitCancelation,
                PatchCancelation, AddCancelJob, DeleteFailed, PollCancelation,
                StartCancelWaiter, AwaitCancelation, RecordCancelation, jobs
  <2> QED BY <1>1, <2>2, <2>3
<1>6. cancelAge' \in {cancelAge, 0} /\ UNCHANGED <<age, client, createTx, contract, creationJob>>
  BY DEF DeviceStep, CancelWaiterStep, GetForCancel, SubmitCancelation, PatchCancelation,
         AddCancelJob, DeleteFailed, PollCancelation, StartCancelWaiter, AwaitCancelation,
         RecordCancelation, chain, jobs, time
<1> QED BY <1>2, <1>3, <1>4, <1>5, <1>6

LEMMA ChainTypes ==
  ASSUME RegistrationInv, MineRegistration \/ \E c \in Cancelers : MineCancelation(c)
  PROVE  /\ createTx' \in TxStates /\ cancelTx' \in [Cancelers -> TxStates]
         /\ contract' \in {"unknown", "scheduled", "canceled"}
         /\ UNCHANGED <<hub, time, client, canceler, jobs>>
BY DEF RegistrationInv, RegistrationTypeOK, TxStates, MineRegistration, MineCancelation

\* canceledAt is not before createdAt.
LEMMA AgesGrow ==
  ASSUME RegistrationInv, AgeStep
  PROVE  /\ age' \in Ages /\ cancelAge' \in Ages /\ cancelAge' <= age'
         /\ age <= age' /\ cancelAge <= cancelAge'
         /\ UNCHANGED <<hub, client, canceler, chain, jobs>>
<1>1. age \in 0..3 /\ cancelAge \in 0..3 /\ cancelAge <= age
  BY DEF RegistrationInv, RegistrationTypeOK, Ages
<1>2. \/ age < 3 /\ age' = age + 1 /\ cancelAge' \in {cancelAge, cancelAge + 1}
      \/ age = 3 /\ cancelAge < 3 /\ age' = age /\ cancelAge' = cancelAge + 1
  BY DEF AgeStep, GrowOlder, CancelGrowsOlder, OneDay
<1>3. /\ age' \in 0..3 /\ cancelAge' \in 0..3 /\ cancelAge' <= age'
      /\ age <= age' /\ cancelAge <= cancelAge'
  BY <1>1, <1>2
<1> QED BY <1>3 DEF Ages, AgeStep, GrowOlder, CancelGrowsOlder

LEMMA RegistrationTypesKept ==
  ASSUME RegistrationInv, RegistrationNext
  PROVE  RegistrationTypeOK' /\ (cancelAge <= age)'
<1>1. RegistrationTypeOK /\ cancelAge <= age
  BY DEF RegistrationInv
<1>2. mishaps' \in 0..MaxMishaps /\ overlap' \in BOOLEAN
  BY <1>1, Counts
<1>3. CASE ClientStep \/ WaiterStep
  BY <1>1, <1>2, <1>3, ClientTypes DEF RegistrationTypeOK, time
<1>4. CASE \E c \in Cancelers : DeviceStep(c) \/ CancelWaiterStep(c)
  <2>1. 0 \in Ages /\ 0 <= age
    BY <1>1 DEF RegistrationTypeOK, Ages
  <2> QED BY <1>1, <1>2, <1>4, <2>1, DeviceTypes DEF RegistrationTypeOK
<1>5. CASE MineRegistration \/ \E c \in Cancelers : MineCancelation(c)
  BY <1>1, <1>2, <1>5, ChainTypes DEF RegistrationTypeOK, time, jobs
<1>6. CASE AgeStep
  BY <1>1, <1>2, <1>6, AgesGrow DEF RegistrationTypeOK, chain, jobs
<1> QED BY <1>3, <1>4, <1>5, <1>6, Steps

----------------------------------------------------------------------------
(* The registration of the payment.                                        *)

LEMMA CreationKept ==
  ASSUME RegistrationInv, RegistrationNext
  PROVE  Creation'
<1>1. Creation /\ hub \in HubRow
  BY DEF RegistrationInv, RegistrationTypeOK
<1>2. CASE ClientStep
  <2>1. UNCHANGED <<canceler, contract>>
    BY <1>2, ClientTypes
  <2>2. CASE Register
    BY <1>1, <2>1, <2>2 DEF Register, Creation, HubRow, chain, jobs
  <2>3. CASE SubmitRegistration \/ PatchHash
    BY <1>1, <2>1, <2>3 DEF SubmitRegistration, PatchHash, Creation, HubRow, Live, chain, jobs
  <2>4. CASE AddCreationJob \/ RemoveFromHub \/ PollCreation
    BY <1>1, <2>1, <2>4 DEF AddCreationJob, RemoveFromHub, PollCreation, Creation, HubRow, chain, jobs
  <2> QED BY <1>2, <2>2, <2>3, <2>4 DEF ClientStep
<1>3. CASE WaiterStep
  BY <1>1, <1>3 DEF WaiterStep, StartCreationWaiter, AwaitCreation, RecordCreation, Creation,
                    HubRow, chain, Live
<1>4. CASE AgeStep \/ MineRegistration
  BY <1>1, <1>4 DEF AgeStep, GrowOlder, CancelGrowsOlder, MineRegistration, Creation, chain, jobs
<1>5. ASSUME NEW c \in Cancelers, DeviceStep(c) PROVE Creation'
  <2>1. canceler \in [Cancelers -> CancelerPc]
    BY DEF RegistrationInv, RegistrationTypeOK
  <2>2. CASE GetForCancel(c)
    BY <1>1, <2>1, <2>2 DEF GetForCancel, CancelStep, CancelerAt, Creation, chain, jobs
  <2>3. CASE SubmitCancelation(c) \/ PatchCancelation(c)
    BY <1>1, <2>1, <2>3 DEF SubmitCancelation, PatchCancelation, CancelerAt, Creation, HubRow,
                            chain, jobs
  <2>4. CASE AddCancelJob(c) \/ DeleteFailed(c) \/ PollCancelation(c)
    BY <1>1, <2>1, <2>4 DEF AddCancelJob, DeleteFailed, PollCancelation, CancelerAt, Creation,
                            HubRow, chain, jobs
  <2> QED BY <1>5, <2>2, <2>3, <2>4 DEF DeviceStep
<1>6. ASSUME NEW c \in Cancelers, CancelWaiterStep(c) \/ MineCancelation(c) PROVE Creation'
  BY <1>1, <1>6 DEF CancelWaiterStep, StartCancelWaiter, AwaitCancelation, RecordCancelation,
                    MineCancelation, Creation, HubRow, chain, jobs
<1> QED BY <1>2, <1>3, <1>4, <1>5, <1>6, Steps

LEMMA DeletionKept ==
  ASSUME RegistrationInv, RegistrationNext, mishaps' = 0
  PROVE  Deletion'
<1>1. /\ Creation /\ hub \in HubRow /\ mishaps = 0 /\ mishaps \in Nat
      /\ mishaps' # mishaps + 1
  <2>1. mishaps \in 0..MaxMishaps /\ mishaps <= mishaps' /\ MaxMishaps \in Nat
    BY Counts, RegistrationAssumption DEF RegistrationInv, RegistrationTypeOK
  <2>2. mishaps = 0 /\ mishaps \in Nat
    BY <2>1
  <2> QED BY <2>2 DEF RegistrationInv, RegistrationTypeOK
<1>2. Deletion /\ ~Mishap
  BY <1>1 DEF RegistrationInv, Mishap
<1>3. CASE ClientStep
  <2>1. CASE Register \/ SubmitRegistration
    BY <1>1, <1>2, <2>1 DEF Register, SubmitRegistration, Creation, Deletion, HubRow, chain, jobs
  <2>2. CASE PatchHash
    BY <1>1, <1>2, <2>2 DEF PatchHash, Creation, Deletion, HubRow, Live, chain
  <2>3. CASE AddCreationJob \/ RemoveFromHub \/ PollCreation
    BY <1>1, <1>2, <2>3 DEF AddCreationJob, RemoveFromHub, PollCreation, Deletion, HubRow, chain
  <2> QED BY <1>3, <2>1, <2>2, <2>3 DEF ClientStep
<1>4. CASE WaiterStep \/ AgeStep \/ MineRegistration
  BY <1>1, <1>2, <1>4 DEF WaiterStep, StartCreationWaiter, AwaitCreation, RecordCreation, AgeStep,
                          GrowOlder, CancelGrowsOlder, MineRegistration, Deletion, HubRow, chain
<1>5. ASSUME NEW c \in Cancelers, DeviceStep(c) PROVE Deletion'
  <2>1. CASE DeleteFailed(c)
    BY <1>1, <1>2, <2>1 DEF DeleteFailed, Creation, Deletion, HubRow, chain
  <2>2. CASE ~DeleteFailed(c)
    BY <1>1, <1>2, <1>5, <2>2
    DEF DeviceStep, GetForCancel, SubmitCancelation, PatchCancelation, AddCancelJob,
        PollCancelation, Deletion, HubRow, chain
  <2> QED BY <2>1, <2>2
<1>6. ASSUME NEW c \in Cancelers, CancelWaiterStep(c) \/ MineCancelation(c) PROVE Deletion'
  BY <1>1, <1>2, <1>6 DEF CancelWaiterStep, StartCancelWaiter, AwaitCancelation,
                          RecordCancelation, MineCancelation, Deletion, HubRow, chain
<1> QED BY <1>3, <1>4, <1>5, <1>6, Steps

LEMMA CreationWaitKept ==
  ASSUME RegistrationInv, RegistrationNext
  PROVE  CreationWait'
<1>1. CreationWait /\ hub \in HubRow /\ age \in 0..3
  BY DEF RegistrationInv, RegistrationTypeOK, Ages
<1>2. CASE ClientStep
  BY <1>1, <1>2 DEF ClientStep, Register, SubmitRegistration, PatchHash, AddCreationJob,
                    RemoveFromHub, PollCreation, CreationWait, HubRow, time, jobs
<1>3. CASE WaiterStep
  BY <1>1, <1>3 DEF WaiterStep, StartCreationWaiter, AwaitCreation, RecordCreation, CreationWait,
                    HubRow, time
<1>4. CASE AgeStep
  <2>1. age' \in 0..3 /\ age <= age' /\ UNCHANGED <<hub, client, jobs>>
    BY <1>4, AgesGrow DEF Ages
  <2>2. age >= OneDay => age' >= OneDay
    BY <1>1, <2>1 DEF OneDay
  <2> QED BY <1>1, <2>1, <2>2 DEF CreationWait, jobs
<1>5. CASE MineRegistration
  BY <1>1, <1>5 DEF MineRegistration, CreationWait, time, jobs
<1>6. ASSUME NEW c \in Cancelers, DeviceStep(c) PROVE CreationWait'
  BY <1>1, <1>6 DEF DeviceStep, GetForCancel, SubmitCancelation, PatchCancelation, AddCancelJob,
                    DeleteFailed, PollCancelation, CreationWait, HubRow, time, jobs
<1>7. ASSUME NEW c \in Cancelers, CancelWaiterStep(c) \/ MineCancelation(c) PROVE CreationWait'
  BY <1>1, <1>7 DEF CancelWaiterStep, StartCancelWaiter, AwaitCancelation, RecordCancelation,
                    MineCancelation, CreationWait, HubRow, time, jobs
<1> QED BY <1>2, <1>3, <1>4, <1>5, <1>6, <1>7, Steps

----------------------------------------------------------------------------
(* The cancelations of the payment.                                        *)

\* A transaction that was sent stays sent, and keeps its result; a payment stays canceled.
SeenStays ==
  /\ \A c \in Cancelers :
       /\ cancelTx[c] # "none" => cancelTx'[c] # "none"
       /\ cancelTx[c] \in {"mined", "reverted"} => cancelTx'[c] = cancelTx[c]
  /\ hub.canceled => hub'.canceled

LEMMA HubSees ==
  ASSUME RegistrationInv, SeenStays,
         \/ hub'.canceled = hub.canceled /\ hub'.cancelHash = hub.cancelHash
         \/ /\ hub'.canceled /\ hub'.cancelHash \in Cancelers
            /\ cancelTx'[hub'.cancelHash] # "none",
         hub'.cancelError => hub.cancelError \/ \E c \in Cancelers : cancelTx[c] = "reverted",
         contract' = "canceled" => contract = "canceled" \/ \E c \in Cancelers : cancelTx'[c] = "mined"
  PROVE  HubHasSeen'
<1>1. HubHasSeen /\ hub.cancelHash \in Cancelers \cup {NoTx}
  BY DEF RegistrationInv, Cancelation, RegistrationTypeOK, HubRow
<1>2. hub'.canceled <=> hub'.cancelHash # NoTx
  BY <1>1, RegistrationAssumption DEF HubHasSeen
<1>3. hub'.cancelHash # NoTx => cancelTx'[hub'.cancelHash] # "none"
  BY <1>1 DEF HubHasSeen, SeenStays
<1>4. hub'.cancelError => \E c \in Cancelers : cancelTx'[c] = "reverted"
  BY <1>1 DEF HubHasSeen, SeenStays
<1>5. contract' = "canceled" => \E c \in Cancelers : cancelTx'[c] = "mined"
  BY <1>1 DEF HubHasSeen, SeenStays
<1> QED BY <1>2, <1>3, <1>4, <1>5 DEF HubHasSeen

\* Devices and jobs that do not move, and whose transactions nobody sends, go on fitting.
LEMMA OthersFit ==
  ASSUME RegistrationInv, SeenStays, NEW c \in Cancelers
  PROVE  /\ canceler'[c] = canceler[c] /\ (cancelTx[c] = "none" => cancelTx'[c] = "none") =>
              DeviceFits(c)'
         /\ cancelJob'[c] = cancelJob[c] => JobFits(c)'
<1>1. DeviceFits(c) /\ JobFits(c)
  BY DEF RegistrationInv, Cancelation
<1> QED BY <1>1 DEF DeviceFits, JobFits, SeenStays

LEMMA CancelationByOthers ==
  ASSUME RegistrationInv,
         ClientStep \/ WaiterStep \/ AgeStep \/ MineRegistration
  PROVE  Cancelation'
<1>1. hub \in HubRow
  BY DEF RegistrationInv, RegistrationTypeOK
<1>2. /\ UNCHANGED <<canceler, cancelTx, cancelJob>>
      /\ contract' = "canceled" => contract = "canceled"
  BY DEF ClientStep, WaiterStep, AgeStep, Register, SubmitRegistration, PatchHash,
         AddCreationJob, RemoveFromHub, PollCreation, StartCreationWaiter, AwaitCreation,
         RecordCreation, GrowOlder, CancelGrowsOlder, MineRegistration, chain, jobs
<1>3. /\ hub'.canceled = hub.canceled /\ hub'.cancelHash = hub.cancelHash
      /\ hub'.cancelError = hub.cancelError
  BY <1>1 DEF HubRow, ClientStep, WaiterStep, AgeStep, Register, SubmitRegistration, PatchHash,
              AddCreationJob, RemoveFromHub, PollCreation, StartCreationWaiter, AwaitCreation,
              RecordCreation, GrowOlder, CancelGrowsOlder, MineRegistration
<1>4. SeenStays
  BY <1>2, <1>3 DEF SeenStays
<1> QED BY <1>2, <1>3, <1>4, HubSees, OthersFit DEF Cancelation

LEMMA CancelationByMining ==
  ASSUME RegistrationInv, NEW c \in Cancelers, MineCancelation(c)
  PROVE  Cancelation'
<1>1. cancelTx \in [Cancelers -> TxStates] /\ cancelTx[c] = "pending"
  BY DEF RegistrationInv, RegistrationTypeOK, MineCancelation
<1>2. UNCHANGED <<hub, canceler, cancelJob>>
  BY DEF MineCancelation, jobs
<1>3. \A d \in Cancelers : /\ d # c => cancelTx'[d] = cancelTx[d]
                           /\ d = c => cancelTx'[d] \in {"mined", "reverted", "dropped"}
  BY <1>1 DEF MineCancelation
<1>4. contract' = "canceled" => contract = "canceled" \/ cancelTx'[c] = "mined"
  BY <1>1 DEF MineCancelation
<1>5. SeenStays
  BY <1>1, <1>2, <1>3 DEF SeenStays
<1>6. HubHasSeen'
  BY <1>2, <1>4, <1>5, HubSees
<1>7. ASSUME NEW d \in Cancelers PROVE DeviceFits(d)' /\ JobFits(d)'
  BY <1>1, <1>2, <1>3, <1>5, OthersFit
<1> QED BY <1>6, <1>7 DEF Cancelation

LEMMA CancelationByDevice ==
  ASSUME RegistrationInv, NEW c \in Cancelers, DeviceStep(c)
  PROVE  Cancelation'
<1>1. /\ hub \in HubRow /\ canceler \in [Cancelers -> CancelerPc]
      /\ cancelTx \in [Cancelers -> TxStates]
      /\ cancelJob \in [Cancelers -> [pc: JobPc, tx: Cancelers \cup {NoTx}]]
  BY DEF RegistrationInv, RegistrationTypeOK
<1>2. DeviceFits(c) /\ JobFits(c)
  BY DEF RegistrationInv, Cancelation
<1>3. /\ hub'.cancelError = hub.cancelError /\ contract' = contract
      /\ \A d \in Cancelers \ {c} : /\ canceler'[d] = canceler[d] /\ cancelTx'[d] = cancelTx[d]
                                    /\ cancelJob'[d] = cancelJob[d]
  BY <1>1 DEF DeviceStep, GetForCancel, SubmitCancelation, PatchCancelation, AddCancelJob,
              DeleteFailed, PollCancelation, CancelerAt, HubRow, chain, jobs
<1>4. CASE SubmitCancelation(c)
  <2>1. UNCHANGED <<hub, cancelJob>> /\ canceler[c] = "submit"
    BY <1>4 DEF SubmitCancelation, jobs
  <2>2. \/ canceler'[c] = "patch" /\ cancelTx'[c] = "pending"
        \/ canceler'[c] = "ended" /\ cancelTx'[c] \in {cancelTx[c], "pending"}
    BY <1>1, <1>4 DEF SubmitCancelation, CancelerAt
  <2>3. cancelTx[c] = "none"
    BY <1>2, <2>1 DEF DeviceFits
  <2>4. SeenStays
    BY <1>3, <2>1, <2>3 DEF SeenStays
  <2>5. DeviceFits(c)'
    BY <2>2 DEF DeviceFits
  <2> QED BY <1>3, <2>1, <2>4, <2>5, HubSees, OthersFit DEF Cancelation
<1>5. CASE PatchCancelation(c)
  <2>1. UNCHANGED <<cancelTx, cancelJob>> /\ canceler[c] = "patch"
    BY <1>5 DEF PatchCancelation, chain, jobs
  <2>2. \/ canceler'[c] = "ended" /\ hub' = hub
        \/ canceler'[c] = "add job" /\ hub'.canceled /\ hub'.cancelHash = c
    BY <1>1, <1>5 DEF PatchCancelation, CancelerAt, HubRow
  <2>3. cancelTx[c] # "none"
    BY <1>2, <2>1 DEF DeviceFits
  <2>4. SeenStays
    BY <2>1, <2>2 DEF SeenStays
  <2>5. DeviceFits(c)' /\ HubHasSeen'
    BY <1>3, <2>1, <2>2, <2>3, <2>4, HubSees DEF DeviceFits
  <2> QED BY <1>3, <2>1, <2>4, <2>5, OthersFit DEF Cancelation
<1>6. CASE AddCancelJob(c)
  <2>1. UNCHANGED <<hub, cancelTx>> /\ canceler[c] = "add job"
    BY <1>6 DEF AddCancelJob, chain
  <2>2. canceler'[c] \in {"wait", "ended"}
    BY <1>1, <1>6 DEF AddCancelJob, CancelerAt
  <2>3. cancelJob'[c] \in {cancelJob[c], CancelJob("queued", NoTx)}
    BY <1>1, <1>6 DEF AddCancelJob
  <2>4. SeenStays
    BY <2>1 DEF SeenStays
  <2>5. DeviceFits(c)'
    BY <2>2 DEF DeviceFits
  <2>6. JobFits(c)'
    <3>1. CASE cancelJob'[c] = cancelJob[c]
      BY <2>4, <3>1, OthersFit
    <3>2. CASE cancelJob'[c] = CancelJob("queued", NoTx)
      <4>1. cancelJob'[c].pc = "queued"
        BY <3>2 DEF CancelJob
      <4>2. hub'.canceled
        BY <1>2, <2>1 DEF DeviceFits
      <4> QED BY <4>1, <4>2 DEF JobFits
    <3> QED BY <2>3, <3>1, <3>2
  <2> QED BY <1>3, <2>1, <2>4, <2>5, <2>6, HubSees, OthersFit DEF Cancelation
<1>7. CASE GetForCancel(c) \/ DeleteFailed(c) \/ PollCancelation(c)
  <2>1. /\ UNCHANGED <<cancelTx, cancelJob>>
        /\ hub'.canceled = hub.canceled /\ hub'.cancelHash = hub.cancelHash
    BY <1>1, <1>7 DEF GetForCancel, DeleteFailed, PollCancelation, HubRow, chain, jobs
  <2>2. \/ canceler'[c] \in {"ended", "delete", "wait"}
        \/ canceler'[c] = "submit" /\ canceler[c] = "start"
    BY <1>1, <1>7 DEF GetForCancel, DeleteFailed, PollCancelation, CancelerAt, CancelStep
  <2>3. SeenStays
    BY <2>1 DEF SeenStays
  <2>4. DeviceFits(c)'
    BY <1>2, <2>1, <2>2 DEF DeviceFits
  <2> QED BY <1>3, <2>1, <2>3, <2>4, HubSees, OthersFit DEF Cancelation
<1> QED BY <1>4, <1>5, <1>6, <1>7 DEF DeviceStep

LEMMA CancelationByJob ==
  ASSUME RegistrationInv, NEW c \in Cancelers, CancelWaiterStep(c)
  PROVE  Cancelation'
<1>1. /\ hub \in HubRow /\ hub.cancelHash \in Cancelers \cup {NoTx}
      /\ cancelJob \in [Cancelers -> [pc: JobPc, tx: Cancelers \cup {NoTx}]]
  BY DEF RegistrationInv, RegistrationTypeOK, HubRow
<1>2. JobFits(c) /\ HubHasSeen /\ hub.canceled
  BY DEF RegistrationInv, Cancelation, JobFits, CancelWaiterStep, StartCancelWaiter,
         AwaitCancelation, RecordCancelation
<1>3. /\ UNCHANGED <<canceler, cancelTx, contract>>
      /\ \A d \in Cancelers \ {c} : cancelJob'[d] = cancelJob[d]
      /\ hub'.canceled = hub.canceled /\ hub'.cancelHash = hub.cancelHash
  BY <1>1 DEF CancelWaiterStep, StartCancelWaiter, AwaitCancelation, RecordCancelation, HubRow,
              chain
<1>4. SeenStays
  BY <1>3 DEF SeenStays
<1>5. JobFits(c)'
  <2>1. CASE StartCancelWaiter(c)
    <3>1. cancelJob'[c] \in {CancelJob("done", NoTx), CancelJob("waiting", hub.cancelHash)}
      BY <1>1, <2>1 DEF StartCancelWaiter
    <3>2. hub.cancelHash \in Cancelers
      BY <1>1, <1>2 DEF HubHasSeen
    <3> QED BY <1>2, <1>3, <3>1, <3>2 DEF JobFits, CancelJob
  <2>2. CASE AwaitCancelation(c)
    <3>1. /\ cancelJob[c].pc = "waiting"
          /\ \/ cancelJob'[c] = CancelJob("queued", NoTx)
             \/ cancelJob'[c].pc = "block" /\ cancelJob'[c].tx = cancelJob[c].tx
             \/ /\ cancelJob'[c].pc = "error" /\ cancelJob'[c].tx = cancelJob[c].tx
                /\ cancelTx[cancelJob[c].tx] = "reverted"
      BY <1>1, <2>2 DEF AwaitCancelation
    <3> QED BY <1>2, <1>3, <3>1 DEF JobFits, CancelJob
  <2>3. CASE RecordCancelation(c)
    <3>1. cancelJob'[c] \in {CancelJob("done", NoTx), CancelJob("queued", NoTx)}
      BY <1>1, <2>3 DEF RecordCancelation
    <3> QED BY <1>2, <1>3, <3>1 DEF JobFits, CancelJob
  <2> QED BY <2>1, <2>2, <2>3 DEF CancelWaiterStep
<1>6. hub'.cancelError => hub.cancelError \/ \E d \in Cancelers : cancelTx[d] = "reverted"
  <2>1. hub'.cancelError => hub.cancelError \/ cancelJob[c].pc = "error"
    BY <1>1 DEF CancelWaiterStep, StartCancelWaiter, AwaitCancelation, RecordCancelation, HubRow
  <2> QED BY <1>2, <2>1 DEF JobFits
<1> QED BY <1>3, <1>4, <1>5, <1>6, HubSees, OthersFit DEF Cancelation

LEMMA CancelationKept ==
  ASSUME RegistrationInv, RegistrationNext
  PROVE  Cancelation'
BY Steps, CancelationByOthers, CancelationByMining, CancelationByDevice, CancelationByJob

\* A run without mishaps has none so far, and no step of it is one.
LEMMA NoMishap ==
  ASSUME RegistrationInv, RegistrationNext, mishaps' = 0
  PROVE  mishaps = 0 /\ ~Mishap /\ (~overlap' => ~overlap)
<1>1. mishaps \in 0..MaxMishaps /\ mishaps <= mishaps' /\ MaxMishaps \in Nat
  BY Counts, RegistrationAssumption DEF RegistrationInv, RegistrationTypeOK
<1>2. mishaps = 0 /\ mishaps' # mishaps + 1
  BY <1>1
<1>3. overlap => overlap'
  BY Counts DEF RegistrationInv
<1> QED BY <1>2, <1>3 DEF Mishap

\* Steps that send nothing, start no cancelation and forget none.
LEMMA OneStays ==
  ASSUME OneCancelation,
         hub'.cancelHash = hub.cancelHash, hub.state = "deleted" => hub'.state = "deleted",
         \A c \in Cancelers : /\ cancelTx'[c] = "none" <=> cancelTx[c] = "none"
                              /\ canceler'[c] = "submit" <=> canceler[c] = "submit"
                              /\ canceler'[c] = "patch" <=> canceler[c] = "patch"
  PROVE  OneCancelation'
BY DEF OneCancelation, Canceling

LEMMA OneByDevice ==
  ASSUME RegistrationInv, OneCancelation, ~Mishap, ~overlap',
         NEW c \in Cancelers, DeviceStep(c)
  PROVE  OneCancelation'
<1>1. /\ hub \in HubRow /\ canceler \in [Cancelers -> CancelerPc]
      /\ cancelTx \in [Cancelers -> TxStates] /\ NoTx \notin Cancelers
  BY RegistrationAssumption DEF RegistrationInv, RegistrationTypeOK
<1>2. DeviceFits(c)
  BY DEF RegistrationInv, Cancelation
<1>3. \A d \in Cancelers \ {c} : canceler'[d] = canceler[d] /\ cancelTx'[d] = cancelTx[d]
  BY <1>1 DEF DeviceStep, GetForCancel, SubmitCancelation, PatchCancelation, AddCancelJob,
              DeleteFailed, PollCancelation, CancelerAt, chain
<1>4. CASE GetForCancel(c)
  <2>1. UNCHANGED <<hub, cancelTx>> /\ canceler[c] = "start"
    BY <1>4 DEF GetForCancel, chain
  <2>2. CASE canceler'[c] = "submit"
    <3>1. hub.state = "live" /\ hub.cancelHash = NoTx
      BY <1>1, <1>4, <2>2 DEF GetForCancel, CancelerAt, CancelStep
    <3>2. \A d \in Cancelers : ~Canceling(d)
      BY <1>4, <2>1 DEF GetForCancel, Canceling
    <3>3. \A d \in Cancelers : cancelTx[d] = "none"
      BY <1>1, <3>1, <3>2 DEF OneCancelation, Canceling
    <3>4. \A d \in Cancelers \ {c} : canceler'[d] \notin {"submit", "patch"}
      BY <1>3, <3>2 DEF Canceling
    <3> QED BY <2>1, <2>2, <3>3, <3>4 DEF OneCancelation, Canceling
  <2>3. CASE canceler'[c] # "submit"
    <3>1. canceler'[c] # "patch"
      BY <1>1, <1>4 DEF GetForCancel, CancelerAt, CancelStep
    <3> QED BY <1>3, <2>1, <2>3, <3>1, OneStays
  <2> QED BY <2>2, <2>3
<1>5. CASE SubmitCancelation(c)
  <2>1. hub' = hub /\ canceler[c] = "submit"
    BY <1>5 DEF SubmitCancelation
  <2>2. \/ canceler'[c] = "patch"
        \/ canceler'[c] = "ended" /\ cancelTx'[c] = cancelTx[c]
    BY <1>1, <1>5 DEF SubmitCancelation, CancelerAt
  <2>3. \A d \in Cancelers : cancelTx[d] = "none"
    BY <2>1 DEF OneCancelation
  <2>4. \A d \in Cancelers \ {c} : canceler'[d] \notin {"submit", "patch"} /\ cancelTx'[d] = "none"
    BY <1>3, <2>1, <2>3 DEF OneCancelation, Canceling
  <2> QED BY <2>2, <2>3, <2>4 DEF OneCancelation, Canceling
<1>6. CASE PatchCancelation(c)
  <2>1. UNCHANGED cancelTx /\ canceler[c] = "patch"
    BY <1>6 DEF PatchCancelation, chain
  <2>2. \/ hub'.cancelHash = c
        \/ hub' = hub /\ hub.state # "live"
    BY <1>1, <1>6 DEF PatchCancelation, HubRow, Live
  <2>3. canceler'[c] \in {"ended", "add job"}
    BY <1>1, <1>6 DEF PatchCancelation, CancelerAt
  <2>4. hub.state # "none"
    BY <2>1 DEF RegistrationInv, Creation
  <2>5. hub'.cancelHash = c \/ hub'.state = "deleted"
    BY <1>1, <2>2, <2>4 DEF HubRow
  <2>6. \A d \in Cancelers : cancelTx[d] # "none" => d = c
    BY <1>2, <2>1 DEF DeviceFits, OneCancelation
  <2>7. \A d \in Cancelers : canceler'[d] \notin {"submit", "patch"}
    BY <1>3, <2>1, <2>3 DEF OneCancelation, Canceling
  <2> QED BY <2>1, <2>5, <2>6, <2>7 DEF OneCancelation, Canceling
<1>7. CASE AddCancelJob(c) \/ DeleteFailed(c) \/ PollCancelation(c)
  <2>1. /\ UNCHANGED cancelTx /\ hub'.cancelHash = hub.cancelHash
        /\ hub.state = "deleted" => hub'.state = "deleted"
    BY <1>1, <1>7 DEF AddCancelJob, DeleteFailed, PollCancelation, HubRow, chain
  <2>2. /\ canceler[c] \in {"add job", "delete", "wait"}
        /\ canceler'[c] \in {"wait", "ended"}
    BY <1>1, <1>7 DEF AddCancelJob, DeleteFailed, PollCancelation, CancelerAt
  <2> QED BY <1>3, <2>1, <2>2, OneStays
<1> QED BY <1>4, <1>5, <1>6, <1>7 DEF DeviceStep

LEMMA OneCancelationKept ==
  ASSUME RegistrationInv, RegistrationNext, mishaps' = 0, ~overlap'
  PROVE  OneCancelation'
<1>1. /\ OneCancelation /\ Creation /\ ~Mishap /\ hub \in HubRow
      /\ cancelTx \in [Cancelers -> TxStates]
  BY NoMishap DEF RegistrationInv, RegistrationTypeOK
<1>2. CASE ClientStep \/ WaiterStep \/ AgeStep \/ MineRegistration
  <2>1. UNCHANGED <<canceler, cancelTx>>
    BY <1>2 DEF ClientStep, WaiterStep, AgeStep, Register, SubmitRegistration, PatchHash,
           AddCreationJob, RemoveFromHub, PollCreation, StartCreationWaiter, AwaitCreation,
           RecordCreation, GrowOlder, CancelGrowsOlder, MineRegistration, chain
  <2>2. /\ hub'.cancelHash = hub.cancelHash
        /\ hub.state = "deleted" => hub'.state = "deleted"
    BY <1>1, <1>2 DEF HubRow, Creation, ClientStep, WaiterStep, AgeStep, Register,
           SubmitRegistration, PatchHash, AddCreationJob, RemoveFromHub, PollCreation,
           StartCreationWaiter, AwaitCreation, RecordCreation, GrowOlder, CancelGrowsOlder,
           MineRegistration
  <2> QED BY <1>1, <2>1, <2>2, OneStays
<1>3. ASSUME NEW c \in Cancelers, CancelWaiterStep(c) PROVE OneCancelation'
  <2>1. /\ UNCHANGED <<canceler, cancelTx>>
        /\ hub'.cancelHash = hub.cancelHash /\ hub'.state = hub.state
    BY <1>1, <1>3 DEF CancelWaiterStep, StartCancelWaiter, AwaitCancelation, RecordCancelation,
                      HubRow, chain
  <2> QED BY <1>1, <2>1, OneStays
<1>4. ASSUME NEW c \in Cancelers, MineCancelation(c) PROVE OneCancelation'
  <2>1. UNCHANGED <<hub, canceler>>
    BY <1>4 DEF MineCancelation
  <2>2. \A d \in Cancelers : cancelTx'[d] = "none" <=> cancelTx[d] = "none"
    BY <1>1, <1>4 DEF MineCancelation
  <2> QED BY <1>1, <2>1, <2>2, OneStays
<1> QED BY <1>1, <1>2, <1>3, <1>4, OneByDevice, Steps

----------------------------------------------------------------------------
(* The wait for a cancelation.                                             *)

\* There is a job under way, or one to come, for the cancelation of device c.
JobToCome(c) ==
  canceler[c] = "add job" \/ cancelJob[c].pc \in {"queued", "waiting", "block", "error"}

LEMMA CancelWaitIs ==
  CancelWait <=> (hub.canceled => \/ hub.cancelBlock \/ hub.cancelError \/ cancelAge >= OneDay
                                  \/ \E c \in Cancelers : JobToCome(c))
BY DEF CancelWait, JobToCome

LEMMA CancelWaitIsNext ==
  CancelWait' <=> (hub'.canceled => \/ hub'.cancelBlock \/ hub'.cancelError \/ cancelAge' >= OneDay
                                    \/ \E c \in Cancelers : JobToCome(c)')
BY DEF CancelWait, JobToCome

\* Steps of others, which change no job, result or date of a cancelation.
LEMMA WaitStays ==
  ASSUME CancelWait,
         /\ hub'.canceled = hub.canceled /\ hub'.cancelBlock = hub.cancelBlock
         /\ hub'.cancelError = hub.cancelError,
         cancelAge >= OneDay => cancelAge' >= OneDay,
         \A c \in Cancelers : JobToCome(c) => JobToCome(c)'
  PROVE  CancelWait'
BY CancelWaitIs, CancelWaitIsNext

LEMMA WaitByDevice ==
  ASSUME RegistrationInv, CancelWait, ~Mishap, NEW c \in Cancelers, DeviceStep(c)
  PROVE  CancelWait'
<1>1. /\ hub \in HubRow /\ canceler \in [Cancelers -> CancelerPc]
      /\ cancelJob \in [Cancelers -> [pc: JobPc, tx: Cancelers \cup {NoTx}]]
  BY DEF RegistrationInv, RegistrationTypeOK
<1>2. \A d \in Cancelers \ {c} : JobToCome(d) => JobToCome(d)'
  BY <1>1 DEF DeviceStep, GetForCancel, SubmitCancelation, PatchCancelation, AddCancelJob,
              DeleteFailed, PollCancelation, CancelerAt, JobToCome, jobs
<1>3. CASE PatchCancelation(c)
  <2>1. CASE canceler'[c] = "add job"
    <3>1. JobToCome(c)'
      BY <2>1 DEF JobToCome
    <3> QED BY <3>1, CancelWaitIsNext
  <2>2. CASE canceler'[c] # "add job"
    <3>1. UNCHANGED <<hub, cancelAge, cancelJob>> /\ canceler[c] = "patch"
      BY <1>1, <1>3, <2>2 DEF PatchCancelation, CancelerAt, jobs
    <3>2. JobToCome(c) => JobToCome(c)'
      BY <3>1 DEF JobToCome
    <3> QED BY <1>2, <3>1, <3>2, WaitStays
  <2> QED BY <2>1, <2>2
<1>4. CASE ~PatchCancelation(c)
  <2>1. /\ hub'.canceled = hub.canceled /\ hub'.cancelBlock = hub.cancelBlock
        /\ hub'.cancelError = hub.cancelError /\ cancelAge' = cancelAge
    BY <1>1, <1>4 DEF DeviceStep, GetForCancel, SubmitCancelation, AddCancelJob, DeleteFailed,
                      PollCancelation, HubRow, time
  <2>2. CASE AddCancelJob(c)
    <3>1. cancelJob'[c] = CancelJob("queued", NoTx)
      BY <1>1, <2>2 DEF AddCancelJob
    <3>2. cancelJob'[c].pc = "queued"
      BY <3>1 DEF CancelJob
    <3> QED BY <1>2, <2>1, <3>2, WaitStays DEF JobToCome
  <2>3. CASE ~AddCancelJob(c)
    <3>1. UNCHANGED cancelJob /\ canceler[c] # "add job"
      BY <1>4, <2>3 DEF DeviceStep, GetForCancel, SubmitCancelation, DeleteFailed,
                        PollCancelation, jobs
    <3>2. JobToCome(c) => JobToCome(c)'
      BY <3>1 DEF JobToCome
    <3> QED BY <1>2, <2>1, <3>2, WaitStays
  <2> QED BY <2>2, <2>3
<1> QED BY <1>3, <1>4

LEMMA WaitByJob ==
  ASSUME RegistrationInv, CancelWait, NEW c \in Cancelers, CancelWaiterStep(c)
  PROVE  CancelWait'
<1>1. /\ hub \in HubRow /\ cancelJob \in [Cancelers -> [pc: JobPc, tx: Cancelers \cup {NoTx}]]
  BY DEF RegistrationInv, RegistrationTypeOK
<1>2. /\ UNCHANGED <<canceler, cancelAge>> /\ hub'.canceled = hub.canceled
      /\ \A d \in Cancelers \ {c} : cancelJob'[d] = cancelJob[d]
  BY <1>1 DEF CancelWaiterStep, StartCancelWaiter, AwaitCancelation, RecordCancelation, HubRow,
              time
<1>3. \A d \in Cancelers \ {c} : JobToCome(d) => JobToCome(d)'
  BY <1>2 DEF JobToCome
<1>4. CASE StartCancelWaiter(c)
  <2>1. hub.canceled /\ hub.cancelHash # NoTx
    BY <1>4 DEF RegistrationInv, Cancelation, HubHasSeen, JobFits, StartCancelWaiter
  <2>2. UNCHANGED hub
    BY <1>4 DEF StartCancelWaiter
  <2>3. CASE hub.cancelBlock \/ cancelAge >= OneDay
    BY <1>2, <2>2, <2>3, CancelWaitIsNext
  <2>4. CASE ~(hub.cancelBlock \/ cancelAge >= OneDay)
    <3>1. cancelJob'[c].pc = "waiting"
      BY <1>1, <1>4, <2>1, <2>4 DEF StartCancelWaiter, CancelJob
    <3> QED BY <3>1, CancelWaitIsNext DEF JobToCome
  <2> QED BY <2>3, <2>4
<1>5. CASE AwaitCancelation(c)
  <2>1. cancelJob'[c].pc \in {"block", "error", "queued"}
    BY <1>1, <1>5 DEF AwaitCancelation, CancelJob
  <2> QED BY <2>1, CancelWaitIsNext DEF JobToCome
<1>6. CASE RecordCancelation(c)
  <2>1. \/ hub'.cancelBlock \/ hub'.cancelError
        \/ cancelJob'[c].pc = "queued"
    <3>1. CASE Live
      BY <1>1, <1>6, <3>1 DEF RecordCancelation, HubRow
    <3>2. CASE ~Live
      <4>1. cancelJob'[c] = CancelJob("queued", NoTx)
        BY <1>1, <1>6, <3>2 DEF RecordCancelation
      <4> QED BY <4>1 DEF CancelJob
    <3> QED BY <3>1, <3>2
  <2> QED BY <2>1, CancelWaitIsNext DEF JobToCome
<1> QED BY <1>4, <1>5, <1>6 DEF CancelWaiterStep

LEMMA CancelWaitKept ==
  ASSUME RegistrationInv, RegistrationNext, mishaps' = 0
  PROVE  CancelWait'
<1>1. CancelWait /\ ~Mishap /\ hub \in HubRow /\ age \in 0..3 /\ cancelAge \in 0..3
  BY NoMishap DEF RegistrationInv, RegistrationTypeOK, Ages
<1>2. CASE ClientStep \/ WaiterStep \/ AgeStep \/ MineRegistration
  <2>1. UNCHANGED <<canceler, cancelJob>>
    BY <1>2 DEF ClientStep, WaiterStep, AgeStep, Register, SubmitRegistration, PatchHash,
           AddCreationJob, RemoveFromHub, PollCreation, StartCreationWaiter, AwaitCreation,
           RecordCreation, GrowOlder, CancelGrowsOlder, MineRegistration, jobs
  <2>2. /\ hub'.canceled = hub.canceled /\ hub'.cancelBlock = hub.cancelBlock
        /\ hub'.cancelError = hub.cancelError
    BY <1>1, <1>2 DEF HubRow, ClientStep, WaiterStep, AgeStep, Register,
           SubmitRegistration, PatchHash, AddCreationJob, RemoveFromHub, PollCreation,
           StartCreationWaiter, AwaitCreation, RecordCreation, GrowOlder, CancelGrowsOlder,
           MineRegistration
  <2>3. cancelAge' \in {cancelAge, cancelAge + 1}
    BY <1>2 DEF ClientStep, WaiterStep, AgeStep, Register, SubmitRegistration, PatchHash,
           AddCreationJob, RemoveFromHub, PollCreation, StartCreationWaiter, AwaitCreation,
           RecordCreation, GrowOlder, CancelGrowsOlder, MineRegistration, time
  <2>4. cancelAge >= OneDay => cancelAge' >= OneDay
    BY <1>1, <2>3 DEF OneDay
  <2> QED BY <1>1, <2>1, <2>2, <2>4, WaitStays DEF JobToCome
<1>3. ASSUME NEW c \in Cancelers, MineCancelation(c) PROVE CancelWait'
  BY <1>1, <1>3, WaitStays DEF MineCancelation, JobToCome, time, jobs
<1> QED BY <1>1, <1>2, <1>3, WaitByDevice, WaitByJob, Steps

----------------------------------------------------------------------------
(* The invariant, and what follows from it.                                *)

LEMMA RegistrationStart ==
  ASSUME RegistrationInit
  PROVE  RegistrationInv
<1>1. MaxMishaps \in Nat /\ 0 \in 0..MaxMishaps /\ 0 \in Ages /\ NoTx \notin Cancelers
  BY RegistrationAssumption DEF Ages
<1>2. hub \in HubRow
  BY DEF RegistrationInit, HubRow
<1>3. \A c \in Cancelers :
        canceler[c] = "start" /\ cancelTx[c] = "none" /\ cancelJob[c].pc = "none"
  BY DEF RegistrationInit, CancelJob
<1>4. RegistrationTypeOK
  BY <1>1, <1>2 DEF RegistrationInit, RegistrationTypeOK, ClientPc, CancelerPc, TxStates, JobPc,
                    CancelJob
<1>5. cancelAge <= age
  BY DEF RegistrationInit
<1>6. Creation /\ CreationWait /\ Deletion
  BY <1>3 DEF RegistrationInit, Creation, CreationWait, Deletion
<1>7. Cancelation
  BY <1>3 DEF RegistrationInit, Cancelation, HubHasSeen, DeviceFits, JobFits
<1>8. CancelWait /\ OneCancelation
  BY <1>3 DEF RegistrationInit, CancelWait, OneCancelation, Canceling
<1> QED BY <1>4, <1>5, <1>6, <1>7, <1>8 DEF RegistrationInv

LEMMA RegistrationStep ==
  ASSUME RegistrationInv, [RegistrationNext]_registrationVars
  PROVE  RegistrationInv'
<1>1. CASE RegistrationNext
  BY <1>1, RegistrationTypesKept, CreationKept, CreationWaitKept, CancelationKept, DeletionKept,
     CancelWaitKept, OneCancelationKept DEF RegistrationInv
<1>2. CASE UNCHANGED registrationVars
  <2>1. RegistrationTypeOK' /\ (cancelAge <= age)'
    BY <1>2 DEF RegistrationInv, RegistrationTypeOK, registrationVars
  <2>2. Creation' /\ CreationWait'
    BY <1>2 DEF RegistrationInv, Creation, CreationWait, registrationVars
  <2>3. Cancelation'
    BY <1>2 DEF RegistrationInv, Cancelation, HubHasSeen, DeviceFits, JobFits, registrationVars
  <2>4. (mishaps = 0 => Deletion /\ CancelWait)'
    BY <1>2 DEF RegistrationInv, Deletion, CancelWait, registrationVars
  <2>5. (mishaps = 0 /\ ~overlap => OneCancelation)'
    BY <1>2 DEF RegistrationInv, OneCancelation, Canceling, registrationVars
  <2> QED BY <2>1, <2>2, <2>3, <2>4, <2>5 DEF RegistrationInv
<1> QED BY <1>1, <1>2

LEMMA RegistrationHolds ==
  RegistrationSpec => []RegistrationInv
BY RegistrationStart, RegistrationStep, PTL DEF RegistrationSpec

\* The types of the row, of the SDK's calls, of the transactions and of the waiters.
THEOREM RegistrationTyped ==
  RegistrationSpec => []RegistrationTypeOK
<1>1. RegistrationInv => RegistrationTypeOK
  BY DEF RegistrationInv
<1> QED BY <1>1, RegistrationHolds, PTL

\* The hub has the payment that is scheduled on the chain, if nothing was lost: the
\* client deletes a payment only before its transaction is sent or after it reverted
\* (schedulePayment), a device only after the waiter saw it revert
\* (cancelScheduledPayment).
THEOREM ScheduledKnown ==
  RegistrationSpec => []ScheduledIsKnown
<1>1. RegistrationInv => ScheduledIsKnown
  <2>1. SUFFICES ASSUME RegistrationInv, contract = "scheduled", mishaps = 0
                 PROVE  Live
    BY DEF ScheduledIsKnown
  <2>2. createTx = "mined" /\ hub.state \in {"none", "live", "deleted"}
    BY <2>1 DEF RegistrationInv, Creation, RegistrationTypeOK, HubRow
  <2>3. hub.state # "none" /\ hub.state # "deleted"
    BY <2>1, <2>2 DEF RegistrationInv, Creation, Deletion
  <2> QED BY <2>2, <2>3 DEF Live
<1> QED BY <1>1, RegistrationHolds, PTL

\* A cancelation that the hub records as failed (cancelation-waiter) did fail, unless
\* devices canceled at a time or something was lost: there is one transaction.
THEOREM CancelErrorsTrue ==
  RegistrationSpec => []CancelErrorIsTrue
<1>1. RegistrationInv => CancelErrorIsTrue
  <2>1. SUFFICES ASSUME RegistrationInv, hub.cancelError, ~overlap, ~(mishaps > 0)
                 PROVE  contract # "canceled"
    BY DEF CancelErrorIsTrue
  <2>2. mishaps = 0
    BY <2>1, RegistrationAssumption DEF RegistrationInv, RegistrationTypeOK
  <2>3. PICK c \in Cancelers : cancelTx[c] = "reverted"
    BY <2>1 DEF RegistrationInv, Cancelation, HubHasSeen
  <2>4. \A d \in Cancelers : cancelTx[d] # "mined"
    BY <2>1, <2>2, <2>3 DEF RegistrationInv, OneCancelation
  <2> QED BY <2>1, <2>4 DEF RegistrationInv, Cancelation, HubHasSeen
<1> QED BY <1>1, RegistrationHolds, PTL

\* A waiter that gives up, which it does when the row is a day old, leaves a payment
\* that the data integrity check reports (its limits are 2 minutes and 3 hours).
THEOREM NoSilence ==
  RegistrationSpec => []NoSilentGiveUp
<1>1. RegistrationInv => NoSilentGiveUp
  <2>1. SUFFICES ASSUME RegistrationInv, Live PROVE NoSilentGiveUp
    BY DEF NoSilentGiveUp
  <2>2. age \in 0..3 /\ cancelAge \in 0..3
    BY <2>1 DEF RegistrationInv, RegistrationTypeOK, Ages
  <2>3. ASSUME creationJob = "done" PROVE hub.block \/ hub.error \/ Reported
    <3>1. hub.block \/ hub.error \/ age >= OneDay
      BY <2>1, <2>3 DEF RegistrationInv, CreationWait
    <3>2. age >= OneDay => age >= ThreeHours
      BY <2>2 DEF OneDay, ThreeHours
    <3> QED BY <2>1, <3>1, <3>2 DEF Reported, UnminedCreation
  <2>4. ASSUME NEW d \in Cancelers, cancelJob[d].pc = "done",
               \A c \in Cancelers : cancelJob[c].pc \in {"none", "done"} /\ canceler[c] # "add job"
        PROVE  hub.cancelBlock \/ hub.cancelError \/ Reported \/ mishaps > 0
    <3>1. mishaps = 0 \/ mishaps > 0
      BY <2>1, RegistrationAssumption DEF RegistrationInv, RegistrationTypeOK
    <3>2. hub.canceled
      BY <2>1, <2>4 DEF RegistrationInv, Cancelation, JobFits
    <3>3. mishaps = 0 => hub.cancelBlock \/ hub.cancelError \/ cancelAge >= OneDay
      BY <2>1, <2>4, <3>2 DEF RegistrationInv, CancelWait
    <3>4. cancelAge >= OneDay => cancelAge >= ThreeHours
      BY <2>2 DEF OneDay, ThreeHours
    <3> QED BY <2>1, <3>1, <3>2, <3>3, <3>4 DEF Reported, UnminedCancelation
  <2> QED BY <2>1, <2>3, <2>4 DEF NoSilentGiveUp
<1> QED BY <1>1, RegistrationHolds, PTL
----------------------------------------------------------------------------
(* The retry schedule: the helpers.                                        *)

\* The runs of cron are at most CRON minutes apart.
LEMMA NextRun ==
  ASSUME NEW t \in Nat
  PROVE  /\ NextCron(t) \in Nat /\ NextCron(t) % CRON = 0
         /\ t <= NextCron(t) /\ NextCron(t) < t + CRON
         /\ t % CRON = 0 => NextCron(t) = t
<1> DEFINE n == (t + 4) \div 5
<1>1. n \in Nat /\ t <= 5 * n /\ 5 * n < t + 5
  OBVIOUS
<1>2. (5 * n) % 5 = 0
  BY <1>1
<1>3. t % 5 = 0 => 5 * n = t
  OBVIOUS
<1>4. NextCron(t) = 5 * n
  BY DEF NextCron, CRON
<1> HIDE DEF n
<1> QED BY <1>1, <1>2, <1>3, <1>4 DEF CRON

\* How many of the backoffs are twelve hours.
Chunks(days) == 2 * days - 1

LEMMA BackoffsOf ==
  ASSUME NEW days \in Nat \ {0}
  PROVE  /\ Len(Backoffs(days)) = Chunks(days) + 4 /\ Len(Backoffs(days)) \in Nat
         /\ \A n \in 1..(Chunks(days) + 3) : Backoffs(days)[n + 1] = WaitAfter(n)
<1>1. FixedPartSum = 425
  BY DEF FixedPartSum, FixedPart
<1>2. (days * 1440 - 425) \div 720 = 2 * days - 1
  OBVIOUS
<1>3. (days * DAY - FixedPartSum) \div TwelveHours = Chunks(days)
  BY <1>1, <1>2 DEF DAY, TwelveHours, Chunks
<1>4. Chunks(days) \in Nat
  BY DEF Chunks
<1> DEFINE rest == [i \in 1..Chunks(days) |-> TwelveHours]
<1>5. Backoffs(days) = FixedPart \o rest
  BY <1>3 DEF Backoffs, Every12Hours
<1>6. rest \in Seq(Nat) /\ Len(rest) = Chunks(days)
  BY <1>4 DEF TwelveHours
<1>7. FixedPart \in Seq(Nat) /\ Len(FixedPart) = 4
  BY DEF FixedPart
<1>8. \A i \in 1..Chunks(days) : rest[i] = TwelveHours
  OBVIOUS
<1> HIDE DEF rest
<1>9. /\ Len(Backoffs(days)) = Chunks(days) + 4
      /\ \A i \in 1..(Chunks(days) + 4) :
           Backoffs(days)[i] = IF i <= 4 THEN FixedPart[i] ELSE rest[i - 4]
  <2>1. /\ Len(FixedPart \o rest) = Len(FixedPart) + Len(rest)
        /\ \A i \in 1..Len(FixedPart) + Len(rest) :
             (FixedPart \o rest)[i] =
               IF i <= Len(FixedPart) THEN FixedPart[i] ELSE rest[i - Len(FixedPart)]
    BY <1>6, <1>7, ConcatProperties
  <2>2. Len(FixedPart) + Len(rest) = Chunks(days) + 4
    BY <1>4, <1>6, <1>7
  <2> QED BY <1>5, <1>7, <2>1, <2>2
<1>10. ASSUME NEW n \in 1..(Chunks(days) + 3)
       PROVE  Backoffs(days)[n + 1] = WaitAfter(n)
  <2>1. CASE n <= 3
    <3>1. Backoffs(days)[n + 1] = FixedPart[n + 1]
      BY <1>4, <1>9, <2>1
    <3>2. n = 1 \/ n = 2 \/ n = 3
      BY <2>1
    <3> QED BY <3>1, <3>2 DEF FixedPart, WaitAfter
  <2>2. CASE n > 3
    <3>1. n + 1 - 4 \in 1..Chunks(days)
      BY <1>4, <2>2
    <3>2. Backoffs(days)[n + 1] = rest[n + 1 - 4]
      BY <1>4, <1>9, <2>2
    <3> QED BY <1>8, <2>2, <3>1, <3>2 DEF WaitAfter
  <2> QED BY <2>1, <2>2
<1> QED BY <1>4, <1>9, <1>10
----------------------------------------------------------------------------
(* The inductive invariant.                                                *)

\* Minutes from the first attempt to the n-th when each fails at once.
Offset(n) ==
  CASE n = 1 -> 0 [] n = 2 -> 5 [] n = 3 -> 65 [] OTHER -> 425 + TwelveHours * (n - 4)

\* After a failure there is a retry after the wait of that failure, or a reason for none.
Scheduled ==
  IF nextRetry = NULL THEN Expiry <= ended \/ count >= Len(Backoffs(validForDays))
  ELSE /\ count < Len(Backoffs(validForDays))
       /\ nextRetry = ended + WaitAfter(count)
       /\ outages = 0 => now \in {NextCron(ended), NextCron(nextRetry)}

\* As long as cron runs and attempts fail at once, the times of all are known.
OnSchedule ==
  /\ count <= Len(Backoffs(validForDays))
  /\ count = 0 => now = NextCron(payAt)
  /\ count > 0 => started = NextCron(payAt) + Offset(count)
  /\ attempting => now = started
  /\ ~attempting /\ count > 0 => ended = started

RetryInv ==
  /\ TypeOK
  /\ attempting => count > 0
  /\ count = 0 => nextRetry = NULL
  /\ ~attempting /\ count > 0 => Scheduled
  /\ ~slow /\ outages = 0 => OnSchedule

LEMMA Minutes ==
  ASSUME TypeOK
  PROVE  /\ payAt \in Nat /\ validForDays \in Nat \ {0} /\ now \in Nat /\ now % CRON = 0
         /\ count \in Nat /\ started \in Nat /\ ended \in Nat /\ outages \in Nat
         /\ nextRetry = NULL \/ nextRetry \in Nat
         /\ Expiry = payAt + 1440 * validForDays /\ NULL \notin Int
<1>1. payAt \in Nat /\ validForDays \in Nat \ {0} /\ outages \in Nat
  BY ScheduleAssumption DEF TypeOK
<1>2. Expiry = payAt + 1440 * validForDays
  BY <1>1 DEF Expiry, DAY
<1> QED BY <1>1, <1>2, ScheduleAssumption DEF TypeOK

LEMMA WaitType ==
  ASSUME NEW n \in Nat
  PROVE  /\ WaitAfter(n) \in Nat /\ CRON <= WaitAfter(n)
         /\ WaitAfter(n) % CRON = 0
BY DEF WaitAfter, CRON, TwelveHours

\* The next attempt is a wait after the last, and cron runs at both.
LEMMA OffsetGrows ==
  ASSUME NEW n \in Nat \ {0}
  PROVE  /\ Offset(n) \in Nat /\ Offset(n) % CRON = 0
         /\ Offset(n + 1) = Offset(n) + WaitAfter(n)
<1>1. CASE n <= 3
  <2>1. n = 1 \/ n = 2 \/ n = 3
    BY <1>1
  <2> QED BY <2>1 DEF Offset, WaitAfter, CRON, TwelveHours
<1>2. CASE n > 3
  <2>1. Offset(n) = 425 + 720 * (n - 4) /\ Offset(n + 1) = 425 + 720 * (n + 1 - 4)
    BY <1>2 DEF Offset, TwelveHours
  <2>2. WaitAfter(n) = 720
    BY <1>2 DEF WaitAfter, TwelveHours
  <2> QED BY <1>2, <2>1, <2>2 DEF CRON
<1> QED BY <1>1, <1>2

\* The last attempt of the schedule is five hours before the end of the validity.
LEMMA OffsetFits ==
  ASSUME NEW days \in Nat \ {0}, NEW n \in Nat \ {0}, n <= Len(Backoffs(days))
  PROVE  /\ Offset(n) <= 1440 * days - 295
         /\ n = Len(Backoffs(days)) => Offset(n) = 1440 * days - 295
<1>1. Len(Backoffs(days)) = 2 * days + 3
  BY BackoffsOf DEF Chunks
<1>2. CASE n <= 3
  BY <1>1, <1>2 DEF Offset
<1>3. CASE n > 3
  <2>1. Offset(n) = 425 + 720 * (n - 4)
    BY <1>3 DEF Offset, TwelveHours
  <2> QED BY <1>1, <1>3, <2>1
<1> QED BY <1>2, <1>3

LEMMA RetryInit == Init => RetryInv
<1> SUFFICES ASSUME Init PROVE RetryInv
  OBVIOUS
<1>1. payAt \in Nat /\ validForDays \in Nat \ {0} /\ MaxOutages \in Nat
  BY ScheduleAssumption DEF Init
<1>2. now = NextCron(payAt) /\ now \in Nat /\ now % CRON = 0
  BY <1>1, NextRun DEF Init
<1>3. TypeOK
  <2>1. /\ validForDays \in ValidForDays /\ payAt \in PayAts /\ count = 0
        /\ nextRetry = NULL /\ attempting = FALSE /\ started = 0 /\ ended = 0
        /\ outages = 0 /\ slow = FALSE
    BY DEF Init
  <2>2. attempting \in BOOLEAN /\ slow \in BOOLEAN
    BY <2>1
  <2>3. count \in Nat /\ started \in Nat /\ ended \in Nat /\ outages \in 0..MaxOutages
    BY <1>1, <2>1
  <2>4. nextRetry \in Nat \cup {NULL}
    BY <2>1
  <2> QED BY <1>2, <2>1, <2>2, <2>3, <2>4 DEF TypeOK
<1>4. Len(Backoffs(validForDays)) \in Nat
  BY <1>1, BackoffsOf
<1> QED BY <1>2, <1>3, <1>4 DEF Init, RetryInv, OnSchedule

\* An attempt is made at the run of cron that the wait asks for.
LEMMA AttemptWaits ==
  ASSUME RetryInv, Attempt, count > 0
  PROVE  /\ now >= ended + WaitAfter(count)
         /\ outages = 0 => now = NextCron(ended + WaitAfter(count))
         /\ count < Len(Backoffs(validForDays))
<1>1. TypeOK /\ Scheduled /\ ~attempting
  BY DEF RetryInv, Attempt
<1>2. nextRetry # NULL /\ now >= nextRetry
  BY <1>1, Minutes DEF Attempt, IsDue
<1>3. /\ nextRetry = ended + WaitAfter(count) /\ count < Len(Backoffs(validForDays))
      /\ outages = 0 => now \in {NextCron(ended), NextCron(nextRetry)}
  BY <1>1, <1>2 DEF Scheduled
<1>4. ASSUME outages = 0 PROVE now = NextCron(nextRetry)
  <2>1. ended \in Nat /\ count \in Nat /\ now \in Nat
    BY <1>1, Minutes
  <2>2. WaitAfter(count) \in Nat /\ CRON <= WaitAfter(count)
    BY <2>1, WaitType
  <2>3. NextCron(ended) \in Nat /\ NextCron(ended) < ended + CRON
    BY <2>1, NextRun
  <2>4. now # NextCron(ended)
    BY <1>2, <1>3, <2>1, <2>2, <2>3 DEF CRON
  <2> QED BY <1>3, <1>4, <2>4
<1> QED BY <1>2, <1>3, <1>4

LEMMA AttemptKeeps == RetryInv /\ Attempt => RetryInv'
<1> SUFFICES ASSUME RetryInv, Attempt PROVE RetryInv'
  OBVIOUS
<1>1. TypeOK /\ ~attempting /\ count \in Nat /\ now \in Nat
  BY Minutes DEF RetryInv, Attempt
<1>2. /\ attempting' = TRUE /\ count' = count + 1 /\ started' = now
      /\ UNCHANGED <<validForDays, payAt, now, nextRetry, ended, outages, slow>>
  BY DEF Attempt, terms
<1>3. TypeOK'
  BY <1>1, <1>2 DEF TypeOK
<1>4. ASSUME ~slow, outages = 0 PROVE OnSchedule'
  <2>1. OnSchedule /\ payAt \in Nat /\ ended \in Nat
    BY <1>1, <1>4, Minutes DEF RetryInv
  <2>2. /\ Len(Backoffs(validForDays)) \in Nat /\ 1 <= Len(Backoffs(validForDays))
    <3>1. validForDays \in Nat \ {0}
      BY <1>1, Minutes
    <3>2. Len(Backoffs(validForDays)) = 2 * validForDays - 1 + 4
      BY <3>1, BackoffsOf DEF Chunks
    <3> QED BY <3>1, <3>2
  <2>3. CASE count = 0
    <3>1. Offset(1) = 0
      BY DEF Offset
    <3>2. now = NextCron(payAt) /\ NextCron(payAt) \in Nat
      BY <2>1, <2>3, NextRun DEF OnSchedule
    <3> QED BY <1>2, <2>2, <2>3, <3>1, <3>2 DEF OnSchedule, NextCron
  <2>4. CASE count > 0
    <3>1. now = NextCron(ended + WaitAfter(count)) /\ count + 1 <= Len(Backoffs(validForDays))
      BY <1>1, <1>4, <2>2, <2>4, AttemptWaits
    <3>2. ended = NextCron(payAt) + Offset(count)
      BY <1>1, <2>1, <2>4 DEF OnSchedule
    <3>3. /\ Offset(count) \in Nat /\ Offset(count) % CRON = 0
          /\ Offset(count + 1) = Offset(count) + WaitAfter(count)
      BY <1>1, <2>4, OffsetGrows
    <3>4. Offset(count + 1) \in Nat /\ Offset(count + 1) % CRON = 0
      BY <1>1, OffsetGrows
    <3>5. NextCron(payAt) \in Nat /\ NextCron(payAt) % CRON = 0
      BY <2>1, NextRun
    <3>6. WaitAfter(count) \in Nat
      BY <1>1, WaitType
    <3>7. ended + WaitAfter(count) = NextCron(payAt) + Offset(count + 1)
      BY <3>2, <3>3, <3>5, <3>6
    <3>8. (NextCron(payAt) + Offset(count + 1)) % CRON = 0
      BY <3>4, <3>5 DEF CRON
    <3>9. now = NextCron(payAt) + Offset(count + 1)
      BY <3>1, <3>4, <3>5, <3>7, <3>8, NextRun
    <3>10. started' = NextCron(payAt)' + Offset(count')
      BY <1>2, <3>9 DEF NextCron
    <3> QED BY <1>1, <1>2, <2>4, <3>1, <3>10 DEF OnSchedule
  <2> QED BY <1>1, <2>3, <2>4
<1> QED BY <1>1, <1>2, <1>3, <1>4 DEF RetryInv

LEMMA FailKeeps == RetryInv /\ Fail => RetryInv'
<1> SUFFICES ASSUME RetryInv, Fail PROVE RetryInv'
  OBVIOUS
<1>1. /\ TypeOK /\ attempting /\ count \in Nat /\ count > 0 /\ now \in Nat /\ now % CRON = 0
      /\ validForDays \in Nat \ {0} /\ NULL \notin Int
  BY Minutes DEF RetryInv, Fail
<1>2. PICK d \in FailureDelays :
        /\ ended' = now + d /\ nextRetry' = NextRetryAttemptDate(now + d)
        /\ now' = NextCron(now + d) /\ slow' = (slow \/ d > 0)
  BY DEF Fail
<1>3. /\ attempting' = FALSE
      /\ UNCHANGED <<validForDays, payAt, count, started, outages>>
  BY DEF Fail, terms
<1>4. d \in Nat /\ now + d \in Nat
  BY <1>1, <1>2, ScheduleAssumption
<1>5. now' \in Nat /\ now' % CRON = 0
  BY <1>2, <1>4, NextRun
<1>6. \/ nextRetry' = NULL /\ (Expiry <= now + d \/ count >= Len(Backoffs(validForDays)))
      \/ /\ nextRetry' = now + d + WaitAfter(count)
         /\ count < Len(Backoffs(validForDays))
  <2>1. /\ Len(Backoffs(validForDays)) = Chunks(validForDays) + 4
        /\ Len(Backoffs(validForDays)) \in Nat
        /\ \A n \in 1..(Chunks(validForDays) + 3) :
             Backoffs(validForDays)[n + 1] = WaitAfter(n)
    BY <1>1, BackoffsOf
  <2>2. Chunks(validForDays) \in Nat
    BY <1>1 DEF Chunks
  <2>3. count < Len(Backoffs(validForDays)) =>
          Backoffs(validForDays)[count + 1] = WaitAfter(count)
    BY <1>1, <2>1, <2>2
  <2>4. Expiry \in Int
    BY <1>1, Minutes
  <2> QED BY <1>1, <1>2, <2>1, <2>3, <2>4 DEF NextRetryAttemptDate
<1>7. WaitAfter(count) \in Nat
  BY <1>1, WaitType
<1>8. TypeOK'
  <2>1. nextRetry' \in Nat \cup {NULL}
    BY <1>4, <1>6, <1>7
  <2>2. slow' \in BOOLEAN
    BY <1>2
  <2>3. ended' \in Nat
    BY <1>2, <1>4
  <2> QED BY <1>1, <1>3, <1>5, <2>1, <2>2, <2>3 DEF TypeOK
<1>9. Scheduled'
  <2>1. Expiry' = Expiry
    BY <1>3 DEF Expiry
  <2>2. nextRetry' # NULL => /\ nextRetry' = ended' + WaitAfter(count)
                             /\ count < Len(Backoffs(validForDays))
    BY <1>1, <1>2, <1>4, <1>6, <1>7
  <2>3. nextRetry' = NULL => Expiry <= ended' \/ count >= Len(Backoffs(validForDays))
    <3>1. now + d + WaitAfter(count) \in Int
      BY <1>4, <1>7
    <3> QED BY <1>1, <1>2, <1>6, <3>1
  <2>4. now' = NextCron(ended)'
    BY <1>2 DEF NextCron
  <2> QED BY <1>3, <2>1, <2>2, <2>3, <2>4 DEF Scheduled
<1>10. ASSUME ~slow', outages = 0 PROVE OnSchedule'
  <2>1. d = 0 /\ ~slow
    <3>1. ~slow /\ ~(d > 0)
      BY <1>2, <1>10
    <3> QED BY <1>4, <3>1
  <2>2. OnSchedule
    BY <1>10, <2>1 DEF RetryInv
  <2>3. ended' = started' /\ started = NextCron(payAt) + Offset(count)
    BY <1>1, <1>2, <1>3, <2>1, <2>2 DEF OnSchedule
  <2> QED BY <1>1, <1>3, <2>2, <2>3 DEF OnSchedule, NextCron
<1> QED BY <1>1, <1>3, <1>8, <1>9, <1>10 DEF RetryInv

LEMMA SleepKeeps == RetryInv /\ Sleep => RetryInv'
<1> SUFFICES ASSUME RetryInv, Sleep PROVE RetryInv'
  OBVIOUS
<1>1. /\ TypeOK /\ ~attempting /\ nextRetry \in Nat /\ nextRetry # NULL /\ count # 0
  BY Minutes DEF RetryInv, Sleep
<1>2. now' = NextCron(nextRetry) /\ now' \in Nat /\ now' % CRON = 0
  BY <1>1, NextRun DEF Sleep
<1>3. UNCHANGED <<validForDays, payAt, count, nextRetry, attempting, started, ended, outages, slow>>
  BY DEF Sleep, terms
<1>4. TypeOK'
  BY <1>1, <1>2, <1>3 DEF TypeOK
<1>5. Scheduled => Scheduled'
  BY <1>1, <1>2, <1>3 DEF Scheduled, NextCron
<1>6. OnSchedule => OnSchedule'
  BY <1>1, <1>3 DEF OnSchedule, NextCron
<1> QED BY <1>1, <1>3, <1>4, <1>5, <1>6 DEF RetryInv

LEMMA OutageKeeps == RetryInv /\ Outage => RetryInv'
<1> SUFFICES ASSUME RetryInv, Outage PROVE RetryInv'
  OBVIOUS
<1>1. /\ TypeOK /\ ~attempting /\ now \in Nat /\ outages \in Nat /\ MaxOutages \in Nat
  BY Minutes, ScheduleAssumption DEF RetryInv, Outage
<1>2. PICK d \in Outages : now' = NextCron(now + d)
  BY DEF Outage
<1>3. now' \in Nat /\ now' % CRON = 0
  <2>1. now + d \in Nat
    BY <1>1, <1>2, ScheduleAssumption
  <2> QED BY <1>2, <2>1, NextRun
<1>4. /\ outages' = outages + 1 /\ outages < MaxOutages
      /\ UNCHANGED <<validForDays, payAt, count, nextRetry, attempting, started, ended, slow>>
  BY DEF Outage, terms
<1>5. TypeOK' /\ outages' # 0
  BY <1>1, <1>3, <1>4 DEF TypeOK
<1>6. Scheduled => Scheduled'
  BY <1>4, <1>5 DEF Scheduled, Expiry
<1> QED BY <1>1, <1>4, <1>5, <1>6 DEF RetryInv

LEMMA RetryStep == RetryInv /\ [Next]_vars => RetryInv'
<1>1. RetryInv /\ UNCHANGED vars => RetryInv'
  BY DEF RetryInv, vars, terms, TypeOK, Scheduled, OnSchedule, Expiry, NextCron
<1> QED BY <1>1, AttemptKeeps, FailKeeps, SleepKeeps, OutageKeeps DEF Next

\* The types of the schedule's variables.
THEOREM ScheduleTyped == Spec => []TypeOK
<1>1. RetryInv => TypeOK
  BY DEF RetryInv
<1> QED BY <1>1, RetryInit, RetryStep, PTL DEF Spec

\* When cron runs and attempts fail at once, a payment is given up only when its
\* schedule is used up.
LEMMA ScheduleUsedUp ==
  ASSUME RetryInv, Over, ~slow, outages = 0
  PROVE  /\ count > 0 /\ count = Len(Backoffs(validForDays))
         /\ started <= Expiry /\ Expiry < started + TwelveHours
<1>1. /\ OnSchedule /\ ~attempting /\ payAt \in Nat /\ now \in Nat /\ count \in Nat
      /\ validForDays \in Nat \ {0} /\ ended \in Nat /\ NULL \notin Int
      /\ Expiry = payAt + 1440 * validForDays
      /\ nextRetry = NULL \/ nextRetry \in Nat
  BY Minutes DEF RetryInv, Over
<1>2. /\ NextCron(payAt) \in Nat /\ NextCron(payAt) % CRON = 0
      /\ payAt <= NextCron(payAt) /\ NextCron(payAt) < payAt + 5
  BY <1>1, NextRun DEF CRON
<1>3. Len(Backoffs(validForDays)) \in Nat
  BY <1>1, BackoffsOf
<1>4. ASSUME payAt <= now, now < Expiry
      PROVE  payAt > TruncDay(now) - validForDays * DAY
  <2>1. TruncDay(now) \in Int /\ TruncDay(now) <= now
    BY <1>1 DEF TruncDay, DAY
  <2> QED BY <1>1, <1>4, <2>1 DEF DAY
<1>5. count # 0
  <2> SUFFICES ASSUME count = 0 PROVE FALSE
    OBVIOUS
  <2>1. now = NextCron(payAt) /\ nextRetry = NULL
    BY DEF OnSchedule, RetryInv
  <2>2. payAt > TruncDay(now) - validForDays * DAY /\ payAt <= now
    BY <1>1, <1>2, <1>4, <2>1
  <2> QED BY <2>1, <2>2 DEF Over, IsDue
<1>6. Scheduled /\ ended = started /\ started = NextCron(payAt) + Offset(count)
  BY <1>1, <1>5 DEF OnSchedule, RetryInv
<1>7. /\ Offset(count) \in Nat /\ Offset(count) <= 1440 * validForDays - 295
      /\ count = Len(Backoffs(validForDays)) => Offset(count) = 1440 * validForDays - 295
  BY <1>1, <1>5, OffsetFits, OffsetGrows DEF OnSchedule
<1>8. nextRetry = NULL
  <2> SUFFICES ASSUME nextRetry # NULL PROVE FALSE
    OBVIOUS
  <2>1. /\ count < Len(Backoffs(validForDays)) /\ nextRetry = ended + WaitAfter(count)
        /\ now \in {NextCron(ended), NextCron(nextRetry)}
        /\ now >= nextRetry
    BY <1>6 DEF Scheduled, Over
  <2>2. /\ Offset(count + 1) \in Nat /\ WaitAfter(count) \in Nat
        /\ Offset(count + 1) = Offset(count) + WaitAfter(count)
        /\ Offset(count + 1) <= 1440 * validForDays - 295
    <3>1. count \in Nat \ {0} /\ count + 1 \in Nat \ {0} /\ validForDays \in Nat \ {0}
      BY <1>1, <1>5
    <3>2. count + 1 <= Len(Backoffs(validForDays))
      BY <1>1, <1>3, <2>1
    <3>3. Offset(count + 1) <= 1440 * validForDays - 295
      BY <3>1, <3>2, OffsetFits
    <3>4. Offset(count + 1) \in Nat
      BY <3>1, OffsetGrows
    <3>5. Offset(count + 1) = Offset(count) + WaitAfter(count)
      BY <3>1, OffsetGrows
    <3> QED BY <3>1, <3>3, <3>4, <3>5, WaitType
  <2>3. nextRetry = NextCron(payAt) + Offset(count + 1)
    BY <1>2, <1>6, <1>7, <2>1, <2>2
  <2>4. /\ NextCron(ended) \in Nat /\ NextCron(ended) < ended + 5
        /\ NextCron(nextRetry) \in Nat /\ NextCron(nextRetry) < nextRetry + 5
    BY <1>1, NextRun DEF CRON
  <2>5. ended \in Nat /\ ended <= nextRetry
    BY <1>1, <2>1, <2>2
  <2>6. payAt <= now /\ now < Expiry
    <3>1. payAt <= nextRetry /\ nextRetry + 5 < Expiry
      BY <1>1, <1>2, <2>2, <2>3
    <3>2. now < nextRetry + 5
      <4>1. now = NextCron(ended) \/ now = NextCron(nextRetry)
        BY <2>1
      <4>2. nextRetry \in Nat
        BY <1>1, <2>1
      <4>3. CASE now = NextCron(ended)
        BY <2>4, <2>5, <4>2, <4>3
      <4>4. CASE now = NextCron(nextRetry)
        BY <2>4, <4>4
      <4> QED BY <4>1, <4>3, <4>4
    <3>3. nextRetry \in Nat /\ now >= nextRetry /\ now \in Nat /\ Expiry \in Int
      BY <1>1, <2>1
    <3> QED BY <1>1, <3>1, <3>2, <3>3
  <2>7. payAt > TruncDay(now) - validForDays * DAY
    BY <1>4, <2>6
  <2> QED BY <2>1, <2>6, <2>7 DEF Over, IsDue
<1>9. Expiry <= started \/ count >= Len(Backoffs(validForDays))
  BY <1>6, <1>8 DEF Scheduled
<1>10. count <= Len(Backoffs(validForDays))
  BY <1>1 DEF OnSchedule
<1>11. started + 290 < Expiry
  BY <1>1, <1>2, <1>6, <1>7
<1>12. count > 0 /\ count = Len(Backoffs(validForDays))
  <2>1. ~(Expiry <= started)
    BY <1>1, <1>2, <1>6, <1>7, <1>11
  <2> QED BY <1>1, <1>3, <1>5, <1>9, <1>10, <2>1
<1>13. Expiry < started + TwelveHours
  BY <1>1, <1>2, <1>6, <1>7, <1>12 DEF TwelveHours
<1>14. started <= Expiry
  BY <1>1, <1>2, <1>6, <1>7, <1>11
<1> QED BY <1>12, <1>13, <1>14

\* For any days of validity, failure delays and outages of cron, the retries that the
\* API shows are positive while a retry is scheduled, and when none is they are zero or
\* the payment has expired; when cron runs and attempts fail at once they are zero in
\* the end, so that each retry that was shown has been made.
THEOREM RetriesShownAreTrue == Spec => []RetriesLeftIsTrue
<1> DEFINE Shown == ~attempting /\ count > 0 =>
       /\ nextRetry # NULL => RetriesLeft # NULL /\ RetriesLeft > 0
       /\ nextRetry = NULL => RetriesLeft = 0 \/ ended >= Expiry
<1>1. ASSUME RetryInv PROVE Shown
  <2> SUFFICES ASSUME ~attempting, count > 0
               PROVE  /\ nextRetry # NULL => RetriesLeft # NULL /\ RetriesLeft > 0
                      /\ nextRetry = NULL => RetriesLeft = 0 \/ ended >= Expiry
    OBVIOUS
  <2>1. /\ Scheduled /\ count \in Nat /\ NULL \notin Int /\ ended \in Nat /\ Expiry \in Int
        /\ validForDays \in Nat \ {0}
    BY <1>1, Minutes DEF RetryInv
  <2>2. Len(Backoffs(validForDays)) \in Nat
    BY <2>1, BackoffsOf
  <2>3. RetriesLeft = IF Len(Backoffs(validForDays)) > count
                      THEN Len(Backoffs(validForDays)) - count ELSE 0
    BY <2>1 DEF RetriesLeft
  <2>4. RetriesLeft \in Int
    BY <2>1, <2>2, <2>3
  <2> QED BY <2>1, <2>2, <2>3, <2>4 DEF Scheduled
<1>2. ASSUME RetryInv, Over, ~slow, outages = 0 PROVE RetriesLeft = 0
  <2>1. count > 0 /\ count = Len(Backoffs(validForDays))
    BY <1>2, ScheduleUsedUp
  <2>2. count \in Nat
    BY <1>2, Minutes DEF RetryInv
  <2> QED BY <2>1, <2>2 DEF RetriesLeft
<1> HIDE DEF Shown
<1>3. RetryInv => Shown /\ (Over /\ ~slow /\ outages = 0 => RetriesLeft = 0)
  BY <1>1, <1>2
<1>4. RetryInv => RetriesLeftIsTrue
  BY <1>3 DEF RetriesLeftIsTrue, Shown
<1> QED BY <1>4, RetryInit, RetryStep, PTL DEF Spec

\* No retry starts before the wait that its failure asks for is over, and without outages
\* of cron each is made at the first run after it.
THEOREM RetriesWait == Spec => RetryAfterWait
<1> DEFINE Waits == Attempt /\ count > 0 =>
       /\ now >= ended + WaitAfter(count)
       /\ outages = 0 => now = NextCron(ended + WaitAfter(count))
<1>1. RetryInv /\ [Next]_vars => [Waits]_vars
  BY AttemptWaits
<1> HIDE DEF Waits
<1>2. Spec => [][Waits]_vars
  BY <1>1, RetryInit, RetryStep, PTL DEF Spec
<1> QED BY <1>2 DEF Waits, RetryAfterWait

\* For any days of validity, when cron runs and attempts fail at once the last attempt is
\* within the validity and twelve hours more would not be.
THEOREM ValidityFilled == Spec => []ScheduleFillsValidity
<1>1. RetryInv => ScheduleFillsValidity
  BY ScheduleUsedUp DEF ScheduleFillsValidity
<1> QED BY <1>1, RetryInit, RetryStep, PTL DEF Spec
==============================================================================
