---------------------------- MODULE ProfilePurchases ----------------------------
(***************************************************************************)
(* Profiles bought in the app stores.  POST /profile-purchases takes the   *)
(* receipt of a purchase once: it looks for tickets that have the receipt, *)
(* records the profile and a ticket and adds the create-profile job, which *)
(* registers the profile on the chain and sets the ticket's state.  The    *)
(* user may retry a ticket that failed (POST /job-tickets/:id/retry).      *)
(*                                                                         *)
(* Each query and call is a step.  A request may create one profile and    *)
(* one ticket, which have its id.  The store, the relay server and the     *)
(* subgraph are external.                                                  *)
(***************************************************************************)
EXTENDS Integers, FiniteSets

CONSTANTS
  Requests,    \* requests, each handled once (a bound)
  Buyers,      \* users that hold the receipt
  Slugs,
  MaxLosses,   \* bound: queries that fail, and dead processes
  NoBuyer, NoSlug, NoTicket

ASSUME PurchasesAssumption ==
  /\ MaxLosses \in Nat /\ IsFiniteSet(Requests)
  /\ NoTicket \notin Requests /\ NoBuyer \notin Buyers /\ NoSlug \notin Slugs

VARIABLES
  request,     \* control state and locals of each request
  profile,     \* the slug of the profile that a request created, if it did
  ticket,      \* rows of job_tickets
  profileJob,  \* the create-profile job that a request added
  registered,  \* registrations on the chain of each profile
  losses,
  concurrent   \* two requests were between their checks and their ticket at a time

purchaseVars == <<request, profile, ticket, profileJob, registered, losses, concurrent>>

----------------------------------------------------------------------------

RequestPc == {"new", "slug", "receipt", "validate", "profile", "ticket", "job",
              "retry job", "retry ticket", "answered"}
TicketState == {"none", "pending", "failed", "success"}
JobState == {"none", "queued", "registered", "done"}

PurchasesTypeOK ==
  /\ request \in [Requests -> [pc: RequestPc, buyer: Buyers \cup {NoBuyer},
                               slug: Slugs \cup {NoSlug}, ticket: Requests \cup {NoTicket}]]
  /\ profile \in [Requests -> Slugs \cup {NoSlug}]
  /\ ticket \in [Requests -> [state: TicketState, buyer: Buyers \cup {NoBuyer},
                              payload: Requests \cup {NoTicket}, receipt: BOOLEAN]]
  /\ profileJob \in [Requests -> [pc: JobState, payload: Requests \cup {NoTicket}]]
  /\ registered \in [Requests -> Nat] /\ losses \in 0..MaxLosses /\ concurrent \in BOOLEAN

PurchasesInit ==
  /\ request = [q \in Requests |->
       [pc |-> "new", buyer |-> NoBuyer, slug |-> NoSlug, ticket |-> NoTicket]]
  /\ profile = [q \in Requests |-> NoSlug]
  /\ ticket = [q \in Requests |->
       [state |-> "none", buyer |-> NoBuyer, payload |-> NoTicket, receipt |-> FALSE]]
  /\ profileJob = [q \in Requests |-> [pc |-> "none", payload |-> NoTicket]]
  /\ registered = [q \in Requests |-> 0] /\ losses = 0 /\ concurrent = FALSE

RequestAt(q, pc) == request[q].pc = pc
RequestGoto(q, pc) == request' = [request EXCEPT ![q].pc = pc]
WithReceipt == {t \in Requests : ticket[t].state # "none" /\ ticket[t].receipt}

----------------------------------------------------------------------------
(* POST /profile-purchases. *)

\* The user's ticket that has the receipt is the answer.
FindTicket(q, b, s) ==
  /\ RequestAt(q, "new")
  /\ request' = [request EXCEPT ![q] =
       [pc |-> IF \E t \in WithReceipt : ticket[t].buyer = b THEN "answered" ELSE "slug",
        buyer |-> b, slug |-> s, ticket |-> NoTicket]]
  /\ UNCHANGED <<profile, ticket, profileJob, registered, losses, concurrent>>

Taken(s) == \E p \in Requests : profile[p] = s

ValidateSlug(q) ==
  /\ RequestAt(q, "slug")
  /\ RequestGoto(q, IF Taken(request[q].slug) THEN "answered" ELSE "receipt")
  /\ UNCHANGED <<profile, ticket, profileJob, registered, losses, concurrent>>

\* Between the check of the receipt and the ticket that has it.
Spending == {"validate", "profile", "ticket"}

\* alreadyUsedReceipt, by anybody.
SkipReceiptCheck(q) ==
  /\ RequestAt(q, "receipt") /\ RequestGoto(q, "validate")
  /\ concurrent' = (concurrent \/ \E r \in Requests : request[r].pc \in Spending)
  /\ UNCHANGED <<profile, ticket, profileJob, registered, losses>>
CheckReceipt(q) ==
  /\ RequestAt(q, "receipt")
  /\ RequestGoto(q, IF WithReceipt # {} THEN "answered" ELSE "validate")
  /\ concurrent' = (concurrent \/ \E r \in Requests : request[r].pc \in Spending)
  /\ UNCHANGED <<profile, ticket, profileJob, registered, losses>>

\* The store finds the receipt valid, or not.
ValidatePurchase(q) ==
  /\ RequestAt(q, "validate") /\ (RequestGoto(q, "profile") \/ RequestGoto(q, "answered"))
  /\ UNCHANGED <<profile, ticket, profileJob, registered, losses, concurrent>>

\* The slug is unique: the insert is refused when it is taken meanwhile.
CreateProfileRow(q) ==
  /\ RequestAt(q, "profile")
  /\ IF Taken(request[q].slug)
       THEN RequestGoto(q, "answered") /\ UNCHANGED profile
       ELSE RequestGoto(q, "ticket") /\ profile' = [profile EXCEPT ![q] = request[q].slug]
  /\ UNCHANGED <<ticket, profileJob, registered, losses, concurrent>>

\* A ticket of request q.  A payload names a profile and a ticket, which are those
\* of one request.
NewTicket(q, buyer, payload, receipt) ==
  ticket' = [ticket EXCEPT ![q] =
    [state |-> "pending", buyer |-> buyer, payload |-> payload, receipt |-> receipt]]

CreateTicketNoArguments(q) ==
  /\ RequestAt(q, "ticket") /\ RequestGoto(q, "job")
  /\ NewTicket(q, request[q].buyer, q, FALSE)
  /\ UNCHANGED <<profile, profileJob, registered, losses, concurrent>>
CreateTicket(q) ==
  /\ RequestAt(q, "ticket") /\ RequestGoto(q, "job")
  /\ NewTicket(q, request[q].buyer, q, TRUE)
  /\ UNCHANGED <<profile, profileJob, registered, losses, concurrent>>

AddProfileJob(q) ==
  /\ RequestAt(q, "job") /\ RequestGoto(q, "answered")
  /\ profileJob' = [profileJob EXCEPT ![q] = [pc |-> "queued", payload |-> q]]
  /\ UNCHANGED <<profile, ticket, registered, losses, concurrent>>

----------------------------------------------------------------------------
(* POST /job-tickets/:id/retry. *)

\* Only a ticket that failed, of the user.
Retry(q, t) ==
  /\ RequestAt(q, "new") /\ ticket[t].state = "failed"
  /\ request' = [request EXCEPT ![q] = [pc |-> "retry job", buyer |-> ticket[t].buyer,
                                        slug |-> NoSlug, ticket |-> t]]
  /\ UNCHANGED <<profile, ticket, profileJob, registered, losses, concurrent>>

\* The job has the payload of the old ticket, and with it the old ticket's id.
RetryJob(q) ==
  /\ RequestAt(q, "retry job") /\ RequestGoto(q, "retry ticket")
  /\ profileJob' = [profileJob EXCEPT ![q] =
       [pc |-> "queued", payload |-> ticket[request[q].ticket].payload]]
  /\ UNCHANGED <<profile, ticket, registered, losses, concurrent>>

\* The new ticket has the same payload, and no source arguments.
RetryTicket(q) ==
  LET t == request[q].ticket IN
  /\ RequestAt(q, "retry ticket") /\ RequestGoto(q, "answered")
  /\ NewTicket(q, ticket[t].buyer, ticket[t].payload, FALSE)
  /\ UNCHANGED <<profile, profileJob, registered, losses, concurrent>>

----------------------------------------------------------------------------
(* The create-profile job. *)

SetTicket(q, state) ==
  /\ profileJob' = [profileJob EXCEPT ![q].pc = "done"]
  /\ ticket' = [ticket EXCEPT ![profileJob[q].payload].state = state]

\* The relay server registers the profile, or fails; then the transaction and the
\* subgraph are waited for, which may fail too.
RegisterProfile(q) ==
  /\ profileJob[q].pc = "queued"
  /\ \/ /\ registered' = [registered EXCEPT ![profileJob[q].payload] = @ + 1]
        /\ profileJob' = [profileJob EXCEPT ![q].pc = "registered"] /\ UNCHANGED ticket
     \/ SetTicket(q, "failed") /\ UNCHANGED registered
  /\ UNCHANGED <<request, profile, losses, concurrent>>

FinishProfile(q) ==
  /\ profileJob[q].pc = "registered" /\ (SetTicket(q, "success") \/ SetTicket(q, "failed"))
  /\ UNCHANGED <<request, profile, registered, losses, concurrent>>

\* A query of a request fails or its process dies; a job dies (maxAttempts 1).
Lose ==
  /\ losses < MaxLosses /\ losses' = losses + 1
  /\ \E q \in Requests :
       \/ ~RequestAt(q, "answered") /\ RequestGoto(q, "answered") /\ UNCHANGED profileJob
       \/ /\ profileJob[q].pc \in {"queued", "registered"} /\ UNCHANGED request
          /\ profileJob' = [profileJob EXCEPT ![q].pc = "done"]
  /\ UNCHANGED <<profile, ticket, registered, concurrent>>

PurchasesNext ==
  \/ \E q \in Requests :
       \/ \E b \in Buyers, s \in Slugs : FindTicket(q, b, s)
       \/ ValidateSlug(q) \/ CheckReceipt(q) \/ ValidatePurchase(q) \/ CreateProfileRow(q)
       \/ CreateTicket(q) \/ AddProfileJob(q)
       \/ \E t \in Requests : Retry(q, t)
       \/ RetryJob(q) \/ RetryTicket(q) \/ RegisterProfile(q) \/ FinishProfile(q)
  \/ Lose

PurchasesSpec == PurchasesInit /\ [][PurchasesNext]_purchaseVars

----------------------------------------------------------------------------
(* Properties. *)

\* A receipt buys one profile, whoever sends it, however its registration fails
\* and is retried, unless two purchases were checked at a time or a process died
\* between the profile and the ticket.
Retries(p) == Cardinality({q \in Requests :
                request[q].ticket # NoTicket /\ ticket[request[q].ticket].payload = p})
OneProfilePerReceipt ==
  concurrent \/ losses > 0 \/
    /\ Cardinality({q \in Requests : profile[q] # NoSlug}) <= 1
    /\ \A p \in Requests : registered[p] <= 1 + Retries(p)
==============================================================================
