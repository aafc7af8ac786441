---------------------------- MODULE EmailCardDrop ----------------------------
(***************************************************************************)
(* Prepaid cards given away by e-mail.  A POST /email-card-drop-requests   *)
(* checks the supply, the rate limit and that neither the owner nor the    *)
(* e-mail address has claimed a card, records a request and queues the     *)
(* e-mail with its verification link; GET /email-card-drop/verify checks   *)
(* the link, marks the request claimed and has the relay server provision  *)
(* the card.  Each query and call is a step.  The market contract, the     *)
(* relay server and the mail service are external; so is the operator who  *)
(* clears the rate limit flag.                                             *)
(*                                                                         *)
(* Requests are numbered in the order in which they were made.  Time is    *)
(* the expiry of requests, oldest first, and of the recency of claims.     *)
(***************************************************************************)
EXTENDS Integers, FiniteSets

CONSTANTS
  Owners, Emails,
  DropHandlers,   \* HTTP requests in progress at a time
  Supply,         \* at most, cards of the SKU in the market at the start
  RateLimitCount, \* claims in a period that trigger the rate limit
  MaxDrops,       \* bound: requests recorded
  Nothing

ASSUME DropAssumption ==
  /\ Owners # {} /\ Emails # {} /\ Supply \in Nat /\ RateLimitCount \in Nat
  /\ MaxDrops \in Nat /\ Nothing \notin Nat \cup Owners \cup Emails

Drops == 1..MaxDrops

VARIABLES
  drop,         \* rows of email_card_drop_requests
  made,         \* how many there are
  rateLimited,  \* email_card_drop_state
  visit,        \* control state and locals of each handler
  quantity,     \* the market's getQuantity of the SKU
  given,        \* cards provisioned for each request
  doubleClaim,  \* requests claimed on the ground of a check that was stale
  overdrawn     \* a card was promised or taken on such a ground

dropVars == <<drop, made, rateLimited, visit, quantity, given, doubleClaim, overdrawn>>
rowVars == <<drop, made>>
dropHistory == <<doubleClaim, overdrawn>>

----------------------------------------------------------------------------

DropRow == [owner: Owners \cup {Nothing}, email: Emails \cup {Nothing}, expired: BOOLEAN, claimed: BOOLEAN,
            recent: BOOLEAN, link: {"none", "queued", "sent"}]
VisitPc == {"idle", "reservations", "flag", "count", "set flag", "owner", "email", "create",
            "add job", "verify email", "latest", "claim", "provision"}
VisitState == [pc: VisitPc, owner: Owners \cup {Nothing}, email: Emails \cup {Nothing},
               quantity: 0..Supply, request: Drops \cup {Nothing}, stale: BOOLEAN]

DropTypeOK ==
  /\ drop \in [Drops -> DropRow] /\ made \in 0..MaxDrops /\ rateLimited \in BOOLEAN
  /\ visit \in [DropHandlers -> VisitState]
  /\ quantity \in 0..Supply /\ given \in [Drops -> Nat]
  /\ doubleClaim \subseteq Drops /\ overdrawn \in BOOLEAN

NoVisit == [pc |-> "idle", owner |-> Nothing, email |-> Nothing, quantity |-> 0,
            request |-> Nothing, stale |-> FALSE]

DropInit ==
  /\ drop = [r \in Drops |->
       [owner |-> Nothing, email |-> Nothing, expired |-> FALSE, claimed |-> FALSE,
        recent |-> FALSE, link |-> "none"]]
  /\ made = 0 /\ rateLimited = FALSE /\ visit = [h \in DropHandlers |-> NoVisit]
  /\ quantity \in 1..Supply /\ given = [r \in Drops |-> 0]
  /\ doubleClaim = {} /\ overdrawn = FALSE

----------------------------------------------------------------------------
(* Queries. *)

Made == 1..made
OwnerClaimed(o) == \E r \in Made : drop[r].owner = o /\ drop[r].claimed
EmailClaimed(e) == \E r \in Made : drop[r].email = e /\ drop[r].claimed
ActiveOwners ==
  {o \in Owners : ~OwnerClaimed(o) /\ \E r \in Made : drop[r].owner = o /\ ~drop[r].expired}
RecentClaims == {r \in Made : drop[r].claimed /\ drop[r].recent}
IsLatest(r) == \A s \in Made : drop[s].owner = drop[r].owner => s <= r

\* Claims whose card has not left the market yet.
Claiming == {h \in DropHandlers : visit[h].pc = "provision"}

Visiting(h, pc) == visit[h].pc = pc
Proceed(h, pc) == visit' = [visit EXCEPT ![h].pc = pc]
Respond(h) == visit' = [visit EXCEPT ![h] = NoVisit]
\* A check that answers the request, or lets it go on to pc.
Check(h, refused, pc) == IF refused THEN Respond(h) ELSE Proceed(h, pc)

----------------------------------------------------------------------------
(* POST /email-card-drop-requests. *)

\* The supply of the market, which counts cards that are claimed already.
PostDrop(h, o, e) ==
  /\ Visiting(h, "idle") /\ made < MaxDrops
  /\ visit' = [visit EXCEPT ![h] =
       [NoVisit EXCEPT !.pc = "reservations", !.owner = o, !.email = e,
                       !.quantity = quantity, !.stale = Claiming # {}]]
  /\ UNCHANGED <<rowVars, rateLimited, quantity, given, dropHistory>>

CheckReservationsBelow(h) ==
  /\ Visiting(h, "reservations")
  /\ Check(h, visit[h].quantity < Cardinality(ActiveOwners), "flag")
  /\ UNCHANGED <<rowVars, rateLimited, quantity, given, dropHistory>>

CheckReservations(h) ==
  /\ Visiting(h, "reservations")
  /\ Check(h, visit[h].quantity <= Cardinality(ActiveOwners), "flag")
  /\ UNCHANGED <<rowVars, rateLimited, quantity, given, dropHistory>>

CheckFlag(h) ==
  /\ Visiting(h, "flag") /\ Check(h, rateLimited, "count")
  /\ UNCHANGED <<rowVars, rateLimited, quantity, given, dropHistory>>

CheckRecentClaims(h) ==
  /\ Visiting(h, "count")
  /\ Proceed(h, IF Cardinality(RecentClaims) >= RateLimitCount THEN "set flag" ELSE "owner")
  /\ UNCHANGED <<rowVars, rateLimited, quantity, given, dropHistory>>

SetRateLimited(h) ==
  /\ Visiting(h, "set flag") /\ Respond(h) /\ rateLimited' = TRUE
  /\ UNCHANGED <<rowVars, quantity, given, dropHistory>>

CheckOwner(h) ==
  /\ Visiting(h, "owner") /\ Check(h, OwnerClaimed(visit[h].owner), "email")
  /\ UNCHANGED <<rowVars, rateLimited, quantity, given, dropHistory>>

CheckEmail(h) ==
  /\ Visiting(h, "email") /\ Check(h, EmailClaimed(visit[h].email), "create")
  /\ UNCHANGED <<rowVars, rateLimited, quantity, given, dropHistory>>

\* The requests that have seen the reservations have not seen this one.
CreateDrop(h) ==
  LET me == visit[h] IN
  /\ Visiting(h, "create") /\ made < MaxDrops /\ made' = made + 1
  /\ drop' = [drop EXCEPT ![made + 1].owner = me.owner, ![made + 1].email = me.email]
  /\ overdrawn' = (overdrawn \/ me.stale)
  /\ visit' = [g \in DropHandlers |->
       IF g = h THEN [me EXCEPT !.pc = "add job", !.request = made + 1]
       ELSE IF visit[g].pc \in {"flag", "count", "owner", "email", "create"}
         THEN [visit[g] EXCEPT !.stale = TRUE] ELSE visit[g]]
  /\ UNCHANGED <<rateLimited, quantity, given, doubleClaim>>

AddLinkJob(h) ==
  /\ Visiting(h, "add job") /\ Respond(h)
  /\ drop' = [drop EXCEPT ![visit[h].request].link = "queued"]
  /\ UNCHANGED <<made, rateLimited, quantity, given, dropHistory>>

\* The send-email-card-drop-verification job; an expired request gets no e-mail.
SendVerification(r) ==
  /\ drop[r].link = "queued"
  /\ drop' = [drop EXCEPT ![r].link = IF drop[r].expired /\ ~drop[r].claimed THEN "none" ELSE "sent"]
  /\ UNCHANGED <<made, rateLimited, visit, quantity, given, dropHistory>>

----------------------------------------------------------------------------
(* GET /email-card-drop/verify, by whoever has the link of request r. *)

VerifyOwner(h, r) ==
  /\ Visiting(h, "idle") /\ drop[r].link = "sent" /\ ~OwnerClaimed(drop[r].owner)
  /\ visit' = [visit EXCEPT ![h] =
       [NoVisit EXCEPT !.pc = "verify email", !.owner = drop[r].owner,
                       !.email = drop[r].email, !.request = r]]
  /\ UNCHANGED <<rowVars, rateLimited, quantity, given, dropHistory>>

VerifyEmailUnchecked(h) ==
  /\ Visiting(h, "verify email") /\ Proceed(h, "latest")
  /\ UNCHANGED <<rowVars, rateLimited, quantity, given, dropHistory>>

VerifyEmail(h) ==
  /\ Visiting(h, "verify email") /\ Check(h, EmailClaimed(visit[h].email), "latest")
  /\ UNCHANGED <<rowVars, rateLimited, quantity, given, dropHistory>>

\* The code must be that of the owner's latest request, and not be expired.
VerifyLatest(h) ==
  LET r == visit[h].request IN
  /\ Visiting(h, "latest")
  /\ Check(h, ~IsLatest(r) \/ (drop[r].expired /\ ~drop[r].claimed), "claim")
  /\ UNCHANGED <<rowVars, rateLimited, quantity, given, dropHistory>>

\* What others have checked about this owner or this address is stale, and so is
\* the supply of a request that did not count the reservations yet.
Claim(h) ==
  LET me == visit[h] IN
  /\ Visiting(h, "claim")
  /\ drop' = [drop EXCEPT ![me.request].claimed = TRUE, ![me.request].recent = TRUE]
  /\ doubleClaim' = IF me.stale THEN doubleClaim \cup {me.request} ELSE doubleClaim
  /\ overdrawn' = (overdrawn \/ me.stale \/ drop[me.request].expired)
  /\ visit' = [g \in DropHandlers |->
       IF g = h THEN [me EXCEPT !.pc = "provision", !.stale = FALSE]
       ELSE IF \/ visit[g].pc = "reservations"
               \/ visit[g].owner = me.owner /\ visit[g].pc \in {"verify email", "latest", "claim"}
               \/ visit[g].email = me.email /\ visit[g].pc \in {"latest", "claim"}
         THEN [visit[g] EXCEPT !.stale = TRUE] ELSE visit[g]]
  /\ UNCHANGED <<made, rateLimited, quantity, given>>

\* The relay server provisions the card ...
ProvisionDrop(h) ==
  /\ Visiting(h, "provision") /\ quantity > 0 /\ Respond(h)
  /\ quantity' = quantity - 1 /\ given' = [given EXCEPT ![visit[h].request] = @ + 1]
  /\ UNCHANGED <<rowVars, rateLimited, dropHistory>>

\* ... or fails, or a process dies: the claim stays.
DropFails(h) ==
  /\ ~Visiting(h, "idle") /\ Respond(h)
  /\ UNCHANGED <<rowVars, rateLimited, quantity, given, dropHistory>>

----------------------------------------------------------------------------
(* Time, and the operator. *)

Expire(r) ==
  /\ r \in Made /\ ~drop[r].expired /\ \A s \in 1..r - 1 : drop[s].expired
  /\ drop' = [drop EXCEPT ![r].expired = TRUE]
  /\ UNCHANGED <<made, rateLimited, visit, quantity, given, dropHistory>>

Age(r) ==
  /\ drop[r].recent /\ drop' = [drop EXCEPT ![r].recent = FALSE]
  /\ UNCHANGED <<made, rateLimited, visit, quantity, given, dropHistory>>

ClearFlag ==
  /\ rateLimited /\ rateLimited' = FALSE
  /\ UNCHANGED <<rowVars, visit, quantity, given, dropHistory>>

DropNext ==
  \/ \E h \in DropHandlers :
       \/ \E o \in Owners, e \in Emails : PostDrop(h, o, e)
       \/ CheckReservations(h) \/ CheckFlag(h) \/ CheckRecentClaims(h) \/ SetRateLimited(h)
       \/ CheckOwner(h) \/ CheckEmail(h) \/ CreateDrop(h) \/ AddLinkJob(h)
       \/ \E r \in Drops : VerifyOwner(h, r)
       \/ VerifyEmail(h) \/ VerifyLatest(h) \/ Claim(h) \/ ProvisionDrop(h) \/ DropFails(h)
  \/ \E r \in Drops : SendVerification(r) \/ Expire(r) \/ Age(r)
  \/ ClearFlag

DropSpec == DropInit /\ [][DropNext]_dropVars

----------------------------------------------------------------------------
(* Properties. *)

\* An owner and an e-mail address get one card, unless their verifications passed
\* the checks together: the comment of email-card-drop-verify.ts says the request
\* is marked claimed first "to prevent stampede attack".
Alike(r, s) == drop[r].owner = drop[s].owner \/ drop[r].email = drop[s].email
OneDropUnlessStale ==
  \A r \in Drops \ doubleClaim :
    /\ given[r] <= 1
    /\ \A s \in Drops \ doubleClaim :
         r # s /\ given[r] > 0 /\ given[s] > 0 => ~Alike(r, s)

\* Every owner with an open request has a card in the market, beside those that
\* are claimed and not provisioned, unless a request was recorded or a card
\* claimed on the ground of numbers that were stale
\* (getPrepaidCardReservationsAreUnavailable reads them one after the other).
PromisesCovered ==
  overdrawn \/ Cardinality(ActiveOwners) + Cardinality(Claiming) <= quantity
==============================================================================
