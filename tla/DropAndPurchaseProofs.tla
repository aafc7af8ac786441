------------------------- MODULE DropAndPurchaseProofs -------------------------
(***************************************************************************)
(* Proofs about two ways to be provisioned, which share no variable.       *)
(*                                                                         *)
(* EmailCardDrop, for any number of owners, addresses, requests and HTTP   *)
(* requests in progress: an owner and an e-mail address get one card,      *)
(* unless a request was claimed on the ground of a stale check, and the    *)
(* market has a card for every open request, unless one was recorded or    *)
(* claimed on stale numbers.  A verification that nobody made stale has    *)
(* seen that neither its owner nor its address has claimed, and that is    *)
(* still so.                                                               *)
(*                                                                         *)
(* ProfilePurchases: the types of its variables, and that a receipt buys   *)
(* one profile, which is registered at most once for the purchase and once *)
(* for each retry.                                                         *)
(***************************************************************************)
EXTENDS EmailCardDrop, ProfilePurchases, FiniteSetTheorems, TLAPS

----------------------------------------------------------------------------
(* The e-mail card drop: the inductive invariant. *)

Verifying == {"verify email", "latest", "claim"}

\* What a handler at its step knows of the rows.
Checked(h) ==
  LET me == visit[h] IN
  /\ me.pc = "add job" => me.request \in Made
  /\ me.pc \in Verifying \cup {"provision"} =>
       /\ me.request \in Made
       /\ me.owner = drop[me.request].owner /\ me.email = drop[me.request].email
  /\ me.pc \in Verifying /\ ~me.stale => ~OwnerClaimed(me.owner)
  /\ me.pc \in {"latest", "claim"} /\ ~me.stale => ~EmailClaimed(me.email)
  /\ me.pc = "provision" => drop[me.request].claimed

\* Only requests that were made have links and claims, and only claims have cards.
Recorded ==
  \A r \in Drops :
    /\ r \notin Made => ~drop[r].claimed /\ drop[r].link = "none"
    /\ given[r] > 0 => drop[r].claimed

\* A request that was claimed on fresh checks is provisioned once, and is the only
\* such one of its owner and of its address.
OneClaim ==
  /\ \A r \in Drops \ doubleClaim : given[r] <= 1
  /\ \A h \in DropHandlers :
       visit[h].pc = "provision" /\ visit[h].request \notin doubleClaim =>
         given[visit[h].request] = 0
  /\ \A g, h \in DropHandlers :
       /\ visit[g].pc = "provision" /\ visit[h].pc = "provision"
       /\ visit[g].request = visit[h].request /\ visit[g].request \notin doubleClaim
       => g = h
  /\ \A r, s \in Drops \ doubleClaim :
       r # s /\ drop[r].claimed /\ drop[s].claimed => ~Alike(r, s)

DropFacts == (\A h \in DropHandlers : Checked(h)) /\ Recorded /\ OneClaim
DropInv == DropTypeOK /\ DropFacts

----------------------------------------------------------------------------
(* What keeps the invariant, by the kind of step. *)

LEMMA MadeDrops == ASSUME DropTypeOK PROVE Made \subseteq Drops /\ made \in Nat
  BY DropAssumption DEF DropTypeOK, Made, Drops, DropAssumption

\* No request is claimed, and those that were made keep their owner and address.
RowsKept ==
  /\ Made \subseteq Made'
  /\ \A r \in Made : drop'[r].owner = drop[r].owner /\ drop'[r].email = drop[r].email
  /\ \A r \in Drops : drop'[r].claimed = drop[r].claimed
  /\ \A r \in Drops : r \notin Made' => drop'[r].link = "none"

\* A handler stays where it is, as far as claims are concerned.
Stays(g) ==
  /\ visit'[g].pc = visit[g].pc /\ visit'[g].request = visit[g].request
  /\ visit'[g].owner = visit[g].owner /\ visit'[g].email = visit[g].email
  /\ visit[g].pc \in Verifying => visit'[g].stale = visit[g].stale

LEMMA ClaimsKept ==
  ASSUME DropInv, DropTypeOK', RowsKept
  PROVE  /\ \A o : OwnerClaimed(o)' => OwnerClaimed(o)
         /\ \A e : EmailClaimed(e)' => EmailClaimed(e)
         /\ \A r, s \in Drops : drop[r].claimed /\ drop[s].claimed /\ Alike(r, s)' => Alike(r, s)
<1>1. \A r \in Drops : drop[r].claimed => r \in Made
  BY DEF DropInv, DropFacts, Recorded
<1>2. Made \subseteq Drops /\ Made' \subseteq Drops
  <2>1. Made \subseteq Drops
    BY MadeDrops DEF DropInv
  <2>2. Made' \subseteq Drops
    BY DropAssumption DEF DropTypeOK, Made, Drops, DropAssumption
  <2> QED BY <2>1, <2>2
<1>3. \A r \in Made' : drop'[r].claimed =>
        r \in Made /\ drop[r].claimed /\ drop'[r].owner = drop[r].owner /\ drop'[r].email = drop[r].email
  BY <1>1, <1>2 DEF RowsKept
<1>4. \A o : OwnerClaimed(o)' => OwnerClaimed(o)
  BY <1>3 DEF OwnerClaimed
<1>5. \A e : EmailClaimed(e)' => EmailClaimed(e)
  BY <1>3 DEF EmailClaimed
<1>6. \A r, s \in Drops : drop[r].claimed /\ drop[s].claimed /\ Alike(r, s)' => Alike(r, s)
  BY <1>1 DEF RowsKept, Alike
<1> QED BY <1>4, <1>5, <1>6

LEMMA CheckedStays ==
  ASSUME DropInv, DropTypeOK', RowsKept, NEW g \in DropHandlers, Stays(g)
  PROVE  Checked(g)'
<1>1. Checked(g)
  BY DEF DropInv, DropFacts
<1>2. /\ \A o : OwnerClaimed(o)' => OwnerClaimed(o)
      /\ \A e : EmailClaimed(e)' => EmailClaimed(e)
  BY ClaimsKept
<1>3. Made \subseteq Drops
  BY MadeDrops DEF DropInv
<1>4. "latest" \in Verifying /\ "claim" \in Verifying
  BY DEF Verifying
<1> QED BY <1>1, <1>2, <1>3, <1>4 DEF Checked, Stays, RowsKept

\* Handlers stay, or get to steps that they know enough for.
LEMMA Quiet ==
  ASSUME DropInv, DropTypeOK', RowsKept, given' = given, doubleClaim' = doubleClaim,
         \A g \in DropHandlers : Stays(g) \/ (Checked(g)' /\ visit'[g].pc # "provision")
  PROVE  DropInv'
<1>1. \A g \in DropHandlers : Checked(g)'
  BY CheckedStays
<1>2. Recorded'
  BY DEF DropInv, DropFacts, Recorded, RowsKept
<1>3. OneClaim'
  <2>1. \A g \in DropHandlers : visit'[g].pc = "provision" =>
          visit[g].pc = "provision" /\ visit'[g].request = visit[g].request
    BY DEF Stays
  <2>2. \A r, s \in Drops \ doubleClaim :
          r # s /\ drop'[r].claimed /\ drop'[s].claimed => ~Alike(r, s)'
    BY ClaimsKept DEF DropInv, DropFacts, OneClaim, RowsKept
  <2>3. \A r \in Drops \ doubleClaim : given[r] <= 1
    BY DEF DropInv, DropFacts, OneClaim
  <2>4. \A g \in DropHandlers :
          visit'[g].pc = "provision" /\ visit'[g].request \notin doubleClaim =>
            given[visit'[g].request] = 0
    BY <2>1 DEF DropInv, DropFacts, OneClaim
  <2>5. \A g, k \in DropHandlers :
          /\ visit'[g].pc = "provision" /\ visit'[k].pc = "provision"
          /\ visit'[g].request = visit'[k].request /\ visit'[g].request \notin doubleClaim
          => g = k
    BY <2>1 DEF DropInv, DropFacts, OneClaim
  <2> QED BY <2>2, <2>3, <2>4, <2>5 DEF OneClaim
<1> QED BY <1>1, <1>2, <1>3 DEF DropInv, DropFacts

----------------------------------------------------------------------------
(* Handlers as records. *)

LEMMA NoVisitMade == NoVisit \in VisitState /\ NoVisit.pc = "idle"
<1>1. 0 \in 0..Supply /\ "idle" \in VisitPc
  BY DropAssumption DEF DropAssumption, VisitPc
<1> QED BY <1>1 DEF NoVisit, VisitState

LEMMA Entered ==
  ASSUME DropTypeOK, NEW h \in DropHandlers, NEW state \in VisitState,
         visit' = [visit EXCEPT ![h] = state]
  PROVE  /\ visit' \in [DropHandlers -> VisitState] /\ visit'[h] = state
         /\ \A g \in DropHandlers \ {h} : visit'[g] = visit[g] /\ Stays(g)
  BY DEF DropTypeOK, Stays

LEMMA Went ==
  ASSUME DropTypeOK, NEW h \in DropHandlers, NEW pc \in VisitPc, Proceed(h, pc)
  PROVE  /\ visit' \in [DropHandlers -> VisitState] /\ visit'[h].pc = pc
         /\ visit'[h].owner = visit[h].owner /\ visit'[h].email = visit[h].email
         /\ visit'[h].request = visit[h].request /\ visit'[h].stale = visit[h].stale
         /\ \A g \in DropHandlers \ {h} : visit'[g] = visit[g] /\ Stays(g)
<1> DEFINE x == [visit[h] EXCEPT !.pc = pc]
<1>1. visit[h] \in VisitState
  BY DEF DropTypeOK
<1>2. /\ x \in VisitState /\ x.pc = pc /\ x.owner = visit[h].owner /\ x.email = visit[h].email
      /\ x.request = visit[h].request /\ x.stale = visit[h].stale
  BY <1>1 DEF VisitState
<1>3. visit' = [visit EXCEPT ![h] = x]
  BY DEF Proceed
<1> HIDE DEF x
<1> QED BY <1>2, <1>3, Entered

\* Steps that ask for nothing.
Early == {"idle", "reservations", "flag", "count", "set flag", "owner", "email", "create"}

LEMMA EarlyChecked ==
  ASSUME NEW h, visit'[h].pc \in Early
  PROVE  Checked(h)' /\ visit'[h].pc # "provision"
<1>1. visit'[h].pc \notin Verifying \cup {"add job", "provision", "latest", "claim"}
  BY DEF Early, Verifying
<1> QED BY <1>1 DEF Checked

LEMMA RowsUnchanged ==
  ASSUME DropInv, UNCHANGED rowVars
  PROVE  RowsKept
  BY DEF DropInv, DropFacts, Recorded, RowsKept, rowVars, Made

\* A handler answers the request, or goes on to such a step.
LEMMA Passes ==
  ASSUME DropInv, NEW h \in DropHandlers, NEW pc \in Early, Proceed(h, pc) \/ Respond(h),
         UNCHANGED <<rowVars, quantity, given, dropHistory>>, rateLimited' \in BOOLEAN
  PROVE  DropInv'
<1>1. DropTypeOK
  BY DEF DropInv
<1>2. pc \in VisitPc /\ "idle" \in Early
  BY DEF VisitPc, Early
<1>3. /\ visit' \in [DropHandlers -> VisitState] /\ visit'[h].pc \in Early
      /\ \A g \in DropHandlers \ {h} : Stays(g)
  <2>1. CASE Proceed(h, pc)
    BY <1>1, <1>2, <2>1, Went
  <2>2. CASE Respond(h)
    BY <1>1, <1>2, <2>2, NoVisitMade, Entered DEF Respond
  <2> QED BY <2>1, <2>2
<1>4. DropTypeOK'
  BY <1>1, <1>3 DEF DropTypeOK, rowVars, dropHistory
<1>5. \A g \in DropHandlers : Stays(g) \/ (Checked(g)' /\ visit'[g].pc # "provision")
  BY <1>3, EarlyChecked
<1>6. given' = given /\ doubleClaim' = doubleClaim
  BY DEF dropHistory
<1> QED BY <1>4, <1>5, <1>6, RowsUnchanged, Quiet

----------------------------------------------------------------------------
(* POST /email-card-drop-requests. *)

LEMMA PostDropKeeps ==
  ASSUME DropInv, NEW h \in DropHandlers, NEW o \in Owners, NEW e \in Emails, PostDrop(h, o, e)
  PROVE  DropInv'
<1> DEFINE s == Claiming # {}
           x == [NoVisit EXCEPT !.pc = "reservations"]
           y == [x EXCEPT !.owner = o]
           z == [y EXCEPT !.email = e]
           v == [z EXCEPT !.quantity = quantity]
           w == [v EXCEPT !.stale = s]
<1>1. DropTypeOK /\ s \in BOOLEAN
  BY DEF DropInv
<1>2. visit' = [visit EXCEPT ![h] = w] /\ UNCHANGED <<rowVars, rateLimited, quantity, given, dropHistory>>
  BY DEF PostDrop
<1> HIDE DEF s
<1>3. w \in VisitState /\ w.pc = "reservations"
  <2>1. x \in VisitState /\ x.pc = "reservations"
    BY NoVisitMade DEF VisitState, VisitPc
  <2> HIDE DEF x
  <2>2. y \in VisitState /\ y.pc = "reservations"
    BY <2>1 DEF VisitState
  <2> HIDE DEF y
  <2>3. z \in VisitState /\ z.pc = "reservations"
    BY <2>2 DEF VisitState
  <2> HIDE DEF z
  <2>4. v \in VisitState /\ v.pc = "reservations"
    BY <1>1, <2>3 DEF VisitState, DropTypeOK
  <2> HIDE DEF v
  <2> QED BY <1>1, <2>4 DEF VisitState
<1> HIDE DEF w
<1>4. /\ visit' \in [DropHandlers -> VisitState] /\ visit'[h].pc \in Early
      /\ \A g \in DropHandlers \ {h} : Stays(g)
  BY <1>1, <1>2, <1>3, Entered DEF Early
<1>5. DropTypeOK'
  BY <1>1, <1>2, <1>4 DEF DropTypeOK, rowVars, dropHistory
<1>6. \A g \in DropHandlers : Stays(g) \/ (Checked(g)' /\ visit'[g].pc # "provision")
  BY <1>4, EarlyChecked
<1>7. given' = given /\ doubleClaim' = doubleClaim
  BY <1>2 DEF dropHistory
<1> QED BY <1>2, <1>5, <1>6, <1>7, RowsUnchanged, Quiet

LEMMA ChecksKeep ==
  ASSUME DropInv, NEW h \in DropHandlers,
         \/ CheckReservations(h) \/ CheckFlag(h) \/ CheckRecentClaims(h) \/ SetRateLimited(h)
         \/ CheckOwner(h) \/ CheckEmail(h) \/ DropFails(h)
  PROVE  DropInv'
<1>1. /\ UNCHANGED <<rowVars, quantity, given, dropHistory>>
      /\ rateLimited' = rateLimited \/ rateLimited' = TRUE
      /\ \/ Respond(h)
         \/ \E pc \in {"flag", "count", "set flag", "owner", "email", "create"} : Proceed(h, pc)
  BY DEF CheckReservations, CheckFlag, CheckRecentClaims, SetRateLimited, CheckOwner, CheckEmail,
     DropFails, Check
<1>2. rateLimited' \in BOOLEAN
  BY <1>1 DEF DropInv, DropTypeOK
<1>3. {"flag", "count", "set flag", "owner", "email", "create", "idle"} \subseteq Early
  BY DEF Early
<1> QED BY <1>1, <1>2, <1>3, Passes

\* A row changes, but neither whose it is nor its claim.
LEMMA RowTouched ==
  ASSUME DropInv, NEW r \in Drops, NEW x \in DropRow, drop' = [drop EXCEPT ![r] = x],
         made' = made, x.owner = drop[r].owner, x.email = drop[r].email,
         x.claimed = drop[r].claimed, r \in Made \/ x.link = "none"
  PROVE  drop' \in [Drops -> DropRow] /\ RowsKept
<1>1. drop \in [Drops -> DropRow] /\ Made' = Made /\ Made \subseteq Drops
  BY MadeDrops DEF DropInv, DropTypeOK, Made
<1>2. drop' \in [Drops -> DropRow] /\ drop'[r] = x /\ \A s \in Drops \ {r} : drop'[s] = drop[s]
  BY <1>1
<1>3. \A s \in Drops : s \notin Made => drop[s].link = "none"
  BY DEF DropInv, DropFacts, Recorded
<1> QED BY <1>1, <1>2, <1>3 DEF RowsKept

LEMMA AddLinkJobKeeps ==
  ASSUME DropInv, NEW h \in DropHandlers, AddLinkJob(h)
  PROVE  DropInv'
<1> DEFINE r == visit[h].request
<1>1. /\ visit' = [visit EXCEPT ![h] = NoVisit] /\ drop' = [drop EXCEPT ![r].link = "queued"]
      /\ visit[h].pc = "add job" /\ UNCHANGED <<made, rateLimited, quantity, given, dropHistory>>
  BY DEF AddLinkJob, Respond, Visiting
<1>2. r \in Made /\ r \in Drops /\ DropTypeOK
  BY <1>1, MadeDrops DEF DropInv, DropFacts, Checked
<1>3. /\ visit' \in [DropHandlers -> VisitState] /\ visit'[h].pc \in Early
      /\ \A g \in DropHandlers \ {h} : Stays(g)
  BY <1>1, <1>2, NoVisitMade, Entered DEF Early
<1> DEFINE x == [drop[r] EXCEPT !.link = "queued"]
<1>4. x \in DropRow /\ x.owner = drop[r].owner /\ x.email = drop[r].email
      /\ x.claimed = drop[r].claimed
  <2>1. drop[r] \in DropRow
    BY <1>2 DEF DropTypeOK
  <2> HIDE DEF r
  <2> QED BY <2>1 DEF DropRow
<1>5. drop' = [drop EXCEPT ![r] = x]
  BY <1>1
<1> HIDE DEF x, r
<1>6. drop' \in [Drops -> DropRow] /\ RowsKept
  BY <1>1, <1>2, <1>4, <1>5, RowTouched
<1>7. DropTypeOK'
  BY <1>1, <1>2, <1>3, <1>6 DEF DropTypeOK, dropHistory
<1>8. \A g \in DropHandlers : Stays(g) \/ (Checked(g)' /\ visit'[g].pc # "provision")
  BY <1>3, EarlyChecked
<1>9. given' = given /\ doubleClaim' = doubleClaim
  BY <1>1 DEF dropHistory
<1> QED BY <1>6, <1>7, <1>8, <1>9, Quiet

\* The e-mail is sent, or time passes.
LEMMA RowsAge ==
  ASSUME DropInv, NEW r \in Drops, SendVerification(r) \/ Expire(r) \/ Age(r)
  PROVE  DropInv'
<1>1. /\ drop[r] \in DropRow /\ DropTypeOK
      /\ UNCHANGED <<made, rateLimited, visit, quantity, given, dropHistory>>
  BY DEF DropInv, DropTypeOK, SendVerification, Expire, Age
<1>2. ASSUME NEW x \in DropRow, drop' = [drop EXCEPT ![r] = x],
             x.owner = drop[r].owner, x.email = drop[r].email, x.claimed = drop[r].claimed,
             r \in Made \/ x.link = "none"
      PROVE  DropInv'
  <2>1. drop' \in [Drops -> DropRow] /\ RowsKept
    BY <1>1, <1>2, RowTouched
  <2>2. DropTypeOK'
    BY <1>1, <2>1 DEF DropTypeOK, dropHistory
  <2>3. \A g \in DropHandlers : Stays(g)
    BY <1>1 DEF Stays
  <2>4. given' = given /\ doubleClaim' = doubleClaim
    BY <1>1 DEF dropHistory
  <2> QED BY <2>1, <2>2, <2>3, <2>4, Quiet
<1>3. r \notin Made => ~drop[r].claimed /\ drop[r].link = "none"
  BY DEF DropInv, DropFacts, Recorded
<1>4. CASE SendVerification(r)
  <2>1. PICK link \in {"none", "sent"} : drop' = [drop EXCEPT ![r].link = link]
    BY <1>4 DEF SendVerification
  <2> DEFINE x == [drop[r] EXCEPT !.link = link]
  <2>2. /\ x \in DropRow /\ x.owner = drop[r].owner /\ x.email = drop[r].email
        /\ x.claimed = drop[r].claimed
    BY <1>1 DEF DropRow
  <2>3. drop' = [drop EXCEPT ![r] = x] /\ r \in Made
    BY <1>3, <1>4, <2>1 DEF SendVerification
  <2> HIDE DEF x
  <2> QED BY <1>2, <2>2, <2>3
<1>5. CASE Expire(r)
  <2> DEFINE x == [drop[r] EXCEPT !.expired = TRUE]
  <2>1. /\ x \in DropRow /\ x.owner = drop[r].owner /\ x.email = drop[r].email
        /\ x.claimed = drop[r].claimed
    BY <1>1 DEF DropRow
  <2>2. drop' = [drop EXCEPT ![r] = x] /\ r \in Made
    BY <1>5 DEF Expire
  <2> HIDE DEF x
  <2> QED BY <1>2, <2>1, <2>2
<1>6. CASE Age(r)
  <2> DEFINE x == [drop[r] EXCEPT !.recent = FALSE]
  <2>1. /\ x \in DropRow /\ x.owner = drop[r].owner /\ x.email = drop[r].email
        /\ x.claimed = drop[r].claimed /\ x.link = drop[r].link
    BY <1>1 DEF DropRow
  <2>2. drop' = [drop EXCEPT ![r] = x]
    BY <1>6 DEF Age
  <2> HIDE DEF x
  <2> QED BY <1>2, <1>3, <2>1, <2>2
<1> QED BY <1>4, <1>5, <1>6

LEMMA ClearFlagKeeps ==
  ASSUME DropInv, ClearFlag
  PROVE  DropInv'
<1>1. UNCHANGED <<rowVars, visit, quantity, given, dropHistory>> /\ rateLimited' = FALSE
  BY DEF ClearFlag
<1>2. DropTypeOK'
  BY <1>1 DEF DropInv, DropTypeOK, rowVars, dropHistory
<1>3. \A g \in DropHandlers : Stays(g)
  BY <1>1 DEF Stays
<1>4. given' = given /\ doubleClaim' = doubleClaim
  BY <1>1 DEF dropHistory
<1> QED BY <1>1, <1>2, <1>3, <1>4, RowsUnchanged, Quiet

\* A handler whose check another one makes stale.
LEMMA Staled ==
  ASSUME NEW v \in VisitState
  PROVE  LET x == [v EXCEPT !.stale = TRUE] IN
         /\ x \in VisitState /\ x.pc = v.pc /\ x.owner = v.owner /\ x.email = v.email
         /\ x.request = v.request /\ x.stale = TRUE
  BY DEF VisitState

LEMMA CreateDropKeeps ==
  ASSUME DropInv, NEW h \in DropHandlers, CreateDrop(h)
  PROVE  DropInv'
<1> DEFINE me == visit[h]
           r == made + 1
           x == [drop[r] EXCEPT !.owner = me.owner]
           y == [x EXCEPT !.email = me.email]
           v == [me EXCEPT !.pc = "add job"]
           w == [v EXCEPT !.request = r]
           z(g) == [visit[g] EXCEPT !.stale = TRUE]
<1>1. DropTypeOK /\ me \in VisitState /\ visit \in [DropHandlers -> VisitState]
      /\ drop \in [Drops -> DropRow] /\ made \in Nat
  BY MadeDrops DEF DropInv, DropTypeOK
<1>2. /\ me.pc = "create" /\ made < MaxDrops /\ made' = r
      /\ drop' = [drop EXCEPT ![r].owner = me.owner, ![r].email = me.email]
      /\ overdrawn' = (overdrawn \/ me.stale)
      /\ visit' = [g \in DropHandlers |->
           IF g = h THEN [me EXCEPT !.pc = "add job", !.request = r]
           ELSE IF visit[g].pc \in {"flag", "count", "owner", "email", "create"}
             THEN z(g) ELSE visit[g]]
      /\ UNCHANGED <<rateLimited, quantity, given, doubleClaim>>
  BY DEF CreateDrop, Visiting
<1>3. r \in Drops /\ Made \subseteq Drops /\ r \notin Made /\ made' \in 0..MaxDrops
      /\ Made' = Made \cup {r}
  BY <1>1, <1>2, DropAssumption, MadeDrops DEF DropInv, Drops, Made, DropAssumption
<1>4. y \in DropRow /\ y.claimed = drop[r].claimed
  <2>1. drop[r] \in DropRow /\ me.owner \in Owners \cup {Nothing} /\ me.email \in Emails \cup {Nothing}
    BY <1>1, <1>3 DEF VisitState
  <2> HIDE DEF r, me
  <2>2. x \in DropRow /\ x.claimed = drop[r].claimed
    BY <2>1 DEF DropRow
  <2> HIDE DEF x
  <2> QED BY <2>1, <2>2 DEF DropRow
<1>5. drop' = [drop EXCEPT ![r] = y]
  <2>1. drop' = [[drop EXCEPT ![r].owner = me.owner] EXCEPT ![r].email = me.email]
    BY <1>2
  <2>2. [drop EXCEPT ![r].owner = me.owner] = [drop EXCEPT ![r] = x]
    OBVIOUS
  <2>3. [drop EXCEPT ![r] = x][r] = x
    BY <1>1, <1>3
  <2> HIDE DEF x, r, me
  <2>4. [[drop EXCEPT ![r] = x] EXCEPT ![r].email = me.email] = [drop EXCEPT ![r] = y]
    BY <1>1, <1>3, <2>3
  <2> QED BY <2>1, <2>2, <2>4
<1>6. w \in VisitState /\ w.pc = "add job" /\ w.request = r
  <2>1. v \in VisitState /\ v.pc = "add job"
    BY <1>1 DEF VisitState, VisitPc
  <2> HIDE DEF v
  <2> QED BY <1>3, <2>1 DEF VisitState
<1>7. \A g \in DropHandlers :
        /\ z(g) \in VisitState /\ z(g).pc = visit[g].pc /\ z(g).owner = visit[g].owner
        /\ z(g).email = visit[g].email /\ z(g).request = visit[g].request
  BY <1>1, Staled
<1>8. \A g \in DropHandlers :
        visit'[g] = IF g = h THEN w
                    ELSE IF visit[g].pc \in {"flag", "count", "owner", "email", "create"}
                      THEN z(g) ELSE visit[g]
  BY <1>2
<1> HIDE DEF y, w, z
<1>9. visit' \in [DropHandlers -> VisitState]
  <2>1. \A g \in DropHandlers : visit'[g] \in VisitState
    BY <1>1, <1>6, <1>7, <1>8
  <2> QED BY <1>2, <2>1
<1>10. \A g \in DropHandlers \ {h} : Stays(g)
  <2>1. \A g \in DropHandlers \ {h} :
          visit'[g] = visit[g] \/ (visit[g].pc \notin Verifying /\ visit'[g] = z(g))
    BY <1>8 DEF Verifying
  <2> QED BY <1>7, <2>1 DEF Stays
<1>11. Checked(h)' /\ visit'[h].pc # "provision"
  <2>1. visit'[h].pc = "add job" /\ visit'[h].request = r
    BY <1>6, <1>8
  <2>2. "add job" \notin Verifying \cup {"provision", "latest", "claim"}
    BY DEF Verifying
  <2> QED BY <1>3, <2>1, <2>2 DEF Checked
<1>12. drop' \in [Drops -> DropRow] /\ RowsKept
  <2>1. drop' \in [Drops -> DropRow] /\ drop'[r] = y /\ \A s \in Drops \ {r} : drop'[s] = drop[s]
    BY <1>1, <1>3, <1>4, <1>5
  <2>2. \A s \in Drops : s \notin Made => drop[s].link = "none"
    BY DEF DropInv, DropFacts, Recorded
  <2>3. \A s \in Made : drop'[s] = drop[s]
    BY <1>3, <2>1
  <2> HIDE DEF r
  <2>4. \A s \in Drops : drop'[s].claimed = drop[s].claimed
    BY <1>4, <2>1
  <2>5. \A s \in Drops : s \notin Made' => drop'[s].link = "none"
    BY <1>3, <2>1, <2>2
  <2> QED BY <1>3, <2>1, <2>3, <2>4, <2>5 DEF RowsKept
<1>13. DropTypeOK'
  <2>1. overdrawn' \in BOOLEAN
    BY <1>2
  <2> QED BY <1>1, <1>2, <1>3, <1>9, <1>12, <2>1 DEF DropTypeOK
<1> QED BY <1>2, <1>10, <1>11, <1>12, <1>13, Quiet

----------------------------------------------------------------------------
(* GET /email-card-drop/verify. *)

\* A handler gets to a step of the verification knowing what it asks for.
LEMMA Verifies ==
  ASSUME DropInv, NEW h \in DropHandlers, visit' \in [DropHandlers -> VisitState],
         visit'[h].pc \in Verifying, Checked(h)', \A g \in DropHandlers \ {h} : Stays(g),
         UNCHANGED <<rowVars, rateLimited, quantity, given, dropHistory>>
  PROVE  DropInv'
<1>1. DropTypeOK'
  BY DEF DropInv, DropTypeOK, rowVars, dropHistory
<1>2. visit'[h].pc # "provision"
  BY DEF Verifying
<1>3. given' = given /\ doubleClaim' = doubleClaim
  BY DEF dropHistory
<1> QED BY <1>1, <1>2, <1>3, RowsUnchanged, Quiet

LEMMA VerifyOwnerKeeps ==
  ASSUME DropInv, NEW h \in DropHandlers, NEW r \in Drops, VerifyOwner(h, r)
  PROVE  DropInv'
<1> DEFINE x == [NoVisit EXCEPT !.pc = "verify email"]
           y == [x EXCEPT !.owner = drop[r].owner]
           z == [y EXCEPT !.email = drop[r].email]
           w == [z EXCEPT !.request = r]
<1>1. /\ visit' = [visit EXCEPT ![h] = w] /\ drop[r].link = "sent" /\ ~OwnerClaimed(drop[r].owner)
      /\ UNCHANGED <<rowVars, rateLimited, quantity, given, dropHistory>>
  BY DEF VerifyOwner
<1>2. DropTypeOK /\ drop[r] \in DropRow /\ r \in Made
  BY <1>1 DEF DropInv, DropFacts, DropTypeOK, Recorded
<1>3. /\ w \in VisitState /\ w.pc = "verify email" /\ w.owner = drop[r].owner
      /\ w.email = drop[r].email /\ w.request = r
  <2>1. x \in VisitState /\ x.pc = "verify email"
    BY NoVisitMade DEF VisitState, VisitPc
  <2> HIDE DEF x
  <2>2. y \in VisitState /\ y.pc = "verify email" /\ y.owner = drop[r].owner
    BY <1>2, <2>1 DEF VisitState, DropRow
  <2> HIDE DEF y
  <2>3. /\ z \in VisitState /\ z.pc = "verify email" /\ z.owner = drop[r].owner
        /\ z.email = drop[r].email
    BY <1>2, <2>2 DEF VisitState, DropRow
  <2> HIDE DEF z
  <2> QED BY <2>3 DEF VisitState
<1> HIDE DEF w
<1>4. /\ visit' \in [DropHandlers -> VisitState] /\ visit'[h] = w
      /\ \A g \in DropHandlers \ {h} : Stays(g)
  BY <1>1, <1>2, <1>3, Entered
<1>5. visit'[h].pc \in Verifying
  BY <1>3, <1>4 DEF Verifying
<1>6. Checked(h)'
  BY <1>1, <1>2, <1>3, <1>4 DEF Checked, OwnerClaimed, Made, rowVars
<1> QED BY <1>1, <1>4, <1>5, <1>6, Verifies

LEMMA VerifyEmailKeeps ==
  ASSUME DropInv, NEW h \in DropHandlers, VerifyEmail(h) \/ VerifyLatest(h)
  PROVE  DropInv'
<1>1. /\ UNCHANGED <<rowVars, rateLimited, quantity, given, dropHistory>> /\ DropTypeOK
      /\ Checked(h) /\ rateLimited \in BOOLEAN
  BY DEF VerifyEmail, VerifyLatest, DropInv, DropFacts, DropTypeOK
<1>2. CASE Respond(h)
  <2>1. "idle" \in Early
    BY DEF Early
  <2> QED BY <1>1, <1>2, <2>1, Passes
<1>3. CASE visit[h].pc = "verify email" /\ ~EmailClaimed(visit[h].email) /\ Proceed(h, "latest")
  <2>1. /\ visit' \in [DropHandlers -> VisitState] /\ visit'[h].pc = "latest"
        /\ visit'[h].owner = visit[h].owner /\ visit'[h].email = visit[h].email
        /\ visit'[h].request = visit[h].request /\ visit'[h].stale = visit[h].stale
        /\ \A g \in DropHandlers \ {h} : Stays(g)
    BY <1>1, <1>3, Went DEF VisitPc
  <2>2. {"verify email", "latest"} \subseteq Verifying
    BY DEF Verifying
  <2>3. Checked(h)'
    BY <1>1, <1>3, <2>1, <2>2 DEF Checked, OwnerClaimed, EmailClaimed, Made, rowVars
  <2> QED BY <1>1, <2>1, <2>2, <2>3, Verifies
<1>4. CASE visit[h].pc = "latest" /\ Proceed(h, "claim")
  <2>1. /\ visit' \in [DropHandlers -> VisitState] /\ visit'[h].pc = "claim"
        /\ visit'[h].owner = visit[h].owner /\ visit'[h].email = visit[h].email
        /\ visit'[h].request = visit[h].request /\ visit'[h].stale = visit[h].stale
        /\ \A g \in DropHandlers \ {h} : Stays(g)
    BY <1>1, <1>4, Went DEF VisitPc
  <2>2. {"claim", "latest"} \subseteq Verifying
    BY DEF Verifying
  <2>3. Checked(h)'
    BY <1>1, <1>4, <2>1, <2>2 DEF Checked, OwnerClaimed, EmailClaimed, Made, rowVars
  <2> QED BY <1>1, <2>1, <2>2, <2>3, Verifies
<1> QED BY <1>2, <1>3, <1>4 DEF VerifyEmail, VerifyLatest, Check, Visiting

\* The request is claimed: if the handler's checks are fresh, it is the first claim
\* of its owner and of its address, and what others have checked of them is stale.
LEMMA ClaimKeeps ==
  ASSUME DropInv, NEW h \in DropHandlers, Claim(h)
  PROVE  DropInv'
<1> DEFINE me == visit[h]
           r == me.request
           x == [drop[r] EXCEPT !.claimed = TRUE]
           y == [x EXCEPT !.recent = TRUE]
           v == [me EXCEPT !.pc = "provision"]
           w == [v EXCEPT !.stale = FALSE]
           z(g) == [visit[g] EXCEPT !.stale = TRUE]
           hit(g) == \/ visit[g].pc = "reservations"
                     \/ visit[g].owner = me.owner /\ visit[g].pc \in Verifying
                     \/ visit[g].email = me.email /\ visit[g].pc \in {"latest", "claim"}
<1>1. /\ DropTypeOK /\ me \in VisitState /\ visit \in [DropHandlers -> VisitState]
      /\ drop \in [Drops -> DropRow] /\ Made \subseteq Drops
      /\ \A g \in DropHandlers : Checked(g)
  BY MadeDrops DEF DropInv, DropFacts, DropTypeOK
<1>2. /\ me.pc = "claim"
      /\ drop' = [drop EXCEPT ![r].claimed = TRUE, ![r].recent = TRUE]
      /\ doubleClaim' = IF me.stale THEN doubleClaim \cup {r} ELSE doubleClaim
      /\ overdrawn' = (overdrawn \/ me.stale \/ drop[r].expired)
      /\ visit' = [g \in DropHandlers |->
           IF g = h THEN [me EXCEPT !.pc = "provision", !.stale = FALSE]
           ELSE IF hit(g) THEN z(g) ELSE visit[g]]
      /\ UNCHANGED <<made, rateLimited, quantity, given>>
  BY DEF Claim, Visiting, Verifying
<1>3. "claim" \in Verifying /\ "latest" \in Verifying /\ "provision" \notin Verifying
      /\ "add job" \notin Verifying
  BY DEF Verifying
<1>4. /\ r \in Made /\ r \in Drops
      /\ me.owner = drop[r].owner /\ me.email = drop[r].email
      /\ ~me.stale => ~OwnerClaimed(me.owner) /\ ~EmailClaimed(me.email)
  BY <1>1, <1>2, <1>3 DEF Checked
<1>5. y \in DropRow /\ y.claimed = TRUE /\ y.owner = drop[r].owner /\ y.email = drop[r].email
      /\ y.link = drop[r].link
  <2>1. drop[r] \in DropRow
    BY <1>1, <1>4
  <2> HIDE DEF r
  <2>2. /\ x \in DropRow /\ x.claimed = TRUE /\ x.owner = drop[r].owner
        /\ x.email = drop[r].email /\ x.link = drop[r].link
    BY <2>1 DEF DropRow
  <2> HIDE DEF x
  <2> QED BY <2>2 DEF DropRow
<1>6. drop' = [drop EXCEPT ![r] = y]
  <2>1. drop' = [[drop EXCEPT ![r].claimed = TRUE] EXCEPT ![r].recent = TRUE]
    BY <1>2
  <2>2. [drop EXCEPT ![r].claimed = TRUE] = [drop EXCEPT ![r] = x]
    OBVIOUS
  <2>3. [drop EXCEPT ![r] = x][r] = x
    BY <1>1, <1>4
  <2> HIDE DEF x, r
  <2>4. [[drop EXCEPT ![r] = x] EXCEPT ![r].recent = TRUE] = [drop EXCEPT ![r] = y]
    BY <1>1, <1>4, <2>3
  <2> QED BY <2>1, <2>2, <2>4
<1>7. w \in VisitState /\ w.pc = "provision" /\ w.owner = me.owner /\ w.email = me.email
      /\ w.request = r
  <2>1. /\ v \in VisitState /\ v.pc = "provision" /\ v.owner = me.owner /\ v.email = me.email
        /\ v.request = r
    BY <1>1 DEF VisitState, VisitPc
  <2> HIDE DEF v
  <2> QED BY <2>1 DEF VisitState
<1>8. \A g \in DropHandlers :
        /\ z(g) \in VisitState /\ z(g).pc = visit[g].pc /\ z(g).owner = visit[g].owner
        /\ z(g).email = visit[g].email /\ z(g).request = visit[g].request /\ z(g).stale = TRUE
  BY <1>1, Staled
<1>9. \A g \in DropHandlers :
        visit'[g] = IF g = h THEN w ELSE IF hit(g) THEN z(g) ELSE visit[g]
  BY <1>2
<1> HIDE DEF y, w, z, hit
<1>10. visit' \in [DropHandlers -> VisitState]
  <2>1. \A g \in DropHandlers : visit'[g] \in VisitState
    BY <1>1, <1>7, <1>8, <1>9
  <2> QED BY <1>2, <2>1
<1>11. /\ drop' \in [Drops -> DropRow] /\ drop'[r] = y /\ Made' = Made
       /\ \A s \in Drops \ {r} : drop'[s] = drop[s]
  <2>1. Made' = Made
    BY <1>2 DEF Made
  <2>2. y \in DropRow /\ r \in Drops /\ drop \in [Drops -> DropRow] /\ drop' = [drop EXCEPT ![r] = y]
    BY <1>1, <1>4, <1>5, <1>6
  <2> HIDE DEF r
  <2> QED BY <2>1, <2>2
<1>12. /\ \A s \in Drops : drop'[s].owner = drop[s].owner /\ drop'[s].email = drop[s].email
                           /\ drop'[s].link = drop[s].link
       /\ \A s \in Drops : drop[s].claimed => drop'[s].claimed
       /\ \A s \in Drops : drop'[s].claimed => s = r \/ drop[s].claimed
  BY <1>5, <1>11
<1>13. DropTypeOK'
  <2>1. overdrawn' \in BOOLEAN
    BY <1>2
  <2>2. doubleClaim' \subseteq Drops
    BY <1>1, <1>2, <1>4 DEF DropTypeOK
  <2> QED BY <1>1, <1>2, <1>10, <1>11, <2>1, <2>2 DEF DropTypeOK
<1> HIDE DEF r
<1>14. ASSUME NEW g \in DropHandlers PROVE Checked(g)'
  <2>1. CASE g = h
    <3>1. visit'[g] = w
      BY <1>9, <2>1
    <3> QED BY <1>3, <1>4, <1>5, <1>7, <1>11, <3>1 DEF Checked
  <2>2. CASE g # h /\ hit(g)
    <3>1. visit'[g] = z(g)
      BY <1>9, <2>2
    <3>2. Made' = Made /\ Checked(g)
      BY <1>1, <1>11
    <3>3. /\ visit'[g].pc = visit[g].pc /\ visit'[g].owner = visit[g].owner
          /\ visit'[g].email = visit[g].email /\ visit'[g].request = visit[g].request
          /\ visit'[g].stale = TRUE
      BY <1>8, <3>1
    <3>4. visit[g].request \in Made => visit[g].request \in Drops
      BY <1>1
    <3> QED BY <1>12, <3>2, <3>3, <3>4 DEF Checked
  <2>3. CASE g # h /\ ~hit(g)
    <3>1. visit'[g] = visit[g] /\ Made' = Made /\ Checked(g)
      BY <1>1, <1>9, <1>11, <2>3
    <3>2. visit[g].pc \in Verifying => visit[g].owner # drop[r].owner
      BY <1>4, <2>3 DEF hit
    <3>3. visit[g].pc \in {"latest", "claim"} => visit[g].email # drop[r].email
      BY <1>4, <2>3 DEF hit
    <3>4. visit[g].pc \in Verifying /\ ~visit[g].stale => ~OwnerClaimed(visit[g].owner)'
      <4>1. ASSUME visit[g].pc \in Verifying, ~visit[g].stale, NEW s \in Made,
                   drop'[s].owner = visit[g].owner, drop'[s].claimed
            PROVE  FALSE
        <5>1. s # r /\ s \in Drops
          BY <1>1, <1>12, <3>2, <4>1
        <5>2. drop[s].claimed /\ drop[s].owner = visit[g].owner
          BY <1>12, <4>1, <5>1
        <5> QED BY <3>1, <4>1, <5>2 DEF Checked, OwnerClaimed
      <4> QED BY <3>1, <4>1 DEF OwnerClaimed
    <3>5. visit[g].pc \in {"latest", "claim"} /\ ~visit[g].stale => ~EmailClaimed(visit[g].email)'
      <4>1. ASSUME visit[g].pc \in {"latest", "claim"}, ~visit[g].stale, NEW s \in Made,
                   drop'[s].email = visit[g].email, drop'[s].claimed
            PROVE  FALSE
        <5>1. s # r /\ s \in Drops
          BY <1>1, <1>12, <3>3, <4>1
        <5>2. drop[s].claimed /\ drop[s].email = visit[g].email
          BY <1>12, <4>1, <5>1
        <5> QED BY <3>1, <4>1, <5>2 DEF Checked, EmailClaimed
      <4> QED BY <3>1, <4>1 DEF EmailClaimed
    <3>6. visit[g].request \in Made => visit[g].request \in Drops
      BY <1>1
    <3>7. visit[g].request \in Made =>
            /\ drop'[visit[g].request].owner = drop[visit[g].request].owner
            /\ drop'[visit[g].request].email = drop[visit[g].request].email
            /\ drop[visit[g].request].claimed => drop'[visit[g].request].claimed
      BY <1>12, <3>6
    <3> QED BY <3>1, <3>4, <3>5, <3>7 DEF Checked
  <2> QED BY <2>1, <2>2, <2>3
<1>15. Recorded'
  BY <1>2, <1>4, <1>11, <1>12 DEF DropInv, DropFacts, Recorded
<1>16. doubleClaim \subseteq doubleClaim' /\ (r \notin doubleClaim' => ~me.stale)
  BY <1>2
\* A request that nobody claimed before has no card, and nobody is provisioning it.
<1>17. ~me.stale => ~drop[r].claimed
  BY <1>4 DEF OwnerClaimed
<1>18. ~drop[r].claimed =>
         ~(given[r] > 0) /\ \A g \in DropHandlers :
                              visit[g].pc = "provision" => visit[g].request # r
  BY <1>1, <1>4 DEF DropInv, DropFacts, Recorded, Checked
<1>19. \A g \in DropHandlers \ {h} :
         visit'[g].pc = visit[g].pc /\ visit'[g].request = visit[g].request
  BY <1>8, <1>9
<1>20. given' = given /\ given[r] \in Nat /\ visit'[h].request = r
  BY <1>1, <1>2, <1>4, <1>7, <1>9 DEF DropTypeOK
<1>21. OneClaim'
  <2>1. \A s \in Drops \ doubleClaim' : given'[s] <= 1
    BY <1>16, <1>20 DEF DropInv, DropFacts, OneClaim
  <2>2. ASSUME NEW g \in DropHandlers, visit'[g].pc = "provision",
               visit'[g].request \notin doubleClaim'
        PROVE  given'[visit'[g].request] = 0
    <3>1. CASE g = h
      <4>1. ~(given[r] > 0)
        BY <1>16, <1>17, <1>18, <1>20, <2>2, <3>1
      <4> QED BY <1>20, <3>1, <4>1
    <3>2. CASE g # h
      BY <1>16, <1>19, <1>20, <2>2, <3>2 DEF DropInv, DropFacts, OneClaim
    <3> QED BY <3>1, <3>2
  <2>3. ASSUME NEW g \in DropHandlers, NEW k \in DropHandlers,
               visit'[g].pc = "provision", visit'[k].pc = "provision",
               visit'[g].request = visit'[k].request, visit'[g].request \notin doubleClaim'
        PROVE  g = k
    <3>1. CASE g # h /\ k # h
      BY <1>16, <1>19, <2>3, <3>1 DEF DropInv, DropFacts, OneClaim
    <3>2. CASE g = h /\ k # h
      BY <1>16, <1>17, <1>18, <1>19, <1>20, <2>3, <3>2
    <3>3. CASE g # h /\ k = h
      BY <1>16, <1>17, <1>18, <1>19, <1>20, <2>3, <3>3
    <3> QED BY <3>1, <3>2, <3>3
  <2>4. ASSUME NEW s \in Drops \ doubleClaim', NEW t \in Drops \ doubleClaim', s # t,
               drop'[s].claimed, drop'[t].claimed, Alike(s, t)'
        PROVE  FALSE
    <3>1. Alike(s, t) /\ Alike(t, s) /\ s \in Drops /\ t \in Drops
      BY <1>12, <2>4 DEF Alike
    <3>2. \A q \in Drops : drop[q].claimed => q \in Made
      BY DEF DropInv, DropFacts, Recorded
    <3>3. ASSUME NEW q \in Drops, drop[q].claimed, Alike(r, q), r \notin doubleClaim'
          PROVE  FALSE
      BY <1>4, <1>16, <3>2, <3>3 DEF Alike, OwnerClaimed, EmailClaimed
    <3>4. CASE s = r
      BY <1>12, <2>4, <3>1, <3>3, <3>4
    <3>5. CASE t = r
      BY <1>12, <2>4, <3>1, <3>3, <3>5
    <3>6. CASE s # r /\ t # r
      <4>1. drop[s].claimed /\ drop[t].claimed /\ s \notin doubleClaim /\ t \notin doubleClaim
        BY <1>12, <1>16, <2>4, <3>6
      <4> QED BY <2>4, <3>1, <4>1 DEF DropInv, DropFacts, OneClaim
    <3> QED BY <3>4, <3>5, <3>6
  <2> QED BY <2>1, <2>2, <2>3, <2>4 DEF OneClaim
<1> QED BY <1>13, <1>14, <1>15, <1>21 DEF DropInv, DropFacts

\* One card more for a request.
LEMMA OneMoreGiven ==
  ASSUME NEW r \in Drops, given \in [Drops -> Nat], given' = [given EXCEPT ![r] = @ + 1]
  PROVE  /\ given' \in [Drops -> Nat] /\ (given[r] = 0 => given'[r] <= 1)
         /\ \A s \in Drops \ {r} : given'[s] = given[s]
  OBVIOUS

LEMMA OneLess ==
  ASSUME NEW n \in 0..Supply, n > 0
  PROVE  n - 1 \in 0..Supply
  BY DropAssumption DEF DropAssumption

LEMMA ProvisionDropKeeps ==
  ASSUME DropInv, NEW h \in DropHandlers, ProvisionDrop(h)
  PROVE  DropInv'
<1> DEFINE r == visit[h].request
<1>1. /\ visit[h].pc = "provision" /\ quantity > 0 /\ visit' = [visit EXCEPT ![h] = NoVisit]
      /\ quantity' = quantity - 1 /\ given' = [given EXCEPT ![r] = @ + 1]
      /\ UNCHANGED <<rowVars, rateLimited, dropHistory>>
  BY DEF ProvisionDrop, Visiting, Respond
<1>2. /\ DropTypeOK /\ r \in Drops /\ drop[r].claimed /\ given \in [Drops -> Nat]
  BY <1>1, MadeDrops DEF DropInv, DropFacts, DropTypeOK, Checked
<1>3. /\ visit' \in [DropHandlers -> VisitState] /\ visit'[h].pc = "idle"
      /\ \A g \in DropHandlers \ {h} : visit'[g] = visit[g] /\ Stays(g)
  BY <1>1, <1>2, NoVisitMade, Entered
<1> HIDE DEF r
<1>4. /\ given' \in [Drops -> Nat] /\ (given[r] = 0 => given'[r] <= 1)
      /\ \A s \in Drops \ {r} : given'[s] = given[s]
  BY <1>1, <1>2, OneMoreGiven
<1>5. DropTypeOK'
  <2>1. quantity' \in 0..Supply
    BY <1>1, <1>2, OneLess DEF DropTypeOK
  <2> QED BY <1>1, <1>2, <1>3, <1>4, <2>1 DEF DropTypeOK, rowVars, dropHistory
<1>6. \A g \in DropHandlers : Checked(g)'
  <2>1. RowsKept
    BY <1>1, RowsUnchanged
  <2>2. Checked(h)'
    <3>1. visit'[h].pc \in Early
      BY <1>3 DEF Early
    <3> QED BY <3>1, EarlyChecked
  <2> QED BY <1>3, <1>5, <2>1, <2>2, CheckedStays
<1>7. drop' = drop /\ Made' = Made /\ doubleClaim' = doubleClaim
  BY <1>1 DEF rowVars, Made, dropHistory
<1>8. Recorded'
  BY <1>2, <1>4, <1>7 DEF DropInv, DropFacts, Recorded
<1>9. \A g \in DropHandlers : visit'[g].pc = "provision" => g # h /\ visit'[g] = visit[g]
  BY <1>3
<1>10. r \notin doubleClaim =>
         given[r] = 0 /\ \A g \in DropHandlers \ {h} :
                           visit[g].pc = "provision" => visit[g].request # r
  BY <1>1 DEF DropInv, DropFacts, OneClaim, r
<1>11. OneClaim'
  <2>1. \A s \in Drops \ doubleClaim : given'[s] <= 1
    BY <1>4, <1>10 DEF DropInv, DropFacts, OneClaim
  <2>2. ASSUME NEW g \in DropHandlers, visit'[g].pc = "provision",
               visit'[g].request \notin doubleClaim
        PROVE  given'[visit'[g].request] = 0
    <3>1. g # h /\ visit'[g] = visit[g]
      BY <1>9, <2>2
    <3>2. visit[g].request \in Drops
      BY <1>2, <2>2, <3>1, MadeDrops DEF DropInv, DropFacts, Checked
    <3>3. visit[g].request # r /\ given[visit[g].request] = 0
      BY <1>10, <2>2, <3>1 DEF DropInv, DropFacts, OneClaim
    <3> QED BY <1>4, <3>1, <3>2, <3>3
  <2>3. ASSUME NEW g \in DropHandlers, NEW k \in DropHandlers,
               visit'[g].pc = "provision", visit'[k].pc = "provision",
               visit'[g].request = visit'[k].request, visit'[g].request \notin doubleClaim
        PROVE  g = k
    BY <1>9, <2>3 DEF DropInv, DropFacts, OneClaim
  <2>4. \A s, t \in Drops \ doubleClaim :
          s # t /\ drop[s].claimed /\ drop[t].claimed => ~Alike(s, t)
    BY DEF DropInv, DropFacts, OneClaim
  <2> QED BY <1>7, <2>1, <2>2, <2>3, <2>4 DEF OneClaim, Alike
<1> QED BY <1>5, <1>6, <1>8, <1>11 DEF DropInv, DropFacts

----------------------------------------------------------------------------

LEMMA DropInitial == DropInit => DropInv
<1> SUFFICES ASSUME DropInit PROVE DropInv
  OBVIOUS
<1>1. DropTypeOK
  <2> DEFINE row == [owner |-> Nothing, email |-> Nothing, expired |-> FALSE, claimed |-> FALSE,
                     recent |-> FALSE, link |-> "none"]
  <2>1. row \in DropRow
    BY DEF DropRow
  <2>2. drop = [r \in Drops |-> row]
    BY DEF DropInit
  <2> HIDE DEF row
  <2>3. drop \in [Drops -> DropRow]
    BY <2>1, <2>2
  <2>4. 0 \in 0..MaxDrops /\ quantity \in 0..Supply
    BY DropAssumption DEF DropInit, DropAssumption
  <2> QED BY <2>3, <2>4, NoVisitMade DEF DropInit, DropTypeOK
<1>2. \A h \in DropHandlers : visit[h].pc = "idle"
  BY NoVisitMade DEF DropInit
<1>3. \A h \in DropHandlers : Checked(h)
  BY <1>2 DEF Checked, Verifying
<1>4. \A r \in Drops : ~drop[r].claimed /\ drop[r].link = "none" /\ given[r] = 0
  BY DEF DropInit
<1>5. Recorded
  BY <1>4 DEF Recorded
<1>6. OneClaim
  BY <1>2, <1>4 DEF OneClaim
<1> QED BY <1>1, <1>3, <1>5, <1>6 DEF DropInv, DropFacts

LEMMA DropStep == DropInv /\ [DropNext]_dropVars => DropInv'
<1> SUFFICES ASSUME DropInv, [DropNext]_dropVars PROVE DropInv'
  OBVIOUS
<1>1. CASE UNCHANGED dropVars
  <2>1. UNCHANGED <<rowVars, visit, rateLimited, quantity, given, dropHistory>>
    BY <1>1 DEF dropVars, rowVars, dropHistory
  <2>2. DropTypeOK'
    BY <2>1 DEF DropInv, DropTypeOK, rowVars, dropHistory
  <2>3. \A g \in DropHandlers : Stays(g)
    BY <2>1 DEF Stays
  <2>4. given' = given /\ doubleClaim' = doubleClaim
    BY <2>1 DEF dropHistory
  <2> QED BY <2>1, <2>2, <2>3, <2>4, RowsUnchanged, Quiet
<1>2. ASSUME NEW h \in DropHandlers,
             \/ \E o \in Owners, e \in Emails : PostDrop(h, o, e)
             \/ CheckReservations(h) \/ CheckFlag(h) \/ CheckRecentClaims(h) \/ SetRateLimited(h)
             \/ CheckOwner(h) \/ CheckEmail(h) \/ CreateDrop(h) \/ AddLinkJob(h)
             \/ \E r \in Drops : VerifyOwner(h, r)
             \/ VerifyEmail(h) \/ VerifyLatest(h) \/ Claim(h) \/ ProvisionDrop(h) \/ DropFails(h)
      PROVE  DropInv'
  BY <1>2, PostDropKeeps, ChecksKeep, CreateDropKeeps, AddLinkJobKeeps, VerifyOwnerKeeps,
     VerifyEmailKeeps, ClaimKeeps, ProvisionDropKeeps
<1>3. ASSUME NEW r \in Drops, SendVerification(r) \/ Expire(r) \/ Age(r)
      PROVE  DropInv'
  BY <1>3, RowsAge
<1> QED BY <1>1, <1>2, <1>3, ClearFlagKeeps DEF DropNext

\* However requests and verifications overlap and fail, an owner and an e-mail
\* address get one card, except by a claim whose checks another one had made stale
\* (routes/email-card-drop-verify.ts checks and claims with separate queries).
THEOREM OneDrop == DropSpec => []OneDropUnlessStale
<1>1. DropInv => OneDropUnlessStale
  BY DEF DropInv, DropFacts, OneClaim, Recorded, OneDropUnlessStale
<1> QED BY <1>1, DropInitial, DropStep, PTL DEF DropSpec

\* The rows, the handlers and the counters of the e-mail card drop keep their types.
THEOREM DropTyped == DropSpec => []DropTypeOK
<1>1. DropInv => DropTypeOK
  BY DEF DropInv
<1> QED BY <1>1, DropInitial, DropStep, PTL DEF DropSpec

----------------------------------------------------------------------------
(* Open requests and the cards of the market. *)

\* Requests that have seen that a card is left, and are not recorded yet.
Pending == {"flag", "count", "owner", "email", "create"}

\* The cards that are promised or claimed.
Owed == Cardinality(ActiveOwners) + Cardinality(Claiming)

\* What the supply of a request stands for while nothing has made it stale.
Supplied(h) ==
  LET me == visit[h] IN
  /\ me.pc = "reservations" /\ ~me.stale => Claiming = {} /\ me.quantity = quantity
  /\ me.pc \in Pending /\ ~me.stale => Owed < quantity

Asking(h) == visit[h].pc \in Pending \cup {"reservations"}

\* A request has an owner, and so has the handler that will record one.
Named ==
  /\ \A r \in Made : drop[r].owner \in Owners
  /\ \A h \in DropHandlers : Asking(h) => visit[h].owner \in Owners

Finite == IsFiniteSet(ActiveOwners) /\ IsFiniteSet(Claiming)
Covered == overdrawn \/ (Owed <= quantity /\ \A h \in DropHandlers : Supplied(h))
CoverInv == Finite /\ Named /\ Covered

LEMMA OwedNumber ==
  ASSUME DropTypeOK, Finite
  PROVE  /\ Cardinality(ActiveOwners) \in Nat /\ Cardinality(Claiming) \in Nat
         /\ Owed \in Nat /\ quantity \in Nat
<1>1. quantity \in Nat
  BY DropAssumption DEF DropTypeOK, DropAssumption
<1>2. Cardinality(ActiveOwners) \in Nat /\ Cardinality(Claiming) \in Nat
  BY FS_CardinalityType DEF Finite
<1> QED BY <1>1, <1>2 DEF Owed

\* Fewer are owed when owners and claims only leave.
LEMMA OwedLess ==
  ASSUME DropTypeOK, DropTypeOK', Finite, ActiveOwners' \subseteq ActiveOwners,
         Claiming' \subseteq Claiming
  PROVE  Finite' /\ Owed' \in Nat /\ Owed' <= Owed
<1>1. /\ Cardinality(ActiveOwners) \in Nat /\ Cardinality(Claiming) \in Nat
  BY OwedNumber
<1>2. IsFiniteSet(ActiveOwners') /\ Cardinality(ActiveOwners') <= Cardinality(ActiveOwners)
  BY FS_Subset DEF Finite
<1>3. IsFiniteSet(Claiming') /\ Cardinality(Claiming') <= Cardinality(Claiming)
  BY FS_Subset DEF Finite
<1>4. Finite'
  BY <1>2, <1>3 DEF Finite
<1>5. Cardinality(ActiveOwners') \in Nat /\ Cardinality(Claiming') \in Nat
  BY <1>2, <1>3, FS_CardinalityType
<1>6. Cardinality(ActiveOwners)' = Cardinality(ActiveOwners')
      /\ Cardinality(Claiming)' = Cardinality(Claiming')
  OBVIOUS
<1> QED BY <1>1, <1>2, <1>3, <1>4, <1>5 DEF Owed

\* A handler stays, or goes on with the supply that it has seen.
Resumes(h) ==
  \/ visit'[h] = visit[h]
  \/ ~Asking(h)'
  \/ /\ visit[h].pc \in Pending /\ visit'[h].pc \in Pending
     /\ visit'[h].owner = visit[h].owner /\ visit'[h].stale = visit[h].stale

LEMMA CoverKept ==
  ASSUME DropTypeOK, DropTypeOK', CoverInv, ActiveOwners' \subseteq ActiveOwners,
         Claiming' \subseteq Claiming, quantity' = quantity, overdrawn' = overdrawn,
         \A r \in Made' : drop'[r].owner \in Owners,
         \A h \in DropHandlers :
           Resumes(h) \/ (Asking(h)' /\ visit'[h].owner \in Owners /\ (overdrawn \/ Supplied(h)'))
  PROVE  CoverInv'
<1>1. Finite /\ Named /\ Covered
  BY DEF CoverInv
<1>2. Finite' /\ Owed' \in Nat /\ Owed' <= Owed
  BY <1>1, OwedLess
<1>3. Owed \in Nat /\ Owed' \in Nat /\ quantity \in Nat
  BY <1>1, <1>2, OwedNumber
<1>4. Named'
  BY <1>1 DEF Named, Resumes, Asking
<1>5. Covered'
  <2>1. CASE overdrawn
    BY <2>1 DEF Covered
  <2>2. CASE ~overdrawn
    <3>1. Owed <= quantity /\ \A h \in DropHandlers : Supplied(h)
      BY <1>1, <2>2 DEF Covered
    <3>2. Owed' <= quantity'
      BY <1>2, <1>3, <3>1
    <3>3. ASSUME NEW h \in DropHandlers, Resumes(h) PROVE Supplied(h)'
      <4>1. Supplied(h)
        BY <3>1
      <4>2. Owed < quantity => Owed' < quantity'
        BY <1>2, <1>3
      <4>3. CASE visit'[h] = visit[h]
        BY <4>1, <4>2, <4>3 DEF Supplied
      <4>4. CASE ~Asking(h)'
        BY <4>4 DEF Supplied, Asking
      <4>5. CASE /\ visit[h].pc \in Pending /\ visit'[h].pc \in Pending
                 /\ visit'[h].stale = visit[h].stale
        <5>1. visit'[h].pc # "reservations"
          BY <4>5 DEF Pending
        <5> QED BY <4>1, <4>2, <4>5, <5>1 DEF Supplied
      <4> QED BY <3>3, <4>3, <4>4, <4>5 DEF Resumes
    <3> QED BY <2>2, <3>2, <3>3 DEF Covered
  <2> QED BY <2>1, <2>2
<1> QED BY <1>2, <1>4, <1>5 DEF CoverInv

\* The owners with an open request, after a step that claims and records nothing.
LEMMA OwnersKept ==
  ASSUME DropInv, made' = made,
         \A r \in Made : /\ drop'[r].owner = drop[r].owner /\ drop'[r].claimed = drop[r].claimed
                         /\ drop[r].expired => drop'[r].expired
  PROVE  ActiveOwners' \subseteq ActiveOwners
<1>1. Made' = Made
  BY DEF Made
<1> QED BY <1>1 DEF ActiveOwners, OwnerClaimed

\* Steps of a handler that leave the rows and the market alone.
LEMMA HandlerCovers ==
  ASSUME DropInv, DropTypeOK', CoverInv, NEW h \in DropHandlers,
         UNCHANGED <<rowVars, quantity, overdrawn>>,
         \A g \in DropHandlers \ {h} : visit'[g] = visit[g],
         visit'[h].pc # "provision",
         Resumes(h) \/ (Asking(h)' /\ visit'[h].owner \in Owners /\ (overdrawn \/ Supplied(h)'))
  PROVE  CoverInv'
<1>1. drop' = drop /\ made' = made /\ Made' = Made
  BY DEF rowVars, Made
<1>2. ActiveOwners' \subseteq ActiveOwners
  BY <1>1, OwnersKept
<1>3. Claiming' \subseteq Claiming
  BY DEF Claiming
<1>4. \A r \in Made' : drop'[r].owner \in Owners
  BY <1>1 DEF CoverInv, Named
<1>5. \A g \in DropHandlers \ {h} : Resumes(g)
  BY DEF Resumes
<1> QED BY <1>2, <1>3, <1>4, <1>5, CoverKept DEF DropInv

LEMMA Answered ==
  ASSUME DropInv, NEW h \in DropHandlers, Respond(h)
  PROVE  /\ visit'[h].pc = "idle" /\ Resumes(h) /\ \A g \in DropHandlers \ {h} : visit'[g] = visit[g]
<1>1. /\ visit'[h].pc = "idle" /\ \A g \in DropHandlers \ {h} : visit'[g] = visit[g]
  BY NoVisitMade, Entered DEF Respond, DropInv
<1> QED BY <1>1 DEF Resumes, Asking, Pending

LEMMA PostCovers ==
  ASSUME DropInv, DropTypeOK', CoverInv, NEW h \in DropHandlers, NEW o \in Owners, NEW e \in Emails,
         PostDrop(h, o, e)
  PROVE  CoverInv'
<1>1. /\ visit'[h].pc = "reservations" /\ visit'[h].owner = o
      /\ visit'[h].quantity = quantity /\ visit'[h].stale = (Claiming # {})
      /\ \A g \in DropHandlers \ {h} : visit'[g] = visit[g]
  BY DEF PostDrop, NoVisit, DropInv, DropTypeOK
<1>2. visit[h].pc = "idle" /\ UNCHANGED <<rowVars, quantity, overdrawn>>
  BY DEF PostDrop, Visiting, dropHistory
<1>3. Claiming' = Claiming
  BY <1>1, <1>2 DEF Claiming
<1>4. Supplied(h)'
  BY <1>1, <1>2, <1>3 DEF Supplied, Pending
<1>5. Asking(h)' /\ visit'[h].owner \in Owners
  BY <1>1 DEF Asking
<1> QED BY <1>1, <1>2, <1>4, <1>5, HandlerCovers

\* The request goes on if fewer cards are promised than the market had, which is what
\* it has when the supply is not stale.
LEMMA ReservationsCover ==
  ASSUME DropInv, DropTypeOK', CoverInv, NEW h \in DropHandlers, CheckReservations(h)
  PROVE  CoverInv'
<1>1. UNCHANGED <<rowVars, quantity, overdrawn>> /\ visit[h].pc = "reservations"
  BY DEF CheckReservations, dropHistory, Visiting
<1>2. CASE Respond(h)
  BY <1>1, <1>2, Answered, HandlerCovers
<1>3. CASE Proceed(h, "flag") /\ ~(visit[h].quantity <= Cardinality(ActiveOwners))
  <2>1. /\ visit'[h].pc = "flag" /\ visit'[h].owner = visit[h].owner
        /\ visit'[h].stale = visit[h].stale /\ \A g \in DropHandlers \ {h} : visit'[g] = visit[g]
    BY <1>3, Went DEF DropInv, VisitPc
  <2>2. visit[h].owner \in Owners
    BY <1>1 DEF CoverInv, Named, Asking
  <2>3. Asking(h)'
    BY <2>1 DEF Asking, Pending
  <2>4. Owed' = Owed
    <3>1. Claiming' = Claiming
      BY <1>1, <2>1 DEF Claiming
    <3>2. ActiveOwners' = ActiveOwners
      BY <1>1 DEF rowVars, ActiveOwners, OwnerClaimed, Made
    <3> QED BY <3>1, <3>2 DEF Owed
  <2>5. Cardinality(ActiveOwners) \in Nat /\ quantity \in Nat
    BY OwedNumber DEF DropInv, CoverInv
  <2>6. ~overdrawn /\ ~visit[h].stale => Owed < quantity
    <3>1. SUFFICES ASSUME ~overdrawn, ~visit[h].stale PROVE Owed < quantity
      OBVIOUS
    <3>2. Claiming = {} /\ visit[h].quantity = quantity
      BY <1>1, <3>1 DEF CoverInv, Covered, Supplied
    <3> QED BY <1>3, <2>5, <3>2, FS_EmptySet DEF Owed
  <2>7. overdrawn \/ Supplied(h)'
    BY <1>1, <2>1, <2>4, <2>6 DEF Supplied
  <2> QED BY <1>1, <2>1, <2>2, <2>3, <2>7, HandlerCovers
<1> QED BY <1>2, <1>3 DEF CheckReservations, Check

\* The other steps of a handler that write no row and claim nothing.
LEMMA GoesCovers ==
  ASSUME DropInv, DropTypeOK', CoverInv, NEW h \in DropHandlers, UNCHANGED <<rowVars, quantity, overdrawn>>,
         NEW pc \in VisitPc, Proceed(h, pc), pc # "provision",
         (pc \in Pending /\ visit[h].pc \in Pending) \/ pc \notin Pending \cup {"reservations"}
  PROVE  CoverInv'
<1>1. /\ visit'[h].pc = pc /\ visit'[h].owner = visit[h].owner
      /\ visit'[h].stale = visit[h].stale /\ \A g \in DropHandlers \ {h} : visit'[g] = visit[g]
  BY Went DEF DropInv
<1>2. Resumes(h)
  BY <1>1 DEF Resumes, Asking
<1> QED BY <1>1, <1>2, HandlerCovers

LEMMA ChecksCover ==
  ASSUME DropInv, DropTypeOK', CoverInv, NEW h \in DropHandlers,
         \/ CheckFlag(h) \/ CheckRecentClaims(h) \/ SetRateLimited(h)
         \/ CheckOwner(h) \/ CheckEmail(h) \/ VerifyEmail(h) \/ VerifyLatest(h) \/ DropFails(h)
  PROVE  CoverInv'
<1>1. /\ UNCHANGED <<rowVars, quantity, overdrawn>>
      /\ \/ Respond(h)
         \/ /\ visit[h].pc \in {"flag", "count", "owner", "email"}
            /\ \E pc \in {"count", "set flag", "owner", "email", "create"} : Proceed(h, pc)
         \/ \E pc \in {"latest", "claim"} : Proceed(h, pc)
  BY DEF CheckFlag, CheckRecentClaims, SetRateLimited, CheckOwner, CheckEmail, VerifyEmail,
     VerifyLatest, DropFails, Check, Visiting, dropHistory
<1>2. CASE Respond(h)
  BY <1>1, <1>2, Answered, HandlerCovers
<1>3. ASSUME NEW pc \in {"count", "set flag", "owner", "email", "create"}, Proceed(h, pc),
             visit[h].pc \in {"flag", "count", "owner", "email"}
      PROVE  CoverInv'
  <2>1. /\ pc \in VisitPc /\ pc # "provision" /\ visit[h].pc \in Pending
        /\ pc \in Pending \/ pc \notin Pending \cup {"reservations"}
    BY <1>3 DEF VisitPc, Pending
  <2> QED BY <1>1, <1>3, <2>1, GoesCovers
<1>4. ASSUME NEW pc \in {"latest", "claim"}, Proceed(h, pc) PROVE CoverInv'
  <2>1. pc \in VisitPc /\ pc # "provision" /\ pc \notin Pending \cup {"reservations"}
    BY <1>4 DEF VisitPc, Pending
  <2> QED BY <1>1, <1>4, <2>1, GoesCovers
<1> QED BY <1>1, <1>2, <1>3, <1>4

LEMMA VerifyOwnerCovers ==
  ASSUME DropInv, DropTypeOK', CoverInv, NEW h \in DropHandlers, NEW r \in Drops, VerifyOwner(h, r)
  PROVE  CoverInv'
<1>1. /\ visit'[h].pc = "verify email" /\ \A g \in DropHandlers \ {h} : visit'[g] = visit[g]
      /\ UNCHANGED <<rowVars, quantity, overdrawn>>
  BY DEF VerifyOwner, NoVisit, DropInv, DropTypeOK, dropHistory
<1>2. Resumes(h)
  BY <1>1 DEF Resumes, Asking, Pending
<1> QED BY <1>1, <1>2, HandlerCovers

\* Steps that write a row, but neither whose it is nor its claim.
LEMMA RowsCover ==
  ASSUME DropInv, DropTypeOK', CoverInv, made' = made, quantity' = quantity, overdrawn' = overdrawn,
         \A r \in Drops : /\ drop'[r].owner = drop[r].owner /\ drop'[r].claimed = drop[r].claimed
                          /\ drop[r].expired => drop'[r].expired,
         \A h \in DropHandlers : Resumes(h) /\ (visit'[h].pc = "provision" => visit[h].pc = "provision")
  PROVE  CoverInv'
<1>1. Made' = Made /\ Made \subseteq Drops
  BY MadeDrops DEF Made, DropInv
<1>2. ActiveOwners' \subseteq ActiveOwners
  BY <1>1, OwnersKept
<1>3. Claiming' \subseteq Claiming
  BY DEF Claiming
<1>4. \A r \in Made' : drop'[r].owner \in Owners
  BY <1>1 DEF CoverInv, Named
<1> QED BY <1>2, <1>3, <1>4, CoverKept DEF DropInv

LEMMA RowsAgeCover ==
  ASSUME DropInv, DropTypeOK', CoverInv, NEW r \in Drops, SendVerification(r) \/ Expire(r) \/ Age(r)
  PROVE  CoverInv'
<1>1. /\ UNCHANGED <<made, visit, quantity, overdrawn>> /\ drop \in [Drops -> DropRow]
      /\ \/ \E link \in {"none", "sent"} : drop' = [drop EXCEPT ![r].link = link]
         \/ drop' = [drop EXCEPT ![r].expired = TRUE]
         \/ drop' = [drop EXCEPT ![r].recent = FALSE]
  BY DEF DropInv, DropTypeOK, SendVerification, Expire, Age, dropHistory
<1>2. \A s \in Drops : drop[s] \in DropRow
  BY <1>1
<1>3. \A s \in Drops : /\ drop'[s].owner = drop[s].owner /\ drop'[s].claimed = drop[s].claimed
                       /\ drop[s].expired => drop'[s].expired
  BY <1>1, <1>2 DEF DropRow
<1>4. \A g \in DropHandlers : Resumes(g)
  BY <1>1 DEF Resumes
<1> QED BY <1>1, <1>3, <1>4, RowsCover

LEMMA AddLinkJobCovers ==
  ASSUME DropInv, DropTypeOK', CoverInv, NEW h \in DropHandlers, AddLinkJob(h)
  PROVE  CoverInv'
<1>1. /\ UNCHANGED <<made, quantity, overdrawn>> /\ Respond(h) /\ drop \in [Drops -> DropRow]
      /\ drop' = [drop EXCEPT ![visit[h].request].link = "queued"]
  BY DEF DropInv, DropTypeOK, AddLinkJob, dropHistory
<1>2. \A s \in Drops : drop[s] \in DropRow
  BY <1>1
<1>3. \A s \in Drops : /\ drop'[s].owner = drop[s].owner /\ drop'[s].claimed = drop[s].claimed
                       /\ drop[s].expired => drop'[s].expired
  BY <1>1, <1>2 DEF DropRow
<1>4. \A g \in DropHandlers : Resumes(g) /\ (visit'[g].pc = "provision" => visit[g].pc = "provision")
  BY <1>1, Answered DEF Resumes
<1> QED BY <1>1, <1>3, <1>4, RowsCover

\* The requests that have seen a card left have not seen this one.
LEMMA CreateCovers ==
  ASSUME DropInv, DropTypeOK', CoverInv, NEW h \in DropHandlers, CreateDrop(h)
  PROVE  CoverInv'
<1> DEFINE o == visit[h].owner
           r == made + 1
<1>1. /\ visit[h].pc = "create" /\ quantity' = quantity /\ Made' = Made \cup {r} /\ r \notin Made
      /\ r \in Drops /\ Made \subseteq Drops
      /\ overdrawn' = (overdrawn \/ visit[h].stale) /\ Finite /\ Named /\ Covered
  BY MadeDrops, DropAssumption
  DEF CreateDrop, Visiting, DropInv, CoverInv, Made, Drops, DropAssumption
<1>2. o \in Owners
  BY <1>1 DEF Named, Asking, Pending
<1>3. /\ drop'[r].owner = o /\ \A s \in Made : drop'[s] = drop[s]
      /\ drop'[r].claimed = drop[r].claimed
  <2>1. drop \in [Drops -> DropRow] /\ drop[r] \in DropRow
    BY <1>1 DEF DropInv, DropTypeOK
  <2>2. drop' = [[drop EXCEPT ![r].owner = o] EXCEPT ![r].email = visit[h].email]
    BY DEF CreateDrop
  <2> HIDE DEF o, r
  <2> QED BY <1>1, <2>1, <2>2 DEF DropRow
<1>4. /\ visit'[h].pc = "add job"
      /\ \A g \in DropHandlers \ {h} :
           IF visit[g].pc \in Pending
             THEN /\ visit'[g].pc = visit[g].pc /\ visit'[g].owner = visit[g].owner
                  /\ visit'[g].stale = TRUE
             ELSE visit'[g] = visit[g]
  <2>1. \A g \in DropHandlers : visit[g] \in VisitState
    BY DEF DropInv, DropTypeOK
  <2>2. visit' = [g \in DropHandlers |->
          IF g = h THEN [visit[h] EXCEPT !.pc = "add job", !.request = r]
          ELSE IF visit[g].pc \in Pending THEN [visit[g] EXCEPT !.stale = TRUE] ELSE visit[g]]
    BY DEF CreateDrop, Pending
  <2>3. visit'[h].pc = "add job"
    BY <2>1, <2>2 DEF VisitState
  <2>4. ASSUME NEW g \in DropHandlers \ {h}
        PROVE  IF visit[g].pc \in Pending
                 THEN /\ visit'[g].pc = visit[g].pc /\ visit'[g].owner = visit[g].owner
                      /\ visit'[g].stale = TRUE
                 ELSE visit'[g] = visit[g]
    <3>1. visit'[g] = IF visit[g].pc \in Pending THEN [visit[g] EXCEPT !.stale = TRUE] ELSE visit[g]
      BY <2>2
    <3> QED BY <2>1, <3>1, Staled
  <2> QED BY <2>3, <2>4
<1> HIDE DEF o, r
<1>5. Claiming' = Claiming
  BY <1>1, <1>4 DEF Claiming, Pending
<1>6. ActiveOwners' \subseteq ActiveOwners \cup {o}
  BY <1>1, <1>3 DEF ActiveOwners, OwnerClaimed
<1>7. Finite' /\ Owed' \in Nat /\ Owed' <= Owed + 1
  <2> DEFINE A == ActiveOwners \cup {o}
             n == Cardinality(ActiveOwners)
             m == Cardinality(Claiming)
  <2>1. n \in Nat /\ m \in Nat /\ Owed = n + m
    BY <1>1, OwedNumber DEF DropInv, Owed
  <2>2. IsFiniteSet(A) /\ Cardinality(A) \in Nat /\ Cardinality(A) <= n + 1
    <3>1. IsFiniteSet(A) /\ Cardinality(A) = IF o \in ActiveOwners THEN n ELSE n + 1
      BY <1>1, FS_AddElement DEF Finite
    <3> HIDE DEF A, n
    <3> QED BY <2>1, <3>1, FS_CardinalityType
  <2> HIDE DEF A, n
  <2>3. ActiveOwners' \in SUBSET A
    BY <1>6 DEF A
  <2>4. /\ IsFiniteSet(ActiveOwners') /\ Cardinality(ActiveOwners') <= Cardinality(A)
        /\ Cardinality(ActiveOwners') \in Nat
    BY <2>2, <2>3, FS_Subset, FS_CardinalityType
  <2>5. Owed' = Cardinality(ActiveOwners') + m
    BY <1>5 DEF Owed
  <2> HIDE DEF m
  <2>6. Owed' \in Nat /\ Owed' <= Owed + 1
    BY <2>1, <2>2, <2>4, <2>5
  <2> QED BY <1>1, <1>5, <2>4, <2>6 DEF Finite
<1>8. Named'
  <2>1. \A s \in Made' : drop'[s].owner \in Owners
    BY <1>1, <1>2, <1>3 DEF Named
  <2>2. ASSUME NEW g \in DropHandlers, Asking(g)' PROVE visit'[g].owner \in Owners
    BY <1>1, <1>4, <2>2 DEF Named, Asking, Pending
  <2> QED BY <2>1, <2>2 DEF Named
<1>9. Covered'
  <2>1. SUFFICES ASSUME ~overdrawn, ~visit[h].stale
                 PROVE  Owed' <= quantity' /\ \A g \in DropHandlers : Supplied(g)'
    BY <1>1 DEF Covered
  <2>2. Owed < quantity /\ \A g \in DropHandlers : Supplied(g)
    BY <1>1, <2>1 DEF Covered, Supplied, Pending
  <2>3. Owed' <= quantity'
    BY <1>1, <1>7, <2>2, OwedNumber DEF DropInv
  <2>4. ASSUME NEW g \in DropHandlers PROVE Supplied(g)'
    <3>1. CASE g = h
      BY <1>4, <3>1 DEF Supplied, Pending
    <3>2. CASE g # h /\ visit[g].pc \in Pending
      <4>1. visit'[g].stale = TRUE
        BY <1>4, <3>2
      <4> QED BY <4>1 DEF Supplied
    <3>3. CASE g # h /\ visit[g].pc \notin Pending
      <4>1. visit'[g] = visit[g]
        BY <1>4, <3>3
      <4> QED BY <1>1, <1>5, <2>2, <3>3, <4>1 DEF Supplied
    <3> QED BY <3>1, <3>2, <3>3
  <2> QED BY <2>3, <2>4
<1> QED BY <1>7, <1>8, <1>9 DEF CoverInv

\* The owner of an open request that is claimed leaves those with a promise and joins
\* the claims; the supply of the requests that are about to count is stale.
LEMMA ClaimCovers ==
  ASSUME DropInv, DropTypeOK', CoverInv, NEW h \in DropHandlers, Claim(h)
  PROVE  CoverInv'
<1> DEFINE o == visit[h].owner
           r == visit[h].request
<1>1. /\ visit[h].pc = "claim" /\ quantity' = quantity /\ Made' = Made /\ Made \subseteq Drops
      /\ overdrawn' = (overdrawn \/ visit[h].stale \/ drop[r].expired)
      /\ Finite /\ Named /\ Covered
  BY MadeDrops DEF Claim, Visiting, DropInv, CoverInv, Made
<1>2. r \in Made /\ o = drop[r].owner /\ o \in Owners /\ (~visit[h].stale => ~OwnerClaimed(o))
  BY <1>1 DEF Named, DropInv, DropFacts, Checked, Verifying
<1>3. /\ drop'[r].claimed = TRUE
      /\ \A s \in Drops : /\ drop'[s].owner = drop[s].owner /\ drop'[s].expired = drop[s].expired
                          /\ drop[s].claimed => drop'[s].claimed
  <2>1. r \in Drops /\ drop \in [Drops -> DropRow] /\ \A s \in Drops : drop[s] \in DropRow
    BY <1>1, <1>2 DEF DropInv, DropTypeOK
  <2>2. drop' = [[drop EXCEPT ![r].claimed = TRUE] EXCEPT ![r].recent = TRUE]
    BY DEF Claim
  <2> HIDE DEF r
  <2> QED BY <2>1, <2>2 DEF DropRow
<1>4. /\ visit'[h].pc = "provision"
      /\ \A g \in DropHandlers \ {h} :
           /\ visit'[g].pc = visit[g].pc /\ visit'[g].owner = visit[g].owner
           /\ visit[g].pc = "reservations" => visit'[g].stale = TRUE
           /\ visit[g].pc \in Pending => visit'[g] = visit[g]
  <2> DEFINE hit(g) == \/ visit[g].pc = "reservations"
                       \/ visit[g].owner = o /\ visit[g].pc \in {"verify email", "latest", "claim"}
                       \/ visit[g].email = visit[h].email /\ visit[g].pc \in {"latest", "claim"}
             w == [[visit[h] EXCEPT !.pc = "provision"] EXCEPT !.stale = FALSE]
  <2>1. \A g \in DropHandlers : visit[g] \in VisitState
    BY DEF DropInv, DropTypeOK
  <2>2. visit' = [g \in DropHandlers |->
          IF g = h THEN w ELSE IF hit(g) THEN [visit[g] EXCEPT !.stale = TRUE] ELSE visit[g]]
    BY DEF Claim
  <2>3. w.pc = "provision"
    BY <2>1 DEF VisitState
  <2> HIDE DEF w
  <2>4. visit'[h].pc = "provision"
    BY <2>2, <2>3
  <2>5. ASSUME NEW g \in DropHandlers \ {h}
        PROVE  /\ visit'[g].pc = visit[g].pc /\ visit'[g].owner = visit[g].owner
               /\ visit[g].pc = "reservations" => visit'[g].stale = TRUE
               /\ visit[g].pc \in Pending => visit'[g] = visit[g]
    <3>1. visit'[g] = IF hit(g) THEN [visit[g] EXCEPT !.stale = TRUE] ELSE visit[g]
      BY <2>2
    <3>2. visit[g].pc = "reservations" => hit(g)
      OBVIOUS
    <3>3. visit[g].pc \in Pending => ~hit(g)
      BY DEF Pending
    <3> HIDE DEF hit
    <3> QED BY <2>1, <3>1, <3>2, <3>3, Staled
  <2> QED BY <2>4, <2>5
<1> HIDE DEF o, r
<1>5. Claiming' = Claiming \cup {h} /\ h \notin Claiming
  BY <1>1, <1>4 DEF Claiming
<1>6. ActiveOwners' \subseteq ActiveOwners \ {o}
  <2>1. ASSUME NEW u, u = o \/ OwnerClaimed(u) PROVE OwnerClaimed(u)'
    <3>1. PICK s \in Made : drop[s].owner = u /\ (s = r \/ drop[s].claimed)
      BY <1>2, <2>1 DEF OwnerClaimed
    <3>2. s \in Made' /\ drop'[s].owner = u /\ drop'[s].claimed
      BY <1>1, <1>3, <3>1
    <3> QED BY <3>2 DEF OwnerClaimed
  <2> QED BY <1>1, <1>3, <2>1 DEF ActiveOwners
<1>7. Finite' /\ (o \in ActiveOwners => Owed' <= Owed)
  <2> DEFINE A == ActiveOwners \ {o}
             n == Cardinality(ActiveOwners)
             m == Cardinality(Claiming)
  <2>1. n \in Nat /\ m \in Nat /\ Owed = n + m
    BY <1>1, OwedNumber DEF DropInv, Owed
  <2>2. /\ IsFiniteSet(A) /\ Cardinality(A) \in Nat
        /\ Cardinality(A) = IF o \in ActiveOwners THEN n - 1 ELSE n
    BY <1>1, FS_RemoveElement, FS_CardinalityType DEF Finite
  <2>3. IsFiniteSet(Claiming') /\ Cardinality(Claiming') = m + 1
    BY <1>1, <1>5, FS_AddElement DEF Finite
  <2> HIDE DEF A, n, m
  <2>4. ActiveOwners' \in SUBSET A
    BY <1>6 DEF A
  <2>5. /\ IsFiniteSet(ActiveOwners') /\ Cardinality(ActiveOwners') <= Cardinality(A)
        /\ Cardinality(ActiveOwners') \in Nat
    BY <2>2, <2>4, FS_Subset, FS_CardinalityType
  <2>6. Owed' = Cardinality(ActiveOwners') + (m + 1)
    BY <2>3 DEF Owed
  <2>7. o \in ActiveOwners => Owed' <= Owed
    BY <2>1, <2>2, <2>5, <2>6
  <2> QED BY <2>3, <2>5, <2>7 DEF Finite
<1>8. Named'
  <2>1. \A s \in Made' : drop'[s].owner \in Owners
    BY <1>1, <1>3 DEF Named
  <2>2. ASSUME NEW g \in DropHandlers, Asking(g)' PROVE visit'[g].owner \in Owners
    BY <1>1, <1>4, <2>2 DEF Named, Asking, Pending
  <2> QED BY <2>1, <2>2 DEF Named
<1>9. Covered'
  <2>1. SUFFICES ASSUME ~overdrawn, ~visit[h].stale, ~drop[r].expired
                 PROVE  Owed' <= quantity' /\ \A g \in DropHandlers : Supplied(g)'
    BY <1>1 DEF Covered
  <2>2. o \in ActiveOwners
    BY <1>2, <2>1 DEF ActiveOwners
  <2>3. Owed <= quantity /\ \A g \in DropHandlers : Supplied(g)
    BY <1>1, <2>1 DEF Covered
  <2>4. Owed \in Nat /\ quantity \in Nat /\ Owed' \in Nat
    <3>1. Cardinality(ActiveOwners') \in Nat /\ Cardinality(Claiming') \in Nat
      BY <1>7, FS_CardinalityType DEF Finite
    <3>2. Owed' = Cardinality(ActiveOwners') + Cardinality(Claiming')
      BY DEF Owed
    <3> QED BY <1>1, <3>1, <3>2, OwedNumber DEF DropInv
  <2>5. Owed' <= quantity' /\ (Owed < quantity => Owed' < quantity')
    BY <1>1, <1>7, <2>2, <2>3, <2>4
  <2>6. ASSUME NEW g \in DropHandlers PROVE Supplied(g)'
    <3>1. CASE g = h
      BY <1>4, <3>1 DEF Supplied, Pending
    <3>2. CASE g # h /\ visit[g].pc = "reservations"
      BY <1>4, <3>2 DEF Supplied
    <3>3. CASE g # h /\ visit[g].pc # "reservations"
      <4>1. visit'[g].pc # "reservations" /\ (visit'[g].pc \in Pending => visit'[g] = visit[g])
        BY <1>4, <3>3
      <4> QED BY <2>3, <2>5, <4>1 DEF Supplied
    <3> QED BY <3>1, <3>2, <3>3
  <2> QED BY <2>5, <2>6
<1> QED BY <1>7, <1>8, <1>9 DEF CoverInv

\* A card leaves the market with its claim.
LEMMA ProvisionCovers ==
  ASSUME DropInv, DropTypeOK', CoverInv, NEW h \in DropHandlers, ProvisionDrop(h)
  PROVE  CoverInv'
<1>1. /\ visit[h].pc = "provision" /\ quantity' = quantity - 1 /\ Respond(h) /\ UNCHANGED rowVars
      /\ overdrawn' = overdrawn /\ Finite /\ Named /\ Covered
  BY DEF ProvisionDrop, Visiting, CoverInv, dropHistory
<1>2. visit'[h].pc = "idle" /\ \A g \in DropHandlers \ {h} : visit'[g] = visit[g]
  BY <1>1, Answered
<1>3. h \in Claiming /\ Claiming' = Claiming \ {h}
  BY <1>1, <1>2 DEF Claiming
<1>4. ActiveOwners' = ActiveOwners /\ Made' = Made /\ drop' = drop
  BY <1>1 DEF rowVars, ActiveOwners, OwnerClaimed, Made
<1>5. Cardinality(Claiming') = Cardinality(Claiming) - 1 /\ IsFiniteSet(Claiming')
  BY <1>1, <1>3, FS_RemoveElement DEF Finite
<1>6. Cardinality(ActiveOwners) \in Nat /\ Cardinality(Claiming) \in Nat /\ quantity \in Nat
  BY <1>1, OwedNumber DEF DropInv
<1>7. Owed' = Owed - 1 /\ Owed \in Nat
  <2>1. Owed' = Cardinality(ActiveOwners) + Cardinality(Claiming')
    BY <1>4 DEF Owed
  <2> QED BY <1>5, <1>6, <2>1 DEF Owed
<1>8. Named'
  <2>1. ASSUME NEW g \in DropHandlers, Asking(g)' PROVE visit'[g].owner \in Owners
    BY <1>1, <1>2, <2>1 DEF Named, Asking, Pending
  <2> QED BY <1>1, <1>4, <2>1 DEF Named
<1>9. Covered'
  <2>1. SUFFICES ASSUME ~overdrawn
                 PROVE  Owed' <= quantity' /\ \A g \in DropHandlers : Supplied(g)'
    BY <1>1 DEF Covered
  <2>2. Owed <= quantity /\ \A g \in DropHandlers : Supplied(g)
    BY <1>1, <2>1 DEF Covered
  <2>3. Owed' <= quantity' /\ (Owed < quantity => Owed' < quantity')
    BY <1>1, <1>6, <1>7, <2>2
  <2>4. ASSUME NEW g \in DropHandlers PROVE Supplied(g)'
    <3>1. CASE g = h
      BY <1>2, <3>1 DEF Supplied, Pending
    <3>2. CASE g # h
      <4>1. visit'[g] = visit[g] /\ Claiming # {}
        BY <1>2, <1>3, <3>2
      <4> QED BY <2>2, <2>3, <4>1 DEF Supplied
    <3> QED BY <3>1, <3>2
  <2> QED BY <2>3, <2>4
<1>10. Finite'
  BY <1>1, <1>4, <1>5 DEF Finite
<1> QED BY <1>8, <1>9, <1>10 DEF CoverInv

LEMMA CoverInitial == DropInit => CoverInv
<1> SUFFICES ASSUME DropInit PROVE CoverInv
  OBVIOUS
<1>1. \A h \in DropHandlers : visit[h].pc = "idle"
  BY NoVisitMade DEF DropInit
<1>2. Made = {} /\ Claiming = {}
  BY <1>1 DEF Made, Claiming, DropInit
<1>3. ActiveOwners = {}
  BY <1>2 DEF ActiveOwners
<1>4. Finite /\ Owed = 0
  BY <1>2, <1>3, FS_EmptySet DEF Finite, Owed
<1>5. quantity \in Nat
  BY DropAssumption DEF DropInit, DropAssumption
<1>6. \A h \in DropHandlers : Supplied(h) /\ ~Asking(h)
  BY <1>1 DEF Supplied, Asking, Pending
<1> QED BY <1>2, <1>4, <1>5, <1>6 DEF CoverInv, Named, Covered

LEMMA CoverStep == DropInv /\ DropInv' /\ CoverInv /\ [DropNext]_dropVars => CoverInv'
<1> SUFFICES ASSUME DropInv, DropInv', CoverInv, [DropNext]_dropVars PROVE CoverInv'
  OBVIOUS
<1>1. DropTypeOK'
  BY DEF DropInv
<1>2. CASE UNCHANGED dropVars
  BY <1>1, <1>2, RowsCover DEF dropVars, Resumes
<1>3. ASSUME NEW h \in DropHandlers,
             \/ \E o \in Owners, e \in Emails : PostDrop(h, o, e)
             \/ CheckReservations(h) \/ CheckFlag(h) \/ CheckRecentClaims(h) \/ SetRateLimited(h)
             \/ CheckOwner(h) \/ CheckEmail(h) \/ CreateDrop(h) \/ AddLinkJob(h)
             \/ \E r \in Drops : VerifyOwner(h, r)
             \/ VerifyEmail(h) \/ VerifyLatest(h) \/ Claim(h) \/ ProvisionDrop(h) \/ DropFails(h)
      PROVE  CoverInv'
  BY <1>1, <1>3, PostCovers, ReservationsCover, ChecksCover, CreateCovers, AddLinkJobCovers,
     VerifyOwnerCovers, ClaimCovers, ProvisionCovers
<1>4. ASSUME NEW r \in Drops, SendVerification(r) \/ Expire(r) \/ Age(r)
      PROVE  CoverInv'
  BY <1>1, <1>4, RowsAgeCover
<1>5. CASE ClearFlag
  BY <1>1, <1>5, RowsCover DEF ClearFlag, Resumes, rowVars, dropHistory
<1> QED BY <1>2, <1>3, <1>4, <1>5 DEF DropNext

\* However many requests overlap, the open ones and the claims that are being
\* provisioned have cards in the market, unless one was recorded or claimed on
\* stale numbers (routes/email-card-drop-requests.ts, routes/email-card-drop-verify.ts).
THEOREM DropCovered == DropSpec => []PromisesCovered
<1>1. CoverInv => PromisesCovered
  BY DEF CoverInv, Covered, Owed, PromisesCovered
<1> QED BY <1>1, CoverInitial, CoverStep, DropInitial, DropStep, PTL DEF DropSpec

----------------------------------------------------------------------------
(* Profile purchases: which ticket and which job belong to which request. *)

HasTicket(t) == ticket[t].state # "none"

\* What a request has done, by where it is.
Buying == {"new", "slug", "receipt", "validate", "profile"}
Retrying == {"retry job", "retry ticket"}
RequestFits(q) ==
  /\ request[q].pc \in Buying \cup {"ticket"} \cup Retrying => ~HasTicket(q)
  /\ request[q].pc \in Buying \cup Retrying => profile[q] = NoSlug
  /\ RequestAt(q, "job") => HasTicket(q) /\ ticket[q].payload = q
  /\ RequestAt(q, "new") => request[q].ticket = NoTicket
  /\ request[q].pc \in Retrying => request[q].ticket # NoTicket
  /\ request[q].ticket # NoTicket => HasTicket(request[q].ticket)
  /\ request[q].pc \notin {"retry ticket", "answered"} => profileJob[q].pc = "none"

\* A payload names a request that has a ticket.
TicketFits(t) == HasTicket(t) => ticket[t].payload \in Requests /\ HasTicket(ticket[t].payload)

\* The payload of a job is its own request's, or that of the ticket it retries.
JobFits(q) ==
  profileJob[q].pc # "none" =>
    /\ profileJob[q].payload \in Requests /\ HasTicket(profileJob[q].payload)
    /\ \/ profileJob[q].payload = q
       \/ /\ request[q].ticket # NoTicket
          /\ ticket[request[q].ticket].payload = profileJob[q].payload

Fits == \A q \in Requests : RequestFits(q) /\ TicketFits(q) /\ JobFits(q)

\* The jobs that may have registered a profile.
Ran(p) == {q \in Requests : profileJob[q].pc \in {"registered", "done"} /\ profileJob[q].payload = p}
Counted == \A p \in Requests : registered[p] <= Cardinality(Ran(p))

\* While purchases are checked one at a time and nothing dies, a profile has the
\* ticket that spends the receipt, or its request is about to create it, and a
\* request that is past the check of the receipt finds no profile.
InTurn ==
  /\ \A q, r \in Requests : request[q].pc \in Spending /\ request[r].pc \in Spending => q = r
  /\ \A q \in Requests : profile[q] # NoSlug => RequestAt(q, "ticket") \/ q \in WithReceipt
  /\ \A q \in Requests : request[q].pc \in {"validate", "profile"} =>
       \A r \in Requests : profile[r] = NoSlug
  /\ \A q, r \in Requests : profile[q] # NoSlug /\ profile[r] # NoSlug => q = r

PurchasesInv ==
  /\ PurchasesTypeOK /\ Fits /\ Counted
  /\ concurrent \/ losses > 0 \/ InTurn

----------------------------------------------------------------------------
(* What the steps do to each variable.                                     *)

LEMMA GotoMoves ==
  ASSUME PurchasesTypeOK, NEW q \in Requests, NEW pc \in RequestPc, RequestGoto(q, pc)
  PROVE  /\ request' \in [Requests -> [pc: RequestPc, buyer: Buyers \cup {NoBuyer},
                                       slug: Slugs \cup {NoSlug}, ticket: Requests \cup {NoTicket}]]
         /\ request'[q].pc = pc /\ request'[q].ticket = request[q].ticket
         /\ \A r \in Requests \ {q} : request'[r] = request[r]
BY DEF PurchasesTypeOK, RequestGoto

LEMMA NewTicketMoves ==
  ASSUME PurchasesTypeOK, NEW q \in Requests, NEW b \in Buyers \cup {NoBuyer},
         NEW p \in Requests \cup {NoTicket}, NEW receipt \in BOOLEAN, NewTicket(q, b, p, receipt)
  PROVE  /\ ticket' \in [Requests -> [state: TicketState, buyer: Buyers \cup {NoBuyer},
                                      payload: Requests \cup {NoTicket}, receipt: BOOLEAN]]
         /\ ticket'[q].state = "pending" /\ ticket'[q].payload = p /\ ticket'[q].receipt = receipt
         /\ \A t \in Requests \ {q} : ticket'[t] = ticket[t]
BY DEF PurchasesTypeOK, NewTicket, TicketState

LEMMA TicketSet ==
  ASSUME PurchasesTypeOK, NEW p \in Requests, NEW state \in TicketState,
         ticket' = [ticket EXCEPT ![p].state = state]
  PROVE  /\ ticket' \in [Requests -> [state: TicketState, buyer: Buyers \cup {NoBuyer},
                                      payload: Requests \cup {NoTicket}, receipt: BOOLEAN]]
         /\ ticket'[p].state = state
         /\ \A t \in Requests : /\ ticket'[t].payload = ticket[t].payload
                                /\ ticket'[t].receipt = ticket[t].receipt
                                /\ t # p => ticket'[t].state = ticket[t].state
BY DEF PurchasesTypeOK

LEMMA JobMoves ==
  ASSUME PurchasesTypeOK, NEW q \in Requests, NEW pc \in JobState,
         profileJob' = [profileJob EXCEPT ![q].pc = pc]
  PROVE  /\ profileJob' \in [Requests -> [pc: JobState, payload: Requests \cup {NoTicket}]]
         /\ profileJob'[q].pc = pc
         /\ \A r \in Requests : /\ profileJob'[r].payload = profileJob[r].payload
                                /\ r # q => profileJob'[r].pc = profileJob[r].pc
BY DEF PurchasesTypeOK

\* The kinds of step: a request goes on, writes a ticket or adds a job, or a job
\* does its work.
Moves(q) ==
  /\ request' \in [Requests -> [pc: RequestPc, buyer: Buyers \cup {NoBuyer},
                                slug: Slugs \cup {NoSlug}, ticket: Requests \cup {NoTicket}]]
  /\ \A r \in Requests \ {q} : request'[r] = request[r]

GoesOn(q) ==
  /\ Moves(q) /\ request'[q].ticket = request[q].ticket
  /\ UNCHANGED <<profile, ticket, profileJob, registered>>
  /\ \/ request'[q].pc = "answered" /\ (RequestAt(q, "ticket") => losses' # 0)
     \/ /\ request[q].pc \in Buying /\ request'[q].pc \in Buying \ {"new"}
        /\ request'[q].pc = "validate" => CheckReceipt(q) /\ WithReceipt = {}
        /\ request'[q].pc = "profile" => RequestAt(q, "validate")

AddsProfile(q) ==
  /\ Moves(q) /\ request'[q].ticket = request[q].ticket
  /\ RequestAt(q, "profile") /\ request'[q].pc = "ticket"
  /\ profile' \in [Requests -> Slugs \cup {NoSlug}]
  /\ \A r \in Requests \ {q} : profile'[r] = profile[r]
  /\ UNCHANGED <<ticket, profileJob, registered>>

StartsRetry(q) ==
  /\ Moves(q) /\ RequestAt(q, "new") /\ request'[q].pc = "retry job"
  /\ request'[q].ticket \in Requests /\ HasTicket(request'[q].ticket)
  /\ UNCHANGED <<profile, ticket, profileJob, registered>>

WritesTicket(q) ==
  /\ Moves(q) /\ request'[q].ticket = request[q].ticket
  /\ ticket' \in [Requests -> [state: TicketState, buyer: Buyers \cup {NoBuyer},
                               payload: Requests \cup {NoTicket}, receipt: BOOLEAN]]
  /\ ticket'[q].state = "pending"
  /\ \A t \in Requests \ {q} : ticket'[t] = ticket[t]
  /\ \/ /\ RequestAt(q, "ticket") /\ request'[q].pc = "job"
        /\ ticket'[q].payload = q /\ ticket'[q].receipt
     \/ /\ RequestAt(q, "retry ticket") /\ request'[q].pc = "answered"
        /\ ticket'[q].payload = ticket[request[q].ticket].payload
  /\ UNCHANGED <<profile, profileJob, registered>>

AddsJob(q) ==
  /\ Moves(q) /\ request'[q].ticket = request[q].ticket
  /\ profileJob' \in [Requests -> [pc: JobState, payload: Requests \cup {NoTicket}]]
  /\ profileJob'[q].pc = "queued"
  /\ \A r \in Requests \ {q} : profileJob'[r] = profileJob[r]
  /\ \/ RequestAt(q, "job") /\ request'[q].pc = "answered" /\ profileJob'[q].payload = q
     \/ /\ RequestAt(q, "retry job") /\ request'[q].pc = "retry ticket"
        /\ profileJob'[q].payload = ticket[request[q].ticket].payload
  /\ UNCHANGED <<profile, ticket, registered>>

\* A job registers its payload, or not, and may set its ticket's state.
Works(q) ==
  /\ profileJob[q].pc \in {"queued", "registered"}
  /\ profileJob' \in [Requests -> [pc: JobState, payload: Requests \cup {NoTicket}]]
  /\ profileJob'[q].pc \in {"registered", "done"}
  /\ \A r \in Requests : /\ profileJob'[r].payload = profileJob[r].payload
                         /\ r # q => profileJob'[r].pc = profileJob[r].pc
  /\ ticket' \in [Requests -> [state: TicketState, buyer: Buyers \cup {NoBuyer},
                               payload: Requests \cup {NoTicket}, receipt: BOOLEAN]]
  /\ \A t \in Requests : /\ ticket'[t].payload = ticket[t].payload
                         /\ ticket'[t].receipt = ticket[t].receipt
                         /\ HasTicket(t) => ticket'[t].state # "none"
                         /\ ~HasTicket(t) => ticket'[t].state = "none"
  /\ \/ UNCHANGED registered
     \/ /\ profileJob[q].pc = "queued"
        /\ registered' = [registered EXCEPT ![profileJob[q].payload] = @ + 1]
  /\ UNCHANGED <<request, profile>>

LEMMA RequestSteps ==
  ASSUME PurchasesInv, NEW q \in Requests,
         \/ \E b \in Buyers, s \in Slugs : FindTicket(q, b, s)
         \/ ValidateSlug(q) \/ CheckReceipt(q) \/ ValidatePurchase(q) \/ CreateProfileRow(q)
         \/ \E t \in Requests : Retry(q, t)
         \/ /\ RequestGoto(q, "answered") /\ losses' # 0
            /\ UNCHANGED <<profile, ticket, profileJob, registered>>
  PROVE  GoesOn(q) \/ AddsProfile(q) \/ StartsRetry(q)
<1>1. PurchasesTypeOK /\ RequestFits(q)
  BY DEF PurchasesInv, Fits
<1>2. ASSUME NEW pc \in RequestPc, RequestGoto(q, pc)
      PROVE  Moves(q) /\ request'[q].pc = pc /\ request'[q].ticket = request[q].ticket
  BY <1>1, <1>2, GotoMoves DEF Moves
<1>3. ASSUME NEW b \in Buyers, NEW s \in Slugs, FindTicket(q, b, s) PROVE GoesOn(q)
  <2> DEFINE pc == IF \E t \in WithReceipt : ticket[t].buyer = b THEN "answered" ELSE "slug"
             row == [pc |-> pc, buyer |-> b, slug |-> s, ticket |-> NoTicket]
  <2>1. /\ row \in [pc: RequestPc, buyer: Buyers \cup {NoBuyer},
                    slug: Slugs \cup {NoSlug}, ticket: Requests \cup {NoTicket}]
        /\ row.ticket = NoTicket /\ row.pc \in {"answered", "slug"}
    BY DEF RequestPc
  <2>2. request' = [request EXCEPT ![q] = row]
    BY <1>3 DEF FindTicket
  <2> HIDE DEF row
  <2>3. Moves(q) /\ request'[q] = row
    BY <1>1, <2>1, <2>2 DEF Moves, PurchasesTypeOK
  <2>4. request[q].ticket = NoTicket /\ request[q].pc \in Buying
    BY <1>1, <1>3 DEF RequestFits, FindTicket, RequestAt, Buying
  <2> QED BY <1>3, <2>1, <2>3, <2>4 DEF GoesOn, FindTicket, Buying, RequestAt
<1>4. ASSUME NEW t \in Requests, Retry(q, t) PROVE StartsRetry(q)
  <2> DEFINE row == [pc |-> "retry job", buyer |-> ticket[t].buyer, slug |-> NoSlug, ticket |-> t]
  <2>1. /\ row \in [pc: RequestPc, buyer: Buyers \cup {NoBuyer},
                    slug: Slugs \cup {NoSlug}, ticket: Requests \cup {NoTicket}]
        /\ row.ticket = t /\ row.pc = "retry job"
    BY <1>1 DEF RequestPc, PurchasesTypeOK
  <2>2. request' = [request EXCEPT ![q] = row]
    BY <1>4 DEF Retry
  <2> HIDE DEF row
  <2>3. Moves(q) /\ request'[q] = row
    BY <1>1, <2>1, <2>2 DEF Moves, PurchasesTypeOK
  <2> QED BY <1>4, <2>1, <2>3 DEF StartsRetry, Retry, HasTicket
<1>5. CASE ValidateSlug(q) \/ CheckReceipt(q) \/ ValidatePurchase(q)
  <2>1. /\ request[q].pc \in Buying /\ ~RequestAt(q, "ticket")
        /\ UNCHANGED <<profile, ticket, profileJob, registered>>
    BY <1>5 DEF ValidateSlug, CheckReceipt, ValidatePurchase, RequestAt, Buying
  <2>2. PICK pc \in {"answered", "receipt", "validate", "profile"} :
          /\ RequestGoto(q, pc)
          /\ pc = "validate" => CheckReceipt(q) /\ WithReceipt = {}
          /\ pc = "profile" => RequestAt(q, "validate")
    BY <1>5 DEF ValidateSlug, CheckReceipt, ValidatePurchase
  <2>3. pc \in RequestPc /\ pc \in {"answered"} \cup (Buying \ {"new"})
    BY DEF RequestPc, Buying
  <2> QED BY <1>2, <2>1, <2>2, <2>3 DEF GoesOn
<1>6. CASE CreateProfileRow(q)
  <2>1. CASE Taken(request[q].slug)
    BY <1>2, <1>6, <2>1 DEF CreateProfileRow, GoesOn, RequestPc, RequestAt
  <2>2. CASE ~Taken(request[q].slug)
    <3>1. /\ RequestGoto(q, "ticket") /\ profile' = [profile EXCEPT ![q] = request[q].slug]
          /\ RequestAt(q, "profile") /\ UNCHANGED <<ticket, profileJob, registered>>
      BY <1>6, <2>2 DEF CreateProfileRow
    <3>2. request[q].slug \in Slugs \cup {NoSlug}
      BY <1>1 DEF PurchasesTypeOK
    <3> QED BY <1>1, <1>2, <3>1, <3>2 DEF AddsProfile, RequestPc, PurchasesTypeOK
  <2> QED BY <2>1, <2>2
<1>7. CASE /\ RequestGoto(q, "answered") /\ losses' # 0
           /\ UNCHANGED <<profile, ticket, profileJob, registered>>
  BY <1>2, <1>7 DEF GoesOn, RequestPc
<1> QED BY <1>3, <1>4, <1>5, <1>6, <1>7

LEMMA TicketSteps ==
  ASSUME PurchasesInv, NEW q \in Requests, CreateTicket(q) \/ RetryTicket(q)
  PROVE  WritesTicket(q)
<1>1. PurchasesTypeOK /\ RequestFits(q)
  BY DEF PurchasesInv, Fits
<1>2. CASE CreateTicket(q)
  <2>1. RequestGoto(q, "job") /\ "job" \in RequestPc /\ request[q].buyer \in Buyers \cup {NoBuyer}
    BY <1>1, <1>2 DEF CreateTicket, RequestPc, PurchasesTypeOK
  <2>2. /\ Moves(q) /\ request'[q].pc = "job" /\ request'[q].ticket = request[q].ticket
    BY <1>1, <2>1, GotoMoves DEF Moves
  <2>3. NewTicket(q, request[q].buyer, q, TRUE)
    BY <1>2 DEF CreateTicket
  <2>4. /\ ticket' \in [Requests -> [state: TicketState, buyer: Buyers \cup {NoBuyer},
                                     payload: Requests \cup {NoTicket}, receipt: BOOLEAN]]
        /\ ticket'[q].state = "pending" /\ ticket'[q].payload = q /\ ticket'[q].receipt
        /\ \A t \in Requests \ {q} : ticket'[t] = ticket[t]
    BY <1>1, <2>1, <2>3, NewTicketMoves
  <2>5. RequestAt(q, "ticket") /\ UNCHANGED <<profile, profileJob, registered>>
    BY <1>2 DEF CreateTicket
  <2> QED BY <2>2, <2>4, <2>5 DEF WritesTicket
<1>3. CASE RetryTicket(q)
  <2> DEFINE t == request[q].ticket
             b == ticket[t].buyer
             p == ticket[t].payload
  <2>1. t \in Requests
    BY <1>1, <1>3 DEF RequestFits, RetryTicket, RequestAt, Retrying, PurchasesTypeOK
  <2>2. b \in Buyers \cup {NoBuyer} /\ p \in Requests \cup {NoTicket}
    BY <1>1, <2>1 DEF PurchasesTypeOK
  <2>3. RequestGoto(q, "answered") /\ "answered" \in RequestPc
    BY <1>3 DEF RetryTicket, RequestPc
  <2>4. /\ Moves(q) /\ request'[q].pc = "answered" /\ request'[q].ticket = request[q].ticket
    BY <1>1, <2>3, GotoMoves DEF Moves
  <2>5. NewTicket(q, b, p, FALSE) /\ FALSE \in BOOLEAN
    BY <1>3 DEF RetryTicket
  <2>6. /\ ticket' \in [Requests -> [state: TicketState, buyer: Buyers \cup {NoBuyer},
                                     payload: Requests \cup {NoTicket}, receipt: BOOLEAN]]
        /\ ticket'[q].state = "pending" /\ ticket'[q].payload = p
        /\ \A r \in Requests \ {q} : ticket'[r] = ticket[r]
    <3> HIDE DEF b, p
    <3> QED BY <1>1, <2>2, <2>5, NewTicketMoves
  <2>7. RequestAt(q, "retry ticket") /\ UNCHANGED <<profile, profileJob, registered>>
    BY <1>3 DEF RetryTicket
  <2> QED BY <2>4, <2>6, <2>7 DEF WritesTicket
<1> QED BY <1>2, <1>3

LEMMA JobSteps ==
  ASSUME PurchasesInv, NEW q \in Requests, AddProfileJob(q) \/ RetryJob(q)
  PROVE  AddsJob(q)
<1>1. PurchasesTypeOK /\ RequestFits(q)
  BY DEF PurchasesInv, Fits
<1>2. ASSUME NEW p \in Requests \cup {NoTicket},
             profileJob' = [profileJob EXCEPT ![q] = [pc |-> "queued", payload |-> p]]
      PROVE  /\ profileJob' \in [Requests -> [pc: JobState, payload: Requests \cup {NoTicket}]]
             /\ profileJob'[q].pc = "queued" /\ profileJob'[q].payload = p
             /\ \A r \in Requests \ {q} : profileJob'[r] = profileJob[r]
  BY <1>1, <1>2 DEF PurchasesTypeOK, JobState
<1>3. CASE AddProfileJob(q)
  <2>1. RequestGoto(q, "answered") /\ "answered" \in RequestPc
    BY <1>3 DEF AddProfileJob, RequestPc
  <2>2. /\ Moves(q) /\ request'[q].pc = "answered" /\ request'[q].ticket = request[q].ticket
    BY <1>1, <2>1, GotoMoves DEF Moves
  <2> QED BY <1>2, <1>3, <2>2 DEF AddsJob, AddProfileJob
<1>4. CASE RetryJob(q)
  <2> DEFINE t == request[q].ticket
  <2>1. t \in Requests
    BY <1>1, <1>4 DEF RequestFits, RetryJob, RequestAt, Retrying, PurchasesTypeOK
  <2>2. ticket[t].payload \in Requests \cup {NoTicket}
    BY <1>1, <2>1 DEF PurchasesTypeOK
  <2>3. RequestGoto(q, "retry ticket") /\ "retry ticket" \in RequestPc
    BY <1>4 DEF RetryJob, RequestPc
  <2>4. /\ Moves(q) /\ request'[q].pc = "retry ticket" /\ request'[q].ticket = request[q].ticket
    BY <1>1, <2>3, GotoMoves DEF Moves
  <2> QED BY <1>2, <1>4, <2>2, <2>4 DEF AddsJob, RetryJob
<1> QED BY <1>3, <1>4

LEMMA WorkSteps ==
  ASSUME PurchasesInv, NEW q \in Requests,
         \/ RegisterProfile(q) \/ FinishProfile(q)
         \/ /\ profileJob[q].pc \in {"queued", "registered"}
            /\ profileJob' = [profileJob EXCEPT ![q].pc = "done"]
            /\ UNCHANGED <<request, profile, ticket, registered>>
  PROVE  Works(q)
<1> DEFINE p == profileJob[q].payload
<1>1. PurchasesTypeOK
  BY DEF PurchasesInv
<1>2. profileJob[q].pc \in {"queued", "registered"}
  BY DEF RegisterProfile, FinishProfile
<1>3. p \in Requests /\ HasTicket(p)
  BY <1>2 DEF PurchasesInv, Fits, JobFits
<1>4. ASSUME NEW pc \in {"registered", "done"}, profileJob' = [profileJob EXCEPT ![q].pc = pc]
      PROVE  /\ profileJob' \in [Requests -> [pc: JobState, payload: Requests \cup {NoTicket}]]
             /\ profileJob'[q].pc = pc
             /\ \A r \in Requests : /\ profileJob'[r].payload = profileJob[r].payload
                                    /\ r # q => profileJob'[r].pc = profileJob[r].pc
  BY <1>1, <1>4, JobMoves DEF JobState
<1>5. ASSUME UNCHANGED ticket
      PROVE  /\ ticket' \in [Requests -> [state: TicketState, buyer: Buyers \cup {NoBuyer},
                                          payload: Requests \cup {NoTicket}, receipt: BOOLEAN]]
             /\ \A t \in Requests : /\ ticket'[t].payload = ticket[t].payload
                                    /\ ticket'[t].receipt = ticket[t].receipt
                                    /\ HasTicket(t) => ticket'[t].state # "none"
                                    /\ ~HasTicket(t) => ticket'[t].state = "none"
  BY <1>1, <1>5 DEF PurchasesTypeOK, HasTicket
<1>6. ASSUME NEW state \in {"failed", "success"}, SetTicket(q, state)
      PROVE  /\ ticket' \in [Requests -> [state: TicketState, buyer: Buyers \cup {NoBuyer},
                                          payload: Requests \cup {NoTicket}, receipt: BOOLEAN]]
             /\ \A t \in Requests : /\ ticket'[t].payload = ticket[t].payload
                                    /\ ticket'[t].receipt = ticket[t].receipt
                                    /\ HasTicket(t) => ticket'[t].state # "none"
                                    /\ ~HasTicket(t) => ticket'[t].state = "none"
             /\ profileJob' = [profileJob EXCEPT ![q].pc = "done"]
  <2>1. ticket' = [ticket EXCEPT ![p].state = state] /\ state \in TicketState
    BY <1>6 DEF SetTicket, TicketState
  <2> HIDE DEF p
  <2>2. /\ ticket' \in [Requests -> [state: TicketState, buyer: Buyers \cup {NoBuyer},
                                     payload: Requests \cup {NoTicket}, receipt: BOOLEAN]]
        /\ ticket'[p].state = state
        /\ \A t \in Requests : /\ ticket'[t].payload = ticket[t].payload
                               /\ ticket'[t].receipt = ticket[t].receipt
                               /\ t # p => ticket'[t].state = ticket[t].state
    BY <1>1, <1>3, <2>1, TicketSet
  <2> QED BY <1>3, <1>6, <2>2 DEF SetTicket, HasTicket
<1>7. CASE RegisterProfile(q)
  <2>1. CASE UNCHANGED ticket
    <3>1. SetTicket(q, "failed") => profileJob' = [profileJob EXCEPT ![q].pc = "done"]
      BY DEF SetTicket
    <3> QED BY <1>2, <1>4, <1>5, <1>7, <2>1, <3>1 DEF RegisterProfile, Works
  <2>2. CASE SetTicket(q, "failed")
    BY <1>2, <1>4, <1>6, <1>7, <2>2 DEF RegisterProfile, Works
  <2> QED BY <1>7, <2>1, <2>2 DEF RegisterProfile
<1>8. CASE FinishProfile(q)
  <2>1. PICK state \in {"failed", "success"} : SetTicket(q, state)
    BY <1>8 DEF FinishProfile
  <2> QED BY <1>2, <1>4, <1>6, <1>8, <2>1 DEF FinishProfile, Works
<1>9. CASE /\ profileJob' = [profileJob EXCEPT ![q].pc = "done"]
           /\ UNCHANGED <<request, profile, ticket, registered>>
  BY <1>2, <1>4, <1>5, <1>9 DEF Works
<1> QED BY <1>7, <1>8, <1>9

Kinds(q) ==
  GoesOn(q) \/ AddsProfile(q) \/ StartsRetry(q) \/ WritesTicket(q) \/ AddsJob(q) \/ Works(q)

\* Every step is a step of one request or of its job.
LEMMA PurchaseSteps ==
  ASSUME PurchasesInv, PurchasesNext
  PROVE  \E q \in Requests : Kinds(q)
<1>1. CASE Lose
  <2>1. PICK q \in Requests :
          \/ RequestGoto(q, "answered") /\ UNCHANGED profileJob
          \/ /\ profileJob[q].pc \in {"queued", "registered"} /\ UNCHANGED request
             /\ profileJob' = [profileJob EXCEPT ![q].pc = "done"]
    BY <1>1 DEF Lose
  <2>2. UNCHANGED <<profile, ticket, registered>> /\ losses' # 0
    BY <1>1, PurchasesAssumption DEF Lose, PurchasesInv, PurchasesTypeOK
  <2> QED BY <2>1, <2>2, RequestSteps, WorkSteps DEF Kinds
<1>2. CASE ~Lose
  <2>1. PICK q \in Requests :
       \/ \E b \in Buyers, s \in Slugs : FindTicket(q, b, s)
       \/ ValidateSlug(q) \/ CheckReceipt(q) \/ ValidatePurchase(q) \/ CreateProfileRow(q)
       \/ CreateTicket(q) \/ AddProfileJob(q)
       \/ \E t \in Requests : Retry(q, t)
       \/ RetryJob(q) \/ RetryTicket(q) \/ RegisterProfile(q) \/ FinishProfile(q)
    BY <1>2 DEF PurchasesNext
  <2> QED BY <2>1, RequestSteps, TicketSteps, JobSteps, WorkSteps DEF Kinds
<1> QED BY <1>1, <1>2

----------------------------------------------------------------------------
(* The types, and who has which ticket and job.                            *)

LEMMA PurchaseTypesKept ==
  ASSUME PurchasesInv, PurchasesNext
  PROVE  PurchasesTypeOK'
<1>1. PurchasesTypeOK
  BY DEF PurchasesInv
<1>2. PICK q \in Requests : Kinds(q)
  BY PurchaseSteps
<1>3. losses' \in 0..MaxLosses
  <2>1. losses' = losses \/ (losses < MaxLosses /\ losses' = losses + 1)
    BY DEF PurchasesNext, Lose, FindTicket, ValidateSlug, CheckReceipt, ValidatePurchase,
           CreateProfileRow, CreateTicket, AddProfileJob, Retry, RetryJob, RetryTicket,
           RegisterProfile, FinishProfile
  <2> QED BY <1>1, <2>1, PurchasesAssumption DEF PurchasesTypeOK
<1>4. concurrent' \in BOOLEAN
  BY <1>1 DEF PurchasesTypeOK, PurchasesNext, Lose, FindTicket, ValidateSlug, CheckReceipt,
              ValidatePurchase, CreateProfileRow, CreateTicket, AddProfileJob, Retry, RetryJob,
              RetryTicket, RegisterProfile, FinishProfile
<1>5. registered' \in [Requests -> Nat]
  <2>1. CASE UNCHANGED registered
    BY <1>1, <2>1 DEF PurchasesTypeOK
  <2>2. CASE Works(q)
    <3> DEFINE p == profileJob[q].payload
    <3>1. UNCHANGED registered \/ registered' = [registered EXCEPT ![p] = @ + 1]
      BY <2>2 DEF Works
    <3>2. registered \in [Requests -> Nat]
      BY <1>1 DEF PurchasesTypeOK
    <3> HIDE DEF p
    <3> QED BY <3>1, <3>2
  <2> QED BY <1>2, <2>1, <2>2 DEF Kinds, GoesOn, AddsProfile, StartsRetry, WritesTicket, AddsJob
<1>6. /\ request' \in [Requests -> [pc: RequestPc, buyer: Buyers \cup {NoBuyer},
                                    slug: Slugs \cup {NoSlug}, ticket: Requests \cup {NoTicket}]]
      /\ profile' \in [Requests -> Slugs \cup {NoSlug}]
  BY <1>1, <1>2 DEF PurchasesTypeOK, Kinds, GoesOn, AddsProfile, StartsRetry, WritesTicket,
                    AddsJob, Works, Moves
<1>7. /\ ticket' \in [Requests -> [state: TicketState, buyer: Buyers \cup {NoBuyer},
                                   payload: Requests \cup {NoTicket}, receipt: BOOLEAN]]
      /\ profileJob' \in [Requests -> [pc: JobState, payload: Requests \cup {NoTicket}]]
  BY <1>1, <1>2 DEF PurchasesTypeOK, Kinds, GoesOn, AddsProfile, StartsRetry, WritesTicket,
                    AddsJob, Works
<1> QED BY <1>3, <1>4, <1>5, <1>6, <1>7 DEF PurchasesTypeOK

LEMMA FitsWhenRequestMoves ==
  ASSUME PurchasesInv, NEW q \in Requests, GoesOn(q) \/ AddsProfile(q) \/ StartsRetry(q)
  PROVE  Fits'
<1>1. \A r \in Requests : RequestFits(r) /\ TicketFits(r) /\ JobFits(r)
  BY DEF PurchasesInv, Fits
<1>2. UNCHANGED <<ticket, profileJob>>
  BY DEF GoesOn, AddsProfile, StartsRetry
<1>3. ASSUME NEW r \in Requests PROVE RequestFits(r)'
  <2>1. CASE r # q
    BY <1>1, <1>2, <2>1 DEF GoesOn, AddsProfile, StartsRetry, Moves, RequestFits, RequestAt, HasTicket
  <2>2. CASE r = q
    <3>1. RequestFits(q)
      BY <1>1
    <3>2. CASE GoesOn(q)
      BY <1>2, <2>2, <3>1, <3>2
      DEF GoesOn, RequestFits, RequestAt, HasTicket, Buying, Retrying
    <3>3. CASE AddsProfile(q)
      BY <1>2, <2>2, <3>1, <3>3
      DEF AddsProfile, RequestFits, RequestAt, HasTicket, Buying, Retrying
    <3>4. CASE StartsRetry(q)
      BY <1>2, <2>2, <3>1, <3>4, PurchasesAssumption
      DEF StartsRetry, RequestFits, RequestAt, HasTicket, Buying, Retrying
    <3> QED BY <3>2, <3>3, <3>4
  <2> QED BY <2>1, <2>2
<1>4. ASSUME NEW r \in Requests PROVE TicketFits(r)'
  BY <1>1, <1>2 DEF TicketFits, HasTicket
<1>5. ASSUME NEW r \in Requests PROVE JobFits(r)'
  <2>1. CASE request'[r].ticket = request[r].ticket
    BY <1>1, <1>2, <2>1 DEF JobFits, HasTicket
  <2>2. CASE StartsRetry(q) /\ r = q
    BY <1>1, <1>2, <2>2 DEF StartsRetry, RequestFits, JobFits, RequestAt
  <2> QED BY <2>1, <2>2 DEF GoesOn, AddsProfile, StartsRetry, Moves
<1> QED BY <1>3, <1>4, <1>5 DEF Fits

LEMMA FitsWhenTicketIsWritten ==
  ASSUME PurchasesInv, NEW q \in Requests, WritesTicket(q)
  PROVE  Fits'
<1>1. \A r \in Requests : RequestFits(r) /\ TicketFits(r) /\ JobFits(r)
  BY DEF PurchasesInv, Fits
<1>2. ~HasTicket(q) /\ HasTicket(q)' /\ UNCHANGED profileJob
  BY <1>1 DEF WritesTicket, RequestFits, RequestAt, Retrying, HasTicket
<1>3. \A t \in Requests : HasTicket(t) => HasTicket(t)' /\ ticket'[t] = ticket[t]
  BY <1>2 DEF WritesTicket, HasTicket
<1>4. \A r \in Requests : request[r].ticket \in Requests \cup {NoTicket}
  BY DEF PurchasesInv, PurchasesTypeOK
<1>5. \A r \in Requests : request'[r].ticket = request[r].ticket
  BY DEF WritesTicket, Moves
<1>6. ASSUME NEW r \in Requests PROVE RequestFits(r)'
  <2>0. RequestFits(r) /\ request[r].ticket \in Requests \cup {NoTicket}
    BY <1>1, <1>4
  <2>1. CASE r # q
    BY <1>3, <2>0, <2>1 DEF WritesTicket, Moves, RequestFits, RequestAt, HasTicket
  <2>2. CASE r = q
    <3>1. request'[q].ticket # NoTicket => ticket'[request'[q].ticket].state # "none"
      BY <1>3, <1>5, <2>0, <2>2 DEF RequestFits, HasTicket
    <3>2. CASE RequestAt(q, "ticket")
      BY <1>2, <2>0, <2>2, <3>1, <3>2
      DEF WritesTicket, RequestFits, RequestAt, HasTicket, Buying, Retrying
    <3>3. CASE RequestAt(q, "retry ticket")
      BY <1>2, <2>0, <2>2, <3>1, <3>3
      DEF WritesTicket, RequestFits, RequestAt, HasTicket, Buying, Retrying
    <3> QED BY <3>2, <3>3 DEF WritesTicket
  <2> QED BY <2>1, <2>2
<1>7. ticket'[q].payload \in Requests /\ ticket'[ticket'[q].payload].state # "none"
  <2>1. CASE RequestAt(q, "ticket")
    BY <1>2, <2>1 DEF WritesTicket, RequestAt, HasTicket
  <2>2. CASE RequestAt(q, "retry ticket")
    <3>1. request[q].ticket \in Requests /\ HasTicket(request[q].ticket)
      BY <1>1, <1>4, <2>2 DEF RequestFits, RequestAt, Retrying
    <3>2. /\ ticket[request[q].ticket].payload \in Requests
          /\ HasTicket(ticket[request[q].ticket].payload)
      BY <1>1, <3>1 DEF TicketFits
    <3> QED BY <1>3, <2>2, <3>2 DEF WritesTicket, RequestAt, HasTicket
  <2> QED BY <2>1, <2>2 DEF WritesTicket
<1>8. ASSUME NEW r \in Requests PROVE TicketFits(r)'
  BY <1>1, <1>2, <1>3, <1>7 DEF TicketFits, WritesTicket, HasTicket
<1>9. ASSUME NEW r \in Requests PROVE JobFits(r)'
  <2>1. request[r].ticket # NoTicket => ticket'[request[r].ticket] = ticket[request[r].ticket]
    BY <1>1, <1>3, <1>4 DEF RequestFits
  <2> QED BY <1>1, <1>2, <1>3, <1>5, <2>1 DEF JobFits
<1> QED BY <1>6, <1>8, <1>9 DEF Fits

LEMMA FitsWhenJobIsAdded ==
  ASSUME PurchasesInv, NEW q \in Requests, AddsJob(q)
  PROVE  Fits'
<1>1. \A r \in Requests : RequestFits(r) /\ TicketFits(r) /\ JobFits(r)
  BY DEF PurchasesInv, Fits
<1>2. UNCHANGED ticket /\ \A r \in Requests : request'[r].ticket = request[r].ticket
  BY DEF AddsJob, Moves
<1>3. ASSUME NEW r \in Requests PROVE RequestFits(r)'
  <2>0. RequestFits(r)
    BY <1>1
  <2>1. CASE r # q
    BY <1>2, <2>0, <2>1 DEF AddsJob, Moves, RequestFits, RequestAt, HasTicket
  <2>2. CASE r = q
    BY <1>2, <2>0, <2>2 DEF AddsJob, RequestFits, RequestAt, HasTicket, Buying, Retrying
  <2> QED BY <2>1, <2>2
<1>4. ASSUME NEW r \in Requests PROVE TicketFits(r)'
  BY <1>1, <1>2 DEF TicketFits, HasTicket
<1>5. ASSUME NEW r \in Requests PROVE JobFits(r)'
  <2>1. CASE r # q
    BY <1>1, <1>2, <2>1 DEF AddsJob, JobFits, HasTicket
  <2>2. CASE r = q /\ RequestAt(q, "job")
    BY <1>1, <1>2, <2>2 DEF AddsJob, JobFits, HasTicket, RequestFits, RequestAt
  <2>3. CASE r = q /\ RequestAt(q, "retry job")
    <3>1. request[q].ticket # NoTicket /\ HasTicket(request[q].ticket)
      BY <1>1, <2>3 DEF RequestFits, RequestAt, Retrying
    <3>2. request[q].ticket \in Requests
      BY <3>1 DEF PurchasesInv, PurchasesTypeOK
    <3>3. /\ ticket[request[q].ticket].payload \in Requests
          /\ HasTicket(ticket[request[q].ticket].payload)
      BY <1>1, <3>1, <3>2 DEF TicketFits
    <3> QED BY <1>2, <2>3, <3>1, <3>3 DEF AddsJob, JobFits, HasTicket, RequestAt
  <2> QED BY <2>1, <2>2, <2>3 DEF AddsJob
<1> QED BY <1>3, <1>4, <1>5 DEF Fits

LEMMA FitsWhenJobWorks ==
  ASSUME PurchasesInv, NEW q \in Requests, Works(q)
  PROVE  Fits'
<1>1. \A r \in Requests : RequestFits(r) /\ TicketFits(r) /\ JobFits(r)
  BY DEF PurchasesInv, Fits
<1>2. UNCHANGED <<request, profile>> /\ profileJob[q].pc # "none"
  BY DEF Works
<1>3. \A t \in Requests : (HasTicket(t)' <=> HasTicket(t)) /\ ticket'[t].payload = ticket[t].payload
  BY DEF Works, HasTicket
<1>4. \A r \in Requests : /\ request[r].ticket \in Requests \cup {NoTicket}
                          /\ profileJob'[r].payload = profileJob[r].payload
                          /\ profileJob'[r].pc # "none" => profileJob[r].pc # "none"
  BY <1>2 DEF Works, PurchasesInv, PurchasesTypeOK
<1>5. ASSUME NEW r \in Requests PROVE RequestFits(r)'
  <2>1. RequestFits(r) /\ request[r].ticket \in Requests \cup {NoTicket}
    BY <1>1, <1>4
  <2>2. request[r].ticket # NoTicket => ticket'[request[r].ticket].state # "none"
    BY <1>3, <2>1 DEF RequestFits, HasTicket
  <2>3. /\ request[r].pc \notin {"retry ticket", "answered"} => profileJob'[r].pc = "none"
    BY <1>4, <2>1 DEF RequestFits
  <2>4. (HasTicket(r)' <=> HasTicket(r)) /\ ticket'[r].payload = ticket[r].payload
    BY <1>3
  <2> QED BY <1>2, <2>1, <2>2, <2>3, <2>4 DEF RequestFits, RequestAt, HasTicket
<1>6. ASSUME NEW r \in Requests PROVE TicketFits(r)'
  BY <1>1, <1>3 DEF TicketFits, HasTicket
<1>7. ASSUME NEW r \in Requests PROVE JobFits(r)'
  <2>1. JobFits(r) /\ request[r].ticket \in Requests \cup {NoTicket}
    BY <1>1, <1>4
  <2> QED BY <1>2, <1>3, <1>4, <2>1 DEF JobFits, HasTicket
<1> QED BY <1>5, <1>6, <1>7 DEF Fits

----------------------------------------------------------------------------
(* Each registration is that of a job.                                     *)

LEMMA RanGrows ==
  ASSUME NEW S \in SUBSET Requests, NEW T \in SUBSET Requests, S \subseteq T
  PROVE  /\ Cardinality(S) \in Nat /\ Cardinality(T) \in Nat
         /\ Cardinality(S) <= Cardinality(T)
         /\ \A q \in T \ S : Cardinality(S) + 1 <= Cardinality(T)
<1>1. IsFiniteSet(S) /\ IsFiniteSet(T)
  BY PurchasesAssumption, FS_Subset
<1>2. Cardinality(S) \in Nat /\ Cardinality(T) \in Nat /\ Cardinality(S) <= Cardinality(T)
  BY <1>1, FS_Subset, FS_CardinalityType
<1>3. ASSUME NEW q \in T \ S PROVE Cardinality(S) + 1 <= Cardinality(T)
  <2>1. Cardinality(S \cup {q}) = Cardinality(S) + 1
    BY <1>1, <1>3, FS_AddElement
  <2>2. Cardinality(S \cup {q}) <= Cardinality(T)
    BY <1>1, <1>3, FS_Subset
  <2> QED BY <2>1, <2>2
<1> QED BY <1>2, <1>3

LEMMA CountedKept ==
  ASSUME PurchasesInv, PurchasesNext
  PROVE  Counted'
<1> SUFFICES ASSUME NEW p \in Requests PROVE registered'[p] <= Cardinality(Ran(p)')
  BY DEF Counted
<1>1. registered[p] <= Cardinality(Ran(p)) /\ registered[p] \in Nat
  BY DEF PurchasesInv, Counted, PurchasesTypeOK
<1>2. PICK q \in Requests : Kinds(q)
  BY PurchaseSteps
<1>3. Ran(p) \in SUBSET Requests /\ Ran(p)' \in SUBSET Requests
  BY DEF Ran
<1>4. Ran(p) \subseteq Ran(p)'
  <2>1. CASE Works(q)
    BY <2>1 DEF Works, Ran
  <2>2. CASE AddsJob(q)
    <3>1. profileJob[q].pc = "none"
      BY <2>2 DEF AddsJob, PurchasesInv, Fits, RequestFits, RequestAt
    <3> QED BY <2>2, <3>1 DEF AddsJob, Ran
  <2>3. CASE UNCHANGED profileJob
    BY <2>3 DEF Ran
  <2> QED BY <1>2, <2>1, <2>2, <2>3 DEF Kinds, GoesOn, AddsProfile, StartsRetry, WritesTicket
<1>5. CASE UNCHANGED registered
  BY <1>1, <1>3, <1>4, <1>5, RanGrows
<1>6. CASE /\ Works(q) /\ profileJob[q].pc = "queued"
           /\ registered' = [registered EXCEPT ![profileJob[q].payload] = @ + 1]
  <2>1. registered \in [Requests -> Nat]
    BY DEF PurchasesInv, PurchasesTypeOK
  <2>2. CASE p = profileJob[q].payload
    <3>1. q \in Ran(p)' /\ q \notin Ran(p)
      BY <1>6, <2>2 DEF Works, Ran
    <3>2. registered'[p] = registered[p] + 1
      BY <1>6, <2>1, <2>2
    <3>3. Cardinality(Ran(p)) + 1 <= Cardinality(Ran(p)')
      BY <1>3, <1>4, <3>1, RanGrows
    <3>4. Cardinality(Ran(p)) \in Nat /\ Cardinality(Ran(p)') \in Nat
      BY <1>3, <1>4, RanGrows
    <3> QED BY <1>1, <3>2, <3>3, <3>4
  <2>3. CASE p # profileJob[q].payload
    <3>1. registered'[p] = registered[p]
      BY <1>6, <2>1, <2>3
    <3> QED BY <1>1, <1>3, <1>4, <3>1, RanGrows
  <2> QED BY <2>2, <2>3
<1> QED BY <1>2, <1>5, <1>6 DEF Kinds, GoesOn, AddsProfile, StartsRetry, WritesTicket, AddsJob, Works

----------------------------------------------------------------------------
(* One purchase at a time.                                                 *)

Alone == ~concurrent /\ losses = 0

LEMMA AloneBefore ==
  ASSUME PurchasesInv, PurchasesNext, Alone'
  PROVE  /\ Alone /\ InTurn
         /\ \A q \in Requests : CheckReceipt(q) =>
              \A r \in Requests : request[r].pc \notin Spending
<1>1. concurrent \in BOOLEAN /\ losses \in 0..MaxLosses
  BY DEF PurchasesInv, PurchasesTypeOK
<1>2. losses = 0
  <2>1. losses' = losses \/ losses' = losses + 1
    BY DEF PurchasesNext, Lose, FindTicket, ValidateSlug, CheckReceipt, ValidatePurchase,
           CreateProfileRow, CreateTicket, AddProfileJob, Retry, RetryJob, RetryTicket,
           RegisterProfile, FinishProfile
  <2> QED BY <1>1, <2>1, PurchasesAssumption DEF Alone
<1>3. ~concurrent
  BY DEF Alone, PurchasesNext, Lose, FindTicket, ValidateSlug, CheckReceipt, ValidatePurchase,
         CreateProfileRow, CreateTicket, AddProfileJob, Retry, RetryJob, RetryTicket,
         RegisterProfile, FinishProfile
<1>4. \A q \in Requests : CheckReceipt(q) => \A r \in Requests : request[r].pc \notin Spending
  BY DEF Alone, CheckReceipt
<1> QED BY <1>2, <1>3, <1>4 DEF Alone, PurchasesInv

\* A ticket that spends the receipt goes on doing so.
LEMMA SpentStays ==
  ASSUME PurchasesInv, PurchasesNext
  PROVE  WithReceipt \subseteq WithReceipt'
<1>1. PICK q \in Requests : Kinds(q)
  BY PurchaseSteps
<1>2. CASE WritesTicket(q)
  <2>1. ~HasTicket(q)
    BY <1>2 DEF WritesTicket, PurchasesInv, Fits, RequestFits, RequestAt, Retrying
  <2> QED BY <1>2, <2>1 DEF WritesTicket, WithReceipt, HasTicket
<1>3. CASE Works(q)
  BY <1>3 DEF Works, WithReceipt, HasTicket
<1>4. CASE UNCHANGED ticket
  BY <1>4 DEF WithReceipt
<1> QED BY <1>1, <1>2, <1>3, <1>4 DEF Kinds, GoesOn, AddsProfile, StartsRetry, AddsJob

\* A request gets past the check of the receipt by making it.
LEMMA WayToSpending ==
  ASSUME PurchasesInv, NEW q \in Requests, Kinds(q), NEW r \in Requests,
         request'[r].pc \in Spending
  PROVE  \/ /\ r = q /\ request'[q].pc = "validate" /\ CheckReceipt(q) /\ WithReceipt = {}
            /\ UNCHANGED profile
         \/ /\ request[r].pc \in Spending
            /\ request'[r].pc \in {"validate", "profile"} =>
                 request[r].pc \in {"validate", "profile"}
<1>1. CASE r # q
  BY <1>1 DEF Kinds, GoesOn, AddsProfile, StartsRetry, WritesTicket, AddsJob, Works, Moves
<1>2. CASE r = q /\ GoesOn(q)
  BY <1>2 DEF GoesOn, Spending, Buying, RequestAt
<1>3. CASE r = q /\ AddsProfile(q)
  BY <1>3 DEF AddsProfile, Spending, RequestAt
<1>4. CASE r = q /\ (StartsRetry(q) \/ WritesTicket(q) \/ AddsJob(q))
  BY <1>4 DEF StartsRetry, WritesTicket, AddsJob, Spending
<1>5. CASE Works(q)
  BY <1>5 DEF Works
<1> QED BY <1>1, <1>2, <1>3, <1>4, <1>5 DEF Kinds

LEMMA InTurnKept ==
  ASSUME PurchasesInv, PurchasesNext, Alone'
  PROVE  InTurn'
<1>1. /\ InTurn /\ WithReceipt \subseteq WithReceipt'
      /\ \A q \in Requests : CheckReceipt(q) =>
           \A r \in Requests : request[r].pc \notin Spending
  BY AloneBefore, SpentStays
<1>2. PICK q \in Requests : Kinds(q)
  BY PurchaseSteps
<1>3. \A r \in Requests : profile'[r] # profile[r] => AddsProfile(q) /\ r = q
  BY <1>2 DEF Kinds, GoesOn, AddsProfile, StartsRetry, WritesTicket, AddsJob, Works
<1>4. AddsProfile(q) => request[q].pc \in Spending /\ RequestAt(q, "profile")
  BY DEF AddsProfile, RequestAt, Spending
<1>5. ASSUME NEW r \in Requests, NEW s \in Requests,
             request'[r].pc \in Spending, request'[s].pc \in Spending
      PROVE  r = s
  BY <1>1, <1>2, <1>5, WayToSpending DEF InTurn
<1>6. ASSUME NEW r \in Requests, profile'[r] # NoSlug
      PROVE  request'[r].pc = "ticket" \/ r \in WithReceipt'
  <2>1. CASE AddsProfile(q) /\ r = q
    BY <2>1 DEF AddsProfile
  <2>2. CASE profile'[r] = profile[r] /\ r \in WithReceipt
    BY <1>1, <2>2
  <2>3. CASE profile'[r] = profile[r] /\ RequestAt(r, "ticket")
    <3>1. CASE r # q \/ Works(q)
      BY <1>2, <2>3, <3>1
      DEF Kinds, GoesOn, AddsProfile, StartsRetry, WritesTicket, AddsJob, Works, Moves, RequestAt
    <3>2. CASE r = q /\ WritesTicket(q)
      BY <2>3, <3>2 DEF WritesTicket, RequestAt, WithReceipt
    <3>3. CASE r = q /\ GoesOn(q)
      BY <2>3, <3>3 DEF GoesOn, RequestAt, Alone, Buying
    <3>4. CASE r = q /\ (AddsProfile(q) \/ StartsRetry(q) \/ AddsJob(q))
      BY <2>3, <3>4 DEF AddsProfile, StartsRetry, AddsJob, RequestAt
    <3> QED BY <1>2, <3>1, <3>2, <3>3, <3>4 DEF Kinds
  <2> QED BY <1>1, <1>3, <1>6, <2>1, <2>2, <2>3 DEF InTurn
<1>7. ASSUME NEW r \in Requests, request'[r].pc \in {"validate", "profile"}
      PROVE  \A s \in Requests : profile'[s] = NoSlug
  <2>1. \/ /\ WithReceipt = {} /\ UNCHANGED profile
           /\ \A s \in Requests : request[s].pc \notin Spending
        \/ request[r].pc \in {"validate", "profile"} /\ request[r].pc \in Spending
    BY <1>1, <1>2, <1>7, WayToSpending DEF Spending
  <2>2. CASE /\ WithReceipt = {} /\ UNCHANGED profile
             /\ \A s \in Requests : request[s].pc \notin Spending
    BY <1>1, <2>2 DEF InTurn, RequestAt, Spending
  <2>3. CASE request[r].pc \in {"validate", "profile"} /\ request[r].pc \in Spending
    <3>1. \A s \in Requests : profile[s] = NoSlug
      BY <1>1, <2>3 DEF InTurn
    <3>2. AddsProfile(q) => q = r
      BY <1>1, <1>4, <2>3 DEF InTurn
    <3>3. ~AddsProfile(q)
      BY <1>7, <3>2 DEF AddsProfile
    <3> QED BY <1>3, <3>1, <3>3
  <2> QED BY <2>1, <2>2, <2>3
<1>8. ASSUME NEW r \in Requests, NEW s \in Requests, profile'[r] # NoSlug, profile'[s] # NoSlug
      PROVE  r = s
  <2>1. CASE AddsProfile(q)
    <3>1. \A t \in Requests : profile[t] = NoSlug
      BY <1>1, <1>4, <2>1 DEF InTurn, RequestAt
    <3> QED BY <1>3, <1>8, <3>1
  <2>2. CASE ~AddsProfile(q)
    BY <1>1, <1>3, <1>8, <2>2 DEF InTurn
  <2> QED BY <2>1, <2>2
<1> QED BY <1>5, <1>6, <1>7, <1>8 DEF InTurn, RequestAt

----------------------------------------------------------------------------
(* The theorems.                                                           *)

LEMMA PurchasesStart == PurchasesInit => PurchasesInv
<1> SUFFICES ASSUME PurchasesInit PROVE PurchasesInv
  OBVIOUS
<1>1. PurchasesTypeOK
  <2>1. /\ losses \in 0..MaxLosses /\ concurrent \in BOOLEAN
        /\ registered \in [Requests -> Nat] /\ profile \in [Requests -> Slugs \cup {NoSlug}]
    <3>1. losses \in 0..MaxLosses
      BY PurchasesAssumption DEF PurchasesInit
    <3>2. concurrent \in BOOLEAN
      BY DEF PurchasesInit
    <3>3. registered \in [Requests -> Nat] /\ profile \in [Requests -> Slugs \cup {NoSlug}]
      BY DEF PurchasesInit
    <3> QED BY <3>1, <3>2, <3>3
  <2>2. /\ request \in [Requests -> [pc: RequestPc, buyer: Buyers \cup {NoBuyer},
                                     slug: Slugs \cup {NoSlug}, ticket: Requests \cup {NoTicket}]]
        /\ profileJob \in [Requests -> [pc: JobState, payload: Requests \cup {NoTicket}]]
    BY DEF PurchasesInit, RequestPc, JobState
  <2>3. ticket \in [Requests -> [state: TicketState, buyer: Buyers \cup {NoBuyer},
                                payload: Requests \cup {NoTicket}, receipt: BOOLEAN]]
    BY DEF PurchasesInit, TicketState
  <2> QED BY <2>1, <2>2, <2>3 DEF PurchasesTypeOK
<1>2. Fits
  BY DEF PurchasesInit, Fits, RequestFits, TicketFits, JobFits, RequestAt, HasTicket, Buying,
         Retrying
<1>3. Counted
  <2>1. ASSUME NEW p \in Requests PROVE registered[p] <= Cardinality(Ran(p))
    <3>1. registered[p] = 0 /\ Cardinality(Ran(p)) \in Nat
      BY RanGrows DEF PurchasesInit, Ran
    <3> QED BY <3>1
  <2> QED BY <2>1 DEF Counted
<1>4. InTurn
  BY DEF PurchasesInit, InTurn, RequestAt, Spending
<1> QED BY <1>1, <1>2, <1>3, <1>4 DEF PurchasesInv

LEMMA PurchasesStep == PurchasesInv /\ [PurchasesNext]_purchaseVars => PurchasesInv'
<1> SUFFICES ASSUME PurchasesInv, [PurchasesNext]_purchaseVars PROVE PurchasesInv'
  OBVIOUS
<1>1. CASE PurchasesNext
  <2>1. PurchasesTypeOK' /\ Counted'
    BY <1>1, PurchaseTypesKept, CountedKept
  <2>2. PICK q \in Requests : Kinds(q)
    BY <1>1, PurchaseSteps
  <2>3. Fits'
    BY <2>2, FitsWhenRequestMoves, FitsWhenTicketIsWritten, FitsWhenJobIsAdded,
       FitsWhenJobWorks DEF Kinds
  <2>4. losses' \in Nat
    BY <2>1, PurchasesAssumption DEF PurchasesTypeOK
  <2>5. (concurrent \/ losses > 0 \/ InTurn)'
    BY <1>1, <2>4, InTurnKept DEF Alone
  <2> QED BY <2>1, <2>3, <2>5 DEF PurchasesInv
<1>2. CASE UNCHANGED purchaseVars
  <2>1. PurchasesTypeOK'
    BY <1>2 DEF purchaseVars, PurchasesInv, PurchasesTypeOK
  <2>2. Fits'
    <3>1. \A q \in Requests : /\ RequestFits(q)' = RequestFits(q)
                             /\ TicketFits(q)' = TicketFits(q) /\ JobFits(q)' = JobFits(q)
      BY <1>2 DEF purchaseVars, RequestFits, TicketFits, JobFits, RequestAt, HasTicket
    <3> QED BY <3>1 DEF PurchasesInv, Fits
  <2>3. Counted'
    BY <1>2 DEF purchaseVars, PurchasesInv, Counted, Ran
  <2>4. (concurrent \/ losses > 0 \/ InTurn)'
    BY <1>2 DEF purchaseVars, PurchasesInv, InTurn, WithReceipt, RequestAt
  <2> QED BY <2>1, <2>2, <2>3, <2>4 DEF PurchasesInv
<1> QED BY <1>1, <1>2

\* A registration is that of the purchase's job or of a retry's.
LEMMA PurchasesInvImplies == PurchasesInv => OneProfilePerReceipt
<1> SUFFICES ASSUME PurchasesInv PROVE OneProfilePerReceipt
  OBVIOUS
<1>1. ASSUME NEW p \in Requests PROVE registered[p] <= 1 + Retries(p)
  <2> DEFINE retries == {q \in Requests : /\ request[q].ticket # NoTicket
                                          /\ ticket[request[q].ticket].payload = p}
  <2>1. Ran(p) \subseteq retries \cup {p}
    BY DEF Ran, PurchasesInv, Fits, JobFits
  <2>2. IsFiniteSet(retries) /\ IsFiniteSet(retries \cup {p})
    BY PurchasesAssumption, FS_Subset, FS_AddElement
  <2>3. /\ Cardinality(retries) \in Nat /\ Cardinality(retries \cup {p}) \in Nat
        /\ Cardinality(retries \cup {p}) <= Cardinality(retries) + 1
    <3>1. Cardinality(retries \cup {p}) = Cardinality(retries)
            \/ Cardinality(retries \cup {p}) = Cardinality(retries) + 1
      BY <2>2, FS_AddElement
    <3> QED BY <2>2, <3>1, FS_CardinalityType
  <2>4. Cardinality(Ran(p)) \in Nat /\ Cardinality(Ran(p)) <= Cardinality(retries \cup {p})
    BY <2>1, RanGrows
  <2>5. registered[p] \in Nat /\ registered[p] <= Cardinality(Ran(p))
    BY DEF PurchasesInv, Counted, PurchasesTypeOK
  <2>6. Retries(p) = Cardinality(retries)
    BY DEF Retries
  <2> HIDE DEF retries
  <2> QED BY <2>3, <2>4, <2>5, <2>6
<1>2. ASSUME InTurn PROVE Cardinality({q \in Requests : profile[q] # NoSlug}) <= 1
  <2> DEFINE bought == {q \in Requests : profile[q] # NoSlug}
  <2>1. CASE bought = {}
    BY <2>1, FS_EmptySet
  <2>2. CASE bought # {}
    <3>1. PICK q \in Requests : bought = {q}
      BY <1>2, <2>2 DEF InTurn
    <3>2. Cardinality(bought) = 1
      BY <3>1, FS_Singleton
    <3> QED BY <3>2
  <2> QED BY <2>1, <2>2
<1> QED BY <1>1, <1>2 DEF PurchasesInv, OneProfilePerReceipt

\* Every variable of the purchases keeps its type.
THEOREM PurchasesTypeCorrect == PurchasesSpec => []PurchasesTypeOK
<1>1. PurchasesInv => PurchasesTypeOK
  BY DEF PurchasesInv
<1> QED BY <1>1, PurchasesStart, PurchasesStep, PTL DEF PurchasesSpec

\* A receipt buys one profile, whoever sends it and however often, and that profile
\* is registered at most once for the purchase and once for each retry of its
\* ticket, as long as no two purchases are checked at a time and nothing dies
\* between the profile and the ticket.
THEOREM ReceiptBuysOnce == PurchasesSpec => []OneProfilePerReceipt
BY PurchasesStart, PurchasesStep, PurchasesInvImplies, PTL DEF PurchasesSpec
==============================================================================
