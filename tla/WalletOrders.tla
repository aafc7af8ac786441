----------------------------- MODULE WalletOrders -----------------------------
(***************************************************************************)
(* Prepaid cards bought with the Wyre wallet.  A user reserves a card      *)
(* (POST /reservations) and buys funds with Wyre under an order id; the    *)
(* wallet app tells the hub which reservation the order is for (POST       *)
(* /orders), and Wyre calls back when the funds reach the user's custodial *)
(* wallet (the wyre-transfer job then moves them to the admin wallet) and  *)
(* when they reach the admin wallet.  Whichever of the order and the last  *)
(* callback comes second has the relay server provision the card.          *)
(*                                                                         *)
(* Every query is a step of its own: the status of an order is read and    *)
(* written by different queries, without a transaction.  The handlers that *)
(* run at once are Handlers; Wyre, the relay server and the subgraph are   *)
(* external.  A call or a query that fails, and a process that dies, are   *)
(* steps counted by troubles.                                              *)
(***************************************************************************)
EXTENDS Integers

CONSTANTS
  Orders,         \* order ids, each of one user's wallet
  Users,
  OrderUser,      \* the user whose wallet an order is for
  Reservations,   \* ids that reservations may be given
  Handlers,       \* requests and job runs in progress at a time
  MaxPosts,       \* bound: POST /orders for an order
  MaxCallbacks,   \* bound: callbacks of each kind for an order
  MaxTransfers,   \* bound: transfers of an order
  MaxTroubles,    \* bound: failed calls and dead processes
  NoOne

ASSUME OrdersAssumption ==
  /\ Orders # {} /\ OrderUser \in [Orders -> Users] /\ NoOne \notin Reservations
  /\ MaxPosts \in Nat /\ MaxCallbacks \in Nat /\ MaxTransfers \in Nat /\ MaxTroubles \in Nat

VARIABLES
  order,        \* rows of wallet_orders
  reservation,  \* rows of reservations
  transferJob,  \* orders with a wyre-transfer job in the queue
  handler,      \* control state and locals of each handler
  transfers,    \* Wyre's transfers from the custodial to the admin wallet
  cards,        \* cards the relay provisioned for each order
  posts, sends, receives,  \* requests and callbacks so far for each order
  raced,        \* orders that were written on the ground of a stale read
  troubles

asked == <<posts, sends, receives>>
ordersVars == <<order, reservation, transferJob, handler, transfers, cards, posts,
                sends, receives, raced, troubles>>

----------------------------------------------------------------------------
(* Types. *)

Statuses == {"none", "waiting-for-order", "received-order", "waiting-for-reservation",
             "provisioning", "error-provisioning", "complete"}
OrderRow == [status: Statuses, reservation: Reservations \cup {NoOne},
             transfer: 0..MaxTransfers]
ReservationRow == [state: {"unused", "live", "deleted"}, user: Users]
\* The steps at which a handler will write what follows from the row it read.
Writing == {"post write", "send write", "transfer write", "mined write", "error write"}
HandlerPc == {"idle", "reserve delete", "reserve insert", "receive add", "send read",
              "transfer read", "provision", "await card", "mined read",
              "error find", "error read"} \cup Writing
HandlerState == [pc: HandlerPc, order: Orders, user: Users,
                 reservation: Reservations \cup {NoOne}, status: Statuses,
                 transfer: 0..MaxTransfers, stale: BOOLEAN]

OrdersTypeOK ==
  /\ order \in [Orders -> OrderRow]
  /\ reservation \in [Reservations -> ReservationRow]
  /\ transferJob \subseteq Orders
  /\ handler \in [Handlers -> HandlerState]
  /\ transfers \in [Orders -> 0..MaxTransfers]
  /\ cards \in [Orders -> Nat]
  /\ posts \in [Orders -> 0..MaxPosts]
  /\ sends \in [Orders -> 0..MaxCallbacks] /\ receives \in [Orders -> 0..MaxCallbacks]
  /\ raced \subseteq Orders /\ troubles \in 0..MaxTroubles

\* A handler for a user or for an order, at a step.
Handler(pc, o, u, r) == [pc |-> pc, order |-> o, user |-> u, reservation |-> r,
                         status |-> "none", transfer |-> 0, stale |-> FALSE]
NoRequest == Handler("idle", CHOOSE o \in Orders : TRUE, CHOOSE u \in Users : TRUE, NoOne)
OrderHandler(pc, o) == Handler(pc, o, OrderUser[o], NoOne)

OrdersInit ==
  /\ order = [o \in Orders |-> [status |-> "none", reservation |-> NoOne, transfer |-> 0]]
  /\ reservation = [r \in Reservations |->
       [state |-> "unused", user |-> CHOOSE u \in Users : TRUE]]
  /\ transferJob = {} /\ handler = [h \in Handlers |-> NoRequest]
  /\ transfers = [o \in Orders |-> 0] /\ cards = [o \in Orders |-> 0]
  /\ posts = [o \in Orders |-> 0] /\ sends = [o \in Orders |-> 0]
  /\ receives = [o \in Orders |-> 0] /\ raced = {} /\ troubles = 0

----------------------------------------------------------------------------
(* The state machine of an order. *)

FollowsEarly(row, event, s) ==
  \/ event = "received-reservation" /\ s = "provisioning"
     /\ row.status \in {"received-order", "waiting-for-reservation"}
  \/ event = "wyre-receive-funds" /\ row.status = "none" /\ s = "received-order"
FollowsAgain(row, event, s) ==
  \/ /\ event = "received-reservation"
     /\ \/ row.status = "none" /\ s = "waiting-for-order"
        \/ row.status = "received-order" /\ s = "received-order"
        \/ row.status \in {"waiting-for-reservation", "provisioning"} /\ s = "provisioning"
  \/ /\ event = "wyre-receive-funds" /\ s = "received-order"
     /\ row.status \in {"none", "waiting-for-order"}
  \/ /\ event = "wyre-send-funds" /\ row.status = "received-order"
     /\ s = IF row.reservation = NoOne THEN "waiting-for-reservation" ELSE "provisioning"
FollowsFromNone(row, event, s) ==
  \/ event = "received-reservation" /\ row.status = "none" /\ s = "waiting-for-order"
  \/ event = "wyre-receive-funds" /\ row.status = "none" /\ s = "received-order"

\* nextOrderStatus: s is the status after event, of an order with this row.
Follows(row, event, s) ==
  \/ /\ event = "received-reservation"
     /\ \/ row.status = "none" /\ s = "waiting-for-order"
        \/ row.status = "received-order" /\ s = "received-order"
        \/ row.status = "waiting-for-reservation" /\ s = "provisioning"
  \/ /\ event = "wyre-receive-funds" /\ s = "received-order"
     /\ row.status \in {"none", "waiting-for-order"}
  \/ /\ event = "wyre-send-funds" /\ row.status = "received-order"
     /\ s = IF row.reservation = NoOne THEN "waiting-for-reservation" ELSE "provisioning"
  \/ event = "provision-mined" /\ row.status = "provisioning" /\ s = "complete"
  \/ event = "provision-error" /\ row.status = "provisioning" /\ s = "error-provisioning"
Handled(row, event) == \E s \in Statuses : Follows(row, event, s)

At(h, pc) == handler[h].pc = pc
Enter(h, state) == handler' = [handler EXCEPT ![h] = state]
Resume(h, pc) == Enter(h, [handler[h] EXCEPT !.pc = pc])
Leave(h) == Enter(h, NoRequest)

\* A handler in this state reads the order's row and will write what follows from
\* it, if the row handles the event.
ReadStatus(h, state, event, write) ==
  \E s \in Statuses :
    /\ Follows(order[state.order], event, s)
    /\ Enter(h, [state EXCEPT !.pc = write, !.status = s, !.stale = FALSE])

\* The handler writes the order's row and goes to state: what other handlers have
\* read of it and did not write yet is stale.
WriteOrder(h, row, state) ==
  LET o == handler[h].order IN
  /\ order' = [order EXCEPT ![o] = row]
  /\ handler' = [g \in Handlers |->
       IF g = h THEN state
       ELSE IF handler[g].order = o /\ handler[g].pc \in Writing
         THEN [handler[g] EXCEPT !.stale = TRUE] ELSE handler[g]]
  /\ raced' = IF handler[h].stale THEN raced \cup {o} ELSE raced

\* updateOrderStatus, its second query: the status alone.
WriteStatus(h, state) ==
  WriteOrder(h, [order[handler[h].order] EXCEPT !.status = handler[h].status], state)

\* After its write a handler is done, or provisions the card.
AfterUpdate(me) ==
  IF me.status = "provisioning"
    THEN Handler("provision", me.order, me.user, me.reservation) ELSE NoRequest

----------------------------------------------------------------------------
(* Reservations. *)

Attached(r) == \E o \in Orders : order[o].reservation = r

\* POST /reservations found a card in the inventory (which is not modelled).
Reserve(h, u) ==
  /\ At(h, "idle")
  /\ Enter(h, Handler("reserve delete", CHOOSE o \in Orders : TRUE, u, NoOne))
  /\ UNCHANGED <<order, reservation, transferJob, transfers, cards, asked, raced, troubles>>

ReserveDeleteAll(h) ==
  /\ At(h, "reserve delete") /\ Resume(h, "reserve insert")
  /\ reservation' = [r \in Reservations |->
       IF reservation[r].state = "live" /\ reservation[r].user = handler[h].user
         THEN [reservation[r] EXCEPT !.state = "deleted"] ELSE reservation[r]]
  /\ UNCHANGED <<order, transferJob, transfers, cards, asked, raced, troubles>>

\* The user's reservations without an order are deleted ...
ReserveDelete(h) ==
  /\ At(h, "reserve delete") /\ Resume(h, "reserve insert")
  /\ reservation' = [r \in Reservations |->
       IF reservation[r].state = "live" /\ reservation[r].user = handler[h].user /\ ~Attached(r)
         THEN [reservation[r] EXCEPT !.state = "deleted"] ELSE reservation[r]]
  /\ UNCHANGED <<order, transferJob, transfers, cards, asked, raced, troubles>>

\* ... and the new one is inserted.
ReserveInsert(h) ==
  /\ At(h, "reserve insert") /\ Leave(h)
  /\ \E r \in Reservations :
       /\ reservation[r].state = "unused"
       /\ reservation' = [reservation EXCEPT ![r] = [state |-> "live", user |-> handler[h].user]]
  /\ UNCHANGED <<order, transferJob, transfers, cards, asked, raced, troubles>>

----------------------------------------------------------------------------
(* POST /orders. *)

\* validateOrder and nextOrderStatus; an event that is not handled throws.
Post(h, o, r) ==
  /\ At(h, "idle") /\ posts[o] < MaxPosts
  /\ reservation[r].state = "live" /\ reservation[r].user = OrderUser[o]
  /\ posts' = [posts EXCEPT ![o] = @ + 1]
  /\ IF Handled(order[o], "received-reservation")
       THEN ReadStatus(h, [OrderHandler("idle", o) EXCEPT !.reservation = r],
                       "received-reservation", "post write")
       ELSE UNCHANGED handler
  /\ UNCHANGED <<order, reservation, transferJob, transfers, cards, sends, receives, raced,
                 troubles>>

PostWriteStatus(h) ==
  /\ At(h, "post write")
  /\ IF reservation[handler[h].reservation].state = "live"
       THEN WriteStatus(h, AfterUpdate(handler[h])) ELSE Leave(h) /\ UNCHANGED <<order, raced>>
  /\ UNCHANGED <<reservation, transferJob, transfers, cards, asked, troubles>>

\* The upsert, which the foreign key refuses when the reservation is deleted.
PostWrite(h) ==
  LET me == handler[h] IN
  /\ At(h, "post write")
  /\ IF reservation[me.reservation].state = "live"
       THEN WriteOrder(h, [order[me.order] EXCEPT !.status = me.status, !.reservation = me.reservation],
                       AfterUpdate(me))
       ELSE Leave(h) /\ UNCHANGED <<order, raced>>
  /\ UNCHANGED <<reservation, transferJob, transfers, cards, asked, troubles>>

----------------------------------------------------------------------------
(* Wyre's callbacks and the wyre-transfer job. *)

\* The funds are in the user's custodial wallet (validateWalletReceive).  An order
\* past waiting-for-order is taken to be processed already.
Receive(h, o) ==
  /\ At(h, "idle") /\ receives[o] < MaxCallbacks
  /\ receives' = [receives EXCEPT ![o] = @ + 1]
  /\ IF order[o].status \in {"none", "waiting-for-order"}
       THEN Enter(h, OrderHandler("receive add", o)) ELSE UNCHANGED handler
  /\ UNCHANGED <<order, reservation, transferJob, transfers, cards, posts, sends, raced,
                 troubles>>

\* The order id is the key of the job: one that is still queued is replaced.
ReceiveAdd(h) ==
  /\ At(h, "receive add") /\ Leave(h)
  /\ transferJob' = transferJob \cup {handler[h].order}
  /\ UNCHANGED <<order, reservation, transfers, cards, asked, raced, troubles>>

\* A run of the job moves the funds before it looks at the order.
Transfer(h, o) ==
  /\ At(h, "idle") /\ o \in transferJob /\ transfers[o] < MaxTransfers
  /\ transferJob' = transferJob \ {o}
  /\ transfers' = [transfers EXCEPT ![o] = @ + 1]
  /\ Enter(h, [OrderHandler("transfer read", o) EXCEPT !.transfer = transfers[o] + 1])
  /\ UNCHANGED <<order, reservation, cards, asked, raced, troubles>>

\* An event that is not handled fails the job, and it is retried.
TransferRead(h) ==
  LET o == handler[h].order IN
  /\ At(h, "transfer read")
  /\ IF Handled(order[o], "wyre-receive-funds")
       THEN /\ ReadStatus(h, handler[h], "wyre-receive-funds", "transfer write")
            /\ UNCHANGED transferJob
       ELSE Leave(h) /\ transferJob' = transferJob \cup {o}
  /\ UNCHANGED <<order, reservation, transfers, cards, asked, raced, troubles>>

TransferWrite(h) ==
  LET me == handler[h] IN
  /\ At(h, "transfer write")
  /\ WriteOrder(h, [order[me.order] EXCEPT !.status = me.status, !.transfer = me.transfer], NoRequest)
  /\ UNCHANGED <<reservation, transferJob, transfers, cards, asked, troubles>>

\* Transfer t is complete (validateWalletSend).  The callback is ignored unless an
\* order waits for just this transfer.
Send(h, o, t) ==
  /\ At(h, "idle") /\ sends[o] < MaxCallbacks /\ t <= transfers[o]
  /\ sends' = [sends EXCEPT ![o] = @ + 1]
  /\ IF order[o].transfer = t /\ order[o].status = "received-order"
       THEN Enter(h, OrderHandler("send read", o)) ELSE UNCHANGED handler
  /\ UNCHANGED <<order, reservation, transferJob, transfers, cards, posts, receives, raced,
                 troubles>>

SendReadUnchecked(h) ==
  LET row == order[handler[h].order] IN
  /\ At(h, "send read")
  /\ Enter(h, [handler[h] EXCEPT !.reservation = row.reservation, !.pc = "send write",
        !.status = IF row.reservation = NoOne THEN "waiting-for-reservation" ELSE "provisioning"])
  /\ UNCHANGED <<order, reservation, transferJob, transfers, cards, asked, raced, troubles>>

SendRead(h) ==
  LET row == order[handler[h].order] IN
  /\ At(h, "send read")
  /\ IF Handled(row, "wyre-send-funds")
       THEN ReadStatus(h, [handler[h] EXCEPT !.reservation = row.reservation],
                       "wyre-send-funds", "send write")
       ELSE Leave(h)
  /\ UNCHANGED <<order, reservation, transferJob, transfers, cards, asked, raced, troubles>>

SendWrite(h) ==
  LET me == handler[h] IN
  /\ At(h, "send write")
  /\ WriteStatus(h, AfterUpdate(me))
  /\ UNCHANGED <<reservation, transferJob, transfers, cards, asked, troubles>>

----------------------------------------------------------------------------
(* provisionPrepaidCard, and what its callers do after it. *)

\* The relay server provisions a card for the reservation, if it still exists.
Provision(h) ==
  LET me == handler[h] IN
  /\ At(h, "provision")
  /\ IF reservation[me.reservation].state = "live"
       THEN Resume(h, "await card") /\ cards' = [cards EXCEPT ![me.order] = @ + 1]
       ELSE Leave(h) /\ UNCHANGED cards
  /\ UNCHANGED <<order, reservation, transferJob, transfers, asked, raced, troubles>>

RelayErrorIgnored(h) ==
  /\ At(h, "provision") /\ reservation[handler[h].reservation].state = "live" /\ Leave(h)
  /\ UNCHANGED <<order, reservation, transferJob, transfers, cards, asked, raced, troubles>>

\* The relay server refuses.
RelayError(h) ==
  /\ At(h, "provision") /\ reservation[handler[h].reservation].state = "live"
  /\ Resume(h, "error find")
  /\ UNCHANGED <<order, reservation, transferJob, transfers, cards, asked, raced, troubles>>

\* The error goes to whichever order has the reservation, if any.
ErrorFind(h) ==
  LET found == {o \in Orders : order[o].reservation = handler[h].reservation} IN
  /\ At(h, "error find")
  /\ \/ found = {} /\ Leave(h)
     \/ \E o \in found : Enter(h, [handler[h] EXCEPT !.pc = "error read", !.order = o])
  /\ UNCHANGED <<order, reservation, transferJob, transfers, cards, asked, raced, troubles>>

ErrorRead(h) ==
  /\ At(h, "error read")
  /\ IF Handled(order[handler[h].order], "provision-error")
       THEN ReadStatus(h, handler[h], "provision-error", "error write") ELSE Leave(h)
  /\ UNCHANGED <<order, reservation, transferJob, transfers, cards, asked, raced, troubles>>

ErrorWrite(h) ==
  /\ At(h, "error write") /\ WriteStatus(h, NoRequest)
  /\ UNCHANGED <<reservation, transferJob, transfers, cards, asked, troubles>>

\* The subgraph has the card.
AwaitCard(h) ==
  /\ At(h, "await card") /\ Resume(h, "mined read")
  /\ UNCHANGED <<order, reservation, transferJob, transfers, cards, asked, raced, troubles>>

MinedRead(h) ==
  /\ At(h, "mined read")
  /\ IF Handled(order[handler[h].order], "provision-mined")
       THEN ReadStatus(h, handler[h], "provision-mined", "mined write") ELSE Leave(h)
  /\ UNCHANGED <<order, reservation, transferJob, transfers, cards, asked, raced, troubles>>

MinedWrite(h) ==
  /\ At(h, "mined write") /\ WriteStatus(h, NoRequest)
  /\ UNCHANGED <<reservation, transferJob, transfers, cards, asked, troubles>>

\* A query or the subgraph fails, or the process dies.  A run of the job is then
\* retried, unless it is the upsert that failed: that error is only logged.
Trouble(h) ==
  /\ ~At(h, "idle") /\ troubles < MaxTroubles /\ troubles' = troubles + 1 /\ Leave(h)
  /\ \/ /\ handler[h].pc \in {"transfer read", "transfer write"}
        /\ transferJob' = transferJob \cup {handler[h].order}
     \/ ~At(h, "transfer read") /\ UNCHANGED transferJob
  /\ UNCHANGED <<order, reservation, transfers, cards, asked, raced>>

----------------------------------------------------------------------------

HandlerStep(h) ==
  \/ ReserveDelete(h) \/ ReserveInsert(h) \/ PostWrite(h) \/ ReceiveAdd(h)
  \/ TransferRead(h) \/ TransferWrite(h) \/ SendRead(h) \/ SendWrite(h)
  \/ Provision(h) \/ RelayError(h) \/ ErrorFind(h) \/ ErrorRead(h) \/ ErrorWrite(h)
  \/ AwaitCard(h) \/ MinedRead(h) \/ MinedWrite(h)

Requested(h) ==
  \/ \E u \in Users : Reserve(h, u)
  \/ \E o \in Orders :
       \/ Receive(h, o) \/ Transfer(h, o)
       \/ \E r \in Reservations : Post(h, o, r)
       \/ \E t \in 1..MaxTransfers : Send(h, o, t)

OrdersNext == \E h \in Handlers : Requested(h) \/ HandlerStep(h) \/ Trouble(h)

\* Node runs every continuation; nobody has to send a request.
OrdersFairness == \A h \in Handlers : WF_ordersVars(HandlerStep(h))

OrdersSpec == OrdersInit /\ [][OrdersNext]_ordersVars
FairOrdersSpec == OrdersSpec /\ OrdersFairness

----------------------------------------------------------------------------
(* Properties. *)

\* A card is provisioned only for an order whose funds left for the admin wallet
\* and which a reservation was attached to: order.ts, provisioning is reached
\* through both of wyre-send-funds and received-reservation.
CardIsPaidFor ==
  \A o \in Orders : cards[o] > 0 => transfers[o] > 0 /\ order[o].reservation # NoOne

\* However the requests of an order overlap and whatever fails, one of them does
\* not provision: an order that was posted once and whose callback came once gets
\* one card at most (routes/orders.ts, routes/wyre-callback.ts).
OneRequestSpare == \A o \in Orders : cards[o] > 0 => cards[o] < posts[o] + sends[o]

\* Repeated requests and callbacks get an order a second card only when one of its
\* rows was written on the ground of a read that another handler made stale.
OneCardUnlessRaced == \A o \in Orders : cards[o] > 1 => o \in raced

\* With one callback for the funds received, and no failure, the funds are moved
\* once (wyre-transfer.ts transfers before it looks at the order).
TransferredOnce ==
  troubles = 0 => \A o \in Orders : receives[o] <= 1 => transfers[o] <= 1

\* The reservation that a handler is about to provision has not been deleted by
\* the user's next POST /reservations meanwhile, unless the order was raced.
ReservationKept ==
  \A h \in Handlers : At(h, "provision") /\ handler[h].order \notin raced =>
    reservation[handler[h].reservation].state = "live"

\* A status changes along the diagram of order.ts or is written on a stale read.
OrderEvents == {"received-reservation", "wyre-receive-funds", "wyre-send-funds",
            "provision-mined", "provision-error"}
FollowsDiagram ==
  [][\A o \in Orders :
       \/ order'[o].status = order[o].status \/ o \in raced'
       \/ \E event \in OrderEvents : Follows(order[o], event, order'[o].status)]_ordersVars

\* An order whose card is being provisioned ends complete or in error, unless it
\* was raced, something failed, or two orders share its reservation.
Shared(o) ==
  \E p \in Orders \ {o} : order[p].reservation = order[o].reservation
ProvisioningEnds ==
  \A o \in Orders : order[o].status = "provisioning" ~>
    \/ order[o].status \in {"complete", "error-provisioning"}
    \/ o \in raced \/ troubles > 0 \/ Shared(o)
==============================================================================
