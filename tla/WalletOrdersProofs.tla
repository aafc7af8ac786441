-------------------------- MODULE WalletOrdersProofs --------------------------
(***************************************************************************)
(* Wallet orders, for any number of orders, users, reservations and        *)
(* handlers, and any failures: statuses follow the diagram of order.ts, a  *)
(* card is paid for and has a live reservation, an order gets a second one *)
(* only when it was raced and never as many as its posts and callbacks,    *)
(* and its funds move once if nothing fails.                               *)
(***************************************************************************)
EXTENDS WalletOrders, FiniteSetTheorems, TLAPS

----------------------------------------------------------------------------
(* The inductive invariant. *)

\* The event whose consequence a handler is about to write.
EventOf(pc) ==
  CASE pc = "post write" -> "received-reservation"
    [] pc = "send write" -> "wyre-send-funds"
    [] pc = "transfer write" -> "wyre-receive-funds"
    [] pc = "mined write" -> "provision-mined"
    [] pc = "error write" -> "provision-error"

\* A write that is not stale is what follows from the row.
Current ==
  \A h \in Handlers :
    handler[h].pc \in Writing /\ ~handler[h].stale =>
      Follows(order[handler[h].order], EventOf(handler[h].pc), handler[h].status)

\* Statuses of an order whose funds were received, and whose card was asked for.
Received == {"received-order", "waiting-for-reservation", "provisioning",
             "error-provisioning", "complete"}
Asked == {"provisioning", "error-provisioning", "complete"}

\* The funds of an order left before its status says that they were received.
FundsMoved ==
  /\ \A o \in Orders :
       order[o].status \in Received \/ cards[o] > 0 => transfers[o] > 0
  /\ \A h \in Handlers :
       \/ handler[h].pc \in {"transfer read", "transfer write", "provision"}
       \/ handler[h].pc \in Writing /\ handler[h].status \in Received
       => transfers[handler[h].order] > 0

\* An order keeps a reservation, which stays live while it has it, and a card is
\* provisioned for an order with a reservation.
Attachments ==
  /\ \A o \in Orders :
       /\ order[o].reservation # NoOne => reservation[order[o].reservation].state = "live"
       /\ cards[o] > 0 => order[o].reservation # NoOne
  /\ \A h \in Handlers :
       /\ handler[h].pc = "post write" => handler[h].reservation # NoOne
       /\ \/ handler[h].pc = "provision"
          \/ handler[h].pc = "send write" /\ handler[h].status = "provisioning"
          => order[handler[h].order].reservation # NoOne

\* An order that was not raced is provisioned once, for its reservation, after it
\* is asked for.
OneProvision ==
  /\ \A o \in Orders \ raced : cards[o] <= 1 /\ (cards[o] > 0 => order[o].status \in Asked)
  /\ \A g \in Handlers : handler[g].pc = "provision" /\ handler[g].order \notin raced =>
       /\ cards[handler[g].order] = 0 /\ order[handler[g].order].status \in Asked
       /\ handler[g].reservation = order[handler[g].order].reservation
  /\ \A g, k \in Handlers :
       /\ handler[g].pc = "provision" /\ handler[k].pc = "provision"
       /\ handler[g].order = handler[k].order /\ handler[g].order \notin raced
       => g = k
\* A send write knows the reservation of the row it read.
Known ==
  \A h \in Handlers :
    handler[h].pc = "send write" /\ ~handler[h].stale =>
      handler[h].reservation = order[handler[h].order].reservation

OrdersInv == OrdersTypeOK /\ Current /\ Known /\ FundsMoved /\ Attachments /\ OneProvision

----------------------------------------------------------------------------
(* Handlers as records. *)

LEMMA HandlerMade ==
  ASSUME NEW pc \in HandlerPc, NEW o \in Orders, NEW u \in Users,
         NEW r \in Reservations \cup {NoOne}
  PROVE  /\ Handler(pc, o, u, r) \in HandlerState
         /\ Handler(pc, o, u, r).pc = pc /\ Handler(pc, o, u, r).order = o
         /\ Handler(pc, o, u, r).reservation = r
<1>1. 0 \in 0..MaxTransfers
  BY OrdersAssumption DEF OrdersAssumption
<1> QED BY <1>1 DEF Handler, HandlerState, Statuses

LEMMA NoRequestTyped == NoRequest \in HandlerState /\ NoRequest.pc = "idle"
<1>1. (CHOOSE o \in Orders : TRUE) \in Orders
  BY OrdersAssumption DEF OrdersAssumption
<1>2. (CHOOSE u \in Users : TRUE) \in Users
  <2>1. \E u \in Users : TRUE
    BY OrdersAssumption DEF OrdersAssumption
  <2> QED BY <2>1
<1> DEFINE o == CHOOSE o \in Orders : TRUE
           u == CHOOSE u \in Users : TRUE
<1>3. NoRequest = Handler("idle", o, u, NoOne)
  BY DEF NoRequest
<1>4. "idle" \in HandlerPc /\ NoOne \in Reservations \cup {NoOne}
  BY DEF HandlerPc
<1>5. o \in Orders /\ u \in Users
  BY <1>1, <1>2
<1> HIDE DEF o, u
<1> QED BY <1>3, <1>4, <1>5, HandlerMade

LEMMA HandlerIs ==
  ASSUME NEW pc \in HandlerPc, NEW o \in Orders, NEW u \in Users,
         NEW r \in Reservations \cup {NoOne}, NEW x, x = Handler(pc, o, u, r)
  PROVE  x \in HandlerState /\ x.pc = pc /\ x.order = o /\ x.reservation = r
  BY HandlerMade

LEMMA OrderHandlerMade ==
  ASSUME NEW pc \in HandlerPc, NEW o \in Orders
  PROVE  /\ OrderHandler(pc, o) \in HandlerState
         /\ OrderHandler(pc, o).pc = pc /\ OrderHandler(pc, o).order = o
<1>1. OrderUser[o] \in Users /\ NoOne \in Reservations \cup {NoOne}
  BY OrdersAssumption DEF OrdersAssumption
<1> DEFINE u == OrderUser[o]
<1>2. OrderHandler(pc, o) = Handler(pc, o, u, NoOne)
  BY DEF OrderHandler
<1> HIDE DEF u
<1> QED BY <1>1, <1>2, HandlerIs DEF u

LEMMA UserHandlerMade ==
  ASSUME NEW pc \in HandlerPc, NEW u \in Users
  PROVE  LET x == Handler(pc, CHOOSE o \in Orders : TRUE, u, NoOne) IN
         x \in HandlerState /\ x.pc = pc
<1>1. (CHOOSE o \in Orders : TRUE) \in Orders
  BY OrdersAssumption DEF OrdersAssumption
<1> DEFINE o == CHOOSE o \in Orders : TRUE
           r == NoOne
<1>2. o \in Orders /\ r \in Reservations \cup {NoOne}
  BY <1>1
<1> HIDE DEF o, r
<1>3. Handler(pc, o, u, r) \in HandlerState /\ Handler(pc, o, u, r).pc = pc
  BY <1>2, HandlerMade
<1> QED BY <1>3 DEF o, r

\* A handler that only goes on.
LEMMA Went ==
  ASSUME OrdersTypeOK, NEW h \in Handlers, NEW pc \in HandlerPc, Resume(h, pc)
  PROVE  /\ handler' \in [Handlers -> HandlerState]
         /\ handler'[h].pc = pc /\ handler'[h].order = handler[h].order
         /\ handler'[h].status = handler[h].status /\ handler'[h].stale = handler[h].stale
         /\ handler'[h].reservation = handler[h].reservation
         /\ \A g \in Handlers \ {h} : handler'[g] = handler[g]
<1> DEFINE x == [handler[h] EXCEPT !.pc = pc]
<1>1. handler[h] \in HandlerState /\ handler \in [Handlers -> HandlerState]
  BY DEF OrdersTypeOK
<1>2. x \in HandlerState /\ x.pc = pc /\ x.order = handler[h].order
      /\ x.status = handler[h].status /\ x.stale = handler[h].stale
      /\ x.reservation = handler[h].reservation
  BY <1>1 DEF HandlerState
<1>3. handler' = [handler EXCEPT ![h] = x]
  BY DEF Resume, Enter
<1> HIDE DEF x
<1> QED BY <1>1, <1>2, <1>3

\* A handler that enters a state.
LEMMA Entered ==
  ASSUME OrdersTypeOK, NEW h \in Handlers, NEW state \in HandlerState, Enter(h, state)
  PROVE  /\ handler' \in [Handlers -> HandlerState] /\ handler'[h] = state
         /\ \A g \in Handlers \ {h} : handler'[g] = handler[g]
  BY DEF OrdersTypeOK, Enter

\* A handler that reads the row of its order.
LEMMA RowRead ==
  ASSUME OrdersTypeOK, NEW h \in Handlers, NEW state \in HandlerState, NEW event,
         NEW write \in Writing, ReadStatus(h, state, event, write)
  PROVE  /\ handler' \in [Handlers -> HandlerState]
         /\ handler'[h].pc = write /\ handler'[h].order = state.order
         /\ handler'[h].reservation = state.reservation
         /\ Follows(order[state.order], event, handler'[h].status)
         /\ \A g \in Handlers \ {h} : handler'[g] = handler[g]
<1>1. PICK s \in Statuses :
        /\ Follows(order[state.order], event, s)
        /\ Enter(h, [state EXCEPT !.pc = write, !.status = s, !.stale = FALSE])
  BY DEF ReadStatus
<1> DEFINE x == [state EXCEPT !.pc = write]
           y == [x EXCEPT !.status = s]
           z == [y EXCEPT !.stale = FALSE]
<1>2. write \in HandlerPc
  BY DEF HandlerPc
<1>3. x \in HandlerState /\ x.pc = write /\ x.order = state.order
      /\ x.reservation = state.reservation
  BY <1>2 DEF HandlerState
<1>4. Enter(h, z)
  BY <1>1
<1> HIDE DEF x
<1>5. y \in HandlerState /\ y.pc = write /\ y.order = state.order
      /\ y.reservation = state.reservation /\ y.status = s
  BY <1>3 DEF HandlerState
<1> HIDE DEF y
<1>6. z \in HandlerState /\ z.pc = write /\ z.order = state.order
      /\ z.reservation = state.reservation /\ z.status = s
  BY <1>5 DEF HandlerState
<1> HIDE DEF z
<1> QED BY <1>1, <1>4, <1>6, Entered

\* A handler that writes a row: the others' reads of it become stale.
LEMMA RowWritten ==
  ASSUME OrdersTypeOK, NEW h \in Handlers, NEW row \in OrderRow, NEW state \in HandlerState,
         WriteOrder(h, row, state)
  PROVE  /\ order' \in [Orders -> OrderRow] /\ handler' \in [Handlers -> HandlerState]
         /\ order'[handler[h].order] = row
         /\ \A p \in Orders \ {handler[h].order} : order'[p] = order[p]
         /\ handler'[h] = state
         /\ \A g \in Handlers \ {h} :
              /\ handler'[g].pc = handler[g].pc /\ handler'[g].order = handler[g].order
              /\ handler'[g].status = handler[g].status
              /\ handler'[g].reservation = handler[g].reservation
              /\ handler[g].stale => handler'[g].stale
              /\ handler[g].order = handler[h].order /\ handler[g].pc \in Writing =>
                   handler'[g].stale
         /\ raced \subseteq raced' /\ raced' \subseteq Orders
         /\ handler[h].stale => handler[h].order \in raced'
<1> DEFINE o == handler[h].order
           x(g) == [handler[g] EXCEPT !.stale = TRUE]
<1>1. order \in [Orders -> OrderRow] /\ handler \in [Handlers -> HandlerState]
      /\ raced \subseteq Orders /\ o \in Orders
  BY DEF OrdersTypeOK, HandlerState
<1>2. ASSUME NEW g \in Handlers
      PROVE  /\ x(g) \in HandlerState /\ x(g).pc = handler[g].pc
             /\ x(g).order = handler[g].order /\ x(g).status = handler[g].status
             /\ x(g).reservation = handler[g].reservation /\ x(g).stale = TRUE
  <2>1. handler[g] \in HandlerState
    BY <1>1
  <2> QED BY <2>1 DEF HandlerState
<1>3. /\ order' = [order EXCEPT ![o] = row]
      /\ handler' = [g \in Handlers |->
           IF g = h THEN state
           ELSE IF handler[g].order = o /\ handler[g].pc \in Writing THEN x(g) ELSE handler[g]]
      /\ raced' = IF handler[h].stale THEN raced \cup {o} ELSE raced
  BY DEF WriteOrder
<1> HIDE DEF x, o
<1>4. /\ order' \in [Orders -> OrderRow] /\ order'[o] = row
      /\ \A p \in Orders \ {o} : order'[p] = order[p]
  BY <1>1, <1>3
<1>5. /\ raced \subseteq raced' /\ raced' \subseteq Orders /\ (handler[h].stale => o \in raced')
  BY <1>1, <1>3
<1>6. handler' \in [Handlers -> HandlerState] /\ handler'[h] = state
  BY <1>1, <1>2, <1>3
<1>7. ASSUME NEW g \in Handlers \ {h}
      PROVE  /\ handler'[g].pc = handler[g].pc /\ handler'[g].order = handler[g].order
             /\ handler'[g].status = handler[g].status
             /\ handler'[g].reservation = handler[g].reservation
             /\ handler[g].stale => handler'[g].stale
             /\ handler[g].order = o /\ handler[g].pc \in Writing => handler'[g].stale
  BY <1>2, <1>3, <1>7
<1> QED BY <1>4, <1>5, <1>6, <1>7 DEF o


----------------------------------------------------------------------------
(* What keeps the invariant, by the kind of step. *)

\* What a handler has done when it gets to a step other than "provision".
Justified(h) ==
  LET me == handler[h] row == order[handler[h].order] IN
  /\ me.pc # "provision"
  /\ me.pc \in Writing => Follows(row, EventOf(me.pc), me.status)
  /\ me.pc = "send write" => me.reservation = row.reservation
  /\ me.pc \in {"transfer read", "transfer write"} => transfers[me.order] > 0
  /\ me.pc = "post write" => me.reservation # NoOne

LEMMA FollowsFunded ==
  ASSUME NEW row, NEW pc \in Writing \ {"transfer write"}, NEW s, Follows(row, EventOf(pc), s),
         s \in Received
  PROVE  row.status \in Received
  BY DEF Follows, EventOf, Writing, Received

LEMMA FollowsAttached ==
  ASSUME NEW row, Follows(row, EventOf("send write"), "provisioning")
  PROVE  row.reservation # NoOne
  BY DEF Follows, EventOf

\* A handler gets to a step that it is justified to be at; the rows of orders stay,
\* and so do reservations that are attached.
LEMMA Quiet ==
  ASSUME OrdersInv, NEW h \in Handlers, handler' \in [Handlers -> HandlerState],
         \A g \in Handlers \ {h} : handler'[g] = handler[g],
         order' = order, raced' = raced, cards' = cards, Justified(h)',
         \A o \in Orders : transfers[o] > 0 => transfers'[o] > 0,
         \A r \in Reservations :
           reservation[r].state = "live" /\ Attached(r) => reservation'[r].state = "live"
  PROVE  (Current /\ Known /\ FundsMoved /\ Attachments /\ OneProvision)'
<1> USE DEF OrdersInv
<1>0. /\ order \in [Orders -> OrderRow] /\ handler \in [Handlers -> HandlerState]
      /\ \A g \in Handlers : handler'[g].order \in Orders /\ handler[g].order \in Orders
  BY DEF OrdersTypeOK, HandlerState
<1>1. Current'
  BY DEF Current, Justified
<1>2. Known'
  BY DEF Known, Justified
<1>3. FundsMoved'
  <2>1. ASSUME NEW o \in Orders, order'[o].status \in Received \/ cards'[o] > 0
        PROVE  transfers'[o] > 0
    BY <2>1 DEF FundsMoved
  <2>2. ASSUME NEW g \in Handlers,
               \/ handler'[g].pc \in {"transfer read", "transfer write", "provision"}
               \/ handler'[g].pc \in Writing /\ handler'[g].status \in Received
        PROVE  transfers'[handler'[g].order] > 0
    <3>1. CASE g # h
      BY <1>0, <2>2, <3>1 DEF FundsMoved
    <3>2. CASE g = h /\ handler'[h].pc \in {"transfer read", "transfer write"}
      BY <3>2 DEF Justified
    <3>3. CASE g = h /\ handler'[h].pc \notin {"transfer read", "transfer write"}
      <4>1. /\ handler'[h].pc \in Writing \ {"transfer write"} /\ handler'[h].status \in Received
            /\ Follows(order[handler'[h].order], EventOf(handler'[h].pc), handler'[h].status)
        BY <2>2, <3>3 DEF Justified
      <4>2. order[handler'[h].order].status \in Received
        BY <4>1, FollowsFunded
      <4> QED BY <1>0, <3>3, <4>2 DEF FundsMoved
    <3> QED BY <3>1, <3>2, <3>3
  <2> QED BY <2>1, <2>2 DEF FundsMoved
<1>4. Attachments'
  <2>1. ASSUME NEW o \in Orders
        PROVE  /\ order[o].reservation # NoOne =>
                    reservation'[order[o].reservation].state = "live"
               /\ cards[o] > 0 => order[o].reservation # NoOne
    <3>1. ASSUME order[o].reservation # NoOne
          PROVE  order[o].reservation \in Reservations /\ Attached(order[o].reservation)
      BY <1>0, <3>1 DEF OrderRow, Attached
    <3> QED BY <3>1 DEF Attachments
  <2>2. ASSUME NEW g \in Handlers
        PROVE  /\ handler'[g].pc = "post write" => handler'[g].reservation # NoOne
               /\ \/ handler'[g].pc = "provision"
                  \/ handler'[g].pc = "send write" /\ handler'[g].status = "provisioning"
                  => order[handler'[g].order].reservation # NoOne
    <3>1. CASE g # h
      BY <3>1 DEF Attachments
    <3>2. CASE g = h
      <4>1. ASSUME handler'[h].pc = "send write", handler'[h].status = "provisioning"
            PROVE  order[handler'[h].order].reservation # NoOne
        <5>1. Follows(order[handler'[h].order], EventOf("send write"), "provisioning")
          BY <4>1 DEF Justified, Writing
        <5> QED BY <5>1, FollowsAttached
      <4> QED BY <3>2, <4>1 DEF Justified
    <3> QED BY <3>1, <3>2
  <2> QED BY <2>1, <2>2 DEF Attachments
<1>5. OneProvision'
  <2>1. \A g \in Handlers : handler'[g].pc = "provision" => handler'[g] = handler[g] /\ g # h
    BY DEF Justified
  <2> QED BY <2>1 DEF OneProvision
<1> QED BY <1>1, <1>2, <1>3, <1>4, <1>5


LEMMA FollowsLate ==
  ASSUME NEW row, NEW pc \in Writing, NEW s, Follows(row, EventOf(pc), s)
  PROVE  /\ row.status \in Asked => s \in Asked /\ pc \in {"mined write", "error write"}
         /\ s = "provisioning" => row.status \notin Asked /\ pc \in {"post write", "send write"}
  BY DEF Follows, EventOf, Writing, Asked

LEMMA OneMoreIn == ASSUME NEW m \in Nat, NEW n \in 0..m, n < m PROVE n + 1 \in 0..m
  OBVIOUS
LEMMA NotPositive == ASSUME NEW n \in Nat, ~(n > 0) PROVE n = 0
  OBVIOUS

\* A handler writes the status that it found, and perhaps a live reservation (or
\* another column), and goes on to provision if that is the status.
LEMMA Writes ==
  ASSUME OrdersInv, NEW h \in Handlers, NEW row \in OrderRow, NEW state \in HandlerState,
         WriteOrder(h, row, state), handler[h].pc \in Writing,
         row.status = handler[h].status,
         \/ row.reservation = order[handler[h].order].reservation /\ handler[h].pc # "post write"
         \/ /\ handler[h].pc = "post write" /\ row.reservation = handler[h].reservation
            /\ reservation[row.reservation].state = "live",
         state.pc \in {"idle", "provision"},
         state.pc = "provision" =>
           /\ handler[h].pc \in {"post write", "send write"}
           /\ row.status = "provisioning" /\ state.order = handler[h].order
           /\ state.reservation = handler[h].reservation,
         cards' = cards, transfers' = transfers, reservation' = reservation
  PROVE  (Current /\ Known /\ FundsMoved /\ Attachments /\ OneProvision)'
<1> DEFINE o == handler[h].order
<1> USE DEF OrdersInv
<1>0. /\ order \in [Orders -> OrderRow] /\ handler \in [Handlers -> HandlerState]
      /\ o \in Orders /\ \A g \in Handlers : handler[g].order \in Orders
      /\ handler[h].stale \in BOOLEAN
  BY DEF OrdersTypeOK, HandlerState
<1>1. /\ order'[o] = row /\ \A p \in Orders \ {o} : order'[p] = order[p]
      /\ handler'[h] = state
      /\ \A g \in Handlers \ {h} :
           /\ handler'[g].pc = handler[g].pc /\ handler'[g].order = handler[g].order
           /\ handler'[g].status = handler[g].status
           /\ handler'[g].reservation = handler[g].reservation
           /\ handler[g].stale => handler'[g].stale
           /\ handler[g].order = o /\ handler[g].pc \in Writing => handler'[g].stale
      /\ raced \subseteq raced' /\ raced' \subseteq Orders
      /\ handler[h].stale => o \in raced'
  BY RowWritten
<1>2. state.pc \notin Writing /\ state.pc \notin {"transfer read", "transfer write"}
  BY DEF Writing
<1>3. o \notin raced' =>
        /\ Follows(order[o], EventOf(handler[h].pc), row.status)
        /\ handler[h].pc = "send write" => handler[h].reservation = order[o].reservation
  BY <1>0, <1>1 DEF Current, Known
<1>4. row.status \in Received => transfers[o] > 0
  BY DEF FundsMoved
<1>5. row.reservation = NoOne =>
        order[o].reservation = NoOne /\ handler[h].pc # "post write"
  BY DEF Attachments
<1>6. handler[h].pc = "send write" /\ row.status = "provisioning" => row.reservation # NoOne
  BY DEF Attachments
<1> HIDE DEF o
<1>7. Current'
  <2>1. SUFFICES ASSUME NEW g \in Handlers, handler'[g].pc \in Writing, ~handler'[g].stale
        PROVE  Follows(order'[handler'[g].order], EventOf(handler'[g].pc), handler'[g].status)
    BY DEF Current
  <2>2. g # h /\ handler'[g].pc = handler[g].pc /\ handler'[g].order = handler[g].order
        /\ handler'[g].status = handler[g].status /\ ~handler[g].stale /\ handler[g].order # o
    BY <1>1, <1>2, <2>1
  <2>3. order'[handler[g].order] = order[handler[g].order]
    BY <1>0, <1>1, <2>2
  <2> QED BY <2>1, <2>2, <2>3 DEF Current
<1>8. Known'
  <2>1. SUFFICES ASSUME NEW g \in Handlers, handler'[g].pc = "send write", ~handler'[g].stale
        PROVE  handler'[g].reservation = order'[handler'[g].order].reservation
    BY DEF Known
  <2>2. handler'[g].pc \in Writing
    BY <2>1 DEF Writing
  <2>3. g # h /\ handler'[g].pc = handler[g].pc /\ handler'[g].order = handler[g].order
        /\ handler'[g].reservation = handler[g].reservation /\ ~handler[g].stale
        /\ handler[g].order # o
    BY <1>1, <1>2, <2>1, <2>2
  <2>4. order'[handler[g].order] = order[handler[g].order]
    BY <1>0, <1>1, <2>3
  <2> QED BY <2>1, <2>3, <2>4 DEF Known
<1>9. FundsMoved'
  <2>1. ASSUME NEW p \in Orders, order'[p].status \in Received \/ cards[p] > 0
        PROVE  transfers[p] > 0
    BY <1>1, <1>4, <2>1 DEF FundsMoved
  <2>2. ASSUME NEW g \in Handlers,
               \/ handler'[g].pc \in {"transfer read", "transfer write", "provision"}
               \/ handler'[g].pc \in Writing /\ handler'[g].status \in Received
        PROVE  transfers[handler'[g].order] > 0
    <3>1. CASE g # h
      BY <1>1, <2>2, <3>1 DEF FundsMoved
    <3>2. CASE g = h
      <4>1. state.pc = "provision"
        BY <1>1, <1>2, <2>2, <3>2
      <4>2. row.status = "provisioning" /\ state.order = o
        BY <4>1 DEF o
      <4> QED BY <1>1, <1>4, <3>2, <4>2 DEF Received
    <3> QED BY <3>1, <3>2
  <2> QED BY <2>1, <2>2 DEF FundsMoved
<1>10. Attachments'
  <2>1. ASSUME NEW p \in Orders
        PROVE  /\ order'[p].reservation # NoOne =>
                    reservation[order'[p].reservation].state = "live"
               /\ cards[p] > 0 => order'[p].reservation # NoOne
    <3>1. CASE p # o
      <4>1. order'[p] = order[p]
        BY <1>1, <3>1
      <4> QED BY <4>1 DEF Attachments
    <3>2. CASE p = o
      <4>1. row.reservation # NoOne => reservation[row.reservation].state = "live"
        <5>1. row.reservation = order[o].reservation \/ reservation[row.reservation].state = "live"
          BY DEF o
        <5> QED BY <1>0, <5>1 DEF Attachments
      <4>2. cards[o] > 0 => row.reservation # NoOne
        BY <1>0, <1>5 DEF Attachments
      <4> QED BY <1>1, <3>2, <4>1, <4>2
    <3> QED BY <3>1, <3>2
  <2>2. ASSUME NEW g \in Handlers
        PROVE  /\ handler'[g].pc = "post write" => handler'[g].reservation # NoOne
               /\ \/ handler'[g].pc = "provision"
                  \/ handler'[g].pc = "send write" /\ handler'[g].status = "provisioning"
                  => order'[handler'[g].order].reservation # NoOne
    <3>1. CASE g # h
      <4>1. /\ handler[g].pc = "post write" => handler[g].reservation # NoOne
            /\ \/ handler[g].pc = "provision"
               \/ handler[g].pc = "send write" /\ handler[g].status = "provisioning"
               => order[handler[g].order].reservation # NoOne
        BY DEF Attachments
      <4>2. /\ handler'[g].pc = handler[g].pc /\ handler'[g].order = handler[g].order
            /\ handler'[g].status = handler[g].status
            /\ handler'[g].reservation = handler[g].reservation
        BY <1>1, <3>1
      <4>3. order[handler[g].order].reservation # NoOne =>
              order'[handler[g].order].reservation # NoOne
        BY <1>0, <1>1, <1>5
      <4> QED BY <4>1, <4>2, <4>3
    <3>2. CASE g = h
      <4>1. state.pc = "provision" => state.order = o /\ row.reservation # NoOne
        BY <1>5, <1>6 DEF o
      <4> QED BY <1>1, <1>2, <3>2, <4>1 DEF Writing
    <3> QED BY <3>1, <3>2
  <2> QED BY <2>1, <2>2 DEF Attachments
<1>11. OneProvision'
  <2>1. ASSUME o \notin raced'
        PROVE  /\ order[o].status \in Asked =>
                    /\ row.status \in Asked /\ state.pc # "provision"
                    /\ row.reservation = order[o].reservation
               /\ state.pc = "provision" =>
                    /\ order[o].status \notin Asked /\ row.status \in Asked
                    /\ state.order = o /\ state.reservation = row.reservation
    <3>1. Follows(order[o], EventOf(handler[h].pc), row.status)
      BY <1>3, <2>1
    <3>2. /\ order[o].status \in Asked =>
               row.status \in Asked /\ handler[h].pc \in {"mined write", "error write"}
          /\ row.status = "provisioning" => order[o].status \notin Asked
      BY <3>1, FollowsLate
    <3>3. handler[h].pc \in {"mined write", "error write"} =>
            row.reservation = order[o].reservation /\ state.pc # "provision"
      BY DEF o
    <3>4. ASSUME state.pc = "provision"
          PROVE  /\ row.status = "provisioning" /\ state.order = o
                 /\ state.reservation = row.reservation
      <4>1. /\ row.status = "provisioning" /\ state.order = o
            /\ state.reservation = handler[h].reservation
            /\ handler[h].pc \in {"post write", "send write"}
        BY <3>4 DEF o
      <4>2. handler[h].pc = "post write" => row.reservation = handler[h].reservation
        OBVIOUS
      <4>3. handler[h].pc = "send write" => row.reservation = order[o].reservation
        BY DEF o
      <4> QED BY <1>3, <2>1, <4>1, <4>2, <4>3
    <3>5. row.status = "provisioning" => row.status \in Asked
      BY DEF Asked
    <3> QED BY <3>2, <3>3, <3>4, <3>5
  <2>2. ASSUME NEW p \in Orders, p \notin raced'
        PROVE  /\ p \notin raced /\ (order[p].status \in Asked => order'[p].status \in Asked)
               /\ order[p].status \in Asked => order'[p].reservation = order[p].reservation
    <3>1. p \notin raced
      BY <1>1, <2>2
    <3>2. CASE p = o
      BY <1>1, <2>1, <2>2, <3>1, <3>2
    <3>3. CASE p # o
      BY <1>1, <3>1, <3>3
    <3> QED BY <3>2, <3>3
  <2>3. ASSUME NEW p \in Orders \ raced'
        PROVE  cards[p] <= 1 /\ (cards[p] > 0 => order'[p].status \in Asked)
    BY <2>2, <2>3 DEF OneProvision
  <2>4. ASSUME NEW g \in Handlers, handler'[g].pc = "provision", handler'[g].order \notin raced'
        PROVE  /\ cards[handler'[g].order] = 0 /\ order'[handler'[g].order].status \in Asked
               /\ handler'[g].reservation = order'[handler'[g].order].reservation
    <3>1. CASE g # h
      <4>1. /\ handler'[g].pc = handler[g].pc /\ handler'[g].order = handler[g].order
            /\ handler'[g].reservation = handler[g].reservation
        BY <1>1, <3>1
      <4>2. handler[g].order \in Orders /\ handler[g].order \notin raced
        BY <1>0, <2>2, <2>4, <4>1
      <4>3. /\ cards[handler[g].order] = 0 /\ order[handler[g].order].status \in Asked
            /\ handler[g].reservation = order[handler[g].order].reservation
        BY <2>4, <4>1, <4>2 DEF OneProvision
      <4> QED BY <2>2, <2>4, <4>1, <4>2, <4>3
    <3>2. CASE g = h
      <4>1. state.pc = "provision" /\ state.order = o /\ o \notin raced'
        BY <1>1, <2>4, <3>2 DEF o
      <4>2. order[o].status \notin Asked /\ row.status \in Asked
            /\ state.reservation = row.reservation /\ o \notin raced
        BY <1>0, <2>1, <2>2, <4>1
      <4>3. cards[o] = 0
        <5>1. cards[o] \in Nat
          BY <1>0 DEF OrdersTypeOK
        <5>2. cards[o] > 0 => order[o].status \in Asked
          BY <1>0, <4>2 DEF OneProvision
        <5>3. ~(cards[o] > 0)
          BY <4>2, <5>2
        <5> QED BY <5>1, <5>3, NotPositive
      <4> QED BY <1>1, <3>2, <4>1, <4>2, <4>3
    <3> QED BY <3>1, <3>2
  <2>5. ASSUME NEW g \in Handlers, NEW k \in Handlers,
               handler'[g].pc = "provision", handler'[k].pc = "provision",
               handler'[g].order = handler'[k].order, handler'[g].order \notin raced'
        PROVE  g = k
    <3>1. ASSUME NEW f \in Handlers \ {h}, handler'[f].pc = "provision",
                 handler'[f].order \notin raced'
          PROVE  /\ handler[f].pc = "provision" /\ handler'[f].order = handler[f].order
                 /\ handler[f].order \notin raced /\ order[handler[f].order].status \in Asked
      <4>1. handler[f].pc = "provision" /\ handler'[f].order = handler[f].order
        BY <1>1, <3>1
      <4>2. handler[f].order \notin raced
        BY <1>0, <2>2, <3>1, <4>1
      <4> QED BY <4>1, <4>2 DEF OneProvision
    <3>2. handler'[h].pc = "provision" /\ o \notin raced' =>
            handler'[h].order = o /\ order[o].status \notin Asked
      BY <1>1, <2>1
    <3>3. handler'[h].pc = "provision" => handler'[h].order = o
      BY <1>1 DEF o
    <3>4. CASE g # h /\ k # h
      BY <2>5, <3>1, <3>4 DEF OneProvision
    <3>5. CASE g = h /\ k # h
      <4>1. handler'[h].pc = "provision" /\ handler'[k].order = o /\ o \notin raced'
        BY <2>5, <3>3, <3>5
      <4>2. handler[k].order = o /\ order[o].status \in Asked
        <5>1. handler'[k].pc = "provision" /\ handler'[k].order \notin raced' /\ k \in Handlers \ {h}
          BY <2>5, <3>5
        <5>2. handler'[k].order = handler[k].order /\ order[handler[k].order].status \in Asked
          BY <3>1, <5>1
        <5> QED BY <4>1, <5>2
      <4> QED BY <3>2, <4>1, <4>2
    <3>6. CASE g # h /\ k = h
      <4>1. handler'[h].pc = "provision" /\ handler'[g].order = o /\ o \notin raced'
        BY <2>5, <3>3, <3>6
      <4>2. handler[g].order = o /\ order[o].status \in Asked
        <5>1. handler'[g].pc = "provision" /\ handler'[g].order \notin raced' /\ g \in Handlers \ {h}
          BY <2>5, <3>6
        <5>2. handler'[g].order = handler[g].order /\ order[handler[g].order].status \in Asked
          BY <3>1, <5>1
        <5> QED BY <4>1, <5>2
      <4> QED BY <3>2, <4>1, <4>2
    <3> QED BY <3>4, <3>5, <3>6
  <2> QED BY <2>3, <2>4, <2>5 DEF OneProvision
<1> QED BY <1>7, <1>8, <1>9, <1>10, <1>11

----------------------------------------------------------------------------
(* Each step keeps the invariant. *)

\* A handler is justified to be anywhere but before a write, a transfer's record or
\* the relay server.
LEMMA Elsewhere ==
  ASSUME NEW h, handler'[h].pc \notin Writing \cup {"provision", "transfer read"}
  PROVE  Justified(h)'
<1>1. {"send write", "post write", "transfer write"} \subseteq Writing
  BY DEF Writing
<1> QED BY <1>1 DEF Justified

\* A handler leaves, or goes to such a step, and nothing else happens that matters.
LEMMA Passes ==
  ASSUME OrdersInv, NEW h \in Handlers, NEW pc \in HandlerPc \ (Writing \cup {"provision", "transfer read"}),
         Resume(h, pc) \/ Leave(h), UNCHANGED <<order, reservation, transfers, cards, asked, raced>>,
         transferJob' \subseteq Orders, troubles' \in 0..MaxTroubles
  PROVE  OrdersInv'
<1> USE DEF OrdersInv
<1>1. /\ handler' \in [Handlers -> HandlerState]
      /\ handler'[h].pc \in HandlerPc \ (Writing \cup {"provision", "transfer read"})
      /\ \A g \in Handlers \ {h} : handler'[g] = handler[g]
  <2>1. CASE Resume(h, pc)
    BY <2>1, Went
  <2>2. CASE Leave(h)
    <3>1. "idle" \in HandlerPc \ (Writing \cup {"provision", "transfer read"})
      BY DEF HandlerPc, Writing
    <3> QED BY <2>2, <3>1, NoRequestTyped, Entered DEF Leave
  <2> QED BY <2>1, <2>2
<1>2. Justified(h)'
  BY <1>1, Elsewhere
<1>3. (Current /\ Known /\ FundsMoved /\ Attachments /\ OneProvision)'
  <2>1. /\ \A o \in Orders : transfers[o] > 0 => transfers'[o] > 0
        /\ \A r \in Reservations :
             reservation[r].state = "live" /\ Attached(r) => reservation'[r].state = "live"
    OBVIOUS
  <2> QED BY <1>1, <1>2, <2>1, Quiet
<1>4. OrdersTypeOK'
  BY <1>1 DEF OrdersTypeOK, asked
<1> QED BY <1>3, <1>4

LEMMA ReserveKeeps ==
  ASSUME OrdersInv, NEW h \in Handlers, NEW u \in Users, Reserve(h, u)
  PROVE  OrdersInv'
<1> DEFINE x == Handler("reserve delete", CHOOSE o \in Orders : TRUE, u, NoOne)
<1> USE DEF OrdersInv
<1>1. x \in HandlerState /\ x.pc = "reserve delete"
  BY UserHandlerMade DEF HandlerPc
<1>2. Enter(h, x) /\ UNCHANGED <<order, reservation, transferJob, transfers, cards, asked, raced, troubles>>
  BY DEF Reserve
<1> HIDE DEF x
<1>3. /\ handler' \in [Handlers -> HandlerState] /\ handler'[h] = x
      /\ \A g \in Handlers \ {h} : handler'[g] = handler[g]
  BY <1>1, <1>2, Entered
<1>4. Justified(h)'
  <2>1. x.pc \notin Writing \cup {"provision", "transfer read"}
    BY <1>1 DEF Writing
  <2> QED BY <1>3, <2>1, Elsewhere
<1>5. (Current /\ Known /\ FundsMoved /\ Attachments /\ OneProvision)'
  <2>1. /\ \A o \in Orders : transfers[o] > 0 => transfers'[o] > 0
        /\ \A r \in Reservations :
             reservation[r].state = "live" /\ Attached(r) => reservation'[r].state = "live"
    BY <1>2
  <2> QED BY <1>2, <1>3, <1>4, <2>1, Quiet
<1>6. OrdersTypeOK'
  BY <1>2, <1>3 DEF OrdersTypeOK, asked
<1> QED BY <1>5, <1>6

LEMMA ReserveDeleteKeeps ==
  ASSUME OrdersInv, NEW h \in Handlers, ReserveDelete(h)
  PROVE  OrdersInv'
<1> USE DEF OrdersInv
<1> DEFINE x(r) == [reservation[r] EXCEPT !.state = "deleted"]
           gone(r) == reservation[r].state = "live" /\ reservation[r].user = handler[h].user
                        /\ ~Attached(r)
<1>1. /\ Resume(h, "reserve insert")
      /\ reservation' = [r \in Reservations |-> IF gone(r) THEN x(r) ELSE reservation[r]]
      /\ UNCHANGED <<order, transferJob, transfers, cards, asked, raced, troubles>>
  BY DEF ReserveDelete
<1>2. \A r \in Reservations : x(r) \in ReservationRow
  <2>1. ASSUME NEW r \in Reservations PROVE x(r) \in ReservationRow
    <3>1. reservation[r] \in ReservationRow
      BY DEF OrdersTypeOK
    <3> QED BY <3>1 DEF ReservationRow
  <2> QED BY <2>1
<1>3. \A r \in Reservations : Attached(r) => ~gone(r)
  OBVIOUS
<1> HIDE DEF x, gone
<1>4. reservation' \in [Reservations -> ReservationRow]
  BY <1>1, <1>2 DEF OrdersTypeOK
<1>5. \A r \in Reservations : Attached(r) => reservation'[r] = reservation[r]
  BY <1>1, <1>3
<1>6. /\ handler' \in [Handlers -> HandlerState] /\ handler'[h].pc = "reserve insert"
      /\ \A g \in Handlers \ {h} : handler'[g] = handler[g]
  <2>1. "reserve insert" \in HandlerPc
    BY DEF HandlerPc
  <2> QED BY <1>1, <2>1, Went
<1>7. Justified(h)'
  <2>1. "reserve insert" \notin Writing \cup {"provision", "transfer read"}
    BY DEF Writing
  <2> QED BY <1>6, <2>1, Elsewhere
<1>8. (Current /\ Known /\ FundsMoved /\ Attachments /\ OneProvision)'
  <2>1. \A o \in Orders : transfers[o] > 0 => transfers'[o] > 0
    BY <1>1
  <2> QED BY <1>1, <1>5, <1>6, <1>7, <2>1, Quiet
<1>9. OrdersTypeOK'
  BY <1>1, <1>4, <1>6 DEF OrdersTypeOK, asked
<1> QED BY <1>8, <1>9

LEMMA ReserveInsertKeeps ==
  ASSUME OrdersInv, NEW h \in Handlers, ReserveInsert(h)
  PROVE  OrdersInv'
<1> USE DEF OrdersInv
<1>1. PICK r \in Reservations :
        /\ reservation[r].state = "unused"
        /\ reservation' = [reservation EXCEPT ![r] = [state |-> "live", user |-> handler[h].user]]
  BY DEF ReserveInsert
<1>2. Leave(h) /\ UNCHANGED <<order, transferJob, transfers, cards, asked, raced, troubles>>
  BY DEF ReserveInsert
<1>3. /\ reservation' \in [Reservations -> ReservationRow]
      /\ \A s \in Reservations : reservation[s].state = "live" => reservation'[s].state = "live"
  <2>1. handler[h].user \in Users
    BY DEF OrdersTypeOK, HandlerState
  <2> DEFINE y == [state |-> "live", user |-> handler[h].user]
  <2>2. y \in ReservationRow /\ y.state = "live"
    BY <2>1 DEF ReservationRow
  <2>3. reservation' = [reservation EXCEPT ![r] = y]
    BY <1>1
  <2> HIDE DEF y
  <2> QED BY <2>2, <2>3 DEF OrdersTypeOK
<1>4. /\ handler' \in [Handlers -> HandlerState] /\ handler'[h].pc = "idle"
      /\ \A g \in Handlers \ {h} : handler'[g] = handler[g]
  BY <1>2, NoRequestTyped, Entered DEF Leave
<1>5. Justified(h)'
  <2>1. "idle" \notin Writing \cup {"provision", "transfer read"}
    BY DEF Writing
  <2> QED BY <1>4, <2>1, Elsewhere
<1>6. (Current /\ Known /\ FundsMoved /\ Attachments /\ OneProvision)'
  <2>1. \A o \in Orders : transfers[o] > 0 => transfers'[o] > 0
    BY <1>2
  <2> QED BY <1>2, <1>3, <1>4, <1>5, <2>1, Quiet
<1>7. OrdersTypeOK'
  BY <1>2, <1>3, <1>4 DEF OrdersTypeOK, asked
<1> QED BY <1>6, <1>7

LEMMA PostKeeps ==
  ASSUME OrdersInv, NEW h \in Handlers, NEW o \in Orders, NEW r \in Reservations, Post(h, o, r)
  PROVE  OrdersInv'
<1> USE DEF OrdersInv
<1> DEFINE x == OrderHandler("idle", o)
           y == [x EXCEPT !.reservation = r]
<1>2. x \in HandlerState /\ x.order = o
  BY OrderHandlerMade DEF HandlerPc
<1>3. /\ UNCHANGED <<order, reservation, transferJob, transfers, cards, sends, receives, raced, troubles>>
      /\ posts[o] < MaxPosts /\ posts' = [posts EXCEPT ![o] = @ + 1]
      /\ ReadStatus(h, y, "received-reservation", "post write") \/ UNCHANGED handler
  BY DEF Post
<1> HIDE DEF x
<1>4. y \in HandlerState /\ y.order = o /\ y.reservation = r
  <2>1. r \in Reservations \cup {NoOne}
    OBVIOUS
  <2> QED BY <1>2, <2>1 DEF HandlerState
<1> HIDE DEF y
<1>5. posts' \in [Orders -> 0..MaxPosts]
  <2>1. posts \in [Orders -> 0..MaxPosts] /\ posts[o] \in 0..MaxPosts /\ posts[o] < MaxPosts
    BY <1>3 DEF OrdersTypeOK
  <2>2. posts[o] + 1 \in 0..MaxPosts
    BY <2>1, OneMoreIn, OrdersAssumption DEF OrdersAssumption
  <2> QED BY <1>3, <2>1, <2>2
<1>6. CASE UNCHANGED handler
  BY <1>3, <1>5, <1>6 DEF OrdersTypeOK, Current, Known, FundsMoved, Attachments, OneProvision
<1>7. CASE ReadStatus(h, y, "received-reservation", "post write")
  <2>1. /\ handler' \in [Handlers -> HandlerState] /\ handler'[h].pc = "post write"
        /\ handler'[h].reservation = r /\ handler'[h].order = o
        /\ Follows(order[o], "received-reservation", handler'[h].status)
        /\ \A g \in Handlers \ {h} : handler'[g] = handler[g]
    BY <1>4, <1>7, RowRead DEF Writing
  <2>2. Justified(h)'
    <3>1. r # NoOne
      BY OrdersAssumption DEF OrdersAssumption
    <3> QED BY <1>3, <2>1, <3>1 DEF Justified, EventOf
  <2>3. (Current /\ Known /\ FundsMoved /\ Attachments /\ OneProvision)'
    <3>1. /\ \A p \in Orders : transfers[p] > 0 => transfers'[p] > 0
          /\ \A s \in Reservations :
               reservation[s].state = "live" /\ Attached(s) => reservation'[s].state = "live"
      BY <1>3
    <3> QED BY <1>3, <2>1, <2>2, <3>1, Quiet
  <2>4. OrdersTypeOK'
    BY <1>3, <1>5, <2>1 DEF OrdersTypeOK
  <2> QED BY <2>3, <2>4
<1> QED BY <1>3, <1>6, <1>7

\* What a handler does after the write of a status that may be "provisioning".
LEMMA Afterwards ==
  ASSUME OrdersTypeOK, NEW h \in Handlers
  PROVE  LET me == handler[h] next == AfterUpdate(handler[h]) IN
         /\ next \in HandlerState /\ next.pc \in {"idle", "provision"}
         /\ next.pc = "provision" =>
              me.status = "provisioning" /\ next.order = me.order /\ next.reservation = me.reservation
<1> DEFINE me == handler[h]
           x == Handler("provision", me.order, me.user, me.reservation)
<1>1. me \in HandlerState
  BY DEF OrdersTypeOK
<1>2. /\ x \in HandlerState /\ x.pc = "provision" /\ x.order = me.order
      /\ x.reservation = me.reservation
  <2>1. /\ me.order \in Orders /\ me.user \in Users
        /\ me.reservation \in Reservations \cup {NoOne} /\ "provision" \in HandlerPc
    BY <1>1 DEF HandlerState, HandlerPc
  <2>2. x = Handler("provision", me.order, me.user, me.reservation)
    OBVIOUS
  <2> HIDE DEF x
  <2> QED BY <2>1, <2>2, HandlerIs
<1>3. AfterUpdate(me) = IF me.status = "provisioning" THEN x ELSE NoRequest
  BY DEF AfterUpdate
<1> HIDE DEF x, me
<1> QED BY <1>2, <1>3, NoRequestTyped DEF me

\* A handler writes and goes on.
LEMMA WriteKeeps ==
  ASSUME OrdersInv, NEW h \in Handlers, NEW row \in OrderRow, NEW state \in HandlerState,
         WriteOrder(h, row, state), handler[h].pc \in Writing,
         row.status = handler[h].status,
         \/ row.reservation = order[handler[h].order].reservation /\ handler[h].pc # "post write"
         \/ /\ handler[h].pc = "post write" /\ row.reservation = handler[h].reservation
            /\ reservation[row.reservation].state = "live",
         state.pc \in {"idle", "provision"},
         state.pc = "provision" =>
           /\ handler[h].pc \in {"post write", "send write"}
           /\ row.status = "provisioning" /\ state.order = handler[h].order
           /\ state.reservation = handler[h].reservation,
         UNCHANGED <<reservation, transferJob, transfers, cards, asked, troubles>>
  PROVE  OrdersInv'
<1> USE DEF OrdersInv
<1>1. (Current /\ Known /\ FundsMoved /\ Attachments /\ OneProvision)'
  BY Writes
<1>2. /\ order' \in [Orders -> OrderRow] /\ handler' \in [Handlers -> HandlerState]
      /\ raced' \subseteq Orders
  BY RowWritten
<1>3. OrdersTypeOK'
  BY <1>2 DEF OrdersTypeOK, asked
<1> QED BY <1>1, <1>3

\* The row of a write of the status alone.
LEMMA StatusRow ==
  ASSUME OrdersTypeOK, NEW h \in Handlers
  PROVE  LET row == [order[handler[h].order] EXCEPT !.status = handler[h].status] IN
         /\ row \in OrderRow /\ row.status = handler[h].status
         /\ row.reservation = order[handler[h].order].reservation
<1>1. order[handler[h].order] \in OrderRow /\ handler[h].status \in Statuses
  BY DEF OrdersTypeOK, HandlerState
<1> QED BY <1>1 DEF OrderRow

LEMMA PostWriteKeeps ==
  ASSUME OrdersInv, NEW h \in Handlers, PostWrite(h)
  PROVE  OrdersInv'
<1> USE DEF OrdersInv
<1> DEFINE me == handler[h]
           mid == [order[me.order] EXCEPT !.status = me.status]
           row == [mid EXCEPT !.reservation = me.reservation]
<1>1. CASE reservation[me.reservation].state = "live"
  <2>1. mid \in OrderRow /\ mid.status = me.status /\ me.reservation \in Reservations \cup {NoOne}
    BY StatusRow DEF OrdersTypeOK, HandlerState
  <2>2. /\ WriteOrder(h, row, AfterUpdate(me)) /\ me.pc = "post write"
        /\ UNCHANGED <<reservation, transferJob, transfers, cards, asked, troubles>>
    BY <1>1 DEF PostWrite, At
  <2> HIDE DEF mid
  <2>3. row \in OrderRow /\ row.status = me.status /\ row.reservation = me.reservation
    BY <2>1 DEF OrderRow
  <2> HIDE DEF row
  <2>4. me.pc \in Writing
    BY <2>2 DEF Writing
  <2> DEFINE next == AfterUpdate(me)
  <2>5. /\ next \in HandlerState /\ next.pc \in {"idle", "provision"}
        /\ next.pc = "provision" =>
              me.status = "provisioning" /\ next.order = me.order /\ next.reservation = me.reservation
    BY Afterwards
  <2>6. WriteOrder(h, row, next)
    BY <2>2
  <2> HIDE DEF next
  <2> QED BY <1>1, <2>2, <2>3, <2>4, <2>5, <2>6, WriteKeeps
<1>2. CASE reservation[me.reservation].state # "live"
  <2>1. Leave(h) /\ UNCHANGED <<order, raced, reservation, transferJob, transfers, cards, asked, troubles>>
    BY <1>2 DEF PostWrite
  <2>2. "idle" \in HandlerPc \ (Writing \cup {"provision", "transfer read"})
    BY DEF HandlerPc, Writing
  <2>3. transferJob' \subseteq Orders /\ troubles' \in 0..MaxTroubles
    BY <2>1 DEF OrdersTypeOK
  <2> QED BY <2>1, <2>2, <2>3, Passes
<1> QED BY <1>1, <1>2

\* A write of the status alone, by a handler that may go on to provision after it.
LEMMA StatusWriteKeeps ==
  ASSUME OrdersInv, NEW h \in Handlers, NEW state \in {AfterUpdate(handler[h]), NoRequest},
         handler[h].pc \in Writing \ {"post write"},
         state = NoRequest \/ handler[h].pc = "send write", WriteStatus(h, state),
         UNCHANGED <<reservation, transferJob, transfers, cards, asked, troubles>>
  PROVE  OrdersInv'
<1> USE DEF OrdersInv
<1> DEFINE row == [order[handler[h].order] EXCEPT !.status = handler[h].status]
<1>1. /\ row \in OrderRow /\ row.status = handler[h].status
      /\ row.reservation = order[handler[h].order].reservation
  BY StatusRow
<1>2. WriteOrder(h, row, state)
  BY DEF WriteStatus
<1> HIDE DEF row
<1>3. CASE state = NoRequest
  <2>1. state \in HandlerState /\ state.pc = "idle"
    BY <1>3, NoRequestTyped
  <2> QED BY <1>1, <1>2, <2>1, WriteKeeps
<1>4. CASE state = AfterUpdate(handler[h]) /\ handler[h].pc = "send write"
  <2>1. /\ state \in HandlerState /\ state.pc \in {"idle", "provision"}
        /\ state.pc = "provision" =>
              /\ handler[h].status = "provisioning" /\ state.order = handler[h].order
              /\ state.reservation = handler[h].reservation
    BY <1>4, Afterwards
  <2> QED BY <1>1, <1>2, <1>4, <2>1, WriteKeeps
<1> QED BY <1>3, <1>4

\* A handler starts on an order, or reads its row, and has what its step asks for.
LEMMA StartKeeps ==
  ASSUME OrdersInv, NEW h \in Handlers, NEW state \in HandlerState, Enter(h, state),
         state.pc \in {"receive add", "send read", "error read"},
         UNCHANGED <<order, reservation, transfers, cards, raced>>,
         transferJob' \subseteq Orders, troubles' \in 0..MaxTroubles,
         posts' \in [Orders -> 0..MaxPosts], sends' \in [Orders -> 0..MaxCallbacks],
         receives' \in [Orders -> 0..MaxCallbacks]
  PROVE  OrdersInv'
<1> USE DEF OrdersInv
<1>1. /\ handler' \in [Handlers -> HandlerState] /\ handler'[h] = state
      /\ \A g \in Handlers \ {h} : handler'[g] = handler[g]
  BY Entered
<1>2. Justified(h)'
  <2>1. state.pc \notin Writing \cup {"provision", "transfer read"}
    BY DEF Writing
  <2> QED BY <1>1, <2>1, Elsewhere
<1>3. (Current /\ Known /\ FundsMoved /\ Attachments /\ OneProvision)'
  <2>1. /\ \A o \in Orders : transfers[o] > 0 => transfers'[o] > 0
        /\ \A r \in Reservations :
             reservation[r].state = "live" /\ Attached(r) => reservation'[r].state = "live"
    OBVIOUS
  <2> QED BY <1>1, <1>2, <2>1, Quiet
<1>4. OrdersTypeOK'
  BY <1>1 DEF OrdersTypeOK
<1> QED BY <1>3, <1>4

LEMMA NothingKeeps ==
  ASSUME OrdersInv, UNCHANGED <<order, reservation, handler, transfers, cards, raced>>,
         transferJob' \subseteq Orders, troubles' \in 0..MaxTroubles,
         posts' \in [Orders -> 0..MaxPosts], sends' \in [Orders -> 0..MaxCallbacks],
         receives' \in [Orders -> 0..MaxCallbacks]
  PROVE  OrdersInv'
  BY DEF OrdersInv, OrdersTypeOK, Current, Known, FundsMoved, Attachments, OneProvision, Attached

\* One more request or callback.
LEMMA Counted ==
  ASSUME NEW m \in Nat, NEW count \in [Orders -> 0..m], NEW o \in Orders, count[o] < m
  PROVE  [count EXCEPT ![o] = @ + 1] \in [Orders -> 0..m]
<1>1. count[o] \in 0..m
  OBVIOUS
<1>2. count[o] + 1 \in 0..m
  BY <1>1, OneMoreIn
<1> QED BY <1>2

LEMMA ReceiveKeeps ==
  ASSUME OrdersInv, NEW h \in Handlers, NEW o \in Orders, Receive(h, o)
  PROVE  OrdersInv'
<1> DEFINE x == OrderHandler("receive add", o)
<1>1. x \in HandlerState /\ x.pc = "receive add"
  BY OrderHandlerMade DEF HandlerPc
<1>2. /\ UNCHANGED <<order, reservation, transferJob, transfers, cards, posts, sends, raced, troubles>>
      /\ receives[o] < MaxCallbacks /\ receives' = [receives EXCEPT ![o] = @ + 1]
      /\ Enter(h, x) \/ UNCHANGED handler
  BY DEF Receive
<1> HIDE DEF x
<1>3. receives' \in [Orders -> 0..MaxCallbacks]
  <2>1. receives \in [Orders -> 0..MaxCallbacks]
    BY DEF OrdersInv, OrdersTypeOK
  <2> QED BY <1>2, <2>1, Counted, OrdersAssumption DEF OrdersAssumption
<1>4. /\ transferJob' \subseteq Orders /\ troubles' \in 0..MaxTroubles
      /\ posts' \in [Orders -> 0..MaxPosts] /\ sends' \in [Orders -> 0..MaxCallbacks]
  BY <1>2 DEF OrdersInv, OrdersTypeOK
<1>5. CASE Enter(h, x)
  BY <1>1, <1>2, <1>3, <1>4, <1>5, StartKeeps
<1>6. CASE UNCHANGED handler
  BY <1>2, <1>3, <1>4, <1>6, NothingKeeps
<1> QED BY <1>2, <1>5, <1>6

LEMMA SendKeeps ==
  ASSUME OrdersInv, NEW h \in Handlers, NEW o \in Orders, NEW t, Send(h, o, t)
  PROVE  OrdersInv'
<1> DEFINE x == OrderHandler("send read", o)
<1>1. x \in HandlerState /\ x.pc = "send read"
  BY OrderHandlerMade DEF HandlerPc
<1>2. /\ UNCHANGED <<order, reservation, transferJob, transfers, cards, posts, receives, raced, troubles>>
      /\ sends[o] < MaxCallbacks /\ sends' = [sends EXCEPT ![o] = @ + 1]
      /\ Enter(h, x) \/ UNCHANGED handler
  BY DEF Send
<1> HIDE DEF x
<1>3. sends' \in [Orders -> 0..MaxCallbacks]
  <2>1. sends \in [Orders -> 0..MaxCallbacks]
    BY DEF OrdersInv, OrdersTypeOK
  <2> QED BY <1>2, <2>1, Counted, OrdersAssumption DEF OrdersAssumption
<1>4. /\ transferJob' \subseteq Orders /\ troubles' \in 0..MaxTroubles
      /\ posts' \in [Orders -> 0..MaxPosts] /\ receives' \in [Orders -> 0..MaxCallbacks]
  BY <1>2 DEF OrdersInv, OrdersTypeOK
<1>5. CASE Enter(h, x)
  BY <1>1, <1>2, <1>3, <1>4, <1>5, StartKeeps
<1>6. CASE UNCHANGED handler
  BY <1>2, <1>3, <1>4, <1>6, NothingKeeps
<1> QED BY <1>2, <1>5, <1>6

LEMMA TransferKeeps ==
  ASSUME OrdersInv, NEW h \in Handlers, NEW o \in Orders, Transfer(h, o)
  PROVE  OrdersInv'
<1> USE DEF OrdersInv
<1> DEFINE x == OrderHandler("transfer read", o)
           y == [x EXCEPT !.transfer = transfers[o] + 1]
<1>1. x \in HandlerState /\ x.pc = "transfer read" /\ x.order = o
  BY OrderHandlerMade DEF HandlerPc
<1>2. /\ UNCHANGED <<order, reservation, cards, asked, raced, troubles>>
      /\ transfers[o] < MaxTransfers /\ transfers' = [transfers EXCEPT ![o] = @ + 1]
      /\ transferJob' = transferJob \ {o} /\ Enter(h, y)
  BY DEF Transfer
<1>3. transfers \in [Orders -> 0..MaxTransfers] /\ transfers[o] \in 0..MaxTransfers
  BY DEF OrdersTypeOK
<1>4. transfers[o] + 1 \in 0..MaxTransfers /\ transfers[o] + 1 > 0
  <2>1. transfers[o] + 1 \in 0..MaxTransfers
    BY <1>2, <1>3, OneMoreIn, OrdersAssumption DEF OrdersAssumption
  <2>2. transfers[o] + 1 > 0
    BY <1>3
  <2> QED BY <2>1, <2>2
<1> HIDE DEF x
<1>5. y \in HandlerState /\ y.pc = "transfer read" /\ y.order = o
  BY <1>1, <1>4 DEF HandlerState
<1> HIDE DEF y
<1>6. /\ handler' \in [Handlers -> HandlerState] /\ handler'[h] = y
      /\ \A g \in Handlers \ {h} : handler'[g] = handler[g]
  BY <1>2, <1>5, Entered
<1>7. transfers' \in [Orders -> 0..MaxTransfers] /\ transfers'[o] > 0
      /\ \A p \in Orders : transfers[p] > 0 => transfers'[p] > 0
  BY <1>2, <1>3, <1>4
<1>8. Justified(h)'
  BY <1>5, <1>6, <1>7 DEF Justified, Writing
<1>9. (Current /\ Known /\ FundsMoved /\ Attachments /\ OneProvision)'
  BY <1>2, <1>6, <1>7, <1>8, Quiet
<1>10. OrdersTypeOK'
  BY <1>2, <1>6, <1>7 DEF OrdersTypeOK, asked
<1> QED BY <1>9, <1>10

\* A handler that reads a row for a write that needs no more than what it found.
LEMMA ReadKeeps ==
  ASSUME OrdersInv, NEW h \in Handlers, NEW state \in HandlerState, NEW write \in Writing,
         ReadStatus(h, state, EventOf(write), write), write # "post write",
         write = "send write" => state.reservation = order[state.order].reservation,
         write = "transfer write" => transfers[state.order] > 0,
         UNCHANGED <<order, reservation, transferJob, transfers, cards, asked, raced, troubles>>
  PROVE  OrdersInv'
<1> USE DEF OrdersInv
<1>1. /\ handler' \in [Handlers -> HandlerState]
      /\ handler'[h].pc = write /\ handler'[h].order = state.order
      /\ handler'[h].reservation = state.reservation
      /\ Follows(order[state.order], EventOf(write), handler'[h].status)
      /\ \A g \in Handlers \ {h} : handler'[g] = handler[g]
  BY RowRead
<1>2. Justified(h)'
  BY <1>1 DEF Justified, Writing
<1>3. (Current /\ Known /\ FundsMoved /\ Attachments /\ OneProvision)'
  <2>1. /\ \A o \in Orders : transfers[o] > 0 => transfers'[o] > 0
        /\ \A r \in Reservations :
             reservation[r].state = "live" /\ Attached(r) => reservation'[r].state = "live"
    OBVIOUS
  <2> QED BY <1>1, <1>2, <2>1, Quiet
<1>4. OrdersTypeOK'
  BY <1>1 DEF OrdersTypeOK, asked
<1> QED BY <1>3, <1>4

\* Nothing but the handler, which leaves or goes to a step that asks for nothing.
LEMMA LeaveKeeps ==
  ASSUME OrdersInv, NEW h \in Handlers, Leave(h),
         UNCHANGED <<order, reservation, transfers, cards, asked, raced>>,
         transferJob' \subseteq Orders, troubles' \in 0..MaxTroubles
  PROVE  OrdersInv'
<1>1. "idle" \in HandlerPc \ (Writing \cup {"provision", "transfer read"})
  BY DEF HandlerPc, Writing
<1> QED BY <1>1, Passes

LEMMA OrderOf == ASSUME OrdersInv, NEW h \in Handlers
                 PROVE  /\ handler[h] \in HandlerState /\ handler[h].order \in Orders
                        /\ transferJob \cup {handler[h].order} \subseteq Orders
                        /\ transferJob \subseteq Orders /\ troubles \in 0..MaxTroubles
  BY DEF OrdersInv, OrdersTypeOK, HandlerState

LEMMA ReceiveAddKeeps ==
  ASSUME OrdersInv, NEW h \in Handlers, ReceiveAdd(h)
  PROVE  OrdersInv'
<1>1. /\ Leave(h) /\ transferJob' = transferJob \cup {handler[h].order}
      /\ UNCHANGED <<order, reservation, transfers, cards, asked, raced, troubles>>
  BY DEF ReceiveAdd
<1>2. transferJob' \subseteq Orders /\ troubles' \in 0..MaxTroubles
  BY <1>1, OrderOf
<1> QED BY <1>1, <1>2, LeaveKeeps

LEMMA TransferReadKeeps ==
  ASSUME OrdersInv, NEW h \in Handlers, TransferRead(h)
  PROVE  OrdersInv'
<1>1. /\ handler[h].pc = "transfer read"
      /\ UNCHANGED <<order, reservation, transfers, cards, asked, raced, troubles>>
      /\ \/ /\ ReadStatus(h, handler[h], "wyre-receive-funds", "transfer write")
            /\ UNCHANGED transferJob
         \/ Leave(h) /\ transferJob' = transferJob \cup {handler[h].order}
  BY DEF TransferRead, At
<1>2. CASE ReadStatus(h, handler[h], "wyre-receive-funds", "transfer write") /\ UNCHANGED transferJob
  <2>1. transfers[handler[h].order] > 0
    BY <1>1 DEF OrdersInv, FundsMoved
  <2>2. "transfer write" \in Writing /\ EventOf("transfer write") = "wyre-receive-funds"
    BY DEF Writing, EventOf
  <2>3. ReadStatus(h, handler[h], EventOf("transfer write"), "transfer write")
    BY <1>2, <2>2
  <2> QED BY <1>1, <1>2, <2>1, <2>2, <2>3, OrderOf, ReadKeeps
<1>3. CASE Leave(h) /\ transferJob' = transferJob \cup {handler[h].order}
  <2>1. transferJob' \subseteq Orders /\ troubles' \in 0..MaxTroubles
    BY <1>1, <1>3, OrderOf
  <2> QED BY <1>1, <1>3, <2>1, LeaveKeeps
<1> QED BY <1>1, <1>2, <1>3

LEMMA TransferWriteKeeps ==
  ASSUME OrdersInv, NEW h \in Handlers, TransferWrite(h)
  PROVE  OrdersInv'
<1> DEFINE me == handler[h]
           mid == [order[me.order] EXCEPT !.status = me.status]
           row == [mid EXCEPT !.transfer = me.transfer]
<1>1. /\ WriteOrder(h, row, NoRequest) /\ me.pc = "transfer write"
      /\ UNCHANGED <<reservation, transferJob, transfers, cards, asked, troubles>>
  BY DEF TransferWrite, At
<1>2. mid \in OrderRow /\ mid.status = me.status
      /\ mid.reservation = order[me.order].reservation /\ me.transfer \in 0..MaxTransfers
  BY StatusRow DEF OrdersInv, OrdersTypeOK, HandlerState
<1> HIDE DEF mid
<1>3. row \in OrderRow /\ row.status = me.status /\ row.reservation = order[me.order].reservation
  BY <1>2 DEF OrderRow
<1> HIDE DEF row
<1>4. me.pc \in Writing
  BY <1>1 DEF Writing
<1> DEFINE next == NoRequest
<1>5. next \in HandlerState /\ next.pc = "idle" /\ WriteOrder(h, row, next)
  BY <1>1, NoRequestTyped
<1> HIDE DEF next
<1> QED BY <1>1, <1>3, <1>4, <1>5, WriteKeeps

LEMMA SendReadKeeps ==
  ASSUME OrdersInv, NEW h \in Handlers, SendRead(h)
  PROVE  OrdersInv'
<1> DEFINE r == order[handler[h].order].reservation
           state == [handler[h] EXCEPT !.reservation = r]
<1>1. /\ UNCHANGED <<order, reservation, transferJob, transfers, cards, asked, raced, troubles>>
      /\ ReadStatus(h, state, "wyre-send-funds", "send write") \/ Leave(h)
  BY DEF SendRead
<1>2. state \in HandlerState /\ state.order = handler[h].order /\ state.reservation = r
  <2>1. handler[h] \in HandlerState /\ r \in Reservations \cup {NoOne}
    BY DEF OrdersInv, OrdersTypeOK, HandlerState, OrderRow
  <2> HIDE DEF r
  <2> QED BY <2>1 DEF HandlerState
<1> HIDE DEF state
<1>3. CASE ReadStatus(h, state, "wyre-send-funds", "send write")
  <2>1. "send write" \in Writing /\ EventOf("send write") = "wyre-send-funds"
    BY DEF Writing, EventOf
  <2>2. ReadStatus(h, state, EventOf("send write"), "send write")
    BY <1>3, <2>1
  <2>3. state.reservation = order[state.order].reservation
    BY <1>2
  <2> QED BY <1>1, <1>2, <2>1, <2>2, <2>3, ReadKeeps
<1>4. CASE Leave(h)
  BY <1>1, <1>4, OrderOf, LeaveKeeps
<1> QED BY <1>1, <1>3, <1>4

LEMMA SendWriteKeeps ==
  ASSUME OrdersInv, NEW h \in Handlers, SendWrite(h)
  PROVE  OrdersInv'
<1> DEFINE state == AfterUpdate(handler[h])
<1>1. /\ handler[h].pc = "send write" /\ WriteStatus(h, state)
      /\ UNCHANGED <<reservation, transferJob, transfers, cards, asked, troubles>>
  BY DEF SendWrite, At
<1>2. handler[h].pc \in Writing \ {"post write"}
  BY <1>1 DEF Writing
<1>3. state \in {AfterUpdate(handler[h]), NoRequest}
  OBVIOUS
<1> HIDE DEF state
<1> QED BY <1>1, <1>2, <1>3, StatusWriteKeeps

LEMMA OutcomeWriteKeeps ==
  ASSUME OrdersInv, NEW h \in Handlers, ErrorWrite(h) \/ MinedWrite(h)
  PROVE  OrdersInv'
<1>1. /\ handler[h].pc \in {"error write", "mined write"} /\ WriteStatus(h, NoRequest)
      /\ UNCHANGED <<reservation, transferJob, transfers, cards, asked, troubles>>
  BY DEF ErrorWrite, MinedWrite, At
<1>2. handler[h].pc \in Writing \ {"post write"}
  BY <1>1 DEF Writing
<1> QED BY <1>1, <1>2, StatusWriteKeeps

LEMMA OutcomeReadKeeps ==
  ASSUME OrdersInv, NEW h \in Handlers, ErrorRead(h) \/ MinedRead(h)
  PROVE  OrdersInv'
<1>1. /\ UNCHANGED <<order, reservation, transferJob, transfers, cards, asked, raced, troubles>>
      /\ \/ Leave(h)
         \/ ReadStatus(h, handler[h], "provision-error", "error write")
         \/ ReadStatus(h, handler[h], "provision-mined", "mined write")
  BY DEF ErrorRead, MinedRead
<1>2. ASSUME NEW write \in {"error write", "mined write"},
             ReadStatus(h, handler[h], EventOf(write), write)
      PROVE  OrdersInv'
  <2>1. write \in Writing /\ write \notin {"post write", "send write", "transfer write"}
    BY DEF Writing
  <2> QED BY <1>1, <1>2, <2>1, OrderOf, ReadKeeps
<1>3. EventOf("error write") = "provision-error" /\ EventOf("mined write") = "provision-mined"
  BY DEF EventOf
<1>4. CASE Leave(h)
  BY <1>1, <1>4, OrderOf, LeaveKeeps
<1> QED BY <1>1, <1>2, <1>3, <1>4

LEMMA GoesOnKeeps ==
  ASSUME OrdersInv, NEW h \in Handlers, RelayError(h) \/ AwaitCard(h)
  PROVE  OrdersInv'
<1>1. /\ UNCHANGED <<order, reservation, transferJob, transfers, cards, asked, raced, troubles>>
      /\ Resume(h, "error find") \/ Resume(h, "mined read")
  BY DEF RelayError, AwaitCard
<1>2. {"error find", "mined read"} \subseteq HandlerPc \ (Writing \cup {"provision", "transfer read"})
  BY DEF HandlerPc, Writing
<1> QED BY <1>1, <1>2, OrderOf, Passes

LEMMA TroubleKeeps ==
  ASSUME OrdersInv, NEW h \in Handlers, Trouble(h)
  PROVE  OrdersInv'
<1>1. /\ troubles < MaxTroubles /\ troubles' = troubles + 1 /\ Leave(h)
      /\ transferJob' = transferJob \cup {handler[h].order} \/ UNCHANGED transferJob
      /\ UNCHANGED <<order, reservation, transfers, cards, asked, raced>>
  BY DEF Trouble
<1>2. troubles' \in 0..MaxTroubles
  BY <1>1, OrderOf, OneMoreIn, OrdersAssumption DEF OrdersAssumption
<1>3. transferJob' \subseteq Orders
  BY <1>1, OrderOf
<1> QED BY <1>1, <1>2, <1>3, LeaveKeeps

LEMMA ErrorFindKeeps ==
  ASSUME OrdersInv, NEW h \in Handlers, ErrorFind(h)
  PROVE  OrdersInv'
<1>1. /\ UNCHANGED <<order, reservation, transferJob, transfers, cards, asked, raced, troubles>>
      /\ \/ Leave(h)
         \/ \E o \in Orders : Enter(h, [handler[h] EXCEPT !.pc = "error read", !.order = o])
  BY DEF ErrorFind
<1>2. ASSUME NEW o \in Orders, Enter(h, [handler[h] EXCEPT !.pc = "error read", !.order = o])
      PROVE  OrdersInv'
  <2> DEFINE mid == [handler[h] EXCEPT !.pc = "error read"]
             state == [mid EXCEPT !.order = o]
  <2>1. Enter(h, state)
    BY <1>2
  <2>2. mid \in HandlerState /\ mid.pc = "error read"
    BY OrderOf DEF HandlerState, HandlerPc
  <2> HIDE DEF mid
  <2>3. state \in HandlerState /\ state.pc = "error read"
    BY <2>2 DEF HandlerState
  <2> HIDE DEF state
  <2>4. /\ transferJob' \subseteq Orders /\ troubles' \in 0..MaxTroubles
        /\ posts' \in [Orders -> 0..MaxPosts] /\ sends' \in [Orders -> 0..MaxCallbacks]
        /\ receives' \in [Orders -> 0..MaxCallbacks]
    BY <1>1 DEF OrdersInv, OrdersTypeOK, asked
  <2> QED BY <1>1, <2>1, <2>3, <2>4, StartKeeps
<1>3. CASE Leave(h)
  BY <1>1, <1>3, OrderOf, LeaveKeeps
<1> QED BY <1>1, <1>2, <1>3

\* One card more.
LEMMA MoreCards ==
  ASSUME NEW o \in Orders, cards \in [Orders -> Nat], cards' = [cards EXCEPT ![o] = @ + 1]
  PROVE  /\ cards' \in [Orders -> Nat] /\ cards'[o] > 0 /\ (cards[o] = 0 => cards'[o] = 1)
         /\ \A p \in Orders \ {o} : cards'[p] = cards[p]
  OBVIOUS

\* The card is provisioned: the handler had what the card asks for, and no other
\* handler is about to provision one for the order.
LEMMA ProvisionKeeps ==
  ASSUME OrdersInv, NEW h \in Handlers, Provision(h)
  PROVE  OrdersInv'
<1> USE DEF OrdersInv
<1> DEFINE o == handler[h].order
<1>1. /\ handler[h].pc = "provision"
      /\ UNCHANGED <<order, reservation, transferJob, transfers, asked, raced, troubles>>
      /\ \/ Resume(h, "await card") /\ cards' = [cards EXCEPT ![o] = @ + 1]
         \/ Leave(h) /\ UNCHANGED cards
  BY DEF Provision, At
<1>2. CASE Leave(h) /\ UNCHANGED cards
  BY <1>1, <1>2, OrderOf, LeaveKeeps
<1>3. CASE Resume(h, "await card") /\ cards' = [cards EXCEPT ![o] = @ + 1]
  <2>1. /\ handler' \in [Handlers -> HandlerState] /\ handler'[h].pc = "await card"
        /\ \A g \in Handlers \ {h} : handler'[g] = handler[g]
    BY <1>3, Went DEF HandlerPc
  <2>2. /\ o \in Orders /\ cards' \in [Orders -> Nat]
        /\ cards'[o] > 0 /\ (cards[o] = 0 => cards'[o] = 1)
        /\ \A p \in Orders \ {o} : cards'[p] = cards[p]
    <3>1. cards \in [Orders -> Nat] /\ o \in Orders
      BY OrderOf DEF OrdersTypeOK
    <3> HIDE DEF o
    <3> QED BY <1>3, <3>1, MoreCards
  <2>3. /\ transfers[o] > 0 /\ order[o].reservation # NoOne
        /\ o \notin raced => cards[o] = 0 /\ order[o].status \in Asked
        /\ \A g \in Handlers \ {h} :
             handler[g].pc = "provision" /\ handler[g].order = o => o \in raced
    BY <1>1 DEF FundsMoved, Attachments, OneProvision
  <2>4. "await card" \notin Writing /\ "post write" \in Writing /\ "send write" \in Writing
        /\ "await card" \notin {"transfer read", "transfer write", "provision", "post write",
                                "send write"}
    BY DEF Writing
  <2>5. OrdersTypeOK'
    BY <1>1, <2>1, <2>2 DEF OrdersTypeOK, asked
  <2>6. Current' /\ Known'
    BY <1>1, <2>1, <2>4 DEF Current, Known
  <2>7. FundsMoved'
    <3>1. ASSUME NEW p \in Orders, order'[p].status \in Received \/ cards'[p] > 0
          PROVE  transfers'[p] > 0
      <4>1. CASE p = o
        BY <1>1, <2>3, <4>1
      <4>2. CASE p # o
        BY <1>1, <2>2, <3>1, <4>2 DEF FundsMoved
      <4> QED BY <4>1, <4>2
    <3>2. ASSUME NEW g \in Handlers,
                 \/ handler'[g].pc \in {"transfer read", "transfer write", "provision"}
                 \/ handler'[g].pc \in Writing /\ handler'[g].status \in Received
          PROVE  transfers'[handler'[g].order] > 0
      <4>1. g # h /\ handler'[g] = handler[g]
        BY <2>1, <2>4, <3>2
      <4> QED BY <1>1, <3>2, <4>1 DEF FundsMoved
    <3> QED BY <3>1, <3>2 DEF FundsMoved
  <2>8. Attachments'
    BY <1>1, <2>1, <2>2, <2>3, <2>4 DEF Attachments
  <2>9. OneProvision'
    <3>1. ASSUME NEW p \in Orders \ raced'
          PROVE  cards'[p] <= 1 /\ (cards'[p] > 0 => order'[p].status \in Asked)
      <4>1. CASE p = o
        <5>1. o \notin raced
          BY <1>1, <3>1, <4>1
        <5>2. cards'[o] = 1 /\ order'[o].status \in Asked
          BY <1>1, <2>2, <2>3, <5>1
        <5> QED BY <4>1, <5>2
      <4>2. CASE p # o
        BY <1>1, <2>2, <3>1, <4>2 DEF OneProvision
      <4> QED BY <4>1, <4>2
    <3>2. ASSUME NEW g \in Handlers, handler'[g].pc = "provision", handler'[g].order \notin raced'
          PROVE  /\ g # h /\ handler'[g] = handler[g] /\ handler[g].order # o
                 /\ cards'[handler[g].order] = cards[handler[g].order]
      <4>1. g # h /\ handler'[g] = handler[g]
        BY <2>1, <2>4, <3>2
      <4>2. handler[g].order # o
        BY <1>1, <2>3, <3>2, <4>1
      <4> QED BY <2>2, <4>1, <4>2, OrderOf
    <3>3. ASSUME NEW g \in Handlers, handler'[g].pc = "provision", handler'[g].order \notin raced'
          PROVE  /\ cards'[handler'[g].order] = 0 /\ order'[handler'[g].order].status \in Asked
                 /\ handler'[g].reservation = order'[handler'[g].order].reservation
      <4>1. handler'[g] = handler[g] /\ cards'[handler[g].order] = cards[handler[g].order]
        BY <3>2, <3>3
      <4>2. handler[g].pc = "provision" /\ handler[g].order \notin raced
        BY <1>1, <3>3, <4>1
      <4>3. /\ cards[handler[g].order] = 0 /\ order[handler[g].order].status \in Asked
            /\ handler[g].reservation = order[handler[g].order].reservation
        BY <4>2 DEF OneProvision
      <4> QED BY <1>1, <4>1, <4>3
    <3>4. ASSUME NEW g \in Handlers, NEW k \in Handlers,
                 handler'[g].pc = "provision", handler'[k].pc = "provision",
                 handler'[g].order = handler'[k].order, handler'[g].order \notin raced'
          PROVE  g = k
      <4>1. handler'[g] = handler[g] /\ handler'[k] = handler[k]
        BY <3>2, <3>4
      <4> QED BY <1>1, <3>4, <4>1 DEF OneProvision
    <3> QED BY <3>1, <3>3, <3>4 DEF OneProvision
  <2> QED BY <2>5, <2>6, <2>7, <2>8, <2>9
<1> QED BY <1>1, <1>2, <1>3

LEMMA OrdersInitial == OrdersInit => OrdersInv
<1> SUFFICES ASSUME OrdersInit PROVE OrdersInv
  OBVIOUS
<1>1. /\ NoRequest \in HandlerState /\ NoRequest.pc = "idle"
      /\ "idle" \notin Writing \cup {"transfer read", "transfer write", "provision",
                                     "post write", "send write"}
      /\ "none" \notin Received
  BY NoRequestTyped DEF Writing, Received
<1>2. (CHOOSE u \in Users : TRUE) \in Users
  <2>1. \E u \in Users : TRUE
    BY OrdersAssumption DEF OrdersAssumption
  <2> QED BY <2>1
<1>3. /\ order \in [Orders -> OrderRow] /\ \A o \in Orders :
           order[o].status = "none" /\ order[o].reservation = NoOne
      /\ handler \in [Handlers -> HandlerState] /\ \A h \in Handlers : handler[h] = NoRequest
      /\ cards \in [Orders -> Nat] /\ \A o \in Orders : cards[o] = 0 /\ ~(cards[o] > 0)
  <2>1. [status |-> "none", reservation |-> NoOne, transfer |-> 0] \in OrderRow
    BY OrdersAssumption DEF OrderRow, Statuses, OrdersAssumption
  <2> QED BY <1>1, <2>1 DEF OrdersInit
<1>4. OrdersTypeOK
  <2>1. 0 \in 0..MaxTransfers /\ 0 \in 0..MaxTroubles /\ 0 \in 0..MaxPosts /\ 0 \in 0..MaxCallbacks
    BY OrdersAssumption DEF OrdersAssumption
  <2>2. reservation \in [Reservations -> ReservationRow]
    <3> DEFINE row == [state |-> "unused", user |-> CHOOSE u \in Users : TRUE]
    <3>1. row \in ReservationRow
      BY <1>2 DEF ReservationRow
    <3> HIDE DEF row
    <3>2. reservation = [r \in Reservations |-> row]
      BY DEF OrdersInit, row
    <3> QED BY <3>1, <3>2
  <2>3. /\ transferJob = {} /\ raced = {} /\ troubles = 0
        /\ transfers \in [Orders -> 0..MaxTransfers] /\ posts \in [Orders -> 0..MaxPosts]
        /\ sends \in [Orders -> 0..MaxCallbacks] /\ receives \in [Orders -> 0..MaxCallbacks]
    BY <2>1 DEF OrdersInit
  <2> QED BY <1>3, <2>1, <2>2, <2>3 DEF OrdersTypeOK
<1>5. Current /\ Known /\ FundsMoved /\ Attachments
  BY <1>1, <1>3 DEF Current, Known, FundsMoved, Attachments
<1>6. OneProvision
  BY <1>1, <1>3 DEF OneProvision
<1> QED BY <1>4, <1>5, <1>6 DEF OrdersInv

LEMMA OrdersStep == OrdersInv /\ [OrdersNext]_ordersVars => OrdersInv'
<1> SUFFICES ASSUME OrdersInv, [OrdersNext]_ordersVars PROVE OrdersInv'
  OBVIOUS
<1>1. CASE UNCHANGED ordersVars
  <2>1. UNCHANGED <<order, reservation, handler, transfers, cards, raced, transferJob,
                    troubles, posts, sends, receives>>
    BY <1>1 DEF ordersVars, asked
  <2>2. /\ transferJob' \subseteq Orders /\ troubles' \in 0..MaxTroubles
        /\ posts' \in [Orders -> 0..MaxPosts] /\ sends' \in [Orders -> 0..MaxCallbacks]
        /\ receives' \in [Orders -> 0..MaxCallbacks]
    BY <2>1 DEF OrdersInv, OrdersTypeOK
  <2> QED BY <2>1, <2>2, NothingKeeps
<1>2. ASSUME NEW h \in Handlers, Requested(h) PROVE OrdersInv'
  BY <1>2, ReserveKeeps, ReceiveKeeps, TransferKeeps, PostKeeps, SendKeeps DEF Requested
<1>3. ASSUME NEW h \in Handlers, HandlerStep(h) PROVE OrdersInv'
  BY <1>3, ReserveDeleteKeeps, ReserveInsertKeeps, PostWriteKeeps, ReceiveAddKeeps,
     TransferReadKeeps, TransferWriteKeeps, SendReadKeeps, SendWriteKeeps, ProvisionKeeps,
     GoesOnKeeps, ErrorFindKeeps, OutcomeReadKeeps, OutcomeWriteKeeps DEF HandlerStep
<1>4. ASSUME NEW h \in Handlers, Trouble(h) PROVE OrdersInv'
  BY <1>4, TroubleKeeps
<1> QED BY <1>1, <1>2, <1>3, <1>4 DEF OrdersNext

----------------------------------------------------------------------------
(* The theorems. *)

\* Rows of wallet_orders, reservations and handlers stay what they are declared
\* to be (services/order.ts, routes/reservations.ts).
THEOREM OrdersTyped == OrdersSpec => []OrdersTypeOK
<1>1. OrdersInv => OrdersTypeOK
  BY DEF OrdersInv
<1> QED BY <1>1, OrdersInitial, OrdersStep, PTL DEF OrdersSpec

\* A card is provisioned only for an order whose funds left for the admin wallet
\* and which has a reservation, however requests, callbacks and the transfer job
\* overlap and fail (services/order.ts, tasks/wyre-transfer.ts).
THEOREM PaidFor == OrdersSpec => []CardIsPaidFor
<1>1. OrdersInv => CardIsPaidFor
  BY DEF OrdersInv, FundsMoved, Attachments, CardIsPaidFor
<1> QED BY <1>1, OrdersInitial, OrdersStep, PTL DEF OrdersSpec

\* An order gets a second card only when one of its rows was written on the ground
\* of a read that another handler made stale (services/order.ts reads and writes
\* the status with two queries).
THEOREM OneCard == OrdersSpec => []OneCardUnlessRaced
<1>1. OrdersInv => OneCardUnlessRaced
  <2>1. ASSUME OrdersInv, NEW o \in Orders, o \notin raced PROVE ~(cards[o] > 1)
    <3>1. cards[o] \in Nat /\ cards[o] <= 1
      BY <2>1 DEF OrdersInv, OrdersTypeOK, OneProvision
    <3> QED BY <3>1
  <2> QED BY <2>1 DEF OneCardUnlessRaced
<1> QED BY <1>1, OrdersInitial, OrdersStep, PTL DEF OrdersSpec

\* The reservation that a handler is about to provision for an order that was not
\* raced is not deleted by the user's next POST /reservations: that query spares
\* reservations with an order (routes/reservations.ts).
THEOREM ReservationsKept == OrdersSpec => []ReservationKept
<1>1. OrdersInv => ReservationKept
  <2>1. ASSUME OrdersInv, NEW h \in Handlers, handler[h].pc = "provision",
               handler[h].order \notin raced
        PROVE  reservation[handler[h].reservation].state = "live"
    <3>1. /\ handler[h].order \in Orders
          /\ handler[h].reservation = order[handler[h].order].reservation
          /\ order[handler[h].order].reservation # NoOne
      BY <2>1, OrderOf DEF OrdersInv, OneProvision, Attachments
    <3> QED BY <2>1, <3>1 DEF OrdersInv, Attachments
  <2> QED BY <2>1 DEF ReservationKept, At
<1> QED BY <1>1, OrdersInitial, OrdersStep, PTL DEF OrdersSpec

\* A handler's write of the row it read before.
LEMMA WriteFollows ==
  ASSUME OrdersInv, NEW h \in Handlers, NEW row, NEW state, WriteOrder(h, row, state),
         handler[h].pc \in Writing, row.status = handler[h].status,
         NEW p \in Orders
  PROVE  \/ order'[p].status = order[p].status \/ p \in raced'
         \/ \E event \in OrderEvents : Follows(order[p], event, order'[p].status)
<1>1. /\ order' = [order EXCEPT ![handler[h].order] = row]
      /\ raced' = IF handler[h].stale THEN raced \cup {handler[h].order} ELSE raced
  BY DEF WriteOrder
<1>2. order \in [Orders -> OrderRow] /\ handler[h].order \in Orders
  BY OrderOf DEF OrdersInv, OrdersTypeOK
<1>3. EventOf(handler[h].pc) \in OrderEvents
  BY DEF Writing, EventOf, OrderEvents
<1>4. ~handler[h].stale =>
        Follows(order[handler[h].order], EventOf(handler[h].pc), handler[h].status)
  BY DEF OrdersInv, Current
<1>5. order'[handler[h].order] = row
      /\ \A q \in Orders \ {handler[h].order} : order'[q] = order[q]
  BY <1>1, <1>2
<1> QED BY <1>1, <1>3, <1>4, <1>5

\* Every step that touches a row of wallet_orders writes what follows from it.
LEMMA StepFollows ==
  ASSUME OrdersInv, [OrdersNext]_ordersVars, NEW p \in Orders
  PROVE  \/ order'[p].status = order[p].status \/ p \in raced'
         \/ \E event \in OrderEvents : Follows(order[p], event, order'[p].status)
<1>1. CASE UNCHANGED ordersVars
  BY <1>1 DEF ordersVars
<1>2. ASSUME NEW h \in Handlers, Requested(h) PROVE UNCHANGED order
  BY <1>2 DEF Requested, Reserve, Receive, Transfer, Post, Send
<1>3. ASSUME NEW h \in Handlers,
             \/ ReserveDelete(h) \/ ReserveInsert(h) \/ ReceiveAdd(h) \/ TransferRead(h)
             \/ SendRead(h) \/ Provision(h) \/ RelayError(h) \/ ErrorFind(h) \/ ErrorRead(h)
             \/ AwaitCard(h) \/ MinedRead(h) \/ Trouble(h)
      PROVE  UNCHANGED order
  BY <1>3 DEF ReserveDelete, ReserveInsert, ReceiveAdd, TransferRead, SendRead, Provision,
     RelayError, ErrorFind, ErrorRead, AwaitCard, MinedRead, Trouble
<1>4. ASSUME NEW h \in Handlers, handler[h].pc \in Writing, NEW state, WriteStatus(h, state)
      PROVE  \/ order'[p].status = order[p].status \/ p \in raced'
             \/ \E event \in OrderEvents : Follows(order[p], event, order'[p].status)
  <2> DEFINE row == [order[handler[h].order] EXCEPT !.status = handler[h].status]
  <2>1. WriteOrder(h, row, state) /\ row.status = handler[h].status
    BY <1>4, StatusRow DEF WriteStatus, OrdersInv
  <2> HIDE DEF row
  <2> QED BY <1>4, <2>1, WriteFollows
<1>5. ASSUME NEW h \in Handlers, SendWrite(h) \/ ErrorWrite(h) \/ MinedWrite(h)
      PROVE  handler[h].pc \in Writing /\ \E state : WriteStatus(h, state)
  BY <1>5 DEF SendWrite, ErrorWrite, MinedWrite, At, Writing
<1>6. ASSUME NEW h \in Handlers, PostWrite(h) \/ TransferWrite(h)
      PROVE  \/ order'[p].status = order[p].status \/ p \in raced'
             \/ \E event \in OrderEvents : Follows(order[p], event, order'[p].status)
  <2> DEFINE mid == [order[handler[h].order] EXCEPT !.status = handler[h].status]
             post == [mid EXCEPT !.reservation = handler[h].reservation]
             transfer == [mid EXCEPT !.transfer = handler[h].transfer]
  <2>1. mid \in OrderRow /\ mid.status = handler[h].status
    BY StatusRow DEF OrdersInv
  <2>2. /\ handler[h].pc \in Writing
        /\ \/ UNCHANGED order
           \/ \E state : WriteOrder(h, post, state) \/ WriteOrder(h, transfer, state)
    BY <1>6 DEF PostWrite, TransferWrite, At, Writing
  <2> HIDE DEF mid
  <2>3. post.status = handler[h].status /\ transfer.status = handler[h].status
    BY <2>1 DEF OrderRow
  <2> HIDE DEF post, transfer
  <2> QED BY <2>2, <2>3, WriteFollows
<1> QED BY <1>1, <1>2, <1>3, <1>4, <1>5, <1>6 DEF OrdersNext, HandlerStep

\* The status of an order changes along the diagram of services/order.ts, or is
\* written on a stale read.
THEOREM StatusesFollow == OrdersSpec => FollowsDiagram
<1>1. OrdersInv /\ [OrdersNext]_ordersVars =>
        [\A o \in Orders :
           \/ order'[o].status = order[o].status \/ o \in raced'
           \/ \E event \in OrderEvents : Follows(order[o], event, order'[o].status)]_ordersVars
  BY StepFollows
<1> QED BY <1>1, OrdersInitial, OrdersStep, PTL DEF OrdersSpec, FollowsDiagram

----------------------------------------------------------------------------
(* What each step does, for the counts below. *)

\* A handler at a step that is neither on the way of the funds nor on that of a card.
Away(h) ==
  handler[h].pc \notin Writing \cup {"provision", "transfer read", "send read", "receive add"}

OthersStay(h) ==
  \A g \in Handlers \ {h} :
    /\ handler'[g].pc = handler[g].pc /\ handler'[g].order = handler[g].order
    /\ handler'[g].status = handler[g].status

LEMMA Onward ==
  ASSUME OrdersTypeOK, NEW h \in Handlers,
         NEW pc \in HandlerPc \ (Writing \cup {"provision", "transfer read", "send read", "receive add"}),
         Resume(h, pc) \/ Leave(h)
  PROVE  Away(h)' /\ OthersStay(h)
<1>1. CASE Resume(h, pc)
  BY <1>1, Went DEF Away, OthersStay
<1>2. CASE Leave(h)
  <2>1. handler'[h] = NoRequest /\ \A g \in Handlers \ {h} : handler'[g] = handler[g]
    BY <1>2, NoRequestTyped, Entered DEF Leave
  <2> QED BY <2>1, NoRequestTyped DEF Away, OthersStay, Writing
<1> QED BY <1>1, <1>2

LEMMA LeaveIs ==
  ASSUME OrdersTypeOK, NEW h \in Handlers, Leave(h)
  PROVE  Away(h)' /\ OthersStay(h)
<1>1. "idle" \in HandlerPc \ (Writing \cup {"provision", "transfer read", "send read", "receive add"})
  BY DEF HandlerPc, Writing
<1> QED BY <1>1, Onward

\* Steps after which the handler is away, and the rows are what they were.
LEMMA AwayStep ==
  ASSUME OrdersInv, NEW h \in Handlers,
         \/ \E u \in Users : Reserve(h, u)
         \/ ReserveDelete(h) \/ ReserveInsert(h) \/ ReceiveAdd(h) \/ RelayError(h)
         \/ ErrorFind(h) \/ AwaitCard(h) \/ Trouble(h) \/ Provision(h)
  PROVE  Away(h)' /\ OthersStay(h) /\ order' = order
<1> DEFINE Calm == HandlerPc \ (Writing \cup {"provision", "transfer read", "send read", "receive add"})
<1>1. OrdersTypeOK /\ handler \in [Handlers -> HandlerState]
  BY DEF OrdersInv, OrdersTypeOK
<1>2. {"reserve insert", "error find", "mined read", "await card", "idle", "error read",
       "reserve delete"} \subseteq Calm
  BY DEF HandlerPc, Writing
<1>3. CASE \E u \in Users : Reserve(h, u)
  <2>1. PICK u \in Users : Reserve(h, u)
    BY <1>3
  <2> DEFINE x == Handler("reserve delete", CHOOSE o \in Orders : TRUE, u, NoOne)
  <2>2. x \in HandlerState /\ x.pc = "reserve delete"
    BY UserHandlerMade DEF HandlerPc
  <2>3. Enter(h, x) /\ order' = order
    BY <2>1 DEF Reserve
  <2> HIDE DEF x
  <2> QED BY <1>1, <2>2, <2>3, Entered DEF Away, OthersStay, Writing
<1>4. CASE ErrorFind(h)
  <2>1. order' = order
    BY <1>4 DEF ErrorFind
  <2>2. CASE Leave(h)
    BY <1>1, <2>1, <2>2, LeaveIs
  <2>3. CASE ~Leave(h)
    <3>1. PICK o \in Orders : Enter(h, [handler[h] EXCEPT !.pc = "error read", !.order = o])
      BY <1>4, <2>3 DEF ErrorFind
    <3> DEFINE x == [handler[h] EXCEPT !.pc = "error read"]
               y == [x EXCEPT !.order = o]
    <3>2. x \in HandlerState /\ x.pc = "error read"
      BY <1>1, <1>2 DEF HandlerState
    <3> HIDE DEF x
    <3>3. y \in HandlerState /\ y.pc = "error read"
      BY <3>2 DEF HandlerState
    <3>4. Enter(h, y)
      BY <3>1 DEF x
    <3> HIDE DEF y
    <3> QED BY <1>1, <2>1, <3>3, <3>4, Entered DEF Away, OthersStay, Writing
  <2> QED BY <2>2, <2>3
<1>5. CASE ReserveDelete(h) \/ RelayError(h) \/ AwaitCard(h)
  <2>1. order' = order /\ \E pc \in Calm : Resume(h, pc)
    BY <1>2, <1>5 DEF ReserveDelete, RelayError, AwaitCard
  <2> QED BY <1>1, <2>1, Onward
<1>6. CASE ReserveInsert(h) \/ ReceiveAdd(h) \/ Trouble(h) \/ Provision(h)
  <2>1. order' = order /\ (Leave(h) \/ \E pc \in Calm : Resume(h, pc))
    BY <1>2, <1>6 DEF ReserveInsert, ReceiveAdd, Trouble, Provision
  <2> QED BY <1>1, <2>1, Onward, LeaveIs
<1> QED BY <1>3, <1>4, <1>5, <1>6

\* Requests that find nothing to do end at once; the others' handlers enter a step.
LEMMA EntersIs ==
  ASSUME OrdersTypeOK, NEW h \in Handlers, NEW o \in Orders, NEW pc \in HandlerPc,
         Enter(h, OrderHandler(pc, o))
  PROVE  handler'[h].pc = pc /\ handler'[h].order = o /\ OthersStay(h)
<1> DEFINE x == OrderHandler(pc, o)
<1>1. x \in HandlerState /\ x.pc = pc /\ x.order = o /\ Enter(h, x)
  BY OrderHandlerMade
<1> HIDE DEF x
<1> QED BY <1>1, Entered DEF OthersStay

LEMMA RequestStep ==
  ASSUME OrdersInv, NEW h \in Handlers, NEW o \in Orders,
         Receive(h, o) \/ \E t \in 1..MaxTransfers : Send(h, o, t)
  PROVE  /\ OthersStay(h) /\ order' = order
         /\ \/ handler' = handler /\ handler[h].pc = "idle"
            \/ Receive(h, o) /\ handler'[h].pc = "receive add" /\ handler'[h].order = o
            \/ ~Receive(h, o) /\ handler'[h].pc = "send read" /\ handler'[h].order = o
<1>1. OrdersTypeOK /\ "receive add" \in HandlerPc /\ "send read" \in HandlerPc
  BY DEF OrdersInv, HandlerPc
<1>2. CASE Receive(h, o)
  BY <1>1, <1>2, EntersIs DEF Receive, At, OthersStay
<1>3. CASE ~Receive(h, o)
  BY <1>1, <1>3, EntersIs DEF Send, At, OthersStay
<1> QED BY <1>2, <1>3

LEMMA TransferStep ==
  ASSUME OrdersInv, NEW h \in Handlers, NEW o \in Orders, Transfer(h, o)
  PROVE  /\ OthersStay(h) /\ order' = order
         /\ handler'[h].pc = "transfer read" /\ handler'[h].order = o
<1>1. transfers \in [Orders -> 0..MaxTransfers] /\ transfers[o] < MaxTransfers
  BY DEF OrdersInv, OrdersTypeOK, Transfer
<1>2. transfers[o] + 1 \in 0..MaxTransfers
  BY <1>1, OneMoreIn, OrdersAssumption DEF OrdersAssumption
<1> DEFINE x == OrderHandler("transfer read", o)
           n == transfers[o] + 1
           y == [x EXCEPT !.transfer = n]
<1>3. x \in HandlerState /\ x.pc = "transfer read" /\ x.order = o
  BY OrderHandlerMade DEF HandlerPc
<1>4. Enter(h, y) /\ order' = order
  BY DEF Transfer
<1> HIDE DEF x, n
<1>5. y \in HandlerState /\ y.pc = "transfer read" /\ y.order = o
  BY <1>2, <1>3 DEF HandlerState, n
<1> HIDE DEF y
<1> QED BY <1>4, <1>5, Entered DEF OthersStay, OrdersInv

\* A handler that reads the row will write what follows from it, or leaves.
Reads(h, pc, write) ==
  /\ handler[h].pc = pc /\ OthersStay(h) /\ order' = order
  /\ \/ Away(h)'
     \/ /\ handler'[h].pc = write /\ handler'[h].order = handler[h].order
        /\ Follows(order[handler[h].order], EventOf(write), handler'[h].status)

LEMMA ReadStep ==
  ASSUME OrdersInv, NEW h \in Handlers
  PROVE  /\ TransferRead(h) => Reads(h, "transfer read", "transfer write")
         /\ SendRead(h) => Reads(h, "send read", "send write")
         /\ ErrorRead(h) => Reads(h, "error read", "error write")
         /\ MinedRead(h) => Reads(h, "mined read", "mined write")
<1>1. OrdersTypeOK /\ handler[h] \in HandlerState
  BY DEF OrdersInv, OrdersTypeOK
<1>2. ASSUME NEW write \in Writing, NEW pc, order' = order, handler[h].pc = pc,
             \/ Leave(h)
             \/ \E x \in HandlerState : /\ x.order = handler[h].order
                                        /\ ReadStatus(h, x, EventOf(write), write)
      PROVE  Reads(h, pc, write)
  BY <1>1, <1>2, LeaveIs, RowRead DEF Reads, OthersStay
<1>3. ASSUME NEW write \in {"transfer write", "error write", "mined write"}
      PROVE  write \in Writing
  BY <1>3 DEF Writing
<1>4. TransferRead(h) => Reads(h, "transfer read", "transfer write")
  BY <1>1, <1>2, <1>3 DEF TransferRead, At, EventOf
<1>5. ErrorRead(h) => Reads(h, "error read", "error write")
  BY <1>1, <1>2, <1>3 DEF ErrorRead, At, EventOf
<1>6. MinedRead(h) => Reads(h, "mined read", "mined write")
  BY <1>1, <1>2, <1>3 DEF MinedRead, At, EventOf
<1>7. ASSUME SendRead(h) PROVE Reads(h, "send read", "send write")
  <2> DEFINE r == order[handler[h].order].reservation
             x == [handler[h] EXCEPT !.reservation = r]
  <2>1. r \in Reservations \cup {NoOne}
    BY <1>1, OrderOf DEF OrdersInv, OrdersTypeOK, OrderRow
  <2>2. /\ handler[h].pc = "send read" /\ order' = order
        /\ Leave(h) \/ ReadStatus(h, x, EventOf("send write"), "send write")
    BY <1>7 DEF SendRead, At, EventOf
  <2> HIDE DEF r
  <2>3. x \in HandlerState /\ x.order = handler[h].order
    BY <1>1, <2>1 DEF HandlerState
  <2> HIDE DEF x
  <2>4. "send write" \in Writing
    BY DEF Writing
  <2> QED BY <1>2, <2>2, <2>3, <2>4
<1> QED BY <1>4, <1>5, <1>6, <1>7

LEMMA PostStep ==
  ASSUME OrdersInv, NEW h \in Handlers, NEW o \in Orders, NEW r \in Reservations, Post(h, o, r)
  PROVE  /\ OthersStay(h) /\ order' = order
         /\ \/ handler' = handler /\ handler[h].pc = "idle"
            \/ /\ handler[h].pc = "idle" /\ handler'[h].pc = "post write" /\ handler'[h].order = o
               /\ Follows(order[o], EventOf("post write"), handler'[h].status)
<1> DEFINE x == OrderHandler("idle", o)
           y == [x EXCEPT !.reservation = r]
<1>1. x \in HandlerState /\ x.order = o
  BY OrderHandlerMade DEF HandlerPc
<1>2. /\ handler[h].pc = "idle" /\ order' = order
      /\ handler' = handler \/ ReadStatus(h, y, EventOf("post write"), "post write")
  BY DEF Post, At, EventOf
<1> HIDE DEF x
<1>3. y \in HandlerState /\ y.order = o
  <2>1. r \in Reservations \cup {NoOne}
    OBVIOUS
  <2> QED BY <1>1, <2>1 DEF HandlerState
<1> HIDE DEF y
<1>4. OrdersTypeOK /\ "post write" \in Writing
  BY DEF OrdersInv, Writing
<1> QED BY <1>2, <1>3, <1>4, RowRead DEF OthersStay

\* A handler writes its status into the row of its order, and a post its
\* reservation, and goes on to provision if that is the status; or it leaves.
LEMMA WriteStep ==
  ASSUME OrdersInv, NEW h \in Handlers,
         \/ PostWrite(h) \/ SendWrite(h) \/ TransferWrite(h) \/ ErrorWrite(h) \/ MinedWrite(h)
  PROVE  LET o == handler[h].order IN
         /\ OthersStay(h) /\ handler[h].pc \in Writing
         /\ \A p \in Orders \ {o} : order'[p] = order[p]
         /\ \/ order' = order /\ Away(h)' /\ handler[h].pc = "post write"
            \/ /\ order'[o].status = handler[h].status
               /\ order'[o].reservation = order[o].reservation \/ handler[h].pc = "post write"
               /\ IF handler[h].status = "provisioning" /\ handler[h].pc \in {"post write", "send write"}
                    THEN handler'[h].pc = "provision" /\ handler'[h].order = o
                    ELSE Away(h)'
<1> DEFINE o == handler[h].order
           me == handler[h]
           mid == [order[o] EXCEPT !.status = me.status]
           post == [mid EXCEPT !.reservation = me.reservation]
           transfer == [mid EXCEPT !.transfer = me.transfer]
<1>1. /\ OrdersTypeOK /\ me \in HandlerState /\ o \in Orders
      /\ order \in [Orders -> OrderRow]
  BY OrderOf DEF OrdersInv, OrdersTypeOK
<1>2. mid \in OrderRow /\ mid.status = me.status /\ mid.reservation = order[o].reservation
  <2>1. order[o] \in OrderRow /\ me.status \in Statuses
    BY <1>1 DEF HandlerState
  <2> QED BY <2>1 DEF OrderRow
<1>3. /\ handler[h].pc \in Writing
      /\ \/ Leave(h) /\ order' = order /\ me.pc = "post write"
         \/ WriteOrder(h, post, AfterUpdate(me)) /\ me.pc = "post write"
         \/ WriteOrder(h, mid, AfterUpdate(me)) /\ me.pc = "send write"
         \/ WriteOrder(h, mid, NoRequest) /\ me.pc \in {"error write", "mined write"}
         \/ WriteOrder(h, transfer, NoRequest) /\ me.pc = "transfer write"
  BY DEF PostWrite, SendWrite, TransferWrite, ErrorWrite, MinedWrite, WriteStatus, At, Writing
<1> HIDE DEF mid
<1>4. /\ post \in OrderRow /\ post.status = me.status
      /\ transfer \in OrderRow /\ transfer.status = me.status
      /\ transfer.reservation = order[o].reservation
  BY <1>1, <1>2 DEF OrderRow, HandlerState
<1> HIDE DEF post, transfer
<1>5. /\ AfterUpdate(me) \in HandlerState
      /\ me.status = "provisioning" => AfterUpdate(me).pc = "provision" /\ AfterUpdate(me).order = o
      /\ me.status # "provisioning" => AfterUpdate(me) = NoRequest
  <2>1. me.user \in Users /\ me.reservation \in Reservations \cup {NoOne}
    BY <1>1 DEF HandlerState
  <2> DEFINE x == Handler("provision", o, me.user, me.reservation)
  <2>2. AfterUpdate(me) = IF me.status = "provisioning" THEN x ELSE NoRequest
    BY DEF AfterUpdate
  <2>3. x \in HandlerState /\ x.pc = "provision" /\ x.order = o
    <3>1. "provision" \in HandlerPc
      BY DEF HandlerPc
    <3> HIDE DEF o, me
    <3> QED BY <1>1, <2>1, <3>1, HandlerMade
  <2> HIDE DEF x
  <2> QED BY <2>2, <2>3, NoRequestTyped
<1>6. NoRequest \in HandlerState /\ NoRequest.pc = "idle" /\ "idle" \notin Writing
  BY NoRequestTyped DEF Writing
<1>7. CASE Leave(h) /\ order' = order /\ me.pc = "post write"
  BY <1>1, <1>3, <1>7, LeaveIs
<1>8. ASSUME NEW row \in OrderRow, NEW state \in HandlerState, WriteOrder(h, row, state)
      PROVE  /\ OthersStay(h) /\ order'[o] = row /\ handler'[h] = state
             /\ \A p \in Orders \ {o} : order'[p] = order[p]
  BY <1>1, <1>8, RowWritten DEF OthersStay
<1>9. CASE \/ WriteOrder(h, post, AfterUpdate(me)) /\ me.pc = "post write"
           \/ WriteOrder(h, mid, AfterUpdate(me)) /\ me.pc = "send write"
  BY <1>2, <1>3, <1>4, <1>5, <1>6, <1>8, <1>9 DEF Away
<1>10. CASE \/ WriteOrder(h, mid, NoRequest) /\ me.pc \in {"error write", "mined write"}
            \/ WriteOrder(h, transfer, NoRequest) /\ me.pc = "transfer write"
  BY <1>2, <1>3, <1>4, <1>6, <1>8, <1>10 DEF Away
<1> QED BY <1>3, <1>7, <1>9, <1>10

----------------------------------------------------------------------------
(* How often the funds of an order are moved. *)

Adding(h, o) == handler[h].pc = "receive add" /\ handler[h].order = o
Recording(h, o) ==
  handler[h].pc \in {"transfer read", "transfer write"} /\ handler[h].order = o
WritesReceived(h, o) ==
  /\ handler[h].pc \in Writing /\ handler[h].status \in Received
  /\ handler[h].order = o

\* Nobody has received the funds of an order before the first callback.  After one,
\* they are about to be moved in one place: a handler that adds the job, the job, or
\* a handler that records the transfer, which finds an order that was not received.
MovedOnce(o) ==
  /\ receives[o] = 0 => transfers[o] = 0 /\ o \notin transferJob /\ \A h \in Handlers : ~Adding(h, o)
  /\ receives[o] <= 1 =>
       /\ transfers[o] <= 1
       /\ o \in transferJob => transfers[o] = 0 /\ \A h \in Handlers : ~Adding(h, o)
       /\ \A h \in Handlers : Adding(h, o) => transfers[o] = 0
       /\ \A g, h \in Handlers : Adding(g, o) /\ Adding(h, o) => g = h
       /\ \A h \in Handlers : Recording(h, o) =>
            /\ order[o].status \notin Received
            /\ \A g \in Handlers \ {h} : ~Recording(g, o) /\ ~WritesReceived(g, o)
MovedInv == troubles = 0 => \A o \in Orders : MovedOnce(o)

\* The funds of an order stay where they are.
LEMMA MovedStays ==
  ASSUME OrdersInv, NEW h \in Handlers, NEW o \in Orders, MovedOnce(o), OthersStay(h),
         receives'[o] = receives[o], transfers'[o] = transfers[o],
         o \in transferJob' => o \in transferJob, ~Adding(h, o)',
         Recording(h, o)' => Recording(h, o) /\ order'[o] = order[o],
         WritesReceived(h, o)' => Recording(h, o)' \/ order[o].status \in Received,
         order'[o].status \in Received => order[o].status \in Received \/ WritesReceived(h, o)
  PROVE  MovedOnce(o)'
<1>1. \A g \in Handlers \ {h} : /\ Adding(g, o)' <=> Adding(g, o)
                                /\ Recording(g, o)' <=> Recording(g, o)
                                /\ WritesReceived(g, o)' <=> WritesReceived(g, o)
  BY DEF OthersStay, Adding, Recording, WritesReceived
<1>2. \A g \in Handlers : Adding(g, o)' => Adding(g, o)
  BY <1>1
<1>3. \A g \in Handlers : Recording(g, o)' => Recording(g, o)
  BY <1>1
<1>4. ASSUME receives[o] <= 1, NEW k \in Handlers, Recording(k, o)'
      PROVE  /\ order'[o].status \notin Received
             /\ \A g \in Handlers \ {k} : ~Recording(g, o)' /\ ~WritesReceived(g, o)'
  <2>1. /\ Recording(k, o) /\ order[o].status \notin Received
        /\ \A g \in Handlers \ {k} : ~Recording(g, o) /\ ~WritesReceived(g, o)
    BY <1>3, <1>4 DEF MovedOnce
  <2>2. order'[o].status \notin Received
    <3>1. CASE k = h
      BY <1>4, <2>1, <3>1
    <3>2. CASE k # h
      BY <2>1, <3>2
    <3> QED BY <3>1, <3>2
  <2>3. ASSUME NEW g \in Handlers \ {k} PROVE ~Recording(g, o)' /\ ~WritesReceived(g, o)'
    <3>1. ~Recording(g, o)'
      BY <1>3, <2>1
    <3>2. CASE g = h
      BY <2>1, <3>1, <3>2
    <3>3. CASE g # h
      BY <1>1, <2>1, <3>1, <3>3
    <3> QED BY <3>1, <3>2, <3>3
  <2> QED BY <2>2, <2>3
<1>5. receives'[o] = 0 => /\ transfers'[o] = 0 /\ o \notin transferJob'
                          /\ \A g \in Handlers : ~Adding(g, o)'
  BY <1>2 DEF MovedOnce
<1>6. receives'[o] <= 1 =>
        /\ transfers'[o] <= 1
        /\ o \in transferJob' => transfers'[o] = 0 /\ \A g \in Handlers : ~Adding(g, o)'
        /\ \A g \in Handlers : Adding(g, o)' => transfers'[o] = 0
        /\ \A g, k \in Handlers : Adding(g, o)' /\ Adding(k, o)' => g = k
  BY <1>2 DEF MovedOnce
<1> QED BY <1>4, <1>5, <1>6 DEF MovedOnce, Recording, Adding, WritesReceived

\* An order whose funds were not moved: nobody records that they were.
LEMMA NotMoved ==
  ASSUME OrdersInv, NEW o \in Orders, transfers[o] = 0
  PROVE  /\ order[o].status \notin Received
         /\ \A g \in Handlers : ~Recording(g, o) /\ ~WritesReceived(g, o)
<1>1. ~(transfers[o] > 0)
  OBVIOUS
<1> QED BY <1>1 DEF OrdersInv, FundsMoved, Recording, WritesReceived

\* A handler that is away is in none of the places.
LEMMA AwayMoves ==
  ASSUME NEW h, NEW o, Away(h)'
  PROVE  ~Adding(h, o)' /\ ~Recording(h, o)' /\ ~WritesReceived(h, o)'
BY DEF Away, Adding, Recording, WritesReceived, Writing

LEMMA ReceiveCounts ==
  ASSUME OrdersInv, NEW h \in Handlers, NEW o \in Orders
  PROVE  receives[o] \in Nat /\ (Receive(h, o) => receives'[o] = receives[o] + 1)
<1>1. /\ receives \in [Orders -> 0..MaxCallbacks] /\ MaxCallbacks \in Nat
  BY OrdersAssumption DEF OrdersInv, OrdersTypeOK, OrdersAssumption
<1>2. receives[o] \in 0..MaxCallbacks
  BY <1>1
<1>3. Receive(h, o) => receives' = [receives EXCEPT ![o] = @ + 1]
  BY DEF Receive
<1> QED BY <1>1, <1>2, <1>3

LEMMA MovedByReceive ==
  ASSUME OrdersInv, NEW h \in Handlers, NEW o \in Orders, MovedOnce(o), Receive(h, o)
  PROVE  MovedOnce(o)'
<1>2. /\ receives'[o] = receives[o] + 1 /\ receives[o] \in Nat
      /\ UNCHANGED <<order, transfers, transferJob>>
  BY ReceiveCounts DEF Receive
<1>3. receives'[o] # 0 /\ (receives'[o] <= 1 => receives[o] = 0)
  BY <1>2
<1>4. OthersStay(h) /\ handler'[h].pc \in {"idle", "receive add"}
  BY RequestStep
<1>5. SUFFICES ASSUME receives[o] = 0 PROVE MovedOnce(o)'
  BY <1>3 DEF MovedOnce
<1>6. /\ transfers[o] = 0 /\ o \notin transferJob /\ \A g \in Handlers : ~Adding(g, o)
  BY <1>5 DEF MovedOnce
<1>7. \A g \in Handlers \ {h} : /\ Adding(g, o)' <=> Adding(g, o)
                                /\ Recording(g, o)' <=> Recording(g, o)
  BY <1>4 DEF OthersStay, Adding, Recording
<1>8. \A g \in Handlers : ~Recording(g, o)'
  BY <1>4, <1>6, <1>7, NotMoved DEF Recording
<1>9. \A g, k \in Handlers : Adding(g, o)' /\ Adding(k, o)' => g = k
  BY <1>6, <1>7
<1>10. transfers'[o] = 0 /\ o \notin transferJob' /\ transfers'[o] <= 1
  BY <1>2, <1>6
<1> QED BY <1>3, <1>8, <1>9, <1>10 DEF MovedOnce

LEMMA MovedByAdd ==
  ASSUME OrdersInv, NEW h \in Handlers, NEW o \in Orders, MovedOnce(o), ReceiveAdd(h),
         handler[h].order = o
  PROVE  MovedOnce(o)'
<1>1. Adding(h, o) /\ Away(h)' /\ OthersStay(h)
  BY AwayStep DEF ReceiveAdd, At, Adding
<1>2. UNCHANGED <<order, transfers, receives>>
  BY DEF ReceiveAdd, asked
<1>3. receives[o] # 0
  BY <1>1 DEF MovedOnce
<1>4. \A g \in Handlers \ {h} : /\ Adding(g, o)' <=> Adding(g, o)
                                /\ Recording(g, o)' <=> Recording(g, o)
  BY <1>1 DEF OthersStay, Adding, Recording
<1>5. ~Adding(h, o)' /\ ~Recording(h, o)'
  BY <1>1, AwayMoves
<1>6. SUFFICES ASSUME receives[o] <= 1 PROVE MovedOnce(o)'
  BY <1>2, <1>3 DEF MovedOnce
<1>7. transfers[o] = 0 /\ \A g \in Handlers \ {h} : ~Adding(g, o)
  BY <1>1, <1>6 DEF MovedOnce
<1>8. \A g \in Handlers : ~Adding(g, o)' /\ ~Recording(g, o)'
  BY <1>4, <1>5, <1>7, NotMoved
<1> QED BY <1>2, <1>3, <1>7, <1>8 DEF MovedOnce, Adding, Recording

LEMMA MovedByTransfer ==
  ASSUME OrdersInv, NEW h \in Handlers, NEW o \in Orders, MovedOnce(o), Transfer(h, o)
  PROVE  MovedOnce(o)'
<1>1. /\ OthersStay(h) /\ order' = order /\ handler'[h].pc = "transfer read"
  BY TransferStep
<1>2. /\ o \in transferJob /\ o \notin transferJob' /\ receives' = receives
      /\ transfers'[o] = transfers[o] + 1
  BY DEF Transfer, asked, OrdersInv, OrdersTypeOK
<1>3. receives[o] # 0
  BY <1>2 DEF MovedOnce
<1>4. SUFFICES ASSUME receives[o] <= 1 PROVE MovedOnce(o)'
  BY <1>2, <1>3 DEF MovedOnce
<1>5. transfers[o] = 0 /\ \A g \in Handlers : ~Adding(g, o)
  BY <1>2, <1>4 DEF MovedOnce
<1>6. \A g \in Handlers \ {h} : /\ Adding(g, o)' <=> Adding(g, o)
                                /\ Recording(g, o)' <=> Recording(g, o)
                                /\ WritesReceived(g, o)' <=> WritesReceived(g, o)
  BY <1>1 DEF OthersStay, Adding, Recording, WritesReceived
<1>7. \A g \in Handlers : ~Adding(g, o)'
  BY <1>1, <1>5, <1>6 DEF Adding
<1>8. /\ order'[o].status \notin Received
      /\ \A g \in Handlers \ {h} : ~Recording(g, o)' /\ ~WritesReceived(g, o)'
  BY <1>1, <1>5, <1>6, NotMoved
<1>9. transfers'[o] <= 1
  BY <1>2, <1>5
<1> QED BY <1>2, <1>3, <1>7, <1>8, <1>9 DEF MovedOnce, Adding, Recording, WritesReceived

\* The run of the job finds an order that was not received, and records the transfer.
LEMMA MovedByRead ==
  ASSUME OrdersInv, NEW h \in Handlers, NEW o \in Orders, MovedOnce(o), TransferRead(h)
  PROVE  MovedOnce(o)'
<1>1. Reads(h, "transfer read", "transfer write")
  BY ReadStep
<1>2. UNCHANGED <<transfers, receives, order>>
  BY <1>1 DEF TransferRead, asked, Reads
<1>3. /\ o \in transferJob' /\ o \notin transferJob =>
           handler[h].order = o /\ ~Handled(order[o], "wyre-receive-funds")
  BY DEF TransferRead
<1>4. o \in transferJob' /\ o \notin transferJob => receives[o] # 0 /\ ~(receives[o] <= 1)
  <2>1. SUFFICES ASSUME handler[h].order = o, ~Handled(order[o], "wyre-receive-funds")
                 PROVE  receives[o] # 0 /\ ~(receives[o] <= 1)
    BY <1>3
  <2>2. Recording(h, o)
    BY <1>1, <2>1 DEF Recording, Reads
  <2>3. transfers[o] # 0
    BY <2>2, NotMoved
  <2>4. order[o].status \in Received
    <3>1. order[o].status \in Statuses
      BY DEF OrdersInv, OrdersTypeOK, OrderRow
    <3>2. order[o].status \notin {"none", "waiting-for-order"}
      BY <2>1 DEF Handled, Follows, Statuses
    <3> QED BY <3>1, <3>2 DEF Statuses, Received
  <2> QED BY <2>2, <2>3, <2>4 DEF MovedOnce
<1>5. CASE o \in transferJob' /\ o \notin transferJob
  BY <1>2, <1>4, <1>5 DEF MovedOnce
<1>6. CASE o \in transferJob' => o \in transferJob
  <2>1. ~Adding(h, o)'
    BY <1>1, AwayMoves DEF Reads, Adding
  <2>2. Recording(h, o)' => Recording(h, o)
    BY <1>1, AwayMoves DEF Reads, Recording
  <2>3. WritesReceived(h, o)' => Recording(h, o)'
    BY <1>1, AwayMoves DEF Reads, Recording, WritesReceived
  <2> QED BY <1>1, <1>2, <1>6, <2>1, <2>2, <2>3, MovedStays DEF Reads
<1> QED BY <1>5, <1>6

\* A handler that reads an order for another purpose.
LEMMA MovedByOtherRead ==
  ASSUME OrdersInv, NEW h \in Handlers, NEW o \in Orders, MovedOnce(o), OthersStay(h),
         UNCHANGED <<order, transfers, transferJob, receives>>,
         NEW write \in Writing \ {"transfer write"}, handler'[h].pc = write,
         Follows(order[handler'[h].order], EventOf(write), handler'[h].status)
  PROVE  MovedOnce(o)'
<1>1. ~Adding(h, o)' /\ ~Recording(h, o)'
  BY DEF Adding, Recording, Writing
<1>2. WritesReceived(h, o)' => order[o].status \in Received
  BY FollowsFunded DEF WritesReceived
<1> QED BY <1>1, <1>2, MovedStays

LEMMA MovedByAway ==
  ASSUME OrdersInv, NEW h \in Handlers, NEW o \in Orders, MovedOnce(o), OthersStay(h),
         Away(h)', order' = order, receives'[o] = receives[o], transfers'[o] = transfers[o],
         o \in transferJob' => o \in transferJob
  PROVE  MovedOnce(o)'
BY AwayMoves, MovedStays

LEMMA MovedByWrite ==
  ASSUME OrdersInv, NEW h \in Handlers, NEW o \in Orders, MovedOnce(o),
         \/ PostWrite(h) \/ SendWrite(h) \/ TransferWrite(h) \/ ErrorWrite(h) \/ MinedWrite(h)
  PROVE  MovedOnce(o)'
<1>1. UNCHANGED <<transfers, transferJob, receives>>
  BY DEF PostWrite, SendWrite, TransferWrite, ErrorWrite, MinedWrite, asked
<1>2. OthersStay(h) /\ handler[h].pc \in Writing
  BY WriteStep
<1>3. Away(h)' \/ handler'[h].pc = "provision"
  BY WriteStep
<1>4. ~Adding(h, o)' /\ ~Recording(h, o)' /\ ~WritesReceived(h, o)'
  BY <1>3, AwayMoves DEF Adding, Recording, WritesReceived, Writing
<1>5. order'[o].status \in Received => order[o].status \in Received \/ WritesReceived(h, o)
  <2>1. CASE handler[h].order = o
    BY <1>2, <2>1, WriteStep DEF WritesReceived
  <2>2. CASE handler[h].order # o
    BY <2>2, WriteStep
  <2> QED BY <2>1, <2>2
<1> QED BY <1>1, <1>2, <1>4, <1>5, MovedStays

LEMMA MovedByRequest ==
  ASSUME OrdersInv, NEW h \in Handlers, NEW o \in Orders, MovedOnce(o), Requested(h)
  PROVE  MovedOnce(o)'
<1>1. ASSUME NEW u \in Users, Reserve(h, u) PROVE MovedOnce(o)'
  BY <1>1, AwayStep, MovedByAway DEF Reserve, asked
<1>2. ASSUME NEW q \in Orders, Receive(h, q) PROVE MovedOnce(o)'
  <2>1. CASE q = o
    BY <1>2, <2>1, MovedByReceive
  <2>2. CASE q # o
    <3>1. receives'[o] = receives[o] /\ UNCHANGED <<order, transfers, transferJob>>
      BY <1>2, <2>2 DEF Receive, OrdersInv, OrdersTypeOK
    <3>2. OthersStay(h) /\ ~Adding(h, o)' /\ ~Recording(h, o)' /\ ~WritesReceived(h, o)'
      BY <1>2, <2>2, RequestStep DEF Adding, Recording, WritesReceived, Writing
    <3> QED BY <3>1, <3>2, MovedStays
  <2> QED BY <2>1, <2>2
<1>3. ASSUME NEW q \in Orders, Transfer(h, q) PROVE MovedOnce(o)'
  <2>1. CASE q = o
    BY <1>3, <2>1, MovedByTransfer
  <2>2. CASE q # o
    <3>1. /\ transfers'[o] = transfers[o] /\ UNCHANGED <<order, receives>>
          /\ o \in transferJob' => o \in transferJob
      BY <1>3, <2>2 DEF Transfer, OrdersInv, OrdersTypeOK, asked
    <3>2. OthersStay(h) /\ ~Adding(h, o)' /\ ~Recording(h, o)' /\ ~WritesReceived(h, o)'
      <4>1. OthersStay(h) /\ handler'[h].pc = "transfer read" /\ handler'[h].order = q
        BY <1>3, TransferStep
      <4> QED BY <2>2, <4>1 DEF Adding, Recording, WritesReceived, Writing
    <3> QED BY <3>1, <3>2, MovedStays
  <2> QED BY <2>1, <2>2
<1>4. ASSUME NEW q \in Orders, NEW r \in Reservations, Post(h, q, r) PROVE MovedOnce(o)'
  <2>1. UNCHANGED <<order, transfers, transferJob, receives>> /\ OthersStay(h)
    BY <1>4, PostStep DEF Post
  <2>2. CASE handler' = handler /\ handler[h].pc = "idle"
    <3>1. Away(h)'
      BY <2>2 DEF Away, Writing
    <3> QED BY <2>1, <3>1, MovedByAway
  <2>3. CASE handler'[h].pc = "post write" /\ handler'[h].order = q
               /\ Follows(order[q], EventOf("post write"), handler'[h].status)
    <3>1. "post write" \in Writing \ {"transfer write"}
      BY DEF Writing
    <3> QED BY <2>1, <2>3, <3>1, MovedByOtherRead
  <2> QED BY <1>4, <2>2, <2>3, PostStep
<1>5. ASSUME NEW q \in Orders, NEW t \in 1..MaxTransfers, Send(h, q, t) PROVE MovedOnce(o)'
  <2>1. UNCHANGED <<order, transfers, transferJob, receives>>
    BY <1>5 DEF Send
  <2>2. OthersStay(h) /\ handler'[h].pc \in {"idle", "send read"}
    <3>1. ~Receive(h, q)
      <4>1. receives[q] \in Nat /\ (Receive(h, q) => receives'[q] = receives[q] + 1)
        BY ReceiveCounts
      <4>2. receives'[q] = receives[q]
        BY <2>1
      <4> QED BY <4>1, <4>2
    <3> QED BY <1>5, <3>1, RequestStep
  <2>3. ~Adding(h, o)' /\ ~Recording(h, o)' /\ ~WritesReceived(h, o)'
    BY <2>2 DEF Adding, Recording, WritesReceived, Writing
  <2> QED BY <2>1, <2>2, <2>3, MovedStays
<1> QED BY <1>1, <1>2, <1>3, <1>4, <1>5 DEF Requested

LEMMA MovedByStep ==
  ASSUME OrdersInv, NEW h \in Handlers, NEW o \in Orders, MovedOnce(o), HandlerStep(h)
  PROVE  MovedOnce(o)'
<1>1. CASE ReserveDelete(h) \/ ReserveInsert(h) \/ RelayError(h) \/ ErrorFind(h)
             \/ AwaitCard(h) \/ Provision(h)
  <2>1. UNCHANGED <<transfers, transferJob, receives>>
    BY <1>1 DEF ReserveDelete, ReserveInsert, RelayError, ErrorFind, AwaitCard, Provision, asked
  <2> QED BY <1>1, <2>1, AwayStep, MovedByAway
<1>2. CASE ReceiveAdd(h)
  <2>1. UNCHANGED <<order, transfers, receives>>
    BY <1>2 DEF ReceiveAdd, asked
  <2>2. handler[h].order # o => (o \in transferJob' => o \in transferJob)
    BY <1>2 DEF ReceiveAdd
  <2> QED BY <1>2, <2>1, <2>2, AwayStep, MovedByAway, MovedByAdd
<1>3. CASE SendRead(h) \/ ErrorRead(h) \/ MinedRead(h)
  <2>1. UNCHANGED <<transfers, transferJob, receives>>
    BY <1>3 DEF SendRead, ErrorRead, MinedRead, asked
  <2>2. PICK write \in {"send write", "error write", "mined write"} :
          \E pc \in {"send read", "error read", "mined read"} : Reads(h, pc, write)
    BY <1>3, ReadStep
  <2>3. write \in Writing \ {"transfer write"}
    BY <2>2 DEF Writing
  <2>4. /\ OthersStay(h) /\ order' = order
        /\ \/ Away(h)'
           \/ handler'[h].pc = write /\ Follows(order[handler'[h].order], EventOf(write), handler'[h].status)
    BY <2>2 DEF Reads
  <2> QED BY <2>1, <2>3, <2>4, MovedByAway, MovedByOtherRead
<1> QED BY <1>1, <1>2, <1>3, MovedByRead, MovedByWrite DEF HandlerStep

LEMMA MovedNext ==
  ASSUME OrdersInv, MovedInv, [OrdersNext]_ordersVars
  PROVE  MovedInv'
<1>1. CASE UNCHANGED ordersVars
  BY <1>1 DEF MovedInv, MovedOnce, Adding, Recording, WritesReceived, ordersVars, asked
<1>2. ASSUME NEW h \in Handlers, Requested(h) \/ HandlerStep(h) PROVE MovedInv'
  <2>1. troubles' = troubles
    BY <1>2 DEF Requested, HandlerStep, Reserve, Receive, Transfer, Post, Send, ReserveDelete,
       ReserveInsert, PostWrite, ReceiveAdd, TransferRead, TransferWrite, SendRead, SendWrite,
       Provision, RelayError, ErrorFind, ErrorRead, ErrorWrite, AwaitCard, MinedRead, MinedWrite
  <2> QED BY <1>2, <2>1, MovedByRequest, MovedByStep DEF MovedInv
<1>3. ASSUME NEW h \in Handlers, Trouble(h) PROVE MovedInv'
  <2>1. troubles \in Nat /\ troubles' = troubles + 1
    <3>1. troubles \in 0..MaxTroubles /\ MaxTroubles \in Nat /\ troubles' = troubles + 1
      BY <1>3, OrdersAssumption DEF Trouble, OrdersInv, OrdersTypeOK, OrdersAssumption
    <3> QED BY <3>1
  <2>2. troubles' # 0
    BY <2>1
  <2> QED BY <2>2 DEF MovedInv
<1> QED BY <1>1, <1>2, <1>3 DEF OrdersNext

\* The funds of an order with one callback are moved once, if nothing fails: the job
\* is added once, its run removes it, and finds an order that no other handler can
\* have marked as received (tasks/wyre-transfer.ts, services/order.ts).
THEOREM MovesOnce == OrdersSpec => []TransferredOnce
<1>1. OrdersInit => MovedInv
  <2>1. OrdersInit => \A h \in Handlers : handler[h].pc = "idle"
    BY NoRequestTyped DEF OrdersInit
  <2> QED BY <2>1 DEF OrdersInit, MovedInv, MovedOnce, Adding, Recording
<1>2. MovedInv => TransferredOnce
  BY DEF MovedInv, MovedOnce, TransferredOnce
<1> QED BY <1>1, <1>2, OrdersInitial, OrdersStep, MovedNext, PTL DEF OrdersSpec

----------------------------------------------------------------------------
(* How many handlers may provision a card. *)

\* The handlers that a post or a callback has brought on the way to a card of an order.
Engaged(h, o) ==
  handler[h].pc \in {"post write", "send read", "send write", "provision"} /\ handler[h].order = o
EngagedIn(o) == {h \in Handlers : Engaged(h, o)}
\* One of them that will provision, or is about to.
Bound(h, o) ==
  /\ handler[h].order = o
  /\ \/ handler[h].pc = "provision"
     \/ handler[h].pc \in {"post write", "send write"} /\ handler[h].status = "provisioning"

\* A post or a callback of the order did not provision: it left the order with its
\* reservation, or waiting for one, which is what the first that provisions has found.
Spent(o) ==
  \/ order[o].reservation # NoOne \/ order[o].status = "waiting-for-reservation"
  \/ cards[o] > 0 \/ \E h \in Handlers : Bound(h, o)

\* What a handler writes, however stale its read is.
Outcome(h) ==
  LET me == handler[h] IN
  /\ me.pc = "transfer write" => me.status = "received-order"
  /\ me.pc = "mined write" => me.status = "complete"
  /\ me.pc = "error write" => me.status = "error-provisioning"

SpareOne(o) ==
  /\ IsFiniteSet(EngagedIn(o))
  /\ cards[o] + Cardinality(EngagedIn(o)) + (IF Spent(o) THEN 1 ELSE 0) <= posts[o] + sends[o]
SpareInv == (\A h \in Handlers : Outcome(h)) /\ \A o \in Orders : SpareOne(o)

LEMMA OrderCounts ==
  ASSUME OrdersInv, NEW o \in Orders
  PROVE  cards[o] \in Nat /\ posts[o] \in Nat /\ sends[o] \in Nat
<1>1. posts[o] \in 0..MaxPosts /\ sends[o] \in 0..MaxCallbacks /\ cards[o] \in Nat
  BY DEF OrdersInv, OrdersTypeOK
<1> QED BY <1>1, OrdersAssumption DEF OrdersAssumption

\* A sum that a step leaves in its bounds.
LEMMA Bounded ==
  ASSUME NEW c \in Nat, NEW n \in Nat, NEW b \in {0, 1}, NEW p \in Nat, c + n + b <= p,
         NEW d \in Nat, NEW m \in Nat, NEW e \in {0, 1}, NEW q \in Nat,
         \/ d = c /\ m <= n /\ e <= b /\ p <= q
         \/ d = c /\ m + 1 = n /\ p = q
         \/ d = c + 1 /\ m + 1 = n /\ b = 1 /\ p = q
         \/ d = c /\ m = n + 1 /\ e <= b /\ q = p + 1
  PROVE  d + m + e <= q
OBVIOUS

\* The same for the handlers of an order.
LEMMA SpareKept ==
  ASSUME NEW o \in Orders, OrdersInv, OrdersInv', SpareOne(o), NEW h \in Handlers,
         \/ /\ EngagedIn(o)' \subseteq EngagedIn(o) /\ cards'[o] = cards[o]
            /\ Spent(o)' => Spent(o)
            /\ posts[o] + sends[o] <= posts'[o] + sends'[o]
         \/ /\ h \in EngagedIn(o) /\ EngagedIn(o)' = EngagedIn(o) \ {h}
            /\ cards'[o] = cards[o] \/ (cards'[o] = cards[o] + 1 /\ Spent(o))
            /\ posts[o] + sends[o] = posts'[o] + sends'[o]
         \/ /\ h \notin EngagedIn(o) /\ EngagedIn(o)' = EngagedIn(o) \cup {h}
            /\ cards'[o] = cards[o] /\ (Spent(o)' => Spent(o))
            /\ posts'[o] + sends'[o] = posts[o] + sends[o] + 1
  PROVE  SpareOne(o)'
<1> DEFINE n == Cardinality(EngagedIn(o))
           m == Cardinality(EngagedIn(o)')
           b == IF Spent(o) THEN 1 ELSE 0
           e == IF Spent(o)' THEN 1 ELSE 0
           p == posts[o] + sends[o]
           q == posts'[o] + sends'[o]
<1>1. /\ cards[o] \in Nat /\ cards'[o] \in Nat /\ p \in Nat /\ q \in Nat
      /\ b \in {0, 1} /\ e \in {0, 1} /\ (Spent(o) => b = 1)
      /\ (Spent(o)' => Spent(o)) => e <= b
  <2>1. cards[o] \in Nat /\ posts[o] \in Nat /\ sends[o] \in Nat
    BY OrderCounts
  <2>2. cards'[o] \in Nat /\ posts'[o] \in Nat /\ sends'[o] \in Nat
    <3>1. posts'[o] \in 0..MaxPosts /\ sends'[o] \in 0..MaxCallbacks /\ cards'[o] \in Nat
      BY DEF OrdersInv, OrdersTypeOK
    <3> QED BY <3>1, OrdersAssumption DEF OrdersAssumption
  <2> QED BY <2>1, <2>2
<1>2. IsFiniteSet(EngagedIn(o)) /\ n \in Nat /\ cards[o] + n + b <= p
  BY FS_CardinalityType DEF SpareOne
<1>3. CASE /\ EngagedIn(o)' \subseteq EngagedIn(o) /\ cards'[o] = cards[o]
           /\ Spent(o)' => Spent(o)
           /\ posts[o] + sends[o] <= posts'[o] + sends'[o]
  <2>1. IsFiniteSet(EngagedIn(o)') /\ m <= n /\ m \in Nat
    BY <1>2, <1>3, FS_Subset, FS_CardinalityType
  <2>2. e <= b /\ p <= q
    BY <1>1, <1>3
  <2> HIDE DEF n, m, b, e, p, q
  <2>3. cards'[o] + m + e <= q
    BY <1>1, <1>2, <1>3, <2>1, <2>2, Bounded
  <2> QED BY <2>1, <2>3 DEF SpareOne, m, e, q
<1>4. CASE /\ h \in EngagedIn(o) /\ EngagedIn(o)' = EngagedIn(o) \ {h}
           /\ cards'[o] = cards[o] \/ (cards'[o] = cards[o] + 1 /\ Spent(o))
           /\ posts[o] + sends[o] = posts'[o] + sends'[o]
  <2>1. IsFiniteSet(EngagedIn(o)') /\ m = n - 1 /\ m \in Nat
    BY <1>2, <1>4, FS_RemoveElement, FS_CardinalityType
  <2>2. m + 1 = n /\ p = q
    BY <1>2, <1>4, <2>1
  <2>3. Spent(o) => b = 1
    BY <1>1
  <2> HIDE DEF n, m, b, e, p, q
  <2>4. cards'[o] + m + e <= q
    BY <1>1, <1>2, <1>4, <2>1, <2>2, <2>3, Bounded
  <2> QED BY <2>1, <2>4 DEF SpareOne, m, e, q
<1>5. CASE /\ h \notin EngagedIn(o) /\ EngagedIn(o)' = EngagedIn(o) \cup {h}
           /\ cards'[o] = cards[o] /\ (Spent(o)' => Spent(o))
           /\ posts'[o] + sends'[o] = posts[o] + sends[o] + 1
  <2>1. IsFiniteSet(EngagedIn(o)') /\ m = n + 1 /\ m \in Nat
    BY <1>2, <1>5, FS_AddElement, FS_CardinalityType
  <2>2. e <= b /\ q = p + 1
    BY <1>1, <1>5
  <2> HIDE DEF n, m, b, e, p, q
  <2>3. cards'[o] + m + e <= q
    BY <1>1, <1>2, <1>5, <2>1, <2>2, Bounded
  <2> QED BY <2>1, <2>3 DEF SpareOne, m, e, q
<1> QED BY <1>3, <1>4, <1>5

\* The handlers of an order, when one of them moves.
LEMMA EngagedMoves ==
  ASSUME NEW h \in Handlers, NEW o \in Orders, OthersStay(h)
  PROVE  /\ ~Engaged(h, o)' => EngagedIn(o)' = EngagedIn(o) \ {h}
         /\ Engaged(h, o)' => EngagedIn(o)' = EngagedIn(o) \cup {h}
         /\ h \in EngagedIn(o) <=> Engaged(h, o)
<1>1. \A g \in Handlers \ {h} : Engaged(g, o)' <=> Engaged(g, o)
  BY DEF OthersStay, Engaged
<1> QED BY <1>1 DEF EngagedIn

LEMMA SpentBefore ==
  ASSUME NEW h \in Handlers, NEW o \in Orders, OthersStay(h),
         order'[o] = order[o]
           \/ (order'[o].reservation = order[o].reservation /\ order'[o].status # "waiting-for-reservation"),
         cards'[o] = cards[o], Bound(h, o)' => Spent(o)
  PROVE  Spent(o)' => Spent(o)
<1>1. \A g \in Handlers \ {h} : Bound(g, o)' <=> Bound(g, o)
  BY DEF OthersStay, Bound
<1> QED BY <1>1 DEF Spent

\* A step that brings the order no closer to a card, and asks for none.
LEMMA SpareIdle ==
  ASSUME OrdersInv, OrdersInv', NEW h \in Handlers, NEW o \in Orders, SpareOne(o), OthersStay(h),
         order'[o] = order[o]
           \/ (order'[o].reservation = order[o].reservation /\ order'[o].status # "waiting-for-reservation"),
         cards'[o] = cards[o], Engaged(h, o)' => Engaged(h, o),
         Bound(h, o)' => Spent(o),
         posts'[o] = posts[o], sends'[o] = sends[o]
  PROVE  SpareOne(o)'
<1>1. EngagedIn(o)' \subseteq EngagedIn(o)
  BY EngagedMoves
<1>2. Spent(o)' => Spent(o)
  BY SpentBefore
<1>3. posts[o] + sends[o] <= posts'[o] + sends'[o]
  BY OrderCounts
<1> QED BY <1>1, <1>2, <1>3, SpareKept

LEMMA AwaySpare ==
  ASSUME NEW h, NEW o, Away(h)'
  PROVE  ~Engaged(h, o)' /\ ~Bound(h, o)'
BY DEF Away, Engaged, Bound, Writing

\* The handler of a request joins those of its order.
LEMMA SpareByPost ==
  ASSUME OrdersInv, OrdersInv', NEW h \in Handlers, NEW o \in Orders, SpareOne(o),
         NEW q \in Orders, NEW r \in Reservations, Post(h, q, r)
  PROVE  SpareOne(o)'
<1>1. OthersStay(h) /\ order' = order /\ handler[h].pc = "idle"
  BY PostStep DEF Post, At
<1>2. cards' = cards /\ sends' = sends /\ posts' = [posts EXCEPT ![q] = @ + 1]
  BY DEF Post
<1>3. ~Engaged(h, o)
  BY <1>1 DEF Engaged
<1>4. Bound(h, o)' => Spent(o)
  <2>1. SUFFICES ASSUME Bound(h, o)' PROVE Spent(o)
    OBVIOUS
  <2>2. /\ handler'[h].pc = "post write" /\ handler'[h].order = q
        /\ Follows(order[q], EventOf("post write"), handler'[h].status)
    BY <1>1, <2>1, PostStep DEF Bound
  <2>3. q = o /\ handler'[h].status = "provisioning"
    BY <2>1, <2>2 DEF Bound
  <2>4. order[o].status = "waiting-for-reservation"
    BY <2>2, <2>3 DEF Follows, EventOf
  <2> QED BY <2>4 DEF Spent
<1>5. CASE q # o
  <2>1. posts'[o] = posts[o]
    BY <1>2, <1>5 DEF OrdersInv, OrdersTypeOK
  <2>2. ~Engaged(h, o)'
    BY <1>1, <1>5, PostStep DEF Engaged
  <2> QED BY <1>1, <1>2, <1>4, <2>1, <2>2, SpareIdle
<1>6. CASE q = o
  <2>1. posts'[o] = posts[o] + 1
    BY <1>2, <1>6 DEF OrdersInv, OrdersTypeOK
  <2>2. /\ posts'[o] + sends'[o] = posts[o] + sends[o] + 1
        /\ posts[o] + sends[o] <= posts'[o] + sends'[o]
    BY <1>2, <2>1, OrderCounts
  <2>3. Spent(o)' => Spent(o)
    BY <1>1, <1>2, <1>4, SpentBefore
  <2> QED BY <1>1, <1>2, <1>3, <2>2, <2>3, EngagedMoves, SpareKept
<1> QED BY <1>5, <1>6

LEMMA SpareBySend ==
  ASSUME OrdersInv, OrdersInv', NEW h \in Handlers, NEW o \in Orders, SpareOne(o),
         NEW q \in Orders, NEW t \in 1..MaxTransfers, Send(h, q, t)
  PROVE  SpareOne(o)'
<1>1. OthersStay(h) /\ order' = order /\ handler[h].pc = "idle"
  BY RequestStep DEF Send, At
<1>2. cards' = cards /\ posts' = posts /\ sends' = [sends EXCEPT ![q] = @ + 1]
  BY DEF Send
<1>3. ~Engaged(h, o)
  BY <1>1 DEF Engaged
<1>4. ~Bound(h, o)'
  BY RequestStep DEF Bound
<1>5. CASE q # o
  <2>1. sends'[o] = sends[o]
    BY <1>2, <1>5 DEF OrdersInv, OrdersTypeOK
  <2>2. ~Engaged(h, o)'
    BY <1>5, RequestStep DEF Engaged
  <2> QED BY <1>1, <1>2, <1>4, <2>1, <2>2, SpareIdle
<1>6. CASE q = o
  <2>1. sends'[o] = sends[o] + 1
    BY <1>2, <1>6 DEF OrdersInv, OrdersTypeOK
  <2>2. /\ posts'[o] + sends'[o] = posts[o] + sends[o] + 1
        /\ posts[o] + sends[o] <= posts'[o] + sends'[o]
    BY <1>2, <2>1, OrderCounts
  <2>3. Spent(o)' => Spent(o)
    BY <1>1, <1>2, <1>4, SpentBefore
  <2> QED BY <1>1, <1>2, <1>3, <2>2, <2>3, EngagedMoves, SpareKept
<1> QED BY <1>5, <1>6

LEMMA SpareByProvision ==
  ASSUME OrdersInv, OrdersInv', NEW h \in Handlers, NEW o \in Orders, SpareOne(o), Provision(h)
  PROVE  SpareOne(o)'
<1>1. Away(h)' /\ OthersStay(h) /\ order' = order
  BY AwayStep
<1>2. /\ handler[h].pc = "provision" /\ posts' = posts /\ sends' = sends
      /\ cards' = cards \/ cards' = [cards EXCEPT ![handler[h].order] = @ + 1]
  BY DEF Provision, At, asked
<1>3. ~Engaged(h, o)' /\ ~Bound(h, o)'
  BY <1>1, AwaySpare
<1>4. CASE handler[h].order # o
  <2>1. cards'[o] = cards[o]
    BY <1>2, <1>4 DEF OrdersInv, OrdersTypeOK
  <2> QED BY <1>1, <1>2, <1>3, <2>1, SpareIdle
<1>5. CASE handler[h].order = o
  <2>1. Engaged(h, o) /\ Spent(o)
    BY <1>2, <1>5 DEF Engaged, Spent, Bound
  <2>2. cards'[o] = cards[o] \/ cards'[o] = cards[o] + 1
    BY <1>2, <1>5 DEF OrdersInv, OrdersTypeOK
  <2>3. posts[o] + sends[o] = posts'[o] + sends'[o]
    BY <1>2
  <2> QED BY <1>1, <1>3, <2>1, <2>2, <2>3, EngagedMoves, SpareKept
<1> QED BY <1>4, <1>5

\* A write that does not provision is one request less that will.
LEMMA SpareByWrite ==
  ASSUME OrdersInv, OrdersInv', NEW h \in Handlers, Outcome(h), NEW o \in Orders, SpareOne(o),
         \/ PostWrite(h) \/ SendWrite(h) \/ TransferWrite(h) \/ ErrorWrite(h) \/ MinedWrite(h)
  PROVE  SpareOne(o)'
<1>1. UNCHANGED <<cards, posts, sends>>
  BY DEF PostWrite, SendWrite, TransferWrite, ErrorWrite, MinedWrite, asked
<1>2. OthersStay(h) /\ handler[h].pc \in Writing
  BY WriteStep
<1>3. CASE handler[h].order # o
  <2>1. order'[o] = order[o]
    BY <1>3, WriteStep
  <2>2. ~Engaged(h, o)' /\ ~Bound(h, o)'
    BY <1>3, WriteStep, AwaySpare DEF Engaged, Bound
  <2> QED BY <1>1, <1>2, <2>1, <2>2, SpareIdle
<1>4. CASE handler[h].order = o /\ order' = order /\ Away(h)'
  BY <1>1, <1>2, <1>4, AwaySpare, SpareIdle
<1>5. CASE handler[h].order = o /\ handler[h].status = "provisioning"
             /\ handler[h].pc \in {"post write", "send write"} /\ ~Away(h)'
  <2>1. Engaged(h, o) /\ Spent(o)
    BY <1>5 DEF Engaged, Spent, Bound
  <2>2. EngagedIn(o)' \subseteq EngagedIn(o)
    BY <1>2, <2>1, EngagedMoves
  <2>3. posts[o] + sends[o] <= posts'[o] + sends'[o]
    BY <1>1, OrderCounts
  <2> QED BY <1>1, <2>1, <2>2, <2>3, SpareKept
<1>6. CASE handler[h].order = o /\ Away(h)' /\ handler[h].pc \in {"post write", "send write"}
  <2>1. Engaged(h, o) /\ ~Engaged(h, o)'
    BY <1>6, AwaySpare DEF Engaged
  <2>2. posts[o] + sends[o] = posts'[o] + sends'[o]
    BY <1>1
  <2> QED BY <1>1, <1>2, <2>1, <2>2, EngagedMoves, SpareKept
<1>7. CASE handler[h].order = o /\ handler[h].pc \in {"transfer write", "error write", "mined write"}
  <2>1. /\ order'[o].reservation = order[o].reservation
        /\ order'[o].status # "waiting-for-reservation" /\ Away(h)'
    BY <1>7, WriteStep DEF Outcome
  <2> QED BY <1>1, <1>2, <2>1, AwaySpare, SpareIdle
<1>8. \/ Away(h)'
      \/ handler[h].status = "provisioning" /\ handler[h].pc \in {"post write", "send write"}
  BY WriteStep
<1> QED BY <1>2, <1>3, <1>5, <1>6, <1>7, <1>8 DEF Writing

LEMMA SpareByRead ==
  ASSUME OrdersInv, OrdersInv', NEW h \in Handlers, NEW o \in Orders, SpareOne(o),
         TransferRead(h) \/ SendRead(h) \/ ErrorRead(h) \/ MinedRead(h)
  PROVE  SpareOne(o)'
<1>1. UNCHANGED <<cards, posts, sends>>
  BY DEF TransferRead, SendRead, ErrorRead, MinedRead, asked
<1>2. CASE TransferRead(h) \/ ErrorRead(h) \/ MinedRead(h)
  <2>1. PICK write \in {"transfer write", "error write", "mined write"} :
          \E pc \in {"transfer read", "error read", "mined read"} : Reads(h, pc, write)
    BY <1>2, ReadStep
  <2>2. OthersStay(h) /\ order' = order /\ (Away(h)' \/ handler'[h].pc = write)
    BY <2>1 DEF Reads
  <2>3. ~Engaged(h, o)' /\ ~Bound(h, o)'
    BY <2>1, <2>2, AwaySpare DEF Engaged, Bound
  <2> QED BY <1>1, <2>2, <2>3, SpareIdle
<1>3. CASE SendRead(h)
  <2>1. Reads(h, "send read", "send write")
    BY <1>3, ReadStep
  <2>2. OthersStay(h) /\ order' = order
    BY <2>1 DEF Reads
  <2>3. Engaged(h, o)' => Engaged(h, o)
    BY <2>1, AwaySpare DEF Reads, Engaged
  <2>4. Bound(h, o)' => Spent(o)
    <3>1. SUFFICES ASSUME Bound(h, o)' PROVE Spent(o)
      OBVIOUS
    <3>2. /\ handler'[h].status = "provisioning" /\ handler[h].order = o
          /\ Follows(order[o], EventOf("send write"), "provisioning")
      BY <2>1, <3>1, AwaySpare DEF Reads, Bound
    <3> QED BY <3>2, FollowsAttached DEF Spent
  <2> QED BY <1>1, <2>2, <2>3, <2>4, SpareIdle
<1> QED BY <1>2, <1>3

LEMMA SpareByOthers ==
  ASSUME OrdersInv, OrdersInv', NEW h \in Handlers, NEW o \in Orders, SpareOne(o),
         \/ \E u \in Users : Reserve(h, u)
         \/ \E q \in Orders : Receive(h, q) \/ Transfer(h, q)
         \/ ReserveDelete(h) \/ ReserveInsert(h) \/ ReceiveAdd(h) \/ RelayError(h)
         \/ ErrorFind(h) \/ AwaitCard(h) \/ Trouble(h)
  PROVE  SpareOne(o)'
<1>1. UNCHANGED <<cards, posts, sends>>
  BY DEF Reserve, Receive, Transfer, ReserveDelete, ReserveInsert, ReceiveAdd, RelayError,
         ErrorFind, AwaitCard, Trouble, asked
<1>2. CASE \E q \in Orders : Receive(h, q)
  <2>1. PICK q \in Orders : Receive(h, q)
    BY <1>2
  <2>2. OthersStay(h) /\ order' = order /\ handler'[h].pc \in {"idle", "receive add"}
    BY <2>1, RequestStep
  <2>3. ~Engaged(h, o)' /\ ~Bound(h, o)'
    BY <2>2 DEF Engaged, Bound
  <2> QED BY <1>1, <2>2, <2>3, SpareIdle
<1>3. CASE \E q \in Orders : Transfer(h, q)
  <2>1. OthersStay(h) /\ order' = order /\ handler'[h].pc = "transfer read"
    BY <1>3, TransferStep
  <2>2. ~Engaged(h, o)' /\ ~Bound(h, o)'
    BY <2>1 DEF Engaged, Bound
  <2> QED BY <1>1, <2>1, <2>2, SpareIdle
<1>4. CASE ~\E q \in Orders : Receive(h, q) \/ Transfer(h, q)
  BY <1>1, <1>4, AwayStep, AwaySpare, SpareIdle
<1> QED BY <1>2, <1>3, <1>4

LEMMA OutcomeKept ==
  ASSUME OrdersInv, NEW h \in Handlers, Requested(h) \/ HandlerStep(h) \/ Trouble(h),
         \A g \in Handlers : Outcome(g)
  PROVE  \A g \in Handlers : Outcome(g)'
<1>1. ASSUME OthersStay(h),
             \/ Away(h)'
             \/ handler'[h].pc \notin {"transfer write", "mined write", "error write"}
             \/ Follows(order[handler[h].order], EventOf(handler'[h].pc), handler'[h].status)
      PROVE  \A g \in Handlers : Outcome(g)'
  <2>1. \A g \in Handlers \ {h} : Outcome(g)'
    BY <1>1 DEF OthersStay, Outcome
  <2>2. Outcome(h)'
    BY <1>1 DEF Outcome, Away, Writing, Follows, EventOf
  <2> QED BY <2>1, <2>2
<1>2. CASE \E q \in Orders : \/ Receive(h, q) \/ Transfer(h, q)
                             \/ \E r \in Reservations : Post(h, q, r)
                             \/ \E t \in 1..MaxTransfers : Send(h, q, t)
  <2>1. /\ OthersStay(h)
        /\ handler'[h].pc \in {"idle", "receive add", "send read", "transfer read", "post write"}
    BY <1>2, RequestStep, TransferStep, PostStep
  <2> QED BY <1>1, <2>1
<1>3. CASE \/ PostWrite(h) \/ SendWrite(h) \/ TransferWrite(h) \/ ErrorWrite(h) \/ MinedWrite(h)
  <2>1. OthersStay(h) /\ (Away(h)' \/ handler'[h].pc = "provision")
    BY <1>3, WriteStep
  <2> QED BY <1>1, <2>1
<1>4. CASE TransferRead(h) \/ SendRead(h) \/ ErrorRead(h) \/ MinedRead(h)
  <2>1. PICK pc, write : Reads(h, pc, write)
    BY <1>4, ReadStep
  <2> QED BY <1>1, <2>1 DEF Reads
<1>5. CASE \/ \E u \in Users : Reserve(h, u)
           \/ ReserveDelete(h) \/ ReserveInsert(h) \/ ReceiveAdd(h) \/ RelayError(h)
           \/ ErrorFind(h) \/ AwaitCard(h) \/ Trouble(h) \/ Provision(h)
  BY <1>1, <1>5, AwayStep
<1> QED BY <1>2, <1>3, <1>4, <1>5 DEF Requested, HandlerStep

LEMMA SpareNext ==
  ASSUME OrdersInv, OrdersInv', SpareInv, [OrdersNext]_ordersVars
  PROVE  SpareInv'
<1>1. CASE UNCHANGED ordersVars
  BY <1>1 DEF SpareInv, SpareOne, Outcome, EngagedIn, Engaged, Spent, Bound, ordersVars, asked
<1>2. ASSUME NEW h \in Handlers, Requested(h) \/ HandlerStep(h) \/ Trouble(h) PROVE SpareInv'
  <2>1. \A g \in Handlers : Outcome(g)'
    BY <1>2, OutcomeKept DEF SpareInv
  <2>2. ASSUME NEW o \in Orders PROVE SpareOne(o)'
    <3>1. SpareOne(o) /\ Outcome(h)
      BY DEF SpareInv
    <3>2. CASE Requested(h)
      BY <3>1, <3>2, SpareByPost, SpareBySend, SpareByOthers DEF Requested
    <3>3. CASE HandlerStep(h)
      BY <3>1, <3>3, SpareByWrite, SpareByRead, SpareByProvision, SpareByOthers DEF HandlerStep
    <3>4. CASE Trouble(h)
      BY <3>1, <3>4, SpareByOthers
    <3> QED BY <1>2, <3>2, <3>3, <3>4
  <2> QED BY <2>1, <2>2 DEF SpareInv
<1> QED BY <1>1, <1>2 DEF OrdersNext

\* An order never has as many cards as posts and callbacks, however stale the reads
\* are: the first request that writes does not provision, and each provisions once
\* at most (services/order.ts, routes/orders.ts, routes/wyre-callback.ts).
THEOREM OneSpared == OrdersSpec => []OneRequestSpare
<1>1. OrdersInit => SpareInv
  <2>1. SUFFICES ASSUME OrdersInit PROVE SpareInv
    OBVIOUS
  <2>2. \A h \in Handlers : handler[h].pc = "idle"
    BY <2>1, NoRequestTyped DEF OrdersInit
  <2>3. \A h \in Handlers : Outcome(h)
    BY <2>2 DEF Outcome
  <2>4. ASSUME NEW o \in Orders PROVE SpareOne(o)
    <3>1. cards[o] = 0 /\ posts[o] = 0 /\ sends[o] = 0
      BY <2>1 DEF OrdersInit
    <3>2. \A h \in Handlers : ~Engaged(h, o) /\ ~Bound(h, o)
      BY <2>2 DEF Engaged, Bound
    <3>3. order[o].reservation = NoOne /\ order[o].status = "none"
      BY <2>1 DEF OrdersInit
    <3>4. EngagedIn(o) = {} /\ ~Spent(o)
      BY <3>1, <3>2, <3>3 DEF EngagedIn, Spent
    <3> QED BY <3>1, <3>4, FS_EmptySet DEF SpareOne
  <2> QED BY <2>3, <2>4 DEF SpareInv
<1>2. OrdersInv /\ SpareInv => OneRequestSpare
  <2>1. SUFFICES ASSUME OrdersInv, SpareInv, NEW o \in Orders, cards[o] > 0
                 PROVE  cards[o] < posts[o] + sends[o]
    BY DEF OneRequestSpare
  <2>2. Spent(o) /\ SpareOne(o)
    BY <2>1 DEF Spent, SpareInv
  <2> DEFINE n == Cardinality(EngagedIn(o))
  <2>3. n \in Nat /\ cards[o] + n + 1 <= posts[o] + sends[o]
    BY <2>2, FS_CardinalityType DEF SpareOne
  <2> HIDE DEF n
  <2> QED BY <2>1, <2>3, OrderCounts
<1> QED BY <1>1, <1>2, OrdersInitial, OrdersStep, SpareNext, PTL DEF OrdersSpec
===============================================================================
