----------------------------- MODULE MCPurchases -----------------------------
(* Instances for TLC of what users buy or are given: prepaid cards bought with  *)
(* the Wyre wallet or dropped by e-mail, profiles from the app stores, and the  *)
(* notifications of what is done with them; and of when a scheduled payment that *)
(* fails is retried.  They do not interact: a behaviour is one of a part.        *)
EXTENDS MCRetrySchedule, WalletOrders, EmailCardDrop, ProfilePurchases, EventNotifications, TLC

\* Two contracts with events in two blocks.
MCEventBlock == <<1, 2, 2>>
MCContract == <<1, 2, 1>>

VARIABLE part

MCOrderUser == [o \in Orders |-> CHOOSE u \in Users : TRUE]

BuyingInit ==
  /\ part \in {"orders", "drop", "purchases", "notifications", "schedule"}
  /\ OrdersInit /\ DropInit /\ PurchasesInit /\ NotificationsInit /\ Init
  /\ part # "schedule" => validForDays = 1 /\ payAt = 0

BuyingNext ==
  /\ UNCHANGED part
  /\ \/ /\ part = "orders" /\ OrdersNext
        /\ UNCHANGED <<dropVars, purchaseVars, notificationVars, vars>>
     \/ /\ part = "drop" /\ DropNext
        /\ UNCHANGED <<ordersVars, purchaseVars, notificationVars, vars>>
     \/ /\ part = "purchases" /\ PurchasesNext
        /\ UNCHANGED <<ordersVars, dropVars, notificationVars, vars>>
     \/ /\ part = "notifications" /\ NotificationsNext
        /\ UNCHANGED <<ordersVars, dropVars, purchaseVars, vars>>
     \/ /\ part = "schedule" /\ Next
        /\ UNCHANGED <<ordersVars, dropVars, purchaseVars, notificationVars>>

BuyingSpec ==
  BuyingInit
    /\ [][BuyingNext]_<<part, ordersVars, dropVars, purchaseVars, notificationVars, vars>>

\* The same two values are handlers of both kinds (and two of the requests), owners and
\* reservations and buyers, and e-mail addresses and slugs, which do not meet.
BuyingSymmetry ==
  Permutations(Handlers) \cup Permutations(Reservations) \cup Permutations(Slugs)
==============================================================================
