------------------------------ MODULE MCProgress ------------------------------
(* Instances for TLC of what has to go on: the attempts of a scheduled payment, *)
(* an order that is posted and called back repeatedly, and two Discord bots.    *)
(* They do not interact, so that a behaviour is one of a part.                  *)
EXTENDS MCScheduledPayments, WalletOrders, DiscordBots

VARIABLE part

MCOrderUser == [o \in Orders |-> CHOOSE u \in Users : TRUE]

\* One bot is listening already: elections from scratch are in MCConcurrent.
FirstBot == CHOOSE b \in Bots : TRUE
BotsListeningInit ==
  /\ row = [b \in Bots |-> [status |-> IF b = FirstBot THEN "listening" ELSE "none", last |-> 0]]
  /\ local = [b \in Bots |-> IF b = FirstBot THEN "listening" ELSE "new"]
  /\ election = [b \in Bots |-> "no"]
  /\ task = [b \in Bots |-> [m \in Messages |-> NoTask]]
  /\ statusNotice = {} /\ messageNotice = [b \in Bots |-> {}]
  /\ sent = 0 /\ ran = [m \in Messages |-> 0]
  /\ listened = {FirstBot} /\ overlapped = FALSE

\* A payment is created where it is the part that goes on.
ProgressInit ==
  /\ part \in {"payment", "orders", "bots"}
  /\ Init /\ OrdersInit /\ BotsListeningInit
  /\ \A p \in Payments : payment[p].created <=> part = "payment"

ProgressNext ==
  /\ UNCHANGED part
  /\ \/ part = "payment" /\ Next /\ UNCHANGED <<ordersVars, botVars>>
     \/ part = "orders" /\ OrdersNext /\ UNCHANGED <<vars, botVars>>
     \/ part = "bots" /\ BotsNext /\ UNCHANGED <<vars, ordersVars>>

\* Fairness of ScheduledPayments, in the behaviours that are of its part: its clock
\* could run in the others and does not.
Paying == part = "payment"
PaymentFairness ==
  /\ \A e \in Executors : WF_vars(Paying /\ ExecutorStep(e))
  /\ \A a \in AttemptIds :
       /\ WF_vars(Paying /\ WaiterStep(a)) /\ WF_vars(Paying /\ (MineTx(a) \/ LoseTx(a)))
       /\ SF_vars(Paying /\ TxConfirmed(a)) /\ SF_vars(Paying /\ TxRefused(a))
       /\ SF_vars(Paying /\ TookTooLong(a))
  /\ SF_vars(Paying /\ Tick)

ProgressSpec ==
  /\ ProgressInit /\ [][ProgressNext]_<<part, vars, ordersVars, botVars>>
  /\ PaymentFairness /\ OrdersFairness /\ BotsFairness
==============================================================================
