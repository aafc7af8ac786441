-------------------------- MODULE NotificationPromise --------------------------
(***************************************************************************)
(* What the hub promises of push notifications, with no subscription, jobs *)
(* or rows: an event of a contract that happened is told once.  It may be  *)
(* given up, and told again, only when something got in its way.           *)
(***************************************************************************)
EXTENDS Naturals

CONSTANT Events

VARIABLES
  phase,  \* what has become of each event
  told,   \* how often it was told
  upset   \* events that something got in the way of

promiseVars == <<phase, told, upset>>

PromiseInit ==
  /\ phase = [e \in Events |-> "ahead"] /\ told = [e \in Events |-> 0] /\ upset = {}

Move(e, from, to) == phase[e] = from /\ phase'[e] = to

Happen(e) == Move(e, "ahead", "due") /\ told'[e] = 0
Tell(e) == Move(e, "due", "told") /\ told'[e] = 1
TellAgain(e) == e \in upset /\ Move(e, "told", "told") /\ told'[e] = told[e] + 1
GiveUp(e) == e \in upset' /\ Move(e, "due", "dropped") /\ told'[e] = 0
TryAgain(e) == Move(e, "dropped", "due") /\ told'[e] = 0
Rest(e) == told'[e] = told[e] /\ phase'[e] = phase[e]

\* A step may concern several events: those of a block, or of a restart.
PromiseNext ==
  /\ upset \subseteq upset'
  /\ \A e \in Events :
       Rest(e) \/ Happen(e) \/ Tell(e) \/ TellAgain(e) \/ GiveUp(e) \/ TryAgain(e)

PromiseSpec == PromiseInit /\ [][PromiseNext]_promiseVars
==============================================================================
