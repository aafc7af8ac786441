---------------------------- MODULE PaymentPromise ----------------------------
(***************************************************************************)
(* What execution promises of one scheduled payment, with no attempts      *)
(* table, jobs or chain: one attempt at a time, a success only as the end  *)
(* of an attempt, and nothing further once a one-time payment has          *)
(* succeeded.  ScheduledPayments, with one executor run, implements it.    *)
(***************************************************************************)
EXTENDS Naturals

CONSTANT Recurs   \* whether the payment has a recurringDayOfMonth

VARIABLES
  phase,  \* what is going on with the payment
  made    \* how many of its attempts have succeeded

promiseVars == <<phase, made>>

PromiseInit == phase = "waiting" /\ made = 0

Start ==
  /\ phase = "waiting"
  /\ phase' = "attempting"
  /\ UNCHANGED made

GiveUp ==
  /\ phase = "attempting"
  /\ phase' = "waiting"
  /\ UNCHANGED made

Succeed ==
  /\ phase = "attempting"
  /\ phase' = IF Recurs THEN "waiting" ELSE "paid"
  /\ made' = made + 1

PromiseNext == Start \/ GiveUp \/ Succeed

PromiseSpec == PromiseInit /\ [][PromiseNext]_promiseVars
==============================================================================
