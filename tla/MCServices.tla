------------------------------ MODULE MCServices ------------------------------
(* Instances for TLC of how the hub deals with the chain: the crank's nonces,   *)
(* the registration of scheduled payments, and reward roots.  They do not       *)
(* interact, so that a behaviour is one of a part.                              *)
EXTENDS MCCrankNonce, PaymentRegistration, MCRewardRoots

VARIABLE part

ServicesInit ==
  /\ part \in {"nonces", "registration", "roots"}
  /\ Init /\ RegistrationInit /\ RootsInit
  /\ part # "nonces" => start = 0

\* Devices, checks and their jobs may come to an end; some call of withNonce can
\* always go on, or time can.
ServicesNext ==
  /\ UNCHANGED part
  /\ \/ part = "nonces" /\ Next /\ UNCHANGED <<registrationVars, rootVars>>
     \/ part = "registration" /\ RegistrationNext /\ UNCHANGED <<vars, rootVars>>
     \/ part = "roots" /\ RootsNext /\ UNCHANGED <<vars, registrationVars>>
     \/ part # "nonces" /\ UNCHANGED <<vars, registrationVars, rootVars>>

ServicesSpec == ServicesInit /\ [][ServicesNext]_<<part, vars, registrationVars, rootVars>>
==============================================================================
