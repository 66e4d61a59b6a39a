-------------------------- MODULE MCThreadDispatcher --------------------------
(* The instances of ThreadDispatcher that TLC checks.  There is no symmetry *)
(* set: the contract it is compared with is a property of behaviours.      *)
EXTENDS ThreadDispatcher, TLC

===============================================================================
