----------------------------- MODULE MCDispatch -----------------------------
(* Instances of Dispatch for TLC.                                          *)
EXTENDS Dispatch

CallbackFaults == {"callback"}

AllFaults == FaultKinds
=============================================================================
