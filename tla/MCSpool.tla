------------------------------ MODULE MCSpool ------------------------------
(* The spool on a content of two pipefuls and a half, with every fault. *)
EXTENDS Spool

AllFaults == FaultKinds
NoFaults  == {}
SomeFault == {"source"}
OnlyPanic == {"panic"}
=============================================================================
