---------------------------- MODULE MCResponse -----------------------------
(* Responses of either kind, with pipes smaller and larger than a write.   *)
EXTENDS Response

MCAsked == {0, 1, 2, 4}
MCKinds == {"async", "blocking"}
=============================================================================
