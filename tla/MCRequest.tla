----------------------------- MODULE MCRequest ------------------------------
(* Requests shorter and longer than the flow file they hold and the limit. *)
EXTENDS Request

MCSizes == {0, 1, 3}
=============================================================================
