---------------------------- MODULE MCExchange -----------------------------
(* A request and a response that neither fit into the socket between them, *)
(* and both kinds of producers.                                            *)
EXTENDS Exchange

MCAsked == {1, 2, 5, 6, 7}
MCKinds == {"async", "blocking"}
=============================================================================
