--------------------------- MODULE MCHeaderParser ---------------------------
(* Lengths on either side of the long form and of the reservation, a key of *)
(* each and two of one, limits that one field, two fields or none go        *)
(* beyond, and one at usize::MAX.                                           *)
EXTENDS HeaderParser, TLC

CONSTANTS empty, a, b, word, long

MCKeys == {empty, a, b, word, long}
MCKeyLen == empty :> 0 @@ a :> 2 @@ b :> 2 @@ word :> 3 @@ long :> 7
MCLengths == {0, 2, 3, 7}
MCContentSizes == {0, 9}
MCLimits ==
  [attributes : {1, NoLimit}, field : {3, NoLimit},
   total : {5, Top, NoLimit}, content : {4, NoLimit}]
=============================================================================
