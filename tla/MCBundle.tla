------------------------------ MODULE MCBundle ------------------------------
(* A content of two bytes; parents that are parts of an earlier split, and *)
(* keys that are or are not those that split used.                         *)
EXTENDS Bundle

Renamed ==
  [identifier |-> "split.id", index |-> "split.n",
   count |-> "split.total", original |-> "split.parent"]

CountOnly == [DefaultKeys EXCEPT !.count = "split.total"]

Earlier(k) == [key \in AllKeys(k) |-> "grandparent's"]
Named      == [key \in {"filename"} |-> "parent"]

Whole   == Build(Named @@ Earlier(DefaultKeys), <<1, 2>>)
Unnamed == Build(Earlier(DefaultKeys) @@ Earlier(Renamed), <<1>>)
Empty   == Build(Named @@ Earlier(Renamed), <<>>)

MCDecimal(n) == ToString(n)

MCParents == {Whole, Unnamed, Empty}
MCSplits  == {<<Whole, "bytes">>, <<Unnamed, "write">>, <<Unnamed, "streamed">>, <<Empty, "json">>}
MCKeySets == {Renamed, CountOnly}
=============================================================================
