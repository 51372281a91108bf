-------------------------------- MODULE Wire --------------------------------
(***************************************************************************)
(* A stream of concatenated flow files, as the writers of the crate put it *)
(* out and the readers take it in (format.rs gives it its shape).          *)
(*                                                                         *)
(* A flow file is a header of Header bytes, which tells the size of the    *)
(* content, and then that many bytes.  The byte <<i, k>> is byte k of the  *)
(* i-th flow file written.  What the header says is in declared.           *)
(***************************************************************************)
EXTENDS Naturals, Sequences

CONSTANTS
  Header,    \* bytes of a header
  Sizes,     \* the sizes a header may declare
  MaxParts,  \* bound: how many flow files are written
  Cancels    \* which calls may be cancelled: "write", "next", both or none

ASSUME WireAssumption ==
  /\ Header \in Nat \ {0, 1} /\ Sizes \subseteq Nat /\ MaxParts \in Nat
  /\ Cancels \subseteq {"write", "next"}

VARIABLES
  wire,      \* every byte the underlying writer has accepted
  landed,    \* how many of them have reached the other end
  closed,    \* no more will
  declared   \* the size each flow file's header declares

wireVars == <<wire, landed, closed, declared>>

Least(a, b) == IF a < b THEN a ELSE b

\* Bytes from + 1 .. from + n of flow file i.
Bytes(i, from, n) == [k \in 1 .. n |-> <<i, from + k>>]

\* The byte at that place of the wire starts, or ends, a flow file.
Starts(place) == wire[place][2] = 1
Ends(place)   == wire[place][2] = Header + declared[wire[place][1]]

WireInit ==
  /\ wire = <<>> /\ landed = 0 /\ closed = FALSE
  /\ declared = <<>>

WireTypeOK ==
  /\ landed \in 0 .. Len(wire) /\ closed \in BOOLEAN
  /\ declared \in Seq(Sizes) /\ Len(declared) <= MaxParts
  /\ \A place \in 1 .. Len(wire) :
       /\ wire[place][1] \in 1 .. Len(declared)
       /\ wire[place][2] \in 1 .. Header + declared[wire[place][1]]
=============================================================================
