--------------------------- MODULE ContentStream ---------------------------
(***************************************************************************)
(* What a background copy of a content promises the one who reads it,      *)
(* whatever it goes through on the way.  The content arrives in parts of   *)
(* any size; the reader is given a prefix of what has arrived; it is told  *)
(* the end when everything has been given and an error when a part of the  *)
(* machinery failed, one of the two and once.                              *)
(***************************************************************************)
EXTENDS Naturals

CONSTANT Size    \* how many bytes the content has

VARIABLES
  available,  \* bytes of the content that have arrived
  given,      \* bytes the reader has been given
  source,     \* "open", or why no more will arrive
  outcome,    \* what the reader was told first: "none" yet, "end" or "error"
  released    \* the reader let go

streamVars == <<available, given, source, outcome, released>>

Init ==
  /\ available = 0 /\ given = 0
  /\ source = "open" /\ outcome = "none"
  /\ released = FALSE

\* A part of the content arrives.  One part may have failed while another
\* still works, so bytes may arrive that will not be given.
Arrive ==
  /\ source \in {"open", "failed"}
  /\ available' \in available + 1 .. Size
  /\ UNCHANGED <<given, source, outcome, released>>

Complete ==
  /\ source = "open" /\ available = Size
  /\ source' = "complete"
  /\ UNCHANGED <<available, given, outcome, released>>

Fail ==
  /\ outcome = "none" \/ released
  /\ source' = "failed"
  /\ UNCHANGED <<available, given, outcome, released>>

\* The machinery went away without a word, and took the rest along.
Lose ==
  /\ source = "open"
  /\ source' = "lost"
  /\ UNCHANGED <<available, given, outcome, released>>

Give ==
  /\ ~released
  /\ given' \in given + 1 .. available
  /\ UNCHANGED <<available, source, outcome, released>>

\* The end is told when it has been reached, and never of a failed content.
TellEnd ==
  /\ ~released /\ outcome = "none"
  /\ source \in {"complete", "lost"}
  /\ given = available
  /\ outcome' = "end"
  /\ UNCHANGED <<available, given, source, released>>

TellError ==
  /\ ~released /\ outcome = "none"
  /\ source = "failed"
  /\ outcome' = "error"
  /\ UNCHANGED <<available, given, source, released>>

Release ==
  /\ ~released
  /\ released' = TRUE
  /\ UNCHANGED <<available, given, source, outcome>>

Next ==
  \/ Arrive \/ Complete \/ Fail \/ Lose
  \/ Give \/ TellEnd \/ TellError \/ Release

Spec == Init /\ [][Next]_streamVars
=============================================================================
