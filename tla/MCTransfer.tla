----------------------------- MODULE MCTransfer -----------------------------
(* Flow files with no content, and with some, over a wire that breaks.     *)
EXTENDS Transfer

MCSizes   == {0, 2}
MCCancels == {"write", "next"}
OnlyNext  == {"next"}
=============================================================================
