--------------------------- MODULE MCChannelAccess ---------------------------
(* Instances of ChannelAccess for TLC. *)
EXTENDS ChannelAccess

\* The first EDCAF waits one slot, the second one two.
MCAifsn == <<1, 2>>
=============================================================================
