-------------------------- MODULE OrderedDelivery ---------------------------
(***************************************************************************)
(* What a block ack agreement promises, whatever is lost, repeated or      *)
(* given up: MPDUs go up at the recipient in the order they were enqueued  *)
(* at the originator, none twice, and what the recipient holds back it     *)
(* passes up at its place.                                                 *)
(***************************************************************************)
EXTENDS Integers, SequencesExt

CONSTANT Mpdus    \* MPDUs, numbered in the order they are enqueued

VARIABLES
  held,   \* MPDUs the recipient holds back
  up      \* MPDUs passed up, oldest first

Init == held = {} /\ up = <<>>

\* The recipient gets some MPDUs, each later than all it passed up, and
\* passes up those at the head of what it has.
Deliver ==
  \E got \in SUBSET (Mpdus \ held) : \E out \in SUBSET (held \cup got) :
    /\ \A n \in got, m \in ToSet(up) : m < n
    /\ \A m \in out, n \in (held \cup got) \ out : m < n
    /\ held' = (held \cup got) \ out
    /\ \E order \in [1 .. Cardinality(out) -> out] :
         /\ \A i, j \in DOMAIN order : i < j => order[i] < order[j]
         /\ up' = up \o order

Spec == Init /\ [][Deliver]_<<held, up>>
=============================================================================
