----------------------------- MODULE SeqWindow -----------------------------
(***************************************************************************)
(* Sequence number arithmetic and the sliding window of a block ack        *)
(* agreement: BlockAckWindow and the transmit window operations of         *)
(* OriginatorBlockAckAgreement.                                            *)
(*                                                                         *)
(* A window is a record: start, the sequence number of its first position, *)
(* and bits, the set of positions (distances from start) that are set.     *)
(* The circular vector and its head are abstracted away.                   *)
(***************************************************************************)
EXTENDS Integers, SequencesExt

CONSTANTS
  SeqSpace,   \* SEQNO_SPACE_SIZE
  WinSize     \* buffer size of the agreement, the size of every window of it

ASSUME SeqWindowAssumption ==
  /\ SeqSpace \in Nat /\ WinSize \in Nat \ {0}
  /\ SeqSpace % 2 = 0 /\ 2 * WinSize <= SeqSpace

Seqs == 0 .. SeqSpace - 1
NoSeq == -1      \* no sequence number seen yet
Positions == 0 .. WinSize - 1
Windows == [start : Seqs, bits : SUBSET Positions]

(***************************************************************************)
(* The containers of the code: the elements of a sequence that are in a    *)
(* set, and the elements of a set in order of place.  (SelectSeq and the   *)
(* sorting operators of the library cannot be expanded in proofs.)         *)
(***************************************************************************)
Only(s, S) == FoldLeft(LAMBDA t, x : IF x \in S THEN Append(t, x) ELSE t, <<>>, s)

InOrder(S, place) ==
  CHOOSE s \in [1 .. Cardinality(S) -> S] :
    \A i, j \in DOMAIN s : i < j => place[s[i]] < place[s[j]]

HalfSpace == SeqSpace \div 2
GetDistance(seq, start) == (seq - start + SeqSpace) % SeqSpace
IsOld(seq, start) == GetDistance(seq, start) >= HalfSpace
IsInWindow(seq, start) == GetDistance(seq, start) < WinSize

InitWindow(start) == [start |-> start, bits |-> {}]

\* Fault: the start of the window does not wrap around.
AdvanceWithoutWrap(w, count) ==
  [start |-> w.start + count,
   bits  |-> {d \in Positions : d + count \in w.bits}]

\* Positions that leave the window are reset, the others keep their bit.
Advance(w, count) ==
  [start |-> (w.start + count) % SeqSpace,
   bits  |-> {d \in Positions : d + count \in w.bits}]

\* A block ack carries a window.
IsPacketReceived(blockAck, seq) ==
  GetDistance(seq, blockAck.start) \in blockAck.bits

----------------------------------------------------------------------------
\* The first position that is not set becomes the start of the window.
AdvanceTxWindow(w) ==
  Advance(w, CHOOSE d \in 0 .. WinSize :
               /\ d \notin w.bits
               /\ \A e \in 0 .. d - 1 : e \in w.bits)

NotifyTransmittedMpdu(w, seq) ==
  LET d == GetDistance(seq, w.start) IN
  IF d < HalfSpace /\ d >= WinSize
  THEN AdvanceTxWindow(Advance(w, d - WinSize + 1))
  ELSE w

NotifyAckedMpdu(w, seq) ==
  IF IsOld(seq, w.start) THEN w
  ELSE AdvanceTxWindow([w EXCEPT !.bits = @ \cup {GetDistance(seq, w.start)}])

NotifyDiscardedMpdu(w, seq) ==
  IF IsOld(seq, w.start) THEN w
  ELSE AdvanceTxWindow(Advance(w, GetDistance(seq, w.start) + 1))
=============================================================================
