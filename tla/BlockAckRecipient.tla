------------------------- MODULE BlockAckRecipient --------------------------
(***************************************************************************)
(* The recipient side of a block ack agreement (RecipientBlockAckAgreement *)
(* and the duplicate filter of MacRxMiddle it passes MPDUs up to).         *)
(*                                                                         *)
(* Every operator takes the agreement and returns the one the method       *)
(* leaves behind.  An agreement is a record: score, the scoreboard (the    *)
(* window with WinStartR); start and buf, WinStartB and the MPDUs of the   *)
(* reordering buffer, as pairs of a sequence number and an MPDU; up, the   *)
(* MPDUs forwarded up, oldest first; last, the sequence number MacRxMiddle *)
(* saw last (NoSeq before the first).                                      *)
(***************************************************************************)
EXTENDS SeqWindow

NewRecipientAgreement(startingSeq) ==
  [score |-> InitWindow(startingSeq), start |-> startingSeq,
   buf |-> {}, up |-> <<>>, last |-> NoSeq]

\* MacRxMiddle drops an MPDU that repeats the last sequence number; a second
\* transmission has the Retry bit set.
Receive(r, entry) ==
  IF entry[1] = r.last THEN r
  ELSE [r EXCEPT !.up = Append(@, entry[2]), !.last = entry[1]]

\* Pass the given entries of the buffer up, in order of sequence number.
PassUp(r, entries) ==
  LET sorted == InOrder(entries, [x \in entries |-> GetDistance(x[1], r.start)])
  IN [FoldLeft(Receive, r, sorted) EXCEPT !.buf = @ \ entries]

BufferedSeqs(r) == {entry[1] : entry \in r.buf}

PassBufferedMpdusUntilFirstLost(r) ==
  LET gap == CHOOSE d \in 0 .. SeqSpace :
               /\ (r.start + d) % SeqSpace \notin BufferedSeqs(r)
               /\ \A e \in 0 .. d - 1 : (r.start + e) % SeqSpace \in BufferedSeqs(r)
      run == {entry \in r.buf : GetDistance(entry[1], r.start) < gap}
  IN [PassUp(r, run) EXCEPT !.start = (r.start + gap) % SeqSpace]

PassBufferedMpdusWithSeqNumberLessThan(r, newStart) ==
  LET less == {entry \in r.buf : GetDistance(entry[1], r.start)
                                   < GetDistance(newStart, r.start)}
  IN [PassUp(r, less) EXCEPT !.start = newStart]

UpdateScoreboard(w, seq) ==
  LET d == GetDistance(seq, w.start) IN
  IF d < WinSize THEN [w EXCEPT !.bits = @ \cup {d}]
  ELSE IF d < HalfSpace
       THEN LET v == Advance(w, d - WinSize + 1)
            IN [v EXCEPT !.bits = @ \cup {WinSize - 1}]
       ELSE w

StoreMpdu(r, seq, mpdu) ==
  IF seq \in BufferedSeqs(r) THEN r ELSE [r EXCEPT !.buf = @ \cup {<<seq, mpdu>>}]

\* Fault: an old MPDU is passed up at once instead of being ignored.
NotifyReceivedTakesOld(r, seq, mpdu) ==
  LET s == [r EXCEPT !.score = UpdateScoreboard(@, seq)] IN
  IF IsOld(seq, s.start) THEN Receive(s, <<seq, mpdu>>)
  ELSE PassBufferedMpdusUntilFirstLost(StoreMpdu(s, seq, mpdu))

NotifyReceivedMpdu(r, seq, mpdu) ==
  LET s == [r EXCEPT !.score = UpdateScoreboard(@, seq)]
      d == GetDistance(seq, s.start)
      t == StoreMpdu(s, seq, mpdu)
  IN IF d < WinSize THEN PassBufferedMpdusUntilFirstLost(t)
     ELSE IF d < HalfSpace
          THEN PassBufferedMpdusUntilFirstLost(
                 PassBufferedMpdusWithSeqNumberLessThan(
                   t, (seq - WinSize + 1 + SeqSpace) % SeqSpace))
          ELSE s

\* Fault: the block ack request moves the reordering buffer only.
NotifyReceivedBarKeepsScoreboard(r, ssn) ==
  IF GetDistance(ssn, r.start) \in 1 .. HalfSpace - 1
  THEN PassBufferedMpdusUntilFirstLost(PassBufferedMpdusWithSeqNumberLessThan(r, ssn))
  ELSE r

NotifyReceivedBar(r, ssn) ==
  LET s == IF GetDistance(ssn, r.score.start) \in 1 .. HalfSpace - 1
           THEN [r EXCEPT !.score = Advance(@, GetDistance(ssn, @.start))]
           ELSE r
  IN IF GetDistance(ssn, s.start) \in 1 .. HalfSpace - 1
     THEN PassBufferedMpdusUntilFirstLost(
            PassBufferedMpdusWithSeqNumberLessThan(s, ssn))
     ELSE s

\* Fault: the starting sequence number of the block ack is WinStartB.
FillBitmapFromWinStartB(r) == [start |-> r.start, bits |-> r.score.bits]

\* The bitmap of a block ack starts at WinStartR.
FillBlockAckBitmap(r) == r.score
=============================================================================
