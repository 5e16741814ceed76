------------------------- MODULE BlockAckOriginator -------------------------
(***************************************************************************)
(* The originator side of an established block ack agreement with one      *)
(* recipient for one TID: the EDCA queue of the MPDUs of the agreement,    *)
(* the transmit window and the queue of in flight MPDUs of                 *)
(* BlockAckManager, and what its methods do to them.                       *)
(*                                                                         *)
(* MPDUs are numbered in the order they are enqueued.  Every operator      *)
(* takes and returns a record o:                                           *)
(*   arrived   MPDUs enqueued so far: 1 .. arrived                         *)
(*   queued    MPDUs in the EDCA queue                                     *)
(*   overdue   the MPDUs 1 .. overdue exceeded their lifetime              *)
(*   firing    expired MPDUs whose Expired trace is scheduled              *)
(*   seq       sequence number in the header of an MPDU                    *)
(*   numbered  MPDUs whose sequence number is assigned; a number that was  *)
(*             released stays in the header                                *)
(*   retry     MPDUs with the Retry bit set                                *)
(*   fly       links an MPDU of the EDCA queue is in flight on             *)
(*   tries     retry count of an MPDU                                      *)
(*   next      next sequence number of the MAC TX middle                   *)
(*   win       transmit window                                             *)
(*   list      queue of in flight MPDUs of the agreement                   *)
(*   bars      queues of block ack requests, by the link their addresses   *)
(*             name (AnyLink for MLD addresses, and for the only link); a  *)
(*             request is SENT while the frame exchange it started lasts   *)
(*   barIfData whether the recipient is in the list of those to send a     *)
(*             block ack request to when data is queued                    *)
(*   ok        MPDUs reported acknowledged (the TxOk callback)             *)
(*   repeats   ADDBA responses received after the first one                *)
(*                                                                         *)
(* SeqSpace, WinSize and the sequence number operators are those of        *)
(* SeqWindow.                                                              *)
(***************************************************************************)
EXTENDS SeqWindow

CONSTANTS
  NumMpdus,    \* MPDUs that are enqueued, at most
  Links,       \* links of the device
  RetryLimit,  \* FrameRetryLimit if IncrementRetryCountUnderBa is set, else 0
  AnyLink      \* the container queue of a BAR that can be sent on any link

Mpdus == 1 .. NumMpdus
IsMld == Cardinality(Links) > 1
BarQueues == Links \cup {AnyLink}

\* MPDUs in the order of the EDCA queue.
ByNumber(ns) == InOrder(ns, [n \in ns |-> n])

ASSUME OriginatorAssumption ==
  /\ NumMpdus \in Nat /\ NumMpdus < HalfSpace
  /\ IsFiniteSet(Links) /\ Links # {} /\ AnyLink \notin Links
  /\ RetryLimit \in Nat

\* The queue of the BAR a frame exchange on the given link schedules.
BarQueue(link) == IF IsMld THEN link ELSE AnyLink

NewOriginator(startingSeq) ==
  [arrived |-> 0, queued |-> {}, overdue |-> 0, firing |-> <<>>,
   seq |-> [n \in Mpdus |-> 0], numbered |-> {}, retry |-> {},
   fly |-> [n \in Mpdus |-> {}], tries |-> [n \in Mpdus |-> 0],
   next |-> startingSeq, win |-> InitWindow(startingSeq), list |-> <<>>,
   bars |-> [q \in BarQueues |-> <<>>], barIfData |-> FALSE, ok |-> {},
   repeats |-> 0]

----------------------------------------------------------------------------
Expired(o, n) == n <= o.overdue
OldMpdu(o, n) == IsOld(o.seq[n], o.win.start)
InList(o, n) == n \in ToSet(o.list)
Erase(o, ns) == [o EXCEPT !.list = Only(@, Mpdus \ ns)]

\* An MPDU that leaves the EDCA queue is no longer in flight.
Dequeue(o, ns) ==
  [o EXCEPT !.queued = @ \ ns, !.fly = [n \in Mpdus |-> IF n \in ns THEN {} ELSE @[n]]]

\* A new block ack request takes the place of the first one in the queue,
\* even of one that is being sent.
ScheduleBar(o, q) ==
  [o EXCEPT !.bars[q] = IF @ = <<>> THEN <<"QUEUED">> ELSE [@ EXCEPT ![1] = "QUEUED"]]

\* Fault: expired MPDUs leave the queue even if they are in flight.
WipeInFlightToo(o) ==
  LET out == {n \in o.queued : Expired(o, n)}
  IN [Dequeue(o, out) EXCEPT !.firing = @ \o ByNumber(out)]

\* Expired MPDUs that are not in flight leave the queue; what follows from
\* it waits for the Expired trace.
WipeAllExpiredMpdus(o) ==
  LET out == {n \in o.queued : Expired(o, n) /\ o.fly[n] = {}}
  IN [Dequeue(o, out) EXCEPT !.firing = @ \o ByNumber(out)]

\* The window starts over at the first MPDU of the queue if that has a
\* sequence number, else at the next number; the queue of in flight MPDUs
\* is kept.
GotAddBaResponse(o) ==
  LET p     == WipeAllExpiredMpdus(o)
      first == CHOOSE n \in p.queued : \A m \in p.queued : n <= m
      start == IF p.queued # {} /\ first \in p.numbered THEN p.seq[first] ELSE p.next
  IN [p EXCEPT !.win = InitWindow(start), !.repeats = @ + 1]

----------------------------------------------------------------------------
\* Fault: the MPDU is appended to the queue of in flight MPDUs.
DoStoreAtTail(o, n) ==
  IF OldMpdu(o, n) \/ InList(o, n) THEN o
  ELSE [o EXCEPT !.list = Append(@, n), !.win = NotifyTransmittedMpdu(@, o.seq[n])]

\* The MPDU is inserted after those at a smaller distance from the start of
\* the window.
DoStorePacket(o, n) ==
  LET before(m) == GetDistance(o.seq[m], o.win.start)
                     < GetDistance(o.seq[n], o.win.start)
      pos == CHOOSE p \in 0 .. Len(o.list) :
               /\ p > 0 => before(o.list[p])
               /\ \A i \in p + 1 .. Len(o.list) : ~before(o.list[i])
  IN IF OldMpdu(o, n) \/ InList(o, n) THEN o
     ELSE [o EXCEPT !.list = InsertAt(@, pos + 1, n),
                    !.win = NotifyTransmittedMpdu(@, o.seq[n])]

\* Fault: no block ack request is scheduled.
HandleDiscardedWithoutBar(o, n) ==
  IF OldMpdu(o, n) THEN o
  ELSE LET w   == NotifyDiscardedMpdu(o.win, o.seq[n])
           old == {m \in ToSet(o.list) : IsOld(o.seq[m], w.start)}
       IN [Dequeue(Erase(o, old), old) EXCEPT !.win = w]

\* The window moves past the discarded MPDU; MPDUs at the head of the queue
\* of in flight MPDUs that became old leave both queues; the recipient is to
\* be told with a block ack request.
HandleDiscardedMpdu(o, n) ==
  IF OldMpdu(o, n) THEN o
  ELSE LET w    == NotifyDiscardedMpdu(o.win, o.seq[n])
           isOld(m) == IsOld(o.seq[m], w.start)
           kept == CHOOSE k \in 0 .. Len(o.list) :
                     /\ \A i \in 1 .. k : isOld(o.list[i])
                     /\ k < Len(o.list) => ~isOld(o.list[k + 1])
           old  == {o.list[i] : i \in 1 .. kept}
       IN ScheduleBar([Dequeue(Erase(o, old), old) EXCEPT !.win = w], AnyLink)

\* BlockAckManager::NotifyDiscardedMpdu: nothing to do for an MPDU that was
\* never transmitted.
BaNotifyDiscardedMpdu(o, n) ==
  IF n \notin o.retry /\ o.fly[n] = {} THEN o ELSE HandleDiscardedMpdu(o, n)

----------------------------------------------------------------------------
\* Fault: an MPDU to retransmit stays in flight on the link.
HandleInFlightKeepsLink(o, n, link, again) ==
  IF n \notin o.queued THEN Erase(o, {n})
  ELSE IF OldMpdu(o, n) THEN Dequeue(Erase(o, {n}), {n})
  ELSE IF Expired(o, n) THEN Dequeue(BaNotifyDiscardedMpdu(o, n), {n})
  ELSE IF again THEN [Erase(o, {n}) EXCEPT !.retry = @ \cup {n}]
  ELSE o

\* HandleInFlightMpdu with status TO_RETRANSMIT (again = TRUE) or
\* STAY_INFLIGHT, for an MPDU of the queue of in flight MPDUs.
HandleInFlightMpdu(o, n, link, again) ==
  IF n \notin o.queued THEN Erase(o, {n})
  ELSE IF OldMpdu(o, n) THEN Dequeue(Erase(o, {n}), {n})
  ELSE IF Expired(o, n) THEN Dequeue(BaNotifyDiscardedMpdu(o, n), {n})
  ELSE IF again THEN [Erase(o, {n}) EXCEPT !.retry = @ \cup {n}, !.fly[n] = @ \ {link}]
  ELSE o

\* HandleInFlightMpdu for every MPDU of the queue, those in the given set to
\* be retransmitted.
HandleAll(o, link, again) ==
  FoldLeft(LAMBDA p, n : IF InList(p, n) THEN HandleInFlightMpdu(p, n, link, n \in again)
                         ELSE p,
           o, o.list)

NotifyAcked(o, n) ==
  [o EXCEPT !.win = NotifyAckedMpdu(@, o.seq[n]), !.ok = @ \cup {n}]

\* A normal ack; the frame exchange manager dequeues the MPDU too.
NotifyGotAck(o, n) == Dequeue(Erase(NotifyAcked(o, n), {n}), {n})

\* NormalAckTimeout after the retry limit was checked, with
\* BlockAckManager::NotifyMissedAck.
NotifyMissedAck(o, n, link) ==
  IF n \notin o.queued THEN o
  ELSE LET p == [o EXCEPT !.fly[n] = @ \ {link}, !.retry = @ \cup {n}]
       IN IF InList(p, n) THEN HandleInFlightMpdu(p, n, link, TRUE) ELSE p

\* Fault: every MPDU the block ack does not report is retransmitted, also
\* those in flight on other links.
NotifyGotBlockAckRetransmitsAll(o, link, blockAck) ==
  LET acked == Only(o.list, {n \in Mpdus : IsPacketReceived(blockAck, o.seq[n])})
      p     == FoldLeft(NotifyAcked, o, acked)
      q     == Dequeue(Erase(p, ToSet(acked)), ToSet(acked))
  IN HandleAll(q, link, Mpdus)

\* The MPDUs the block ack reports are dequeued; of the others, those in
\* flight on this link only are to be retransmitted.
NotifyGotBlockAck(o, link, blockAck) ==
  LET acked == Only(o.list, {n \in Mpdus : IsPacketReceived(blockAck, o.seq[n])})
      p     == FoldLeft(NotifyAcked, o, acked)
      q     == Dequeue(Erase(p, ToSet(acked)), ToSet(acked))
  IN HandleAll(q, link, {n \in Mpdus : q.fly[n] = {link}})

NotifyMissedBlockAck(o, link) == HandleAll(o, link, {n \in Mpdus : link \in o.fly[n]})

\* MPDUs are taken from the head of the queue until one stays in flight.
NeedBarRetransmission(o, link) ==
  LET Check(acc, n) ==
        IF acc.need \/ ~InList(acc.o, n) THEN acc
        ELSE LET p == HandleInFlightMpdu(acc.o, n, link, FALSE)
             IN [o |-> p, need |-> InList(p, n)]
  IN FoldLeft(Check, [o |-> o, need |-> FALSE], o.list)

----------------------------------------------------------------------------
\* NotifyPacketDiscarded; the frame exchange manager dequeues the MPDU after it.
DiscardMpdu(o, n) == Dequeue(BaNotifyDiscardedMpdu(o, n), {n})

\* DropMpduIfRetryLimitReached for the MPDUs of a PSDU whose transmission
\* failed.
DropMpduIfRetryLimitReached(o, psdu) ==
  IF RetryLimit = 0 THEN o
  ELSE LET p == [o EXCEPT !.tries = [n \in Mpdus |->
                                     IF n \in ToSet(psdu) THEN @[n] + 1 ELSE @[n]]]
           drop == Only(psdu, {n \in Mpdus : p.tries[n] = RetryLimit})
       IN FoldLeft(DiscardMpdu, p, drop)

\* The sequence number of an MPDU that was never transmitted becomes available
\* again if it is the last one assigned.
ReleaseSequenceNumber(o, n) ==
  IF n \notin o.retry /\ o.fly[n] = {} /\ (o.seq[n] + 1) % SeqSpace = o.next
  THEN [o EXCEPT !.next = o.seq[n], !.numbered = @ \ {n}]
  ELSE o

ReleaseSequenceNumbers(o, psdu) == FoldLeft(ReleaseSequenceNumber, o, Reverse(psdu))
=============================================================================
