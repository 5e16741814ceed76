------------------------------ MODULE BlockAck ------------------------------
(***************************************************************************)
(* Data transfer under an established block ack agreement: the frame       *)
(* exchange managers of the originator (one per link) pick MPDUs from the  *)
(* EDCA queue and send them as A-MPDUs or alone, possibly after RTS/CTS,   *)
(* send block ack requests, and process acks, block acks and timeouts,     *)
(* while MPDUs are enqueued and exceed their lifetime and the recipient    *)
(* reorders what it receives.  Every MPDU and every response may be lost.  *)
(***************************************************************************)
EXTENDS BlockAckOriginator, BlockAckRecipient

CONSTANTS
  StartSeq,       \* starting sequence number of the agreement
  MaxAmpdu,       \* MPDUs in an A-MPDU, at most
  MaxInflights,   \* links an MPDU may be in flight on (NMaxInflights)
  UseRts,         \* whether a frame exchange may start with an RTS
  MaxRepeats,     \* ADDBA responses that are received again, at most
  ExplicitBar     \* UseExplicitBarAfterMissedBlockAck

ASSUME BlockAckAssumption ==
  /\ StartSeq \in Seqs
  /\ MaxAmpdu \in Nat \ {0} /\ MaxInflights \in Nat \ {0}
  /\ MaxRepeats \in Nat
  /\ UseRts \in BOOLEAN /\ ExplicitBar \in BOOLEAN

VARIABLES
  orig,   \* the originator: see BlockAckOriginator
  recip,  \* the recipient: see BlockAckRecipient
  exch    \* the frame exchange in progress on every link

vars == <<orig, recip, exch>>

(***************************************************************************)
(* A frame exchange.  phase: IDLE; RTS, the RTS was sent; AIR, the MPDUs   *)
(* in todo are still on their way; RESP, the response is on its way.       *)
(* kind: ACK, a single MPDU to be acked; BA, an A-MPDU; LATER, an MPDU to  *)
(* be followed by a BAR in an exchange of its own; BAR.                    *)
(***************************************************************************)
Idle == [phase |-> "IDLE", kind |-> "NONE", psdu |-> <<>>, todo |-> <<>>,
         got |-> FALSE, blockAck |-> InitWindow(StartSeq)]

Init ==
  /\ orig = NewOriginator(StartSeq)
  /\ recip = NewRecipientAgreement(StartSeq)
  /\ exch = [l \in Links |-> Idle]

IsIdle(l) == exch[l].phase = "IDLE"

\* An event of the current instant is still to run.
Firing == orig.firing # <<>>

----------------------------------------------------------------------------
(***************************************************************************)
(* The EDCA queue.  Expired traces are scheduled for the current instant;  *)
(* the events that end a transmission or a timer come after them.          *)
(***************************************************************************)
Enqueue ==
  /\ orig.arrived < NumMpdus
  /\ orig' = LET o == WipeAllExpiredMpdus(orig)
             IN [o EXCEPT !.arrived = @ + 1, !.queued = @ \cup {orig.arrived + 1}]
  /\ UNCHANGED <<recip, exch>>

LifetimeOver ==
  /\ ~Firing /\ orig.overdue < orig.arrived
  /\ orig' = [orig EXCEPT !.overdue = @ + 1]
  /\ UNCHANGED <<recip, exch>>

\* HasFramesToTransmit and NotifyChannelReleased wipe the queue too.
WipeExpired ==
  /\ orig' = WipeAllExpiredMpdus(orig)
  /\ orig' # orig
  /\ UNCHANGED <<recip, exch>>

FireExpired ==
  /\ Firing
  /\ orig' = BaNotifyDiscardedMpdu([orig EXCEPT !.firing = Tail(@)], Head(orig.firing))
  /\ UNCHANGED <<recip, exch>>

\* The recipient did not get the ack of its ADDBA response and sends it again
\* while the agreement is used: action frames are not filtered for duplicates.
RepeatedAddBaResponse ==
  /\ ~Firing /\ orig.repeats < MaxRepeats
  /\ orig' = GotAddBaResponse(orig)
  /\ UNCHANGED <<recip, exch>>

----------------------------------------------------------------------------
(***************************************************************************)
(* Selection of what to send on a link (StartFrameExchange).               *)
(***************************************************************************)
\* GetBar: the outcomes of looking for a block ack request; the one to send
\* is SENT.  The order of the two container queues a link can serve depends
\* on the scheduler.
GetBar(o, l) ==
  LET q == BarQueue(l)
      available == {c \in {q, AnyLink} : o.bars[c] # <<>>}
      own   == [o EXCEPT !.bars[q] = [@ EXCEPT ![1] = "SENT"]]
      other == [o EXCEPT !.bars[AnyLink] = Tail(@)]
      pick(c) ==
        IF c # q THEN [other EXCEPT !.bars[q] = Append(@, "SENT")]
        ELSE IF IsMld THEN [own EXCEPT !.bars[AnyLink] = <<>>] ELSE own
  IN IF available # {} THEN {pick(c) : c \in available}
     ELSE IF o.barIfData /\ o.queued # {}
          THEN {[o EXCEPT !.bars[q] = <<"SENT">>, !.barIfData = FALSE]}
          ELSE {}

DropOld(o) == Dequeue(o, {n \in o.queued \cap o.numbered : OldMpdu(o, n)})

\* MPDUs PeekNextMpdu may return for a link, in the order of the queue.
Eligible(o, l) ==
  ByNumber({n \in o.queued :
              o.fly[n] # {} => l \notin o.fly[n] /\ Cardinality(o.fly[n]) < MaxInflights})

\* The sequence number each of them has or gets.
SeqToUse(o, ns) ==
  [i \in DOMAIN ns |->
     IF ns[i] \in o.numbered THEN o.seq[ns[i]]
     ELSE (o.next + Cardinality({j \in 1 .. i - 1 : ns[j] \notin o.numbered})) % SeqSpace]

\* They end at the first one beyond the transmit window.
Sendable(o, l) ==
  LET ns == Eligible(o, l)
      seqs == SeqToUse(o, ns)
      inWindow == {k \in 0 .. Len(ns) : \A i \in 1 .. k : IsInWindow(seqs[i], o.win.start)}
  IN SubSeq(ns, 1, CHOOSE k \in inWindow : \A j \in inWindow : j <= k)

\* Assign sequence numbers and mark the MPDUs in flight.
Take(o, l, psdu) ==
  LET seqs == SeqToUse(o, psdu)
      fresh == {i \in DOMAIN psdu : psdu[i] \notin o.numbered}
  IN [o EXCEPT !.seq = [n \in Mpdus |-> IF n \in ToSet(psdu)
                                        THEN seqs[CHOOSE i \in DOMAIN psdu : psdu[i] = n]
                                        ELSE @[n]],
               !.numbered = @ \cup ToSet(psdu),
               !.next = (@ + Cardinality(fresh)) % SeqSpace,
               !.fly = [n \in Mpdus |-> IF n \in ToSet(psdu) THEN @[n] \cup {l} ELSE @[n]]]

AckMethod(o, l, psdu) ==
  IF Len(psdu) > 1 THEN "BA"
  ELSE IF \E m \in o.queued : m < psdu[1] /\ l \in o.fly[m] THEN "LATER"
  ELSE "ACK"

\* SendPsdu and SendMpdu: the MPDUs become outstanding.
Transmit(o, l, kind, psdu) ==
  LET p == FoldLeft(DoStorePacket, o, psdu)
  IN IF kind = "LATER" THEN ScheduleBar(p, BarQueue(l)) ELSE p

OnAir(kind, psdu) == [Idle EXCEPT !.phase = "AIR", !.kind = kind, !.psdu = psdu, !.todo = psdu]

\* A block ack request carries the start of the window at this time.
SendBar(l) ==
  /\ IsIdle(l)
  /\ orig' \in GetBar(WipeAllExpiredMpdus(orig), l)
  /\ exch' = [exch EXCEPT ![l] = [OnAir("BAR", <<>>) EXCEPT !.blockAck = InitWindow(orig'.win.start)]]
  /\ UNCHANGED recip

\* Data are sent if there is no block ack request or not enough time for it.
AfterBar(l) ==
  LET o == WipeAllExpiredMpdus(orig)
      bars == GetBar(o, l)
  IN {DropOld(p) : p \in IF bars = {} THEN {o} ELSE bars}

\* Only the tokens of the queue of this link return to QUEUED.
KeepBar(o, l) == [o EXCEPT !.bars[BarQueue(l)] = [i \in DOMAIN @ |-> "QUEUED"]]

StartData(l) ==
  /\ IsIdle(l)
  /\ \E s \in AfterBar(l) :
       LET o == KeepBar(s, l) ns == Sendable(o, l) IN
       \E k \in 1 .. Len(ns) :
         /\ k <= MaxAmpdu
         /\ LET psdu == SubSeq(ns, 1, k)
                kind == AckMethod(o, l, psdu)
                p == Take(o, l, psdu)
            IN \/ /\ UseRts
                  /\ orig' = p
                  /\ exch' = [exch EXCEPT ![l] =
                       [OnAir(kind, psdu) EXCEPT !.phase = "RTS", !.todo = <<>>]]
               \/ /\ orig' = Transmit(p, l, kind, psdu)
                  /\ exch' = [exch EXCEPT ![l] = OnAir(kind, psdu)]
  /\ UNCHANGED recip

\* Looking for something to send changes the queue even if nothing is sent.
StartNothing(l) ==
  /\ IsIdle(l)
  /\ \E s \in AfterBar(l) :
       /\ Sendable(KeepBar(s, l), l) = <<>>
       /\ orig' = KeepBar(s, l)
  /\ orig' # orig
  /\ UNCHANGED <<recip, exch>>

----------------------------------------------------------------------------
(***************************************************************************)
(* Protection.                                                             *)
(***************************************************************************)
GotCts(l) ==
  /\ ~Firing /\ exch[l].phase = "RTS"
  /\ orig' = Transmit(orig, l, exch[l].kind, exch[l].psdu)
  /\ exch' = [exch EXCEPT ![l] = OnAir(exch[l].kind, exch[l].psdu)]
  /\ UNCHANGED recip

CtsTimeout(l) ==
  /\ ~Firing /\ exch[l].phase = "RTS"
  /\ LET psdu == exch[l].psdu
         o == [orig EXCEPT !.fly = [n \in Mpdus |->
                 IF n \in ToSet(psdu) THEN @[n] \ {l} ELSE @[n]]]
     IN orig' = ReleaseSequenceNumbers(DropMpduIfRetryLimitReached(o, psdu), psdu)
  /\ exch' = [exch EXCEPT ![l] = Idle]
  /\ UNCHANGED recip

----------------------------------------------------------------------------
(***************************************************************************)
(* The recipient.                                                          *)
(***************************************************************************)
OnAirOnly(l) == ~Firing /\ exch[l].phase = "AIR"

ReceiveMpdu(l) ==
  /\ OnAirOnly(l) /\ exch[l].todo # <<>>
  /\ LET n == Head(exch[l].todo) IN recip' = NotifyReceivedMpdu(recip, orig.seq[n], n)
  /\ exch' = [exch EXCEPT ![l].todo = Tail(@), ![l].got = TRUE]
  /\ UNCHANGED orig

LoseMpdu(l) ==
  /\ OnAirOnly(l) /\ exch[l].todo # <<>>
  /\ exch' = [exch EXCEPT ![l].todo = Tail(@)]
  /\ UNCHANGED <<orig, recip>>

ReceiveBar(l) ==
  /\ OnAirOnly(l) /\ exch[l].kind = "BAR" /\ ~exch[l].got
  /\ recip' = NotifyReceivedBar(recip, exch[l].blockAck.start)
  /\ exch' = [exch EXCEPT ![l].got = TRUE]
  /\ UNCHANGED orig

\* The ack or block ack a SIFS later; the bitmap is read at that time.
Respond(l) ==
  /\ OnAirOnly(l) /\ exch[l].todo = <<>>
  /\ exch[l].got /\ exch[l].kind # "LATER"
  /\ exch' = [exch EXCEPT ![l].phase = "RESP", ![l].blockAck = FillBlockAckBitmap(recip)]
  /\ UNCHANGED <<orig, recip>>

----------------------------------------------------------------------------
(***************************************************************************)
(* The end of a frame exchange.                                            *)
(***************************************************************************)
\* The block ack request that was sent, if it was not replaced meanwhile.
DequeueBar(o, l) ==
  [o EXCEPT !.bars[BarQueue(l)] = Only(@, {"QUEUED"})]

GotResponse(l) ==
  /\ ~Firing /\ exch[l].phase = "RESP"
  /\ LET e == exch[l] IN
     orig' = CASE e.kind = "ACK" -> NotifyGotAck(orig, e.psdu[1])
               [] e.kind = "BA"  -> NotifyGotBlockAck(orig, l, e.blockAck)
               [] e.kind = "BAR" -> DequeueBar(NotifyGotBlockAck(orig, l, e.blockAck), l)
  /\ exch' = [exch EXCEPT ![l] = Idle]
  /\ UNCHANGED recip

MissedBlockAck(o, l, isBar) ==
  LET bar == NeedBarRetransmission(o, l)
      b   == IF isBar THEN KeepBar(bar.o, l) ELSE ScheduleBar(bar.o, BarQueue(l))
      c   == IF isBar THEN DequeueBar(bar.o, l) ELSE bar.o
  IN IF ExplicitBar \/ isBar
     THEN IF bar.need THEN b ELSE [c EXCEPT !.barIfData = TRUE]
     ELSE NotifyMissedBlockAck(o, l)

ResponseTimeout(l) ==
  /\ ~Firing /\ exch[l].kind \in {"ACK", "BA", "BAR"}
  /\ \/ exch[l].phase = "RESP"
     \/ exch[l].phase = "AIR" /\ exch[l].todo = <<>> /\ ~exch[l].got
  /\ LET e == exch[l]
         o == DropMpduIfRetryLimitReached(orig, e.psdu)
     IN orig' = IF e.kind = "ACK" THEN NotifyMissedAck(o, e.psdu[1], l)
                ELSE MissedBlockAck(o, l, e.kind = "BAR")
  /\ exch' = [exch EXCEPT ![l] = Idle]
  /\ UNCHANGED recip

\* Nothing is awaited after an MPDU sent before its block ack request.
NoResponse(l) ==
  /\ OnAirOnly(l) /\ exch[l].kind = "LATER" /\ exch[l].todo = <<>>
  /\ exch' = [exch EXCEPT ![l] = Idle]
  /\ UNCHANGED <<orig, recip>>

----------------------------------------------------------------------------
StartStep(l) == SendBar(l) \/ StartData(l) \/ StartNothing(l)
ExchangeStep(l) ==
  \/ GotCts(l) \/ CtsTimeout(l)
  \/ ReceiveMpdu(l) \/ LoseMpdu(l) \/ ReceiveBar(l) \/ Respond(l)
  \/ GotResponse(l) \/ ResponseTimeout(l) \/ NoResponse(l)

Next ==
  \/ Enqueue \/ LifetimeOver \/ WipeExpired \/ FireExpired \/ RepeatedAddBaResponse
  \/ \E l \in Links : StartStep(l) \/ ExchangeStep(l)

Spec == Init /\ [][Next]_vars

(***************************************************************************)
(* Scheduled events run, lifetimes end, a transmission ends with every     *)
(* MPDU received or lost, a response comes or its timer expires, and a     *)
(* link that has something to send gets channel access (CanStart and the   *)
(* phase of an exchange say when the steps are enabled).  Nothing is       *)
(* assumed about what is lost.                                             *)
(***************************************************************************)
CanStart(l) ==
  LET o == DropOld(WipeAllExpiredMpdus(orig)) IN
  IsIdle(l) /\ \/ o # orig
               \/ \E c \in {BarQueue(l), AnyLink} : orig.bars[c] # <<>>
               \/ orig.barIfData /\ orig.queued # {}
               \/ Sendable(o, l) # <<>>

Fairness ==
  /\ WF_vars(LifetimeOver) /\ WF_vars(FireExpired)
  /\ \A l \in Links :
       /\ []<>~CanStart(l) \/ []<><<StartStep(l)>>_vars
       /\ []<>(IsIdle(l) \/ Firing) \/ []<><<ExchangeStep(l)>>_vars

FairSpec == Spec /\ Fairness

----------------------------------------------------------------------------
(***************************************************************************)
(* Properties.                                                             *)
(***************************************************************************)
Exchange ==
  [phase : {"IDLE", "RTS", "AIR", "RESP"}, kind : {"NONE", "ACK", "BA", "LATER", "BAR"},
   psdu : Seq(Mpdus), todo : Seq(Mpdus), got : BOOLEAN, blockAck : Windows]

\* Type invariant: sequence numbers and window positions stay within their moduli.
TypeOK ==
  /\ orig.arrived \in 0 .. NumMpdus /\ orig.overdue \in 0 .. orig.arrived
  /\ orig.queued \subseteq 1 .. orig.arrived /\ orig.ok \subseteq 1 .. orig.arrived
  /\ orig.firing \in Seq(Mpdus) /\ orig.list \in Seq(Mpdus)
  /\ orig.seq \in [Mpdus -> Seqs] /\ orig.numbered \subseteq Mpdus /\ orig.next \in Seqs
  /\ orig.fly \in [Mpdus -> SUBSET Links] /\ orig.tries \in [Mpdus -> Nat]
  /\ orig.retry \subseteq Mpdus /\ orig.win \in Windows /\ orig.barIfData \in BOOLEAN
  /\ orig.bars \in [BarQueues -> Seq({"QUEUED", "SENT"})]
  /\ recip.score \in Windows /\ recip.start \in Seqs
  /\ recip.buf \subseteq Seqs \X Mpdus /\ recip.up \in Seq(Mpdus)
  /\ exch \in [Links -> Exchange]

Held == {entry[2] : entry \in recip.buf}

\* The queue of in flight MPDUs is in increasing order of sequence number and
\* within the transmit window: HandleDiscardedMpdu stops at the first MPDU
\* that is not old, and NotifyAckedMpdu sets a position of the window.
OutstandingInWindow ==
  LET dist(i) == GetDistance(orig.seq[orig.list[i]], orig.win.start) IN
  \A i \in DOMAIN orig.list :
    /\ dist(i) < WinSize
    /\ i > 1 => dist(i - 1) < dist(i)

\* The reordering buffer holds no old MPDU and none beyond its window, and
\* the scoreboard never starts after it (PassBufferedMpdusUntilFirstLost,
\* Flush).
BufferInWindow ==
  /\ \A entry \in recip.buf : GetDistance(entry[1], recip.start) \in 1 .. WinSize - 1
  /\ GetDistance(recip.start, recip.score.start) <= WinSize

\* An MPDU is in flight on a link only if the frame exchange of the link is
\* about it, or it is outstanding and a block ack request for the link is
\* queued, or it became old and is removed when the next MPDU is selected.
InFlightIsTracked ==
  \A n \in orig.queued, l \in Links :
    l \in orig.fly[n] =>
      \/ n \in ToSet(exch[l].psdu)
      \/ InList(orig, n) /\ (orig.bars[BarQueue(l)] # <<>> \/ exch[l].kind = "BAR")
      \/ OldMpdu(orig, n)

\* MPDUs held back by the recipient wait for an MPDU that may still come, or
\* for a block ack request, unless the originator gave the request up until
\* it has data to send again.
NoStrandedMpdu ==
  recip.buf # {} =>
    \/ Firing
    \/ \E l \in Links : ~IsIdle(l)
    \/ \E q \in BarQueues : orig.bars[q] # <<>>
    \/ orig.barIfData
    \/ \E n \in orig.queued \cap orig.numbered : orig.seq[n] = recip.start

\* Every MPDU leaves the EDCA queue: it is acknowledged or discarded, never
\* left in flight with nothing that would bring it back.
QueueDrains == \A n \in Mpdus : n \in orig.queued ~> n \notin orig.queued

\* CompleteMpduTx finds the MPDUs of a PSDU protected by RTS/CTS in the queue.
PsduStillQueued ==
  \A l \in Links : exch[l].phase = "RTS" => ToSet(exch[l].psdu) \subseteq orig.queued

\* A positive acknowledgment reports an MPDU the recipient passed up or holds.
AckedIsDelivered == orig.ok \subseteq Held \cup ToSet(recip.up)

\* A block ack on its way reports an MPDU received only if the recipient passed
\* it up or holds it, whatever moved the scoreboard before the reordering buffer
\* (UpdateScoreboard, NotifyReceivedBar) and whatever numbers were released.
BlockAckIsTrue ==
  \A l \in Links : exch[l].phase = "RESP" /\ exch[l].kind \in {"BA", "BAR"} =>
    \A n \in orig.numbered : IsPacketReceived(exch[l].blockAck, orig.seq[n]) =>
      n \in Held \cup ToSet(recip.up)

Delivery == INSTANCE OrderedDelivery WITH
  held <- Held, up <- recip.up

\* The agreement implements the ordered delivery it promises: whatever is lost,
\* repeated, discarded or overtaken, MPDUs are passed up in order and once
\* (NotifyReceivedMpdu, NotifyReceivedBar).
DeliveryInOrder == Delivery!Spec
=============================================================================
