---------------------- MODULE BlockAckDelivery_proofs ----------------------
(***************************************************************************)
(* The two sides of the block ack agreement implement OrderedDelivery: the *)
(* recipient passes each MPDU up once at most, by increasing place in the  *)
(* EDCA queue of the originator, whatever is lost or given up.  The        *)
(* originator keeps the sequence numbers in the order of its queue         *)
(* (Numbered), the recipient what it holds in the order of the numbers     *)
(* (Ordered); the two together are inductive with IInv of BlockAck_proofs. *)
(* Block acks report only what the recipient received (TruthfulOf): all    *)
(* numbers between the starts of its two windows were received.            *)
(***************************************************************************)
EXTENDS BlockAck_proofs

----------------------------------------------------------------------------
(***************************************************************************)
(* What the handlers of the originator do to sequence numbers and links:   *)
(* they assign and release no number, MPDUs only leave the EDCA queue, and *)
(* an MPDU of the queue that is no longer in flight on the link is to be   *)
(* retransmitted.                                                          *)
(***************************************************************************)
Handled(p, q, l) ==
  /\ q.seq = p.seq /\ q.numbered = p.numbered /\ q.next = p.next
  /\ q.queued \subseteq p.queued /\ p.retry \subseteq q.retry
  /\ \A n \in q.queued : \/ q.fly[n] = p.fly[n]
                         \/ q.fly[n] = p.fly[n] \ {l} /\ n \in q.retry

\* Nothing that sequence numbers depend on is changed.
LEMMA SameHandled ==
  ASSUME NEW p, NEW q, NEW l, q.seq = p.seq, q.numbered = p.numbered, q.next = p.next,
         q.queued = p.queued, q.retry = p.retry, q.fly = p.fly
  PROVE  Handled(p, q, l)
BY DEF Handled

\* One handler after the other.
LEMMA HandledTrans ==
  ASSUME NEW p, NEW q, NEW r, NEW l, Handled(p, q, l), Handled(q, r, l)
  PROVE  Handled(p, r, l)
<1>1. ASSUME NEW n \in r.queued
      PROVE  r.fly[n] = p.fly[n] \/ (r.fly[n] = p.fly[n] \ {l} /\ n \in r.retry)
  <2>1. /\ q.fly[n] = p.fly[n] \/ (q.fly[n] = p.fly[n] \ {l} /\ n \in r.retry)
        /\ r.fly[n] = q.fly[n] \/ (r.fly[n] = q.fly[n] \ {l} /\ n \in r.retry)
    BY DEF Handled
  <2>. QED  BY <2>1
<1>. QED  BY <1>1 DEF Handled

\* The operations of the block ack manager, one by one.
LEMMA EraseHandled ==
  ASSUME NEW sq, NEW ar, NEW o \in Originators(sq, ar), NEW ns, NEW l
  PROVE  Handled(o, Erase(o, ns), l)
<1>1. PICK v : Erase(o, ns) = [o EXCEPT !.list = v]
  BY DEF Erase
<1>. QED  BY <1>1, SameHandled DEF Originators

LEMMA DequeueHandled ==
  ASSUME NEW sq, NEW ar \in 0 .. NumMpdus, NEW o \in Originators(sq, ar), NEW ns, NEW l
  PROVE  Handled(o, Dequeue(o, ns), l)
<1>. DEFINE fly == [n \in Mpdus |-> IF n \in ns THEN {} ELSE o.fly[n]] queued == o.queued \ ns
<1>1. o.queued \subseteq Mpdus
  BY OrigFields
<1>2. \A n \in queued : fly[n] = o.fly[n]
  BY <1>1
<1>3. Dequeue(o, ns) = [o EXCEPT !.queued = queued, !.fly = fly]
  BY DEF Dequeue
<1>4. queued \subseteq o.queued
  OBVIOUS
<1>. HIDE DEF fly, queued
<1>. QED  BY <1>2, <1>3, <1>4 DEF Originators, Handled

LEMMA ScheduleBarHandled ==
  ASSUME NEW sq, NEW ar, NEW o \in Originators(sq, ar), NEW q, NEW l
  PROVE  Handled(o, ScheduleBar(o, q), l)
<1>1. PICK v : ScheduleBar(o, q) = [o EXCEPT !.bars = v]
  BY DEF ScheduleBar
<1>. QED  BY <1>1, SameHandled DEF Originators

LEMMA WipeHandled ==
  ASSUME NEW sq, NEW ar \in 0 .. NumMpdus, NEW o \in Originators(sq, ar), NEW l
  PROVE  Handled(o, WipeAllExpiredMpdus(o), l)
<1>. DEFINE p == Dequeue(o, {n \in o.queued : Expired(o, n) /\ o.fly[n] = {}})
<1>1. PICK v : WipeAllExpiredMpdus(o) = [p EXCEPT !.firing = v]
  BY DEF WipeAllExpiredMpdus
<1>2. p \in Originators(sq, ar) /\ Handled(o, p, l)
  BY DequeueKeeps, DequeueHandled
<1>. HIDE DEF p
<1>3. Handled(p, [p EXCEPT !.firing = v], l)
  BY <1>2, SameHandled DEF Originators
<1>. QED  BY <1>1, <1>2, <1>3, HandledTrans

LEMMA DoStoreHandled ==
  ASSUME NEW sq, NEW ar, NEW o \in Originators(sq, ar), NEW n, NEW l
  PROVE  Handled(o, DoStorePacket(o, n), l)
<1>1. PICK v, w : DoStorePacket(o, n) = o \/ DoStorePacket(o, n) = [o EXCEPT !.list = v, !.win = w]
  BY DEF DoStorePacket
<1>2. Handled(o, o, l)
  BY SameHandled
<1>3. Handled(o, [o EXCEPT !.list = v, !.win = w], l)
  BY SameHandled DEF Originators
<1>. QED  BY <1>1, <1>2, <1>3

LEMMA BaNotifyDiscardedHandled ==
  ASSUME NEW sq, NEW ar \in 0 .. NumMpdus, NEW o \in Originators(sq, ar), NEW n, NEW l
  PROVE  Handled(o, BaNotifyDiscardedMpdu(o, n), l)
<1>1. PICK old, w : \/ BaNotifyDiscardedMpdu(o, n) = o
                    \/ BaNotifyDiscardedMpdu(o, n)
                         = ScheduleBar([Dequeue(Erase(o, old), old) EXCEPT !.win = w], AnyLink)
  BY DEF BaNotifyDiscardedMpdu, HandleDiscardedMpdu
<1>. DEFINE e == Erase(o, old) p == Dequeue(e, old) q == [p EXCEPT !.win = w]
<1>2. e \in Originators(sq, ar) /\ Handled(o, e, l)
  BY EraseKeeps, EraseHandled
<1>. HIDE DEF e
<1>3. p \in Originators(sq, ar) /\ Handled(e, p, l)
  BY <1>2, DequeueKeeps, DequeueHandled
<1>. HIDE DEF p
<1>4. Handled(p, q, l)
  BY <1>3, SameHandled DEF Originators
<1>5. Handled(q, ScheduleBar(q, AnyLink), l)
  <2>1. PICK v : ScheduleBar(q, AnyLink) = [p EXCEPT !.win = w, !.bars = v]
    BY DEF ScheduleBar
  <2>. QED  BY <1>3, <2>1, SameHandled DEF Originators
<1>6. Handled(o, ScheduleBar(q, AnyLink), l)
  <2>. HIDE DEF q
  <2>. QED  BY <1>2, <1>3, <1>4, <1>5, HandledTrans
<1>7. Handled(o, o, l)
  BY SameHandled
<1>. QED  BY <1>1, <1>6, <1>7 DEF p, e, q

LEMMA DiscardHandled ==
  ASSUME NEW sq, NEW ar \in 0 .. NumMpdus, NEW o \in Originators(sq, ar), NEW n \in Mpdus, NEW l
  PROVE  Handled(o, DiscardMpdu(o, n), l)
<1>1. BaNotifyDiscardedMpdu(o, n) \in Originators(sq, ar) /\ Handled(o, BaNotifyDiscardedMpdu(o, n), l)
  BY BaNotifyDiscardedKeeps, BaNotifyDiscardedHandled
<1>2. Handled(BaNotifyDiscardedMpdu(o, n), DiscardMpdu(o, n), l)
  BY <1>1, DequeueHandled DEF DiscardMpdu
<1>. QED  BY <1>1, <1>2, HandledTrans

\* What the handlers a fold applies one after the other are proved to keep.
After(sq, ar, o, l) == {q \in Originators(sq, ar) : Handled(o, q, l)}

LEMMA AfterItself ==
  ASSUME NEW sq, NEW ar, NEW o \in Originators(sq, ar), NEW l
  PROVE  o \in After(sq, ar, o, l)
BY SameHandled DEF After

LEMMA AfterMore ==
  ASSUME NEW sq, NEW ar, NEW o, NEW l, NEW p \in After(sq, ar, o, l),
         NEW q \in Originators(sq, ar), Handled(p, q, l)
  PROVE  q \in After(sq, ar, o, l)
BY HandledTrans DEF After

LEMMA HandleInFlightHandled ==
  ASSUME NEW sq, NEW ar \in 0 .. NumMpdus, NEW o \in Originators(sq, ar),
         NEW n \in Mpdus, NEW l, NEW again
  PROVE  Handled(o, HandleInFlightMpdu(o, n, l, again), l)
<1>. DEFINE p == Erase(o, {n})
            q == [p EXCEPT !.retry = @ \cup {n}, !.fly[n] = @ \ {l}]
            d == BaNotifyDiscardedMpdu(o, n)
<1>1. p \in Originators(sq, ar) /\ Handled(o, p, l)
  BY EraseKeeps, EraseHandled
<1>2. d \in Originators(sq, ar) /\ Handled(o, d, l)
  BY BaNotifyDiscardedKeeps, BaNotifyDiscardedHandled
<1>. HIDE DEF p, d
<1>3. Handled(o, Dequeue(p, {n}), l) /\ Handled(o, Dequeue(d, {n}), l)
  <2>1. Handled(p, Dequeue(p, {n}), l) /\ Handled(d, Dequeue(d, {n}), l)
    BY <1>1, <1>2, DequeueHandled
  <2>. QED  BY <1>1, <1>2, <2>1, HandledTrans
<1>4. Handled(o, q, l)
  <2>1. /\ q.seq = p.seq /\ q.numbered = p.numbered /\ q.next = p.next /\ q.queued = p.queued
        /\ q.retry = p.retry \cup {n} /\ q.fly = [p.fly EXCEPT ![n] = p.fly[n] \ {l}]
    BY <1>1 DEF Originators
  <2>2. p.fly \in [Mpdus -> SUBSET Links]
    BY <1>1, OrigFields
  <2>. HIDE DEF q
  <2>3. \A m \in Mpdus : q.fly[m] = p.fly[m] \/ (q.fly[m] = p.fly[m] \ {l} /\ m \in q.retry)
    BY <2>1, <2>2
  <2>4. q.queued \subseteq Mpdus
    BY <1>1, <2>1, OrigFields
  <2>5. Handled(p, q, l)
    BY <2>1, <2>3, <2>4 DEF Handled
  <2>. QED  BY <1>1, <2>5, HandledTrans
<1>5. Handled(o, o, l)
  BY SameHandled
<1>6. HandleInFlightMpdu(o, n, l, again) =
        IF n \notin o.queued THEN p
        ELSE IF OldMpdu(o, n) THEN Dequeue(p, {n})
        ELSE IF Expired(o, n) THEN Dequeue(d, {n})
        ELSE IF again THEN q ELSE o
  BY DEF HandleInFlightMpdu, p, d
<1>. HIDE DEF q
<1>. QED  BY <1>1, <1>3, <1>4, <1>5, <1>6, Zenon

\* One MPDU of a loop over the queue of in flight MPDUs.
LEMMA HandleOneAfter ==
  ASSUME NEW sq, NEW ar \in 0 .. NumMpdus, NEW o, NEW l, NEW p \in After(sq, ar, o, l),
         NEW n \in Known(sq, ar), NEW again \in BOOLEAN
  PROVE  HandleInFlightMpdu(p, n, l, again) \in After(sq, ar, o, l)
<1>1. p \in Originators(sq, ar) /\ n \in Mpdus
  BY OrigFields DEF After
<1>2. HandleInFlightMpdu(p, n, l, again) \in Originators(sq, ar)
  BY <1>1, HandleInFlightKeeps
<1>3. Handled(p, HandleInFlightMpdu(p, n, l, again), l)
  BY <1>1, HandleInFlightHandled
<1>. QED  BY <1>2, <1>3, AfterMore

LEMMA HandleAllHandled ==
  ASSUME NEW sq, NEW ar \in 0 .. NumMpdus, NEW o \in Originators(sq, ar), NEW l, NEW again
  PROVE  Handled(o, HandleAll(o, l, again), l)
<1>. DEFINE A == After(sq, ar, o, l) N == Known(sq, ar)
<1>1. \A p \in A, n \in N :
        (IF InList(p, n) THEN HandleInFlightMpdu(p, n, l, n \in again) ELSE p) \in A
  <2>. SUFFICES ASSUME NEW p \in A, NEW n \in N
                PROVE  HandleInFlightMpdu(p, n, l, n \in again) \in A
    OBVIOUS
  <2>1. HandleInFlightMpdu(p, n, l, TRUE) \in A /\ HandleInFlightMpdu(p, n, l, FALSE) \in A
    BY HandleOneAfter
  <2>. QED  BY <2>1 DEF HandleInFlightMpdu
<1>2. o \in A /\ o.list \in Seq(N)
  BY OrigFields, AfterItself
<1>. HIDE DEF A, N
<1>3. HandleAll(o, l, again) \in A
  BY <1>1, <1>2, HandleFold, Zenon
<1>. QED  BY <1>3 DEF A, After

LEMMA NeedBarHandled ==
  ASSUME NEW sq, NEW ar \in 0 .. NumMpdus, NEW o \in Originators(sq, ar), NEW l
  PROVE  Handled(o, NeedBarRetransmission(o, l).o, l)
<1>. DEFINE A == After(sq, ar, o, l) N == Known(sq, ar) X == [o : A, need : BOOLEAN]
            Check(p, n) == (IF p.need \/ ~InList(p.o, n) THEN p ELSE
              [o |-> HandleInFlightMpdu(p.o, n, l, FALSE),
               need |-> InList(HandleInFlightMpdu(p.o, n, l, FALSE), n)])
<1>1. \A p \in X, n \in N : Check(p, n) \in X
  <2>. SUFFICES ASSUME NEW p \in X, NEW n \in N PROVE Check(p, n) \in X
    OBVIOUS
  <2>1. p.o \in A
    OBVIOUS
  <2>2. HandleInFlightMpdu(p.o, n, l, FALSE) \in A
    BY <2>1, HandleOneAfter
  <2>3. InList(HandleInFlightMpdu(p.o, n, l, FALSE), n) \in BOOLEAN
    BY DEF InList
  <2>. HIDE DEF A
  <2>. QED  BY <2>2, <2>3
<1>2. [o |-> o, need |-> FALSE] \in X /\ o.list \in Seq(N)
  <2>1. o \in A /\ o.list \in Seq(N)
    BY OrigFields, AfterItself
  <2>. HIDE DEF A, N
  <2>. QED  BY <2>1
<1>3. NeedBarRetransmission(o, l) \in X
  <2>. HIDE DEF A, N, X
  <2>. QED  BY <1>1, <1>2, NeedBarFold, Zenon
<1>4. NeedBarRetransmission(o, l).o \in A
  <2>. HIDE DEF A
  <2>. QED  BY <1>3
<1>. QED  BY <1>4 DEF A, After

LEMMA NotifyAckedHandled ==
  ASSUME NEW sq, NEW ar, NEW o \in Originators(sq, ar), NEW n, NEW l
  PROVE  Handled(o, NotifyAcked(o, n), l)
<1>1. PICK v, w : NotifyAcked(o, n) = [o EXCEPT !.win = v, !.ok = w]
  BY DEF NotifyAcked
<1>. QED  BY <1>1, SameHandled DEF Originators

LEMMA NotifyGotAckHandled ==
  ASSUME NEW sq, NEW ar \in 0 .. NumMpdus, NEW o \in Originators(sq, ar),
         NEW n \in Known(sq, ar), NEW l
  PROVE  Handled(o, NotifyGotAck(o, n), l)
<1>1. PICK p : p = NotifyAcked(o, n)
  OBVIOUS
<1>2. p \in Originators(sq, ar) /\ Handled(o, p, l)
  BY <1>1, NotifyAckedOfKeeps, NotifyAckedHandled
<1>3. PICK q : q = Erase(p, {n})
  OBVIOUS
<1>4. q \in Originators(sq, ar) /\ Handled(p, q, l)
  BY <1>2, <1>3, EraseKeeps, EraseHandled
<1>5. Handled(q, NotifyGotAck(o, n), l)
  BY <1>1, <1>3, <1>4, DequeueHandled DEF NotifyGotAck
<1>. QED  BY <1>2, <1>4, <1>5, HandledTrans

LEMMA NotifyMissedAckHandled ==
  ASSUME NEW sq, NEW ar \in 0 .. NumMpdus, NEW o \in Originators(sq, ar),
         NEW n \in Known(sq, ar), NEW l
  PROVE  Handled(o, NotifyMissedAck(o, n, l), l)
<1>. DEFINE fly == [o.fly EXCEPT ![n] = o.fly[n] \ {l}]
            retry == o.retry \cup {n}
            p == [o EXCEPT !.fly = fly, !.retry = retry]
<1>1. /\ o.fly \in [Mpdus -> SUBSET Links] /\ \A m \in Mpdus : o.fly[m] # {} => m \in Known(sq, ar)
      /\ n \in Mpdus /\ o.retry \subseteq Known(sq, ar) /\ o.queued \subseteq Mpdus
  BY OrigFields
<1>2. /\ retry \in SUBSET Known(sq, ar) /\ fly \in [Mpdus -> SUBSET Links]
      /\ \A m \in Mpdus : fly[m] # {} => m \in Known(sq, ar)
      /\ \A m \in Mpdus : fly[m] = o.fly[m] \/ (fly[m] = o.fly[m] \ {l} /\ m \in retry)
      /\ o.retry \subseteq retry
  BY <1>1
<1>3. p \in Originators(sq, ar) /\ Handled(o, p, l)
  <2>. HIDE DEF fly, retry
  <2>1. p \in Originators(sq, ar)
    BY <1>2 DEF Originators
  <2>2. /\ p.seq = o.seq /\ p.numbered = o.numbered /\ p.next = o.next /\ p.queued = o.queued
        /\ p.fly = fly /\ p.retry = retry
    BY DEF Originators
  <2>. HIDE DEF p
  <2>3. Handled(o, p, l)
    BY <1>1, <1>2, <2>2 DEF Handled
  <2>. QED  BY <2>1, <2>3
<1>4. [o EXCEPT !.fly[n] = @ \ {l}, !.retry = @ \cup {n}] = p
  OBVIOUS
<1>. HIDE DEF p
<1>5. Handled(o, HandleInFlightMpdu(p, n, l, TRUE), l)
  BY <1>1, <1>3, HandleInFlightHandled, HandledTrans
<1>6. Handled(o, o, l)
  BY SameHandled
<1>. QED  BY <1>3, <1>4, <1>5, <1>6, Zenon DEF NotifyMissedAck

LEMMA NotifyGotBlockAckHandled ==
  ASSUME NEW sq, NEW ar \in 0 .. NumMpdus, NEW o \in Originators(sq, ar), NEW l, NEW blockAck
  PROVE  Handled(o, NotifyGotBlockAck(o, l, blockAck), l)
<1>. DEFINE A == After(sq, ar, o, l) N == Known(sq, ar)
            got == {n \in Mpdus : IsPacketReceived(blockAck, o.seq[n])}
            acked == Only(o.list, got)
            p == FoldLeft(NotifyAcked, o, acked)
            e == Erase(p, ToSet(acked))
            q == Dequeue(e, ToSet(acked))
<1>1. acked \in Seq(N)
  <2>. HIDE DEF got, N
  <2>1. o.list \in Seq(N)
    BY OrigFields DEF N
  <2>2. acked \in Seq(N \cap got)
    BY <2>1, OnlyIsOfSet, Zenon
  <2>. HIDE DEF acked
  <2>. QED  BY <2>2, SeqOfSuperset, N \cap got \subseteq N
<1>2. \A r \in A, n \in N : NotifyAcked(r, n) \in A
  BY NotifyAckedOfKeeps, NotifyAckedHandled, AfterMore DEF After
<1>3. p \in A
  <2>1. o \in A
    BY AfterItself
  <2>. HIDE DEF A, N, acked
  <2>. QED  BY <1>1, <1>2, <2>1, NotifyAckedFold, Zenon
<1>. HIDE DEF p, acked
<1>4. p \in Originators(sq, ar) /\ Handled(o, p, l)
  BY <1>3 DEF After
<1>5. e \in Originators(sq, ar) /\ Handled(p, e, l)
  BY <1>4, EraseKeeps, EraseHandled
<1>. HIDE DEF e
<1>6. q \in Originators(sq, ar) /\ Handled(e, q, l)
  BY <1>5, DequeueKeeps, DequeueHandled
<1>7. NotifyGotBlockAck(o, l, blockAck) = HandleAll(q, l, {n \in Mpdus : q.fly[n] = {l}})
  BY DEF NotifyGotBlockAck, q, e, p, acked
<1>. HIDE DEF q
<1>8. Handled(q, NotifyGotBlockAck(o, l, blockAck), l)
  BY <1>6, <1>7, HandleAllHandled
<1>. QED  BY <1>4, <1>5, <1>6, <1>8, HandledTrans

LEMMA DropHandled ==
  ASSUME NEW sq, NEW ar \in 0 .. NumMpdus, NEW o \in Originators(sq, ar),
         NEW psdu \in Seq(Known(sq, ar)), NEW l
  PROVE  Handled(o, DropMpduIfRetryLimitReached(o, psdu), l)
<1>0. Handled(o, o, l)
  BY SameHandled
<1>. SUFFICES ASSUME RetryLimit # 0
              PROVE  Handled(o, DropMpduIfRetryLimitReached(o, psdu), l)
  BY <1>0 DEF DropMpduIfRetryLimitReached
<1>. DEFINE A == After(sq, ar, o, l) N == Known(sq, ar)
            tries == [n \in Mpdus |-> IF n \in ToSet(psdu) THEN o.tries[n] + 1 ELSE o.tries[n]]
            p == [o EXCEPT !.tries = tries]
            last == {n \in Mpdus : p.tries[n] = RetryLimit}
            drop == Only(psdu, last)
<1>1. tries \in [Mpdus -> Nat]
  <2>1. o.tries \in [Mpdus -> Nat]
    BY OrigFields
  <2>. QED  BY <2>1
<1>2. p \in A
  <2>. HIDE DEF tries
  <2>1. p \in Originators(sq, ar)
    BY <1>1, SetFields
  <2>2. Handled(o, p, l)
    BY SameHandled DEF Originators
  <2>. QED  BY <2>1, <2>2 DEF After
<1>3. drop \in Seq(N)
  <2>. HIDE DEF last, N
  <2>1. drop \in Seq(N \cap last)
    BY OnlyIsOfSet, psdu \in Seq(N), Zenon DEF N
  <2>. HIDE DEF drop
  <2>. QED  BY <2>1, SeqOfSuperset, N \cap last \subseteq N
<1>4. DropMpduIfRetryLimitReached(o, psdu) = FoldLeft(DiscardMpdu, p, drop)
  BY DEF DropMpduIfRetryLimitReached
<1>5. \A r \in A, n \in N : DiscardMpdu(r, n) \in A
  <2>. SUFFICES ASSUME NEW r \in A, NEW n \in N PROVE DiscardMpdu(r, n) \in A
    OBVIOUS
  <2>1. r \in Originators(sq, ar) /\ n \in Mpdus
    BY OrigFields DEF After
  <2>2. DiscardMpdu(r, n) \in Originators(sq, ar) /\ Handled(r, DiscardMpdu(r, n), l)
    BY <2>1, DiscardKeeps, DiscardHandled
  <2>. QED  BY <2>2, AfterMore
<1>6. FoldLeft(DiscardMpdu, p, drop) \in A
  <2>. HIDE DEF A, N, p, drop
  <2>. QED  BY <1>2, <1>3, <1>5, DiscardFold, Zenon
<1>. HIDE DEF p, drop
<1>. QED  BY <1>4, <1>6 DEF After

LEMMA GotAddBaResponseHandled ==
  ASSUME NEW sq, NEW ar \in 0 .. NumMpdus, NEW o \in Originators(sq, ar), NEW l
  PROVE  Handled(o, GotAddBaResponse(o), l)
<1>1. PICK p : p = WipeAllExpiredMpdus(o)
  OBVIOUS
<1>2. p \in Originators(sq, ar) /\ Handled(o, p, l)
  BY <1>1, WipeKeeps, WipeHandled
<1>3. PICK v, w : GotAddBaResponse(o) = [p EXCEPT !.win = v, !.repeats = w]
  BY <1>1 DEF GotAddBaResponse
<1>4. Handled(p, GotAddBaResponse(o), l)
  BY <1>2, <1>3, SameHandled DEF Originators
<1>. QED  BY <1>2, <1>4, HandledTrans

LEMMA TransmitHandled ==
  ASSUME NEW sq, NEW ar \in 0 .. NumMpdus, NEW o \in Originators(sq, ar), NEW l,
         NEW kind, NEW psdu \in Seq(Known(sq, ar)), NEW k
  PROVE  Handled(o, Transmit(o, l, kind, psdu), k)
<1>. DEFINE A == After(sq, ar, o, k) N == Known(sq, ar)
<1>1. \A r \in A, n \in N : DoStorePacket(r, n) \in A
  BY DoStoreKeeps, DoStoreHandled, AfterMore DEF After
<1>2. o \in A /\ psdu \in Seq(N)
  BY AfterItself
<1>3. PICK p : p = FoldLeft(DoStorePacket, o, psdu)
  OBVIOUS
<1>4. p \in A
  <2>. HIDE DEF A, N
  <2>. QED  BY <1>1, <1>2, <1>3, DoStoreFold, Zenon
<1>5. p \in Originators(sq, ar) /\ Handled(o, p, k)
  BY <1>4 DEF After
<1>6. Handled(p, ScheduleBar(p, BarQueue(l)), k)
  BY <1>5, ScheduleBarHandled
<1>. QED  BY <1>3, <1>5, <1>6, HandledTrans DEF Transmit

\* Block ack requests and their queues.
LEMMA BarsHandled ==
  ASSUME NEW sq, NEW ar, NEW o \in Originators(sq, ar), NEW v, NEW w, NEW l
  PROVE  /\ Handled(o, [o EXCEPT !.bars = v], l)
         /\ Handled(o, [o EXCEPT !.bars = v, !.barIfData = w], l)
         /\ Handled(o, [o EXCEPT !.barIfData = w], l)
<1>1. Handled(o, [o EXCEPT !.bars = v], l)
  BY SameHandled DEF Originators
<1>2. Handled(o, [o EXCEPT !.bars = v, !.barIfData = w], l)
  BY SameHandled DEF Originators
<1>3. Handled(o, [o EXCEPT !.barIfData = w], l)
  BY SameHandled DEF Originators
<1>. QED  BY <1>1, <1>2, <1>3

LEMMA BarHandled ==
  ASSUME NEW sq, NEW ar, NEW o \in Originators(sq, ar), NEW q, NEW v, NEW l
  PROVE  /\ Handled(o, [o EXCEPT !.bars[q] = v], l)
         /\ [o EXCEPT !.bars[q] = v] = [o EXCEPT !.bars = [o.bars EXCEPT ![q] = v]]
<1>. DEFINE bars == [o.bars EXCEPT ![q] = v]
<1>1. [o EXCEPT !.bars[q] = v] = [o EXCEPT !.bars = bars]
  OBVIOUS
<1>. HIDE DEF bars
<1>2. Handled(o, [o EXCEPT !.bars = bars], l)
  BY BarsHandled
<1>. QED  BY <1>1, <1>2 DEF bars

LEMMA KeepBarHandled ==
  ASSUME NEW sq, NEW ar, NEW o \in Originators(sq, ar), NEW l, NEW k
  PROVE  Handled(o, KeepBar(o, l), k)
<1>. DEFINE q == BarQueue(l) b == o.bars[q] v == [i \in DOMAIN b |-> "QUEUED"]
<1>1. KeepBar(o, l) = [o EXCEPT !.bars[q] = v]
  BY DEF KeepBar
<1>. HIDE DEF q, v
<1>2. Handled(o, [o EXCEPT !.bars[q] = v], k)
  BY BarHandled
<1>. QED  BY <1>1, <1>2

LEMMA DequeueBarHandled ==
  ASSUME NEW sq, NEW ar, NEW o \in Originators(sq, ar), NEW l, NEW k
  PROVE  Handled(o, DequeueBar(o, l), k)
<1>. DEFINE q == BarQueue(l) b == o.bars[q] v == Only(b, {"QUEUED"})
<1>1. DequeueBar(o, l) = [o EXCEPT !.bars[q] = v]
  BY DEF DequeueBar
<1>. HIDE DEF q, v
<1>2. Handled(o, [o EXCEPT !.bars[q] = v], k)
  BY BarHandled
<1>. QED  BY <1>1, <1>2

LEMMA GetBarHandled ==
  ASSUME NEW sq, NEW ar, NEW o \in Originators(sq, ar), NEW l, NEW p \in GetBar(o, l), NEW k
  PROVE  Handled(o, p, k)
<1>. DEFINE q == BarQueue(l)
            sent == [o.bars[q] EXCEPT ![1] = "SENT"]
            o1 == [o EXCEPT !.bars[q] = sent]
            p1 == IF IsMld THEN [o1 EXCEPT !.bars[AnyLink] = <<>>] ELSE o1
            o2 == [o EXCEPT !.bars[AnyLink] = Tail(o.bars[AnyLink])]
            p2 == [o2 EXCEPT !.bars[q] = Append(o2.bars[q], "SENT")]
            o3 == [o EXCEPT !.bars[q] = <<"SENT">>]
            p3 == [o3 EXCEPT !.barIfData = FALSE]
<1>1. \A w, c : \A x, y : Handled(o, [[o EXCEPT !.bars[w] = x] EXCEPT !.bars[c] = y], k)
  <2>. SUFFICES ASSUME NEW w, NEW c, NEW x, NEW y
                PROVE  Handled(o, [[o EXCEPT !.bars[w] = x] EXCEPT !.bars[c] = y], k)
    OBVIOUS
  <2>1. PICK v : [o EXCEPT !.bars[w] = x] = [o EXCEPT !.bars = v]
    BY BarHandled
  <2>. DEFINE s == [o EXCEPT !.bars = v] bars == [s.bars EXCEPT ![c] = y]
  <2>2. [[o EXCEPT !.bars[w] = x] EXCEPT !.bars[c] = y] = [s EXCEPT !.bars = bars]
    BY <2>1
  <2>. HIDE DEF bars
  <2>3. Handled(o, [s EXCEPT !.bars = bars], k)
    BY SameHandled DEF Originators
  <2>. QED  BY <2>2, <2>3
<1>2. Handled(o, p1, k)
  <2>. HIDE DEF sent, q
  <2>. QED  BY <1>1, BarHandled
<1>3. Handled(o, p2, k)
  <2>. HIDE DEF q
  <2>. QED  BY <1>1
<1>4. Handled(o, p3, k)
  <2>. HIDE DEF q
  <2>1. PICK v : o3 = [o EXCEPT !.bars = v]
    BY BarHandled
  <2>2. p3 = [o EXCEPT !.bars = v, !.barIfData = FALSE]
    BY <2>1
  <2>. QED  BY <2>2, BarsHandled
<1>5. p = p1 \/ p = p2 \/ p = p3
  <2>. DEFINE available == {c \in {q, AnyLink} : o.bars[c] # <<>>}
              pick(c) == IF c = q THEN p1 ELSE p2
  <2>1. GetBar(o, l) = IF available # {} THEN {pick(c) : c \in available}
                       ELSE IF o.barIfData /\ o.queued # {} THEN {p3} ELSE {}
    <3>. HIDE DEF q
    <3>1. q = BarQueue(l)
      BY DEF q
    <3>. QED  BY <3>1 DEF GetBar
  <2>. HIDE DEF p1, p2, p3, q
  <2>. QED  BY <2>1
<1>. HIDE DEF p1, p2, p3
<1>. QED  BY <1>2, <1>3, <1>4, <1>5

LEMMA MissedBlockAckHandled ==
  ASSUME NEW sq, NEW ar \in 0 .. NumMpdus, NEW o \in Originators(sq, ar), NEW l \in Links,
         NEW isBar \in BOOLEAN
  PROVE  Handled(o, MissedBlockAck(o, l, isBar), l)
<1>. DEFINE bar == NeedBarRetransmission(o, l)
            b   == IF isBar THEN KeepBar(bar.o, l) ELSE ScheduleBar(bar.o, BarQueue(l))
            c   == IF isBar THEN DequeueBar(bar.o, l) ELSE bar.o
            d   == [c EXCEPT !.barIfData = TRUE]
<1>1. bar.o \in Originators(sq, ar) /\ Handled(o, bar.o, l)
  BY NeedBarKeeps, NeedBarHandled
<1>2. Handled(o, b, l)
  <2>. HIDE DEF bar
  <2>1. Handled(bar.o, b, l)
    BY <1>1, KeepBarHandled, ScheduleBarHandled
  <2>. QED  BY <1>1, <2>1, HandledTrans
<1>3. c \in Originators(sq, ar) /\ Handled(o, c, l)
  <2>. HIDE DEF bar
  <2>1. DequeueBar(bar.o, l) \in Originators(sq, ar) /\ Handled(bar.o, DequeueBar(bar.o, l), l)
    BY <1>1, DequeueBarKeeps, DequeueBarHandled
  <2>. QED  BY <1>1, <2>1, HandledTrans
<1>4. Handled(o, d, l)
  <2>. HIDE DEF c
  <2>1. Handled(c, d, l)
    BY <1>3, BarsHandled
  <2>. QED  BY <1>3, <2>1, HandledTrans
<1>5. Handled(o, NotifyMissedBlockAck(o, l), l)
  BY HandleAllHandled DEF NotifyMissedBlockAck
<1>6. MissedBlockAck(o, l, isBar) =
        IF ExplicitBar \/ isBar THEN IF bar.need THEN b ELSE d ELSE NotifyMissedBlockAck(o, l)
  BY DEF MissedBlockAck
<1>. HIDE DEF bar, b, c, d
<1>. QED  BY <1>2, <1>4, <1>5, <1>6

----------------------------------------------------------------------------
(***************************************************************************)
(* Sequence numbers follow the order of the EDCA queue.  An MPDU that was  *)
(* sent (live: the recipient has it, passed it up or may still get it)     *)
(* never gives its number back: it is in flight or has the Retry bit.  The *)
(* MPDUs an RTS was sent for are in flight on its link only, so that a CTS *)
(* timeout finds which of them were sent before.                           *)
(***************************************************************************)
NumbersInOrder(o) ==
  /\ \A n, m \in o.numbered : n < m => Pos(o.seq[n]) < Pos(o.seq[m])
  /\ \A n \in o.numbered : Pos(o.seq[n]) < Pos(o.next)
  /\ \A n \in o.numbered, m \in o.queued \ o.numbered : n < m
  /\ \A n \in o.queued : o.fly[n] # {} => n \in o.numbered

\* What was sent keeps its number, and is in flight or to be retransmitted.
LiveKept(o, live) ==
  /\ live \subseteq o.numbered
  /\ \A n \in o.queued \cap live : o.fly[n] = {} => n \in o.retry

\* The MPDUs of the PSDU that the RTS of exchange e on link l protects.
Reserved(o, e, l, live) ==
  e.phase = "RTS" =>
    /\ UseRts
    /\ \A n \in ToSet(e.psdu) : /\ n \in o.numbered
                                /\ n \in o.queued => o.fly[n] = {l}
                                /\ n \in live => n \in o.retry

\* No MPDU is protected by the RTS of two links.
Apart(E) ==
  \A k, l \in Links : k # l /\ E[k].phase = "RTS" /\ E[l].phase = "RTS" =>
    ToSet(E[k].psdu) \cap ToSet(E[l].psdu) = {}

Numbered(o, E, live) ==
  /\ NumbersInOrder(o) /\ LiveKept(o, live)
  /\ \A l \in Links : Reserved(o, E[l], l, live)
  /\ Apart(E)

\* The handlers keep this.
LEMMA HandledNumbered ==
  ASSUME NEW o, NEW E, NEW live, Numbered(o, E, live), NEW p, NEW l, Handled(o, p, l),
         NEW F, \A k \in Links : F[k] = E[k] \/ F[k].phase # "RTS",
         l \in Links => F[l].phase # "RTS",
         NEW less \in SUBSET live
  PROVE  Numbered(p, F, less)
<1>1. NumbersInOrder(p)
  <2>1. \A n \in p.queued : p.fly[n] # {} => n \in p.numbered
    BY DEF Numbered, NumbersInOrder, Handled
  <2>2. \A n \in p.numbered, m \in p.queued \ p.numbered : n < m
    BY DEF Numbered, NumbersInOrder, Handled
  <2>3. \A n \in p.numbered : Pos(p.seq[n]) < Pos(p.next)
    BY DEF Numbered, NumbersInOrder, Handled
  <2>4. \A n, m \in p.numbered : n < m => Pos(p.seq[n]) < Pos(p.seq[m])
    BY DEF Numbered, NumbersInOrder, Handled
  <2>. QED  BY <2>1, <2>2, <2>3, <2>4 DEF NumbersInOrder
<1>2. LiveKept(p, less)
  <2>1. ASSUME NEW n \in p.queued \cap less, p.fly[n] = {} PROVE n \in p.retry
    <3>1. n \in o.queued \cap live
      BY DEF Handled
    <3>2. CASE p.fly[n] = o.fly[n]
      <4>1. n \in o.retry
        BY <2>1, <3>1, <3>2 DEF Numbered, LiveKept
      <4>. QED  BY <4>1 DEF Handled
    <3>. QED  BY <3>2 DEF Handled
  <2>. QED  BY <2>1 DEF Numbered, LiveKept, Handled
<1>3. ASSUME NEW k \in Links PROVE Reserved(p, F[k], k, less)
  <2>. SUFFICES ASSUME F[k].phase = "RTS" PROVE Reserved(p, F[k], k, less)
    BY DEF Reserved
  <2>1. F[k] = E[k] /\ k # l
    OBVIOUS
  <2>2. Reserved(o, E[k], k, live) /\ E[k].phase = "RTS"
    BY <2>1 DEF Numbered
  <2>3. ASSUME NEW n \in ToSet(E[k].psdu)
        PROVE  /\ n \in p.numbered
               /\ n \in p.queued => p.fly[n] = {k}
               /\ n \in less => n \in p.retry
    <3>1. n \in o.numbered /\ (n \in o.queued => o.fly[n] = {k}) /\ (n \in live => n \in o.retry)
      BY <2>2 DEF Reserved
    <3>2. n \in p.queued => n \in o.queued /\ (p.fly[n] = o.fly[n] \/ p.fly[n] = o.fly[n] \ {l})
      BY DEF Handled
    <3>. QED  BY <2>1, <3>1, <3>2 DEF Handled
  <2>. QED  BY <2>1, <2>2, <2>3 DEF Reserved
<1>4. Apart(F)
  BY DEF Numbered, Apart
<1>. QED  BY <1>1, <1>2, <1>3, <1>4 DEF Numbered

\* The MPDUs that have a sequence number.
LEMMA PosOfNumbered ==
  ASSUME NEW sq, NEW ar \in 0 .. NumMpdus, NEW o \in Originators(sq, ar)
  PROVE  \A n \in o.numbered : /\ n \in Nat /\ n \in Mpdus /\ o.seq[n] \in SentSeqs
                               /\ o.seq[n] \in StartSeqs /\ Pos(o.seq[n]) \in Nat
<1>1. /\ o.numbered \subseteq Known(sq, ar) /\ Known(sq, ar) \subseteq 1 .. ar /\ 1 .. ar \subseteq Mpdus
      /\ o.seq = sq /\ \A n \in Known(sq, ar) : sq[n] \in SentSeqs
  BY OrigFields
<1>2. \A n \in Mpdus : n \in Nat
  BY DEF Mpdus
<1>. QED  BY <1>1, <1>2, SentIsStart

\* The MPDU with the last number assigned, if it was never sent, gives it back:
\* what is kept while the numbers of a PSDU are released, from its last MPDU on.
Releasing(o, E, live, psdu) ==
  /\ Numbered(o, E, live)
  /\ \A n \in ToSet(psdu) : /\ n \in o.numbered \/ Pos(o.next) <= Pos(o.seq[n])
                            /\ n \in live => n \in o.retry
                            /\ \A k \in Links : E[k].phase = "RTS" => n \notin ToSet(E[k].psdu)

LEMMA ReleaseNumbered ==
  ASSUME NEW sq, NEW ar \in 0 .. NumMpdus, NEW o \in Originators(sq, ar),
         NEW psdu, NEW E, NEW live, Releasing(o, E, live, psdu),
         ToSet(psdu) \subseteq Known(sq, ar), NEW n \in ToSet(psdu)
  PROVE  Releasing(ReleaseSequenceNumber(o, n), E, live, psdu)
<1>. SUFFICES ASSUME n \notin o.retry, o.fly[n] = {}, (o.seq[n] + 1) % SeqSpace = o.next
              PROVE  Releasing([o EXCEPT !.next = o.seq[n], !.numbered = o.numbered \ {n}], E, live, psdu)
  BY DEF ReleaseSequenceNumber
<1>. DEFINE next == o.seq[n] numbered == o.numbered \ {n}
            q == [o EXCEPT !.next = next, !.numbered = numbered]
<1>1. /\ q.seq = o.seq /\ q.next = o.seq[n] /\ q.numbered = o.numbered \ {n} /\ q.queued = o.queued
      /\ q.fly = o.fly /\ q.retry = o.retry
  BY DEF Originators
<1>2. /\ o.seq[n] \in StartSeqs /\ o.seq[n] \in Seqs /\ Pos(o.seq[n]) \in Nat
      /\ Pos(o.seq[n]) < NumMpdus /\ n \in Nat
  <2>1. o.seq[n] \in SentSeqs /\ n \in 1 .. ar
    BY OrigFields
  <2>. QED  BY <2>1, SentIsStart
<1>3. Pos(o.next) = Pos(o.seq[n]) + 1
  BY <1>2, PosPlus, Sizes
<1>4. \A m \in o.numbered : m \in Nat /\ Pos(o.seq[m]) \in Nat
  BY PosOfNumbered
<1>5. /\ \A m, k \in o.numbered : m < k => Pos(o.seq[m]) < Pos(o.seq[k])
      /\ \A m \in o.numbered : Pos(o.seq[m]) < Pos(o.next)
      /\ \A m \in o.numbered, k \in o.queued \ o.numbered : m < k
      /\ \A m \in o.queued : o.fly[m] # {} => m \in o.numbered
  BY DEF Releasing, Numbered, NumbersInOrder
<1>6. n \in o.numbered /\ n \notin live
  BY <1>2, <1>3 DEF Releasing
<1>. HIDE DEF q, Pos
<1>7. ASSUME NEW m \in o.numbered \ {n} PROVE m < n /\ Pos(o.seq[m]) < Pos(o.seq[n])
  <2>1. Pos(o.seq[m]) <= Pos(o.seq[n])
    BY <1>2, <1>3, <1>4, <1>5
  <2>2. ~(n < m)
    BY <1>2, <1>4, <1>5, <1>6, <2>1
  <2>3. m < n
    BY <1>2, <1>4, <2>2
  <2>. QED  BY <1>5, <1>6, <2>3
<1>8. NumbersInOrder(q)
  <2>1. ASSUME NEW m \in o.numbered \ {n}, NEW k \in q.queued \ q.numbered PROVE m < k
    BY <1>1, <1>5, <1>7
  <2>2. \A m \in q.queued : q.fly[m] # {} => m \in q.numbered
    BY <1>1, <1>5
  <2>. QED  BY <1>1, <1>5, <1>7, <2>1, <2>2 DEF NumbersInOrder
<1>9. LiveKept(q, live)
  BY <1>1, <1>6 DEF Releasing, Numbered, LiveKept
<1>10. ASSUME NEW l \in Links PROVE Reserved(q, E[l], l, live)
  BY <1>1 DEF Releasing, Numbered, Reserved
<1>11. \A m \in ToSet(psdu) : m \in q.numbered \/ Pos(q.next) <= Pos(q.seq[m])
  <2>. SUFFICES ASSUME NEW m \in ToSet(psdu), m # n, m \notin o.numbered
                PROVE  Pos(q.next) <= Pos(q.seq[m])
    BY <1>1, <1>2
  <2>1. Pos(o.next) <= Pos(o.seq[m])
    BY DEF Releasing
  <2>2. Pos(o.seq[m]) \in Nat
    BY OrigFields, SentIsStart
  <2>. QED  BY <1>1, <1>2, <1>3, <2>1, <2>2
<1>12. Releasing(q, E, live, psdu)
  BY <1>1, <1>8, <1>9, <1>10, <1>11 DEF Releasing, Numbered
<1>. QED  BY <1>12 DEF q

LEMMA ReleaseAllNumbered ==
  ASSUME NEW sq, NEW ar \in 0 .. NumMpdus, NEW o \in Originators(sq, ar),
         NEW psdu \in Seq(Known(sq, ar)), NEW E, NEW live, Releasing(o, E, live, psdu)
  PROVE  Numbered(ReleaseSequenceNumbers(o, psdu), E, live)
<1>. DEFINE N == ToSet(psdu) X == {q \in Originators(sq, ar) : Releasing(q, E, live, psdu)}
<1>1. Reverse(psdu) \in Seq(N) /\ N \subseteq Known(sq, ar)
  <2>1. Len(psdu) \in Nat /\ DOMAIN psdu = 1 .. Len(psdu) /\ psdu \in [1 .. Len(psdu) -> N]
    BY DEF ToSet
  <2>2. \A i \in 1 .. Len(psdu) : Len(psdu) - i + 1 \in 1 .. Len(psdu)
    BY <2>1
  <2>3. N \subseteq Known(sq, ar)
    BY <2>1 DEF ToSet
  <2>. HIDE DEF N
  <2>. QED  BY <2>1, <2>2, <2>3 DEF Reverse
<1>2. \A q \in X, n \in N : ReleaseSequenceNumber(q, n) \in X
  BY <1>1, ReleaseKeeps, ReleaseNumbered
<1>3. o \in X
  OBVIOUS
<1>. HIDE DEF X, N
<1>4. FoldLeft(ReleaseSequenceNumber, o, Reverse(psdu)) \in X
  BY <1>1, <1>2, <1>3, ReleaseFold, Zenon
<1>. QED  BY <1>4 DEF ReleaseSequenceNumbers, X, Releasing

\* An MPDU is enqueued after those that are in the queue.
LEMMA EnqueueNumbered ==
  ASSUME IInv, NEW live, Numbered(orig, exch, live), Enqueue
  PROVE  Numbered(orig', exch', live)
<1>1. PICK o : o = WipeAllExpiredMpdus(orig)
  OBVIOUS
<1>2. PICK m : m = orig.arrived + 1
  OBVIOUS
<1>3. /\ orig \in O /\ o \in O /\ Handled(orig, o, AnyLink) /\ orig.arrived \in Nat
      /\ orig.arrived \in 0 .. NumMpdus
  BY <1>1, IInvFields, WipeKeeps, WipeHandled DEF O
<1>4. Numbered(o, exch, live)
  BY <1>3, HandledNumbered, OriginatorAssumption
<1>5. o.arrived = orig.arrived
  BY <1>3, OrigFields DEF O
<1>6. /\ orig' = [o EXCEPT !.arrived = m, !.queued = o.queued \cup {m}] /\ exch' = exch
  BY <1>1, <1>2, <1>5 DEF Enqueue
<1>7. /\ orig'.seq = o.seq /\ orig'.numbered = o.numbered /\ orig'.next = o.next
      /\ orig'.queued = o.queued \cup {m} /\ orig'.retry = o.retry /\ orig'.fly = o.fly
  BY <1>3, <1>6 DEF O, Originators
<1>8. o.numbered \subseteq 1 .. orig.arrived /\ m \in Mpdus /\ o.fly[m] = {}
  <2>1. /\ o.numbered \subseteq Known(orig.seq, orig.arrived)
        /\ Known(orig.seq, orig.arrived) \subseteq 1 .. orig.arrived
        /\ \A n \in Mpdus : o.fly[n] # {} => n \in Known(orig.seq, orig.arrived)
    BY <1>3, OrigFields DEF O
  <2>2. m \in Mpdus /\ m \notin 1 .. orig.arrived
    BY <1>2, <1>3, Sizes DEF Mpdus, Enqueue
  <2>. QED  BY <2>1, <2>2
<1>9. \A n \in o.numbered : n < m
  BY <1>2, <1>3, <1>8
<1>10. NumbersInOrder(orig')
  BY <1>4, <1>7, <1>8, <1>9 DEF Numbered, NumbersInOrder
<1>11. LiveKept(orig', live)
  <2>1. m \notin live
    BY <1>2, <1>3, <1>4, <1>8 DEF Numbered, LiveKept
  <2>. QED  BY <1>4, <1>7, <2>1 DEF Numbered, LiveKept
<1>12. ASSUME NEW l \in Links PROVE Reserved(orig', exch[l], l, live)
  <2>1. Reserved(o, exch[l], l, live)
    BY <1>4 DEF Numbered
  <2>2. m \notin o.numbered
    BY <1>2, <1>3, <1>8
  <2>. QED  BY <1>7, <2>1, <2>2 DEF Reserved
<1>. QED  BY <1>4, <1>6, <1>10, <1>11, <1>12 DEF Numbered

\* The MPDUs are sent: they become live, and are in flight.
LEMMA GotCtsNumbered ==
  ASSUME IInv, NEW live, Numbered(orig, exch, live), NEW l \in Links, GotCts(l)
  PROVE  Numbered(orig', exch', live \cup ToSet(exch[l].psdu))
<1>. DEFINE new == ToSet(exch[l].psdu)
<1>1. /\ exch[l].phase = "RTS" /\ exch' = [exch EXCEPT ![l] = OnAir(exch[l].kind, exch[l].psdu)]
      /\ orig' = Transmit(orig, l, exch[l].kind, exch[l].psdu) /\ exch \in [Links -> Exchanges(K)]
  BY IInvFields DEF GotCts
<1>2. Handled(orig, orig', AnyLink)
  <2>1. exch[l].psdu \in Seq(K)
    BY ExchangeOf, ExchangeFields
  <2>. QED  BY <1>1, <2>1, IInvFields, TransmitHandled DEF O, K
<1>3. \A n \in new : /\ n \in orig.numbered
                     /\ n \in orig.queued => orig.fly[n] = {l}
  BY <1>1 DEF Numbered, Reserved
<1>4. Numbered(orig', exch', live)
  <2>1. exch'[l].phase # "RTS" /\ \A k \in Links : k # l => exch'[k] = exch[k]
    BY <1>1 DEF OnAir, Idle
  <2>. QED  BY <1>2, <2>1, HandledNumbered, OriginatorAssumption
<1>5. LiveKept(orig', live \cup new)
  <2>1. ASSUME NEW n \in orig'.queued, n \in new PROVE orig'.fly[n] # {}
    <3>1. n \in orig.queued /\ (orig'.fly[n] = orig.fly[n] \/ orig'.fly[n] = orig.fly[n] \ {AnyLink})
      BY <1>2 DEF Handled
    <3>2. orig.fly[n] = {l} /\ l # AnyLink
      BY <1>3, <2>1, <3>1, OriginatorAssumption
    <3>. QED  BY <3>1, <3>2
  <2>2. new \subseteq orig'.numbered
    BY <1>2, <1>3 DEF Handled
  <2>. HIDE DEF new
  <2>. QED  BY <1>4, <2>1, <2>2 DEF Numbered, LiveKept
<1>6. ASSUME NEW k \in Links PROVE Reserved(orig', exch'[k], k, live \cup new)
  <2>1. CASE k = l
    BY <1>1, <2>1 DEF Reserved, OnAir, Idle
  <2>2. CASE k # l
    <3>1. exch'[k] = exch[k]
      BY <1>1, <2>2
    <3>2. exch[k].phase = "RTS" => \A n \in ToSet(exch[k].psdu) : n \notin new
      BY <1>1, <2>2 DEF Numbered, Apart
    <3>3. Reserved(orig', exch'[k], k, live)
      BY <1>4 DEF Numbered
    <3>. HIDE DEF new
    <3>. QED  BY <3>1, <3>2, <3>3 DEF Reserved
  <2>. QED  BY <2>1, <2>2
<1>. QED  BY <1>4, <1>5, <1>6 DEF Numbered

\* After a CTS timeout the MPDUs are no longer in flight; those that were
\* never sent give their number back.
LEMMA CtsTimeoutNumbered ==
  ASSUME IInv, NEW live, Numbered(orig, exch, live), NEW l \in Links, CtsTimeout(l)
  PROVE  Numbered(orig', exch', live)
<1>1. PICK psdu \in Seq(K) : psdu = exch[l].psdu
  BY ExchangeOf, ExchangeFields
<1>. DEFINE fly == [n \in Mpdus |-> IF n \in ToSet(psdu) THEN orig.fly[n] \ {l} ELSE orig.fly[n]]
            o == [orig EXCEPT !.fly = fly]
<1>2. /\ orig.fly \in [Mpdus -> SUBSET Links] /\ orig.queued \subseteq Mpdus /\ orig \in O
      /\ orig.arrived \in 0 .. NumMpdus /\ exch \in [Links -> Exchanges(K)]
  BY IInvFields, OrigFields DEF O
<1>3. fly \in [Mpdus -> SUBSET Links] /\ \A n \in Mpdus : fly[n] \subseteq orig.fly[n]
  BY <1>2
<1>4. /\ orig' = ReleaseSequenceNumbers(DropMpduIfRetryLimitReached(o, psdu), psdu)
      /\ exch' = [exch EXCEPT ![l] = Idle] /\ exch[l].phase = "RTS"
  BY <1>1 DEF CtsTimeout
<1>5. \A n \in orig.queued : fly[n] = IF n \in ToSet(psdu) THEN {} ELSE orig.fly[n]
  <2>1. \A n \in ToSet(psdu) : n \in orig.queued => orig.fly[n] = {l}
    BY <1>1, <1>4 DEF Numbered, Reserved
  <2>. QED  BY <1>2, <2>1
<1>. HIDE DEF fly
<1>6. o \in O
  BY <1>3, IInvFields, LessFlyKeeps DEF O
<1>7. /\ o.seq = orig.seq /\ o.numbered = orig.numbered /\ o.next = orig.next
      /\ o.queued = orig.queued /\ o.retry = orig.retry /\ o.fly = fly
  BY <1>2 DEF O, Originators
<1>. HIDE DEF o
<1>8. exch'[l] = Idle /\ \A k \in Links : k # l => exch'[k] = exch[k]
  BY <1>2, <1>4
<1>9. \A n \in ToSet(psdu) : /\ n \in orig.numbered /\ (n \in live => n \in orig.retry)
                             /\ \A k \in Links : exch'[k].phase = "RTS" => n \notin ToSet(exch'[k].psdu)
  <2>1. \A n \in ToSet(psdu) : n \in orig.numbered /\ (n \in live => n \in orig.retry)
    BY <1>1, <1>4 DEF Numbered, Reserved
  <2>2. \A k \in Links : exch'[k].phase = "RTS" => ToSet(exch'[k].psdu) \cap ToSet(psdu) = {}
    BY <1>1, <1>4, <1>8 DEF Numbered, Apart, Idle
  <2>. QED  BY <2>1, <2>2
<1>10. Numbered(o, exch', live)
  <2>1. NumbersInOrder(o)
    BY <1>5, <1>7 DEF Numbered, NumbersInOrder
  <2>2. LiveKept(o, live)
    BY <1>5, <1>7, <1>9 DEF Numbered, LiveKept
  <2>3. ASSUME NEW k \in Links PROVE Reserved(o, exch'[k], k, live)
    <3>. SUFFICES ASSUME exch'[k].phase = "RTS" PROVE Reserved(o, exch'[k], k, live)
      BY DEF Reserved
    <3>1. k # l /\ exch'[k] = exch[k]
      BY <1>8 DEF Idle
    <3>2. Reserved(orig, exch[k], k, live)
      BY DEF Numbered
    <3>3. \A n \in ToSet(exch[k].psdu) : n \notin ToSet(psdu)
      BY <1>9, <3>1
    <3>. QED  BY <1>5, <1>7, <3>1, <3>2, <3>3 DEF Reserved
  <2>4. Apart(exch')
    <3>1. \A k \in Links : exch'[k].phase = "RTS" => exch'[k] = exch[k]
      BY <1>8 DEF Idle
    <3>2. Apart(exch)
      BY DEF Numbered
    <3>. QED  BY <3>1, <3>2 DEF Apart
  <2>. QED  BY <2>1, <2>2, <2>3, <2>4 DEF Numbered
<1>11. PICK p : p = DropMpduIfRetryLimitReached(o, psdu)
  OBVIOUS
<1>12. p \in O /\ Handled(o, p, AnyLink)
  BY <1>6, <1>11, IInvFields, DropKeeps, DropHandled DEF O, K
<1>13. Numbered(p, exch', live)
  BY <1>10, <1>12, HandledNumbered, OriginatorAssumption
<1>14. Releasing(p, exch', live, psdu)
  <2>1. p.numbered = orig.numbered /\ orig.retry \subseteq p.retry
    BY <1>7, <1>12 DEF Handled
  <2>. QED  BY <1>9, <1>13, <2>1 DEF Releasing
<1>. QED  BY <1>2, <1>4, <1>11, <1>12, <1>14, ReleaseAllNumbered DEF O, K

----------------------------------------------------------------------------
(***************************************************************************)
(* Selection.                                                              *)
(***************************************************************************)
\* The first elements of a sequence.
LEMMA SubSeqFirst ==
  ASSUME NEW s, NEW k \in Nat
  PROVE  SubSeq(s, 1, k) = [i \in 1 .. k |-> s[i]]
<1>1. SubSeq(s, 1, k) = [i \in 1 .. (1 + k - 1) |-> s[i + 1 - 1]]
  OBVIOUS
<1>2. (1 + k - 1) = k /\ \A i \in 1 .. k : (i + 1 - 1) = i
  OBVIOUS
<1>. QED  BY <1>1, <1>2

\* A PSDU: the first MPDUs of the queue that can be sent, in the order of the queue.
LEMMA PsduIsPrefix ==
  ASSUME NEW sq, NEW ar \in 0 .. NumMpdus, NEW o \in Originators(sq, ar), NEW l,
         NEW k \in 1 .. Len(Sendable(o, l)), NEW psdu, psdu = SubSeq(Sendable(o, l), 1, k)
  PROVE  /\ k \in Nat /\ psdu \in [1 .. k -> CanBeSent(o, l)]
         /\ \A i, j \in 1 .. k : i < j => psdu[i] < psdu[j]
         /\ \A n \in CanBeSent(o, l) : n \in ToSet(psdu) \/ \A i \in 1 .. k : psdu[i] < n
<1>1. PICK S : S = CanBeSent(o, l)
  OBVIOUS
<1>2. PICK ns : ns = Eligible(o, l)
  OBVIOUS
<1>3. S \in SUBSET Mpdus /\ ns = ByNumber(S)
  BY <1>1, <1>2, OrigFields DEF CanBeSent, Eligible
<1>4. PICK m \in Nat : m = Cardinality(S)
  BY <1>3, ByNumberIsOrdered
<1>5. /\ ns \in [1 .. m -> S] /\ \A i, j \in 1 .. m : i < j => ns[i] < ns[j]
      /\ \A n \in S : \E i \in 1 .. m : ns[i] = n
  BY <1>3, <1>4, ByNumberIsOrdered
<1>6. PICK last \in 0 .. Len(ns) : Sendable(o, l) = SubSeq(ns, 1, last)
  BY <1>2, SendableIsPrefix
<1>7. /\ ns \in Seq(S) /\ Len(ns) = m
  BY <1>4, <1>5
<1>8. Len(Sendable(o, l)) = last /\ k \in 1 .. last
  <2>1. Len(Sendable(o, l)) = last
    BY <1>4, <1>6, <1>7
  <2>. QED  BY <2>1
<1>9. psdu \in [1 .. k -> S] /\ \A i \in 1 .. k : psdu[i] = ns[i]
  <2>1. last \in Nat /\ last <= m
    BY <1>4, <1>7
  <2>2. PICK s : s = SubSeq(ns, 1, last)
    OBVIOUS
  <2>3. s \in [1 .. last -> S] /\ \A i \in 1 .. last : s[i] = ns[i]
    <3>1. s = [i \in 1 .. last |-> ns[i]]
      BY <2>1, <2>2, SubSeqFirst, Zenon
    <3>2. \A i \in 1 .. last : i \in 1 .. m
      BY <2>1
    <3>. QED  BY <1>5, <3>1, <3>2, Zenon
  <2>4. psdu = SubSeq(s, 1, k)
    BY <1>6, <2>2
  <2>5. s \in Seq(S) /\ Len(s) = last
    BY <2>1, <2>3
  <2>6. psdu \in [1 .. k -> S] /\ \A i \in 1 .. k : psdu[i] = s[i]
    <3>1. k \in Nat /\ \A i \in 1 .. k : i \in 1 .. last
      BY <1>8, <2>1
    <3>2. psdu = [i \in 1 .. k |-> s[i]]
      BY <2>4, <3>1, SubSeqFirst, Zenon
    <3>. QED  BY <2>3, <3>1, <3>2, Zenon
  <2>. QED  BY <1>8, <2>1, <2>3, <2>6
<1>10. \A i, j \in 1 .. k : i < j => psdu[i] < psdu[j]
  BY <1>4, <1>5, <1>7, <1>8, <1>9
<1>11. ASSUME NEW n \in S PROVE n \in ToSet(psdu) \/ \A i \in 1 .. k : psdu[i] < n
  <2>1. PICK i \in 1 .. m : ns[i] = n
    BY <1>5
  <2>2. CASE i <= k
    <3>1. i \in DOMAIN psdu /\ psdu[i] = n
      BY <1>4, <1>7, <1>8, <1>9, <2>1, <2>2
    <3>. QED  BY <3>1 DEF ToSet
  <2>3. CASE i > k
    BY <1>4, <1>5, <1>7, <1>8, <1>9, <2>1, <2>3
  <2>. QED  BY <1>4, <1>7, <1>8, <2>2, <2>3
<1>. QED  BY <1>1, <1>8, <1>9, <1>10, <1>11

\* What selection takes is numbered and in flight.
Taken(o, p, l, S) ==
  /\ p.numbered = o.numbered \cup S /\ p.queued = o.queued /\ p.retry = o.retry
  /\ \A n \in S : p.fly[n] = o.fly[n] \cup {l}
  /\ \A n \in Mpdus \ S : p.fly[n] = o.fly[n]
  /\ \A n \in o.numbered : p.seq[n] = o.seq[n]

\* The numbers stay in the order of the queue.
LEMMA TakeNumbers ==
  ASSUME NEW sq, NEW ar \in 0 .. NumMpdus, NEW o \in Originators(sq, ar), NEW l,
         NEW psdu \in Seq(1 .. ar), NumbersInOrder(o), ToSet(psdu) \subseteq o.queued,
         \A i, j \in DOMAIN psdu : i < j => psdu[i] < psdu[j],
         \A n \in o.queued \ o.numbered : n \in ToSet(psdu) \/ \A i \in DOMAIN psdu : psdu[i] < n,
         NEW p, p = Take(o, l, psdu)
  PROVE  NumbersInOrder(p) /\ Taken(o, p, l, ToSet(psdu))
<1>. DEFINE seqs == SeqToUse(o, psdu)
            fresh == Fresh(o, psdu)
            c(i) == Cardinality(Earlier(o, psdu, i))
            place(n) == CHOOSE i \in DOMAIN psdu : psdu[i] = n
            seq == [n \in Mpdus |-> IF n \in ToSet(psdu) THEN seqs[place(n)] ELSE o.seq[n]]
            next == (o.next + Cardinality(fresh)) % SeqSpace
            fly == [n \in Mpdus |-> IF n \in ToSet(psdu) THEN o.fly[n] \cup {l} ELSE o.fly[n]]
<1>1. /\ DOMAIN psdu = 1 .. Len(psdu) /\ Len(psdu) \in Nat /\ psdu \in [1 .. Len(psdu) -> 1 .. ar]
      /\ ToSet(psdu) = {psdu[i] : i \in DOMAIN psdu}
  BY DEF ToSet
<1>2. \A i \in DOMAIN psdu : psdu[i] \in Nat /\ psdu[i] \in Mpdus
  BY <1>1, OrigFields
<1>3. \A i, j \in DOMAIN psdu : psdu[i] = psdu[j] => i = j
  <2>. SUFFICES ASSUME NEW i \in DOMAIN psdu, NEW j \in DOMAIN psdu, i # j PROVE psdu[i] # psdu[j]
    OBVIOUS
  <2>1. i < j \/ j < i
    BY <1>1
  <2>2. psdu[i] < psdu[j] \/ psdu[j] < psdu[i]
    BY <2>1
  <2>. QED  BY <1>2, <2>2
<1>4. /\ p = [o EXCEPT !.seq = seq, !.numbered = o.numbered \cup ToSet(psdu), !.next = next, !.fly = fly]
      /\ o.numbered \subseteq Mpdus /\ o.queued \subseteq Mpdus
  BY OrigFields DEF Take, Fresh
<1>5. /\ p.seq = seq /\ p.numbered = o.numbered \cup ToSet(psdu) /\ p.next = next
      /\ p.queued = o.queued /\ p.retry = o.retry /\ p.fly = fly
  <2>. HIDE DEF seq, next, fly
  <2>. QED  BY <1>4 DEF Originators
<1>6. ASSUME NEW i \in DOMAIN psdu
      PROVE  /\ seq[psdu[i]] = IF psdu[i] \in o.numbered THEN o.seq[psdu[i]]
                               ELSE (o.next + c(i)) % SeqSpace
             /\ psdu[i] \notin o.numbered <=> i \in fresh
  <2>1. place(psdu[i]) = i
    BY <1>3
  <2>2. psdu[i] \in ToSet(psdu)
    BY <1>1
  <2>3. seq[psdu[i]] = seqs[i]
    BY <1>2, <2>1, <2>2
  <2>. QED  BY <2>3 DEF SeqToUse, Earlier, Fresh
<1>7. /\ Cardinality(fresh) \in Nat /\ Pos(o.next) \in Nat
      /\ Pos(next) = Pos(o.next) + Cardinality(fresh)
      /\ \A i \in fresh : /\ c(i) \in Nat /\ c(i) < Cardinality(fresh)
                          /\ Pos((o.next + c(i)) % SeqSpace) = Pos(o.next) + c(i)
                          /\ \A j \in fresh : i < j => c(i) < c(j)
  <2>1. IsInjective(psdu)
    BY <1>3 DEF IsInjective
  <2>. QED  BY <2>1, FreshNumbers
<1>8. PICK f \in Nat : f = Cardinality(fresh)
  BY <1>7
<1>. HIDE DEF seqs, place, seq, next, fly, Pos, c
<1>9. \A n \in o.numbered : seq[n] = o.seq[n]
  <2>. SUFFICES ASSUME NEW n \in o.numbered PROVE seq[n] = o.seq[n]
    OBVIOUS
  <2>1. CASE n \in ToSet(psdu)
    BY <1>1, <1>6, <2>1
  <2>. QED  BY <1>4, <2>1 DEF seq
\* The MPDUs that get a number.
<1>10. ASSUME NEW n \in p.numbered \ o.numbered
       PROVE  \E i \in fresh : n = psdu[i] /\ i \in DOMAIN psdu /\ Pos(seq[n]) = Pos(o.next) + c(i)
  <2>1. PICK i \in DOMAIN psdu : n = psdu[i]
    BY <1>1, <1>5
  <2>2. i \in fresh /\ seq[n] = (o.next + c(i)) % SeqSpace
    BY <1>6, <2>1
  <2>. QED  BY <1>7, <2>1, <2>2
<1>11. /\ \A n, m \in o.numbered : n < m => Pos(o.seq[n]) < Pos(o.seq[m])
       /\ \A n \in o.numbered : Pos(o.seq[n]) < Pos(o.next) /\ Pos(o.seq[n]) \in Nat /\ n \in Nat
       /\ \A n \in o.numbered, m \in o.queued \ o.numbered : n < m
       /\ \A n \in o.queued : o.fly[n] # {} => n \in o.numbered
  BY PosOfNumbered DEF NumbersInOrder
<1>12. ASSUME NEW n \in p.numbered, NEW m \in p.numbered, n < m
       PROVE  Pos(seq[n]) < Pos(seq[m])
  <2>1. CASE n \in o.numbered /\ m \in o.numbered
    BY <1>9, <1>11, <1>12, <2>1
  <2>2. CASE n \in o.numbered /\ m \notin o.numbered
    <3>1. PICK i \in fresh : Pos(seq[m]) = Pos(o.next) + c(i)
      BY <1>10, <2>2
    <3>. QED  BY <1>7, <1>9, <1>11, <2>2, <3>1
  <2>3. CASE n \notin o.numbered /\ m \in o.numbered
    <3>1. n \in ToSet(psdu) /\ n \in o.queued /\ n \in Nat
      BY <1>1, <1>2, <1>5, <2>3
    <3>2. m < n
      BY <1>11, <2>3, <3>1
    <3>. QED  BY <1>11, <1>12, <2>3, <3>1, <3>2
  <2>4. CASE n \notin o.numbered /\ m \notin o.numbered
    <3>1. PICK i \in fresh : n = psdu[i] /\ i \in DOMAIN psdu /\ Pos(seq[n]) = Pos(o.next) + c(i)
      BY <1>10, <2>4
    <3>2. PICK j \in fresh : m = psdu[j] /\ j \in DOMAIN psdu /\ Pos(seq[m]) = Pos(o.next) + c(j)
      BY <1>10, <2>4
    <3>3. i < j
      <4>1. ~(j < i) /\ i # j
        BY <1>2, <1>12, <3>1, <3>2
      <4>. QED  BY <1>1, <3>1, <3>2, <4>1
    <3>. QED  BY <1>7, <3>1, <3>2, <3>3
  <2>. QED  BY <2>1, <2>2, <2>3, <2>4
<1>13. ASSUME NEW n \in p.numbered PROVE Pos(seq[n]) < Pos(next)
  <2>1. CASE n \in o.numbered
    BY <1>7, <1>9, <1>11, <2>1
  <2>2. CASE n \notin o.numbered
    <3>1. PICK i \in fresh : Pos(seq[n]) = Pos(o.next) + c(i)
      BY <1>10, <2>2
    <3>. QED  BY <1>7, <3>1
  <2>. QED  BY <2>1, <2>2
<1>14. ASSUME NEW n \in p.numbered, NEW m \in p.queued \ p.numbered PROVE n < m
  <2>1. m \in o.queued \ o.numbered /\ m \notin ToSet(psdu)
    BY <1>5
  <2>2. CASE n \in o.numbered
    BY <1>11, <2>1, <2>2
  <2>3. CASE n \in ToSet(psdu)
    <3>1. PICK i \in DOMAIN psdu : n = psdu[i]
      BY <1>1, <2>3
    <3>2. \A j \in DOMAIN psdu : psdu[j] < m
      BY <2>1
    <3>. QED  BY <3>1, <3>2
  <2>. QED  BY <1>5, <2>2, <2>3
<1>15. /\ \A n \in ToSet(psdu) : fly[n] = o.fly[n] \cup {l}
       /\ \A n \in Mpdus \ ToSet(psdu) : fly[n] = o.fly[n]
  BY <1>1, <1>2 DEF fly
<1>16. \A n \in p.queued : p.fly[n] # {} => n \in p.numbered
  BY <1>4, <1>5, <1>11, <1>15
<1>17. NumbersInOrder(p)
  BY <1>5, <1>12, <1>13, <1>14, <1>16 DEF NumbersInOrder
<1>. QED  BY <1>5, <1>9, <1>15, <1>17 DEF Taken

----------------------------------------------------------------------------
(***************************************************************************)
(* The start of a data frame exchange.  An MPDU may be in flight on        *)
(* several links, or be protected by an RTS, not both: when it may be in   *)
(* flight on one link only, what is selected is in flight on none.         *)
(***************************************************************************)
\* What the code's default of one link per MPDU gives, or no protection at all.
OneLinkOrNoRts == MaxInflights = 1 \/ ~UseRts

LEMMA CanBeSentIsFree ==
  ASSUME MaxInflights = 1, NEW sq, NEW ar \in 0 .. NumMpdus, NEW o \in Originators(sq, ar),
         NEW l, NEW n \in CanBeSent(o, l)
  PROVE  o.fly[n] = {}
<1>. SUFFICES ASSUME o.fly[n] # {} PROVE FALSE
  OBVIOUS
<1>1. Cardinality(o.fly[n]) < 1 /\ n \in Mpdus
  BY OrigFields DEF CanBeSent
<1>2. o.fly[n] \in SUBSET Links /\ IsFiniteSet(Links)
  BY <1>1, OrigFields, OriginatorAssumption
<1>3. PICK S : S = o.fly[n]
  OBVIOUS
<1>4. IsFiniteSet(S)
  BY <1>2, <1>3, FS_Subset
<1>5. Cardinality(S) \in Nat /\ (Cardinality(S) = 0 <=> S = {})
  BY <1>4, FS_CardinalityType, FS_EmptySet
<1>. QED  BY <1>1, <1>3, <1>5

\* What is taken for a link: it is sent at once, or announced by an RTS.
LEMMA TakeNumbered ==
  ASSUME NEW sq, NEW ar \in 0 .. NumMpdus, NEW o \in Originators(sq, ar), NEW l \in Links,
         NEW S \in SUBSET CanBeSent(o, l),
         NEW E, NEW live, Numbered(o, E, live), E[l].phase # "RTS",
         NEW p, NumbersInOrder(p), Taken(o, p, l, S), OneLinkOrNoRts
  PROVE  /\ Numbered(p, E, live \cup S)
         /\ UseRts => \A n \in S : p.fly[n] = {l} /\ (n \in live => n \in p.retry)
         /\ \A k \in Links : E[k].phase = "RTS" => ToSet(E[k].psdu) \cap S = {}
<1>1. S \subseteq o.queued /\ o.queued \subseteq Mpdus
  BY OrigFields DEF CanBeSent
<1>2. /\ NumbersInOrder(o) /\ LiveKept(o, live) /\ Apart(E)
      /\ \A k \in Links : Reserved(o, E[k], k, live)
  BY DEF Numbered
<1>3. LiveKept(p, live \cup S)
  <2>1. \A n \in S : p.fly[n] # {}
    BY DEF Taken
  <2>2. \A n \in p.queued \ S : p.fly[n] = o.fly[n]
    BY <1>1 DEF Taken
  <2>. QED  BY <1>2, <2>1, <2>2 DEF LiveKept, Taken
\* With RTS the MPDUs were in flight on no link.
<1>4. UseRts => \A n \in S : o.fly[n] = {}
  BY CanBeSentIsFree DEF OneLinkOrNoRts
<1>5. ASSUME NEW k \in Links, E[k].phase = "RTS"
      PROVE  ToSet(E[k].psdu) \cap S = {} /\ Reserved(p, E[k], k, live \cup S)
  <2>1. Reserved(o, E[k], k, live) /\ UseRts
    BY <1>2, <1>5 DEF Reserved
  <2>2. \A n \in ToSet(E[k].psdu) : n \in o.queued => o.fly[n] = {k}
    BY <1>5, <2>1 DEF Reserved
  <2>3. ToSet(E[k].psdu) \cap S = {}
    BY <1>1, <1>4, <2>1, <2>2
  <2>4. \A n \in p.queued \ S : p.fly[n] = o.fly[n]
    BY <1>1 DEF Taken
  <2>. QED  BY <1>5, <2>1, <2>3, <2>4 DEF Reserved, Taken
<1>6. \A k \in Links : Reserved(p, E[k], k, live \cup S)
  BY <1>5 DEF Reserved
<1>7. UseRts => \A n \in S : p.fly[n] = {l} /\ (n \in live => n \in p.retry)
  BY <1>1, <1>2, <1>4 DEF LiveKept, Taken
<1>. QED  BY <1>2, <1>3, <1>5, <1>6, <1>7 DEF Numbered

\* Announced, it is not live.
LEMMA TakeReserved ==
  ASSUME NEW p, NEW E, NEW live, NEW l \in Links, NEW psdu, UseRts,
         Numbered(p, E, live \cup ToSet(psdu)),
         \A n \in ToSet(psdu) : p.fly[n] = {l} /\ (n \in live => n \in p.retry),
         \A k \in Links : E[k].phase = "RTS" => ToSet(E[k].psdu) \cap ToSet(psdu) = {},
         NEW F, F[l].psdu = psdu, \A k \in Links : k # l => F[k] = E[k]
  PROVE  Numbered(p, F, live)
<1>1. PICK S : S = ToSet(psdu)
  OBVIOUS
<1>2. /\ NumbersInOrder(p) /\ LiveKept(p, live \cup S) /\ Apart(E)
      /\ \A k \in Links : Reserved(p, E[k], k, live \cup S)
  BY <1>1 DEF Numbered
<1>3. LiveKept(p, live)
  BY <1>2 DEF LiveKept
<1>4. Reserved(p, F[l], l, live)
  <2>1. S \subseteq p.numbered
    BY <1>2 DEF LiveKept
  <2>. QED  BY <1>1, <2>1 DEF Reserved
<1>5. ASSUME NEW k \in Links, k # l PROVE Reserved(p, F[k], k, live)
  <2>1. F[k] = E[k] /\ Reserved(p, E[k], k, live \cup S)
    BY <1>2, <1>5
  <2>. QED  BY <2>1 DEF Reserved
<1>6. ASSUME NEW k \in Links, NEW i \in Links, k # i, F[k].phase = "RTS", F[i].phase = "RTS"
      PROVE  ToSet(F[k].psdu) \cap ToSet(F[i].psdu) = {}
  <2>1. CASE k = l
    <3>1. F[i] = E[i] /\ ToSet(E[i].psdu) \cap ToSet(psdu) = {}
      BY <1>6, <2>1
    <3>. QED  BY <2>1, <3>1
  <2>2. CASE i = l
    <3>1. F[k] = E[k] /\ ToSet(E[k].psdu) \cap ToSet(psdu) = {}
      BY <1>6, <2>2
    <3>. QED  BY <2>2, <3>1
  <2>3. CASE k # l /\ i # l
    <3>1. F[k] = E[k] /\ F[i] = E[i]
      BY <2>3
    <3>. QED  BY <1>2, <1>6, <3>1 DEF Apart
  <2>. QED  BY <2>1, <2>2, <2>3
<1>7. Apart(F)
  BY <1>6 DEF Apart
<1>. QED  BY <1>2, <1>3, <1>4, <1>5, <1>7 DEF Numbered

LEMMA FunctionIsSeq ==
  ASSUME NEW T, NEW k \in Nat, NEW s \in [1 .. k -> T]
  PROVE  s \in Seq(T)
OBVIOUS

LEMMA AfterBarHandled ==
  ASSUME IInv, NEW l \in Links, NEW s \in AfterBar(l), NEW k
  PROVE  Handled(orig, KeepBar(s, l), k)
<1>1. PICK o : o = WipeAllExpiredMpdus(orig)
  OBVIOUS
<1>2. o \in O /\ Handled(orig, o, k) /\ orig.arrived \in 0 .. NumMpdus
  BY <1>1, IInvFields, WipeKeeps, WipeHandled DEF O
<1>3. \A p \in GetBar(o, l) : p \in O /\ Handled(orig, p, k)
  <2>. SUFFICES ASSUME NEW p \in GetBar(o, l) PROVE p \in O /\ Handled(orig, p, k)
    OBVIOUS
  <2>1. p \in O
    BY <1>2, IInvFields, GetBarKeeps DEF O
  <2>2. Handled(o, p, k)
    BY <1>2, GetBarHandled DEF O
  <2>. QED  BY <1>2, <2>1, <2>2, HandledTrans
<1>4. PICK p \in O : s = DropOld(p) /\ Handled(orig, p, k)
  BY <1>1, <1>2, <1>3 DEF AfterBar
<1>5. s \in O /\ Handled(orig, s, k)
  <2>1. s \in O
    BY <1>4, IInvFields, DropOldKeeps DEF O
  <2>2. Handled(p, s, k)
    BY <1>2, <1>4, DequeueHandled DEF DropOld, O
  <2>. QED  BY <1>4, <2>1, <2>2, HandledTrans
<1>6. Handled(s, KeepBar(s, l), k)
  BY <1>5, KeepBarHandled DEF O
<1>. QED  BY <1>5, <1>6, HandledTrans

LEMMA StartDataNumbered ==
  ASSUME IInv, OneLinkOrNoRts, NEW live, Numbered(orig, exch, live), NEW l \in Links, StartData(l)
  PROVE  /\ Numbered(orig', exch', live \cup ToSet(exch'[l].todo))
         /\ \A n \in orig.numbered : orig'.seq[n] = orig.seq[n]
         /\ \A k \in Links : k # l => exch'[k] = exch[k]
<1>. DEFINE sq == orig.seq ar == orig.arrived
<1>1. PICK s \in AfterBar(l) :
        LET o == KeepBar(s, l) ns == Sendable(o, l) IN
        \E k \in 1 .. Len(ns) :
          /\ k <= MaxAmpdu
          /\ LET psdu == SubSeq(ns, 1, k)
                 kind == AckMethod(o, l, psdu)
                 p == Take(o, l, psdu)
             IN \/ /\ UseRts
                   /\ orig' = p
                   /\ exch' = [exch EXCEPT ![l] =
                        [OnAir(kind, psdu) EXCEPT !.phase = "RTS", !.todo = <<>>]]
                \/ /\ orig' = Transmit(p, l, kind, psdu)
                   /\ exch' = [exch EXCEPT ![l] = OnAir(kind, psdu)]
  BY DEF StartData
<1>2. KeepBar(s, l) \in Originators(sq, ar) /\ ar \in 0 .. NumMpdus /\ sq \in [Mpdus -> Seqs]
      /\ Handled(orig, KeepBar(s, l), AnyLink)
  BY <1>1, IInvFields, AfterBarKeeps, AfterBarHandled DEF O
<1>3. PICK o \in Originators(sq, ar) : o = KeepBar(s, l)
  BY <1>2
<1>. HIDE DEF sq, ar
<1>4. PICK ns : ns = Sendable(o, l)
  OBVIOUS
<1>5. PICK k \in 1 .. Len(ns) :
        LET psdu == SubSeq(ns, 1, k)
            kind == AckMethod(o, l, psdu)
            p == Take(o, l, psdu)
        IN \/ /\ UseRts
              /\ orig' = p
              /\ exch' = [exch EXCEPT ![l] =
                   [OnAir(kind, psdu) EXCEPT !.phase = "RTS", !.todo = <<>>]]
           \/ /\ orig' = Transmit(p, l, kind, psdu)
              /\ exch' = [exch EXCEPT ![l] = OnAir(kind, psdu)]
  BY <1>1, <1>3, <1>4, Zenon
<1>6. PICK psdu : psdu = SubSeq(ns, 1, k)
  OBVIOUS
<1>7. PICK kind : kind = AckMethod(o, l, psdu)
  OBVIOUS
<1>8. PICK p : p = Take(o, l, psdu)
  OBVIOUS
<1>9. \/ /\ UseRts /\ orig' = p
         /\ exch' = [exch EXCEPT ![l] = [OnAir(kind, psdu) EXCEPT !.phase = "RTS", !.todo = <<>>]]
      \/ /\ orig' = Transmit(p, l, kind, psdu)
         /\ exch' = [exch EXCEPT ![l] = OnAir(kind, psdu)]
  BY <1>5, <1>6, <1>7, <1>8
<1>10. PICK S : S = CanBeSent(o, l)
  OBVIOUS
<1>11. /\ S \subseteq o.queued /\ o.queued \subseteq 1 .. ar /\ 1 .. ar \subseteq Mpdus
       /\ \A n \in o.queued : o.fly[n] = {} => n \in S
  BY <1>2, <1>10, OrigFields DEF CanBeSent
<1>12. /\ k \in Nat /\ psdu \in [1 .. k -> S]
       /\ \A i, j \in 1 .. k : i < j => psdu[i] < psdu[j]
       /\ \A n \in S : n \in ToSet(psdu) \/ \A i \in 1 .. k : psdu[i] < n
  <2>1. k \in 1 .. Len(Sendable(o, l)) /\ psdu = SubSeq(Sendable(o, l), 1, k)
    BY <1>4, <1>6
  <2>2. ar \in 0 .. NumMpdus
    BY <1>2
  <2>3. /\ k \in Nat /\ psdu \in [1 .. k -> CanBeSent(o, l)]
        /\ \A i, j \in 1 .. k : i < j => psdu[i] < psdu[j]
        /\ \A n \in CanBeSent(o, l) : n \in ToSet(psdu) \/ \A i \in 1 .. k : psdu[i] < n
    BY <2>1, <2>2, PsduIsPrefix, ZenonT(30)
  <2>. QED  BY <1>10, <2>3
<1>13. /\ DOMAIN psdu = 1 .. k /\ ToSet(psdu) \subseteq S
       /\ psdu \in Seq(1 .. ar)
  <2>1. psdu \in [1 .. k -> 1 .. ar]
    BY <1>11, <1>12
  <2>2. DOMAIN psdu = 1 .. k /\ \A i \in 1 .. k : psdu[i] \in S
    BY <1>12
  <2>3. psdu \in Seq(1 .. ar)
    BY <1>12, <2>1, FunctionIsSeq, Zenon
  <2>. QED  BY <2>2, <2>3 DEF ToSet
<1>14. exch \in [Links -> Exchanges(K)] /\ exch[l].phase # "RTS"
  BY IInvFields DEF StartData, IsIdle
<1>15. Numbered(o, exch, live)
  BY <1>2, <1>3, HandledNumbered, OriginatorAssumption
<1>16. NumbersInOrder(p) /\ Taken(o, p, l, ToSet(psdu))
  <2>1. NumbersInOrder(o)
    BY <1>15 DEF Numbered
  <2>2. \A n \in o.queued \ o.numbered : n \in ToSet(psdu) \/ \A i \in DOMAIN psdu : psdu[i] < n
    BY <1>11, <1>12, <1>13, <2>1 DEF NumbersInOrder
  <2>3. ToSet(psdu) \subseteq o.queued /\ \A i, j \in DOMAIN psdu : i < j => psdu[i] < psdu[j]
    BY <1>11, <1>12, <1>13
  <2>. QED  BY <1>2, <1>8, <1>13, <2>1, <2>2, <2>3, TakeNumbers
<1>17. /\ Numbered(p, exch, live \cup ToSet(psdu))
       /\ UseRts => \A n \in ToSet(psdu) : p.fly[n] = {l} /\ (n \in live => n \in p.retry)
       /\ \A i \in Links : exch[i].phase = "RTS" => ToSet(exch[i].psdu) \cap ToSet(psdu) = {}
  <2>1. ToSet(psdu) \in SUBSET CanBeSent(o, l)
    BY <1>10, <1>13
  <2>. QED  BY <1>2, <1>14, <1>15, <1>16, <2>1, TakeNumbered
<1>18. \A n \in orig.numbered : p.seq[n] = orig.seq[n]
  BY <1>2, <1>3, <1>16 DEF Handled, Taken
<1>19. OnAir(kind, psdu).psdu = psdu /\ OnAir(kind, psdu).phase = "AIR" /\ OnAir(kind, psdu).todo = psdu
  BY DEF OnAir, Idle
<1>20. CASE /\ UseRts /\ orig' = p
            /\ exch' = [exch EXCEPT ![l] = [OnAir(kind, psdu) EXCEPT !.phase = "RTS", !.todo = <<>>]]
  <2>. DEFINE e == [OnAir(kind, psdu) EXCEPT !.phase = "RTS", !.todo = <<>>]
  <2>1. e.psdu = psdu /\ e.todo = <<>>
    BY DEF OnAir, Idle
  <2>. HIDE DEF e
  <2>2. exch'[l] = e /\ \A i \in Links : i # l => exch'[i] = exch[i]
    BY <1>14, <1>20 DEF e
  <2>3. ToSet(exch'[l].todo) = {}
    BY <2>1, <2>2 DEF ToSet
  <2>4. Numbered(p, exch', live)
    <3>1. PICK F : F = exch'
      OBVIOUS
    <3>2. F[l].psdu = psdu /\ \A i \in Links : i # l => F[i] = exch[i]
      BY <2>1, <2>2, <3>1
    <3>3. UseRts /\ \A n \in ToSet(psdu) : p.fly[n] = {l} /\ (n \in live => n \in p.retry)
      BY <1>17, <1>20
    <3>4. Numbered(p, F, live)
      BY <1>17, <3>2, <3>3, TakeReserved
    <3>. QED  BY <3>1, <3>4
  <2>5. live \cup ToSet(exch'[l].todo) = live
    BY <2>3
  <2>. QED  BY <1>18, <1>20, <2>2, <2>4, <2>5
<1>21. CASE /\ orig' = Transmit(p, l, kind, psdu)
            /\ exch' = [exch EXCEPT ![l] = OnAir(kind, psdu)]
  <2>1. /\ p.seq \in [Mpdus -> Seqs] /\ p \in Originators(p.seq, ar)
        /\ psdu \in Seq(Known(p.seq, ar))
    <3>1. IsInjective(psdu)
      <4>1. ASSUME NEW i \in 1 .. k, NEW j \in 1 .. k, psdu[i] = psdu[j] PROVE i = j
        <5>1. psdu[i] \in Nat /\ psdu[j] \in Nat
          BY <1>11, <1>12
        <5>2. ~(i < j) /\ ~(j < i)
          BY <1>12, <4>1, <5>1
        <5>. QED  BY <5>2
      <4>. QED  BY <1>13, <4>1 DEF IsInjective
    <3>. QED  BY <1>2, <1>8, <1>13, <3>1, TakeKeeps
  <2>2. Handled(p, orig', AnyLink)
    BY <1>2, <1>21, <2>1, TransmitHandled
  <2>3. exch'[l] = OnAir(kind, psdu) /\ \A i \in Links : i # l => exch'[i] = exch[i]
    BY <1>14, <1>21
  <2>4. exch'[l].todo = psdu /\ \A i \in Links : exch'[i] = exch[i] \/ exch'[i].phase # "RTS"
    BY <1>19, <2>3
  <2>5. Numbered(orig', exch', live \cup ToSet(psdu))
    <3>1. PICK q, F, more : q = orig' /\ F = exch' /\ more = live \cup ToSet(psdu)
      OBVIOUS
    <3>2. \A i \in Links : F[i] = exch[i] \/ F[i].phase # "RTS"
      BY <2>4, <3>1
    <3>3. Numbered(p, exch, more) /\ Handled(p, q, AnyLink) /\ AnyLink \notin Links
      BY <1>17, <2>2, <3>1, OriginatorAssumption
    <3>4. Numbered(q, F, more)
      BY <3>2, <3>3, HandledNumbered
    <3>. QED  BY <3>1, <3>4
  <2>. QED  BY <1>18, <2>2, <2>3, <2>4, <2>5 DEF Handled
<1>. QED  BY <1>9, <1>20, <1>21

----------------------------------------------------------------------------
(***************************************************************************)
(* A step of OrderedDelivery.                                              *)
(***************************************************************************)
\* The MPDUs of the entries E of a reordering buffer, and those r holds.
MpdusIn(E) == {e[2] : e \in E}
HeldIn(r) == MpdusIn(r.buf)

\* The MPDUs out are passed up in order.
AddsInOrder(up, out, up2) ==
  \E order \in [1 .. Cardinality(out) -> out] :
    /\ \A i, j \in DOMAIN order : i < j => order[i] < order[j]
    /\ up2 = up \o order

\* A step of OrderedDelivery from held and up to held2 and up2.
Delivers(held, up, held2, up2) ==
  \E got \in SUBSET (Mpdus \ held) : \E out \in SUBSET (held \cup got) :
    /\ \A n \in got, m \in ToSet(up) : m < n
    /\ \A m \in out, n \in (held \cup got) \ out : m < n
    /\ held2 = (held \cup got) \ out
    /\ AddsInOrder(up, out, up2)

\* Later MPDUs have later sequence numbers.
Rising(sq, N) ==
  \A n, m \in N : sq[n] \in SentSeqs /\ (n < m => Pos(sq[n]) < Pos(sq[m]))

\* Each MPDU the recipient holds is held with its sequence number, and what it
\* passed up comes before what it waits for.
Ordered(r, sq) ==
  /\ \A e \in r.buf : e[1] = sq[e[2]]
  /\ \A n \in ToSet(r.up) : Pos(sq[n]) < Pos(r.start)
  /\ LastBefore(r)

\* Entries of the buffer are MPDUs of N with their sequence numbers.
EntriesOf(E, sq, N) == \A e \in E : e[2] \in N /\ e[1] = sq[e[2]]

LEMMA RisingReflects ==
  ASSUME NEW sq, NEW N \in SUBSET Mpdus, Rising(sq, N), NEW n \in N, NEW m \in N,
         Pos(sq[n]) < Pos(sq[m])
  PROVE  n < m
<1>1. n \in Int /\ m \in Int
  BY DEF Mpdus
<1>2. Pos(sq[n]) \in Int /\ Pos(sq[m]) \in Int
  BY SentIsStart DEF Rising
<1>3. CASE m < n
  BY <1>2, <1>3 DEF Rising
<1>4. CASE m = n
  BY <1>2, <1>4
<1>. QED  BY <1>1, <1>3, <1>4

\* The order in which the entries of E are passed up is the order of the MPDUs.
LEMMA PassedUpInOrder ==
  ASSUME NEW r \in RecipientTypes, NEW q, NEW E, Passed(r, q, E),
         NEW sq, NEW N \in SUBSET Mpdus, Rising(sq, N),
         EntriesOf(E, sq, N), NEW out, out = MpdusIn(E)
  PROVE  /\ AddsInOrder(r.up, out, q.up)
         /\ ToSet(q.up) = ToSet(r.up) \cup out
<1>0. out = {e[2] : e \in E} /\ \A e \in E : e[2] \in N /\ e[1] = sq[e[2]]
  BY DEF EntriesOf, MpdusIn
<1>1. PICK m, s : Enumerates(s, m, E, Places(E)) /\ q.up = r.up \o MpdusOf(s, m)
  BY DEF Passed
<1>2. /\ m \in Nat /\ s \in [1 .. m -> E] /\ \A x \in E : \E i \in 1 .. m : s[i] = x
      /\ \A i, j \in 1 .. m : i < j => Pos(s[i][1]) < Pos(s[j][1])
  BY <1>1 DEF Enumerates, Places
<1>3. PICK order : order = MpdusOf(s, m)
  OBVIOUS
<1>4. order \in [1 .. m -> out] /\ \A i \in 1 .. m : order[i] = s[i][2]
  BY <1>0, <1>2, <1>3 DEF MpdusOf
<1>5. ASSUME NEW i \in 1 .. m, NEW j \in 1 .. m, i < j PROVE order[i] < order[j]
  <2>1. s[i] \in E /\ s[j] \in E /\ Pos(s[i][1]) < Pos(s[j][1])
    BY <1>2, <1>5
  <2>2. PICK n, k : n = s[i][2] /\ k = s[j][2]
    OBVIOUS
  <2>3. n \in N /\ k \in N /\ Pos(sq[n]) < Pos(sq[k])
    BY <1>0, <2>1, <2>2
  <2>4. n < k
    BY <2>3, RisingReflects
  <2>. QED  BY <1>4, <2>2, <2>4
<1>6. ASSUME NEW n \in out PROVE \E i \in 1 .. m : order[i] = n
  <2>1. PICK e \in E : e[2] = n
    BY <1>0
  <2>2. PICK i \in 1 .. m : s[i] = e
    BY <1>2, <2>1
  <2>3. order[i] = n
    BY <1>4, <2>1, <2>2
  <2>. QED  BY <2>2, <2>3
<1>7. out \subseteq N /\ out \subseteq Nat
  <2>1. N \subseteq Nat
    BY DEF Mpdus
  <2>2. out \subseteq N
    BY <1>0
  <2>. QED  BY <2>1, <2>2
<1>. DEFINE id == [n \in out |-> n]
<1>8. id \in [out -> Nat] /\ Enumerates(order, m, out, id)
  <2>1. id \in [out -> Nat]
    BY <1>7
  <2>2. \A i, j \in 1 .. m : i < j => id[order[i]] < id[order[j]]
    BY <1>4, <1>5
  <2>. HIDE DEF id
  <2>. QED  BY <1>2, <1>4, <1>6, <2>1, <2>2 DEF Enumerates
<1>. HIDE DEF id
<1>9. Cardinality(out) = m
  BY <1>8, EnumerationSize
<1>10. DOMAIN order = 1 .. m
  BY <1>4
<1>11. order \in Seq(Mpdus) /\ Len(order) = m /\ r.up \in Seq(Mpdus)
  <2>1. order \in [1 .. m -> Mpdus]
    BY <1>4, <1>7
  <2>. QED  BY <1>2, <2>1 DEF RecipientTypes
<1>12. ToSet(order) = out
  BY <1>4, <1>6, <1>10 DEF ToSet
<1>13. ToSet(r.up \o order) = ToSet(r.up) \cup ToSet(order)
  <2>. HIDE DEF Mpdus
  <2>. QED  BY <1>11, ElementsOfConcat
<1>14. AddsInOrder(r.up, out, q.up)
  <2>1. order \in [1 .. Cardinality(out) -> out]
    BY <1>4, <1>9
  <2>2. \A i, j \in DOMAIN order : i < j => order[i] < order[j]
    BY <1>5, <1>10
  <2>3. q.up = r.up \o order
    BY <1>1, <1>3
  <2>. QED  BY <2>1, <2>2, <2>3, Zenon DEF AddsInOrder
<1>15. ToSet(q.up) = ToSet(r.up) \cup out
  BY <1>1, <1>3, <1>12, <1>13, Zenon
<1>. QED  BY <1>14, <1>15, Zenon

\* The recipient r becomes t: it stores the MPDUs got, which it did not hold.
Stores(r, t, sq, N, got) ==
  /\ HeldIn(r) \cup ToSet(r.up) \subseteq N /\ Ordered(r, sq)
  /\ got \subseteq N /\ got \cap HeldIn(r) = {}
  /\ t.buf = r.buf \cup {<<sq[n], n>> : n \in got}
  /\ t.up = r.up /\ t.start = r.start
  /\ \A n \in got : Pos(r.start) <= Pos(sq[n])

\* What the recipient does with the MPDUs got is a step of OrderedDelivery.
LEMMA MovedDelivers ==
  ASSUME NEW r \in RecipientTypes, NEW t \in RecipientTypes, NEW q \in RecipientTypes,
         NEW sq, NEW N \in SUBSET Mpdus, Rising(sq, N),
         NEW got, Stores(r, t, sq, N, got), NEW E, MovedBy(t, q, E)
  PROVE  /\ Delivers(HeldIn(r), r.up, HeldIn(q), q.up)
         /\ Ordered(q, sq)
         /\ HeldIn(q) \cup ToSet(q.up) = HeldIn(r) \cup got \cup ToSet(r.up)
<1>. DEFINE out == MpdusIn(E)
            all == HeldIn(r) \cup got
<1>0. /\ HeldIn(r) \cup ToSet(r.up) \subseteq N /\ Ordered(r, sq)
      /\ got \subseteq N /\ got \cap HeldIn(r) = {}
      /\ t.buf = r.buf \cup {<<sq[n], n>> : n \in got}
      /\ t.up = r.up /\ t.start = r.start
      /\ \A n \in got : Pos(r.start) <= Pos(sq[n])
  BY DEF Stores
<1>1. \A e \in t.buf : e[2] \in all /\ e[1] = sq[e[2]] /\ e = <<e[1], e[2]>>
  <2>1. ASSUME NEW e \in r.buf PROVE e[2] \in HeldIn(r) /\ e[1] = sq[e[2]] /\ e = <<e[1], e[2]>>
    <3>1. e \in SentSeqs \X Mpdus /\ e[1] = sq[e[2]]
      BY <1>0 DEF Ordered, RecipientTypes
    <3>2. e[2] \in HeldIn(r)
      BY DEF HeldIn, MpdusIn
    <3>. QED  BY <3>1, <3>2
  <2>2. ASSUME NEW e \in {<<sq[n], n>> : n \in got}
        PROVE  e[2] \in got /\ e[1] = sq[e[2]] /\ e = <<e[1], e[2]>>
    OBVIOUS
  <2>. QED  BY <1>0, <2>1, <2>2
<1>2. \A n \in all : <<sq[n], n>> \in t.buf
  <2>1. ASSUME NEW n \in HeldIn(r) PROVE <<sq[n], n>> \in r.buf
    <3>1. PICK e \in r.buf : n = e[2]
      BY DEF HeldIn, MpdusIn
    <3>2. e[1] = sq[e[2]] /\ e = <<e[1], e[2]>>
      BY <1>0 DEF Ordered, RecipientTypes
    <3>. QED  BY <3>1, <3>2
  <2>2. ASSUME NEW n \in got PROVE <<sq[n], n>> \in {<<sq[k], k>> : k \in got}
    OBVIOUS
  <2>. QED  BY <1>0, <2>1, <2>2
<1>3. E \subseteq t.buf /\ q.buf = t.buf \ E
  BY DEF MovedBy, Passed
<1>4. out \subseteq all
  BY <1>1, <1>3 DEF MpdusIn
<1>5. HeldIn(q) = all \ out
  <2>1. ASSUME NEW n \in HeldIn(q) PROVE n \in all \ out
    <3>1. PICK e \in q.buf : n = e[2]
      BY DEF HeldIn, MpdusIn
    <3>2. n \in all /\ e = <<sq[n], n>> /\ e \notin E
      BY <1>1, <1>3, <3>1
    <3>3. ASSUME NEW f \in E, n = f[2] PROVE FALSE
      BY <1>1, <1>3, <3>2, <3>3
    <3>. QED  BY <3>2, <3>3 DEF MpdusIn
  <2>2. ASSUME NEW n \in all \ out PROVE n \in HeldIn(q)
    <3>1. <<sq[n], n>> \in t.buf /\ <<sq[n], n>>[2] = n
      BY <1>2
    <3>2. <<sq[n], n>> \notin E
      BY <3>1 DEF MpdusIn
    <3>. QED  BY <1>3, <3>1, <3>2 DEF HeldIn, MpdusIn
  <2>. QED  BY <2>1, <2>2
<1>6. all \subseteq N /\ ToSet(r.up) \subseteq N /\ got \in SUBSET (Mpdus \ HeldIn(r))
      /\ out \in SUBSET (HeldIn(r) \cup got)
  BY <1>0, <1>4
<1>7. \A n \in out : Pos(sq[n]) < Pos(q.start)
  BY <1>1, <1>3 DEF MovedBy, MpdusIn
<1>8. \A n \in HeldIn(q) : Pos(q.start) <= Pos(sq[n])
  <2>. SUFFICES ASSUME NEW e \in q.buf PROVE Pos(q.start) <= Pos(sq[e[2]])
    BY DEF HeldIn, MpdusIn
  <2>. QED  BY <1>1, <1>3 DEF MovedBy
<1>9. /\ Pos(r.start) \in Int /\ Pos(q.start) \in Int /\ Pos(r.start) <= Pos(q.start)
      /\ \A n \in N : Pos(sq[n]) \in Int
  <2>1. r.start \in StartSeqs /\ q.start \in StartSeqs /\ \A n \in N : sq[n] \in SentSeqs
    BY DEF RecipientTypes, Rising
  <2>2. Pos(r.start) <= Pos(q.start)
    BY <1>0 DEF MovedBy
  <2>. QED  BY <2>1, <2>2, PosDistance, SentIsStart
<1>10. \A n \in ToSet(r.up) : Pos(sq[n]) < Pos(r.start)
  BY <1>0 DEF Ordered
<1>11. Passed(t, q, E)
  BY DEF MovedBy
<1>12. EntriesOf(E, sq, N)
  BY <1>1, <1>3, <1>6 DEF EntriesOf
<1>13. q.buf \subseteq t.buf /\ LastBefore(q)
  BY <1>3 DEF MovedBy
<1>14. PICK o : o = out
  OBVIOUS
<1>15. /\ AddsInOrder(t.up, o, q.up)
       /\ ToSet(q.up) = ToSet(t.up) \cup o
  <2>1. o = MpdusIn(E)
    BY <1>14
  <2>. HIDE DEF all, out
  <2>. QED  BY <1>11, <1>12, <2>1, PassedUpInOrder, Zenon
<1>. HIDE DEF all, out
<1>16. \A n \in got, m \in ToSet(r.up) : m < n
  <2>. SUFFICES ASSUME NEW n \in got, NEW m \in ToSet(r.up) PROVE m < n
    OBVIOUS
  <2>1. m \in N /\ n \in N /\ Pos(sq[m]) < Pos(sq[n])
    BY <1>0, <1>6, <1>9, <1>10
  <2>. QED  BY <2>1, RisingReflects
<1>17. \A m \in o, n \in all \ o : m < n
  <2>. SUFFICES ASSUME NEW m \in o, NEW n \in all \ o PROVE m < n
    OBVIOUS
  <2>1. m \in N /\ n \in N /\ Pos(sq[m]) < Pos(sq[n])
    BY <1>4, <1>5, <1>6, <1>7, <1>8, <1>9, <1>14
  <2>. QED  BY <2>1, RisingReflects
<1>18. Delivers(HeldIn(r), r.up, HeldIn(q), q.up)
  <2>1. /\ o \in SUBSET (HeldIn(r) \cup got)
        /\ HeldIn(q) = (HeldIn(r) \cup got) \ o
        /\ \A m \in o, n \in (HeldIn(r) \cup got) \ o : m < n
    BY <1>5, <1>6, <1>14, <1>17 DEF all
  <2>2. AddsInOrder(r.up, o, q.up)
    BY <1>0, <1>15, Zenon
  <2>. QED  BY <1>6, <1>16, <2>1, <2>2, Zenon DEF Delivers
<1>19. \A n \in ToSet(q.up) : Pos(sq[n]) < Pos(q.start)
  BY <1>0, <1>6, <1>7, <1>9, <1>10, <1>14, <1>15
<1>20. Ordered(q, sq)
  BY <1>1, <1>13, <1>19 DEF Ordered
<1>21. HeldIn(q) \cup ToSet(q.up) = HeldIn(r) \cup got \cup ToSet(r.up)
  BY <1>0, <1>4, <1>5, <1>14, <1>15 DEF all
<1>. QED  BY <1>18, <1>20, <1>21

\* The recipient goes from r to q in a step of OrderedDelivery, or keeps all.
Promised(r, q, sq, got) ==
  /\ \/ Delivers(HeldIn(r), r.up, HeldIn(q), q.up)
     \/ HeldIn(q) = HeldIn(r) /\ q.up = r.up
  /\ Ordered(q, sq)
  /\ HeldIn(q) \cup ToSet(q.up) \subseteq HeldIn(r) \cup got \cup ToSet(r.up)
  /\ HeldIn(r) \cup ToSet(r.up) \subseteq HeldIn(q) \cup ToSet(q.up)

\* The sequence numbers of the MPDUs it holds or passed up.
GotSeqs(r, sq) == {sq[n] : n \in HeldIn(r) \cup ToSet(r.up)}

LEMMA UnmovedPromised ==
  ASSUME NEW r, NEW q, NEW sq, NEW got, Ordered(r, sq), Unmoved(r, q)
  PROVE  Promised(r, q, sq, got)
BY DEF Promised, Ordered, Unmoved, HeldIn, LastBefore

LEMMA MovedPromised ==
  ASSUME NEW r \in RecipientTypes, NEW t \in RecipientTypes, NEW q \in RecipientTypes,
         NEW sq, NEW N \in SUBSET Mpdus, Rising(sq, N),
         NEW got, Stores(r, t, sq, N, got), NEW E, MovedBy(t, q, E), NEW new, got \subseteq new
  PROVE  Promised(r, q, sq, new) /\ got \subseteq HeldIn(q) \cup ToSet(q.up)
<1>1. /\ Delivers(HeldIn(r), r.up, HeldIn(q), q.up)
      /\ Ordered(q, sq)
      /\ HeldIn(q) \cup ToSet(q.up) = HeldIn(r) \cup got \cup ToSet(r.up)
  BY MovedDelivers
<1>. QED  BY <1>1 DEF Promised

\* An MPDU that is not old is held or passed up after that.
LEMMA ReceivedMpduDelivers ==
  ASSUME NEW r \in Recipients, NEW sq, NEW N \in SUBSET Mpdus, Rising(sq, N),
         HeldIn(r) \cup ToSet(r.up) \subseteq N, Ordered(r, sq), NEW n \in N,
         NEW q, q = NotifyReceivedMpdu(r, sq[n], n)
  PROVE  /\ Promised(r, q, sq, {n})
         /\ Pos(r.start) <= Pos(sq[n]) => sq[n] \in GotSeqs(q, sq)
<1>1. PICK x : x = sq[n]
  OBVIOUS
<1>2. x \in SentSeqs /\ n \in Mpdus /\ LastBefore(r)
  BY <1>1 DEF Rising, Ordered
<1>3. q \in Recipients /\ Receives(r, q, x, n)
  BY <1>1, <1>2, ReceivedMpduMoves
<1>4. r \in RecipientTypes /\ q \in RecipientTypes /\ Pos(r.start) \in Nat /\ Pos(x) \in Nat
  BY <1>2, <1>3, PosDistance, SentIsStart DEF Recipients, RecipientTypes
<1>. DEFINE Done == Promised(r, q, sq, {n}) /\ (Pos(r.start) <= Pos(x) => x \in GotSeqs(q, sq))
<1>5. ASSUME Unmoved(r, q), Pos(x) < Pos(r.start) PROVE Done
  <2>1. Promised(r, q, sq, {n})
    BY <1>5, UnmovedPromised
  <2>. QED  BY <1>4, <1>5, <2>1
<1>6. ASSUME NEW t \in RecipientTypes, Stored(r, t, x, n), Pos(r.start) <= Pos(x),
             NEW E, MovedBy(t, q, E)
      PROVE  Done
  <2>1. CASE t.buf = r.buf /\ x \in BufferedSeqs(r)
    <3>1. Stores(r, t, sq, N, {})
      BY <1>6, <2>1 DEF Stored, Stores
    <3>2. MovedBy(t, q, E) /\ {} \subseteq {n}
      BY <1>6
    <3>3. Promised(r, q, sq, {n})
      BY <1>4, <3>1, <3>2, MovedPromised
    <3>4. PICK e \in r.buf : e[1] = x
      BY <2>1 DEF BufferedSeqs
    <3>5. e[2] \in HeldIn(r) /\ sq[e[2]] = x
      BY <3>4 DEF HeldIn, MpdusIn, Ordered
    <3>6. x \in GotSeqs(q, sq)
      BY <3>3, <3>5 DEF Promised, GotSeqs
    <3>. QED  BY <3>3, <3>6
  <2>2. CASE t.buf = r.buf \cup {<<x, n>>} /\ x \notin BufferedSeqs(r)
    <3>1. n \notin HeldIn(r)
      BY <1>1, <2>2 DEF HeldIn, MpdusIn, BufferedSeqs, Ordered
    <3>2. {<<sq[k], k>> : k \in {n}} = {<<x, n>>}
      BY <1>1
    <3>3. Stores(r, t, sq, N, {n})
      BY <1>1, <1>6, <2>2, <3>1, <3>2 DEF Stored, Stores
    <3>4. MovedBy(t, q, E) /\ {n} \subseteq {n}
      BY <1>6
    <3>5. Promised(r, q, sq, {n}) /\ {n} \subseteq HeldIn(q) \cup ToSet(q.up)
      BY <1>4, <3>3, <3>4, MovedPromised
    <3>6. x \in GotSeqs(q, sq)
      BY <1>1, <3>5 DEF GotSeqs
    <3>. QED  BY <3>5, <3>6
  <2>. QED  BY <1>6, <2>1, <2>2 DEF Stored
<1>. HIDE DEF Done
<1>7. Done
  BY <1>3, <1>5, <1>6, Zenon DEF Receives
<1>. QED  BY <1>1, <1>7 DEF Done

LEMMA ReceivedBarDelivers ==
  ASSUME NEW r \in Recipients, NEW sq, NEW N \in SUBSET Mpdus, Rising(sq, N),
         HeldIn(r) \cup ToSet(r.up) \subseteq N, Ordered(r, sq), NEW x \in StartSeqs
  PROVE  Promised(r, NotifyReceivedBar(r, x), sq, {})
<1>1. PICK q : q = NotifyReceivedBar(r, x)
  OBVIOUS
<1>2. LastBefore(r)
  BY DEF Ordered
<1>3. q \in Recipients /\ FollowsBar(r, q)
  BY <1>1, <1>2, ReceivedBarMoves
<1>4. r \in RecipientTypes /\ q \in RecipientTypes
  BY <1>3 DEF Recipients, RecipientTypes
<1>5. ASSUME Unmoved(r, q) PROVE Promised(r, q, sq, {})
  BY <1>5, UnmovedPromised
<1>6. ASSUME NEW t \in RecipientTypes, Unmoved(r, t), NEW E, MovedBy(t, q, E)
      PROVE  Promised(r, q, sq, {})
  <2>1. Stores(r, t, sq, N, {})
    BY <1>6 DEF Unmoved, Stores
  <2>2. MovedBy(t, q, E) /\ {} \subseteq {}
    BY <1>6
  <2>. QED  BY <1>4, <2>1, <2>2, MovedPromised
<1>7. Promised(r, q, sq, {})
  BY <1>3, <1>5, <1>6, Zenon DEF FollowsBar
<1>. QED  BY <1>1, <1>7

----------------------------------------------------------------------------
(***************************************************************************)
(* What a block ack reports.  The scoreboard may start before the buffer,  *)
(* so that it reports MPDUs that are no longer held: all of the numbers    *)
(* between the two starts are those of MPDUs that were received.           *)
(***************************************************************************)
\* The sequence numbers a bitmap reports.
Reports(w) == {(w.start + d) % SeqSpace : d \in w.bits}

LEMMA ReportedNumber ==
  ASSUME NEW w \in Windows, NEW x \in Seqs, IsPacketReceived(w, x)
  PROVE  x \in Reports(w)
<1>1. PICK d : d = GetDistance(x, w.start)
  OBVIOUS
<1>2. d \in w.bits /\ w.start \in Seqs
  BY <1>1 DEF IsPacketReceived, Windows
<1>3. d \in Seqs /\ d = IF x >= w.start THEN x - w.start ELSE x - w.start + SeqSpace
  BY <1>1, <1>2, Distance
<1>4. d \in Nat /\ d <= SeqSpace /\ x \in Nat /\ w.start \in Nat /\ x < SeqSpace
  BY <1>2, <1>3, Sizes DEF Seqs
<1>5. (w.start + d) % SeqSpace = IF w.start + d < SeqSpace THEN w.start + d ELSE w.start + d - SeqSpace
  BY <1>2, <1>4, ModSum
<1>6. (w.start + d) % SeqSpace = x
  BY <1>3, <1>4, <1>5, Sizes
<1>. QED  BY <1>2, <1>6 DEF Reports

\* Advancing forgets and reports nothing new.
LEMMA AdvanceReports ==
  ASSUME NEW w \in Windows, NEW k \in Nat
  PROVE  Reports(Advance(w, k)) \subseteq Reports(w)
<1>. SUFFICES ASSUME NEW d \in Advance(w, k).bits
              PROVE  (Advance(w, k).start + d) % SeqSpace \in Reports(w)
  BY DEF Reports
<1>1. d \in Positions /\ d + k \in w.bits /\ w.start \in Seqs /\ w.bits \subseteq Positions
  BY DEF Advance, Windows
<1>2. /\ d \in Nat /\ d + k \in Nat /\ d + k <= SeqSpace /\ k <= SeqSpace /\ d <= SeqSpace
      /\ w.start \in Nat /\ w.start < SeqSpace
  BY <1>1, Sizes DEF Positions, Seqs
<1>3. PICK s : s = (w.start + k) % SeqSpace
  OBVIOUS
<1>4. s = IF w.start + k < SeqSpace THEN w.start + k ELSE w.start + k - SeqSpace
  BY <1>1, <1>2, <1>3, ModSum
<1>5. s \in Seqs
  BY <1>2, <1>4, Sizes DEF Seqs
<1>6. (s + d) % SeqSpace = IF s + d < SeqSpace THEN s + d ELSE s + d - SeqSpace
  BY <1>2, <1>5, ModSum
<1>7. (w.start + (d + k)) % SeqSpace =
        IF w.start + (d + k) < SeqSpace THEN w.start + (d + k) ELSE w.start + (d + k) - SeqSpace
  BY <1>1, <1>2, ModSum
<1>8. d + k < SeqSpace
  BY <1>1, Sizes DEF Positions
<1>9. (s + d) % SeqSpace = (w.start + (d + k)) % SeqSpace
  BY <1>2, <1>4, <1>6, <1>7, <1>8, Sizes
<1>. QED  BY <1>1, <1>3, <1>9 DEF Reports, Advance

\* The scoreboard reports one more MPDU, unless that comes before it.
LEMMA ScoreboardReports ==
  ASSUME NEW w \in Bitmaps, NEW x \in SentSeqs
  PROVE  /\ Reports(UpdateScoreboard(w, x)) \subseteq Reports(w) \cup {x}
         /\ Pos(x) < Pos(w.start) => UpdateScoreboard(w, x) = w
<1>1. PICK d : d = GetDistance(x, w.start)
  OBVIOUS
<1>2. /\ w \in Windows /\ w.start \in StartSeqs /\ w.start \in Seqs /\ x \in StartSeqs /\ x \in Seqs
      /\ Pos(x) < NumMpdus /\ Pos(w.start) <= NumMpdus
  BY SentIsStart DEF Bitmaps, StartSeqs
<1>3. /\ d = IF Pos(x) >= Pos(w.start) THEN Pos(x) - Pos(w.start) ELSE Pos(x) - Pos(w.start) + SeqSpace
      /\ Pos(x) \in Nat /\ Pos(w.start) \in Nat
  BY <1>1, <1>2, PosDistance
<1>4. d = IF x >= w.start THEN x - w.start ELSE x - w.start + SeqSpace
  BY <1>1, <1>2, Distance
<1>5. /\ x \in Nat /\ x < SeqSpace /\ w.start \in Nat /\ w.start < SeqSpace
      /\ d \in Nat /\ d < SeqSpace
  <2>1. d \in Seqs
    BY <1>1, <1>2, Distance
  <2>. QED  BY <1>2, <2>1, Sizes DEF Seqs
<1>6. ASSUME Pos(x) < Pos(w.start) PROVE UpdateScoreboard(w, x) = w
  <2>1. ~(d < WinSize) /\ ~(d < HalfSpace)
    BY <1>2, <1>3, <1>6, Sizes
  <2>. QED  BY <1>1, <2>1 DEF UpdateScoreboard
<1>7. ASSUME d < WinSize PROVE Reports(UpdateScoreboard(w, x)) \subseteq Reports(w) \cup {x}
  <2>1. UpdateScoreboard(w, x) = [w EXCEPT !.bits = @ \cup {d}]
    BY <1>1, <1>7 DEF UpdateScoreboard
  <2>2. (w.start + d) % SeqSpace = IF w.start + d < SeqSpace THEN w.start + d ELSE w.start + d - SeqSpace
    BY <1>2, <1>5, ModSum, Sizes
  <2>3. (w.start + d) % SeqSpace = x
    BY <1>4, <1>5, <2>2, Sizes
  <2>. QED  BY <1>2, <2>1, <2>3 DEF Reports, Windows
<1>8. ASSUME d >= WinSize, d < HalfSpace PROVE Reports(UpdateScoreboard(w, x)) \subseteq Reports(w) \cup {x}
  <2>1. PICK k \in Nat : k = d - WinSize + 1
    BY <1>5, <1>8, Sizes
  <2>2. PICK v : v = Advance(w, k)
    OBVIOUS
  <2>3. UpdateScoreboard(w, x) = [v EXCEPT !.bits = @ \cup {WinSize - 1}]
    BY <1>1, <1>5, <1>8, <2>1, <2>2, Sizes DEF UpdateScoreboard
  <2>4. Reports(v) \subseteq Reports(w)
    BY <1>2, <2>2, AdvanceReports
  <2>5. PICK s : s = (w.start + k) % SeqSpace
    OBVIOUS
  <2>6. s = IF w.start + k < SeqSpace THEN w.start + k ELSE w.start + k - SeqSpace
    BY <1>2, <1>5, <2>1, <2>5, ModSum, Sizes
  <2>7. s \in Seqs /\ s \in Nat
    BY <1>5, <2>1, <2>6, Sizes DEF Seqs
  <2>8. (s + (WinSize - 1)) % SeqSpace =
          IF s + (WinSize - 1) < SeqSpace THEN s + (WinSize - 1) ELSE s + (WinSize - 1) - SeqSpace
    <3>1. WinSize - 1 \in Nat /\ WinSize - 1 <= SeqSpace
      BY Sizes
    <3>. QED  BY <2>7, <3>1, ModSum
  <2>9. (s + (WinSize - 1)) % SeqSpace = x
    BY <1>4, <1>5, <1>8, <2>1, <2>6, <2>7, <2>8, Sizes
  <2>10. v.start = s /\ v = [start |-> v.start, bits |-> v.bits]
    BY <2>2, <2>5 DEF Advance
  <2>11. PICK z : z = UpdateScoreboard(w, x)
    OBVIOUS
  <2>12. z.start = s /\ z.bits = v.bits \cup {WinSize - 1}
    BY <2>3, <2>10, <2>11
  <2>13. Reports(z) \subseteq Reports(v) \cup {x}
    <3>. SUFFICES ASSUME NEW c \in z.bits
                  PROVE  (s + c) % SeqSpace \in Reports(v) \cup {x}
      BY <2>12 DEF Reports
    <3>1. CASE c \in v.bits
      BY <2>10, <3>1 DEF Reports
    <3>2. CASE c = WinSize - 1
      BY <2>9, <3>2
    <3>. QED  BY <2>12, <3>1, <3>2
  <2>. QED  BY <2>4, <2>11, <2>13
<1>9. ASSUME d >= HalfSpace PROVE Reports(UpdateScoreboard(w, x)) \subseteq Reports(w) \cup {x}
  <2>1. UpdateScoreboard(w, x) = w
    BY <1>1, <1>5, <1>9, Sizes DEF UpdateScoreboard
  <2>. QED  BY <2>1
<1>. QED  BY <1>5, <1>6, <1>7, <1>8, <1>9, Sizes

\* The scoreboard of r reports numbers of G only, and the numbers between its
\* start and that of the buffer are in G.
Truthful(r, G) ==
  /\ Reports(r.score) \subseteq G
  /\ \A s \in StartSeqs : Pos(r.score.start) <= Pos(s) /\ Pos(s) < Pos(r.start) => s \in G

\* G grows by the MPDU that is received if that is not old.
LEMMA ReceivedMpduTruthful ==
  ASSUME NEW r \in Recipients, NEW x \in SentSeqs, NEW n \in Mpdus, NEW G, Truthful(r, G),
         BufferedSeqs(r) \subseteq G, Pos(r.start) <= Pos(x) => x \in G,
         NEW q, q = NotifyReceivedMpdu(r, x, n)
  PROVE  Truthful(q, G)
<1>1. q.score = UpdateScoreboard(r.score, x) /\ Filled(r, q, {x})
  BY ReceivedMpduMoves
<1>2. /\ r.score \in Bitmaps /\ r.score.start \in StartSeqs /\ r.start \in StartSeqs
      /\ x \in StartSeqs
  BY SentIsStart DEF Recipients, Bitmaps
<1>3. Pos(r.score.start) \in Nat /\ Pos(r.start) \in Nat /\ Pos(x) \in Nat
  BY <1>2, PosDistance
<1>4. Reports(q.score) \subseteq G
  <2>1. CASE Pos(x) < Pos(r.score.start)
    BY <1>1, <1>2, <2>1, ScoreboardReports DEF Truthful
  <2>2. CASE ~(Pos(x) < Pos(r.score.start))
    <3>1. x \in G
      BY <1>2, <1>3, <2>2 DEF Truthful
    <3>. QED  BY <1>1, <1>2, <3>1, ScoreboardReports DEF Truthful
  <2>. QED  BY <2>1, <2>2
<1>5. ASSUME NEW s \in StartSeqs, Pos(q.score.start) <= Pos(s), Pos(s) < Pos(q.start)
      PROVE  s \in G
  <2>1. Pos(s) \in Nat /\ Pos(q.score.start) \in Nat /\ Pos(r.score.start) <= Pos(q.score.start)
    <3>1. q.score \in Bitmaps /\ q.score.start \in StartSeqs
      BY <1>1, <1>2, ScoreboardKeeps DEF Bitmaps
    <3>2. Pos(s) \in Nat /\ Pos(q.score.start) \in Nat
      BY <3>1, PosDistance
    <3>. QED  BY <1>1, <1>2, <1>3, <3>2, ScoreboardKeeps, Sizes
  <2>2. CASE Pos(s) < Pos(r.start)
    BY <1>3, <2>1, <2>2, <1>5 DEF Truthful
  <2>3. CASE ~(Pos(s) < Pos(r.start))
    <3>1. s \in BufferedSeqs(r) \cup {x}
      BY <1>1, <1>3, <1>5, <2>1, <2>3 DEF Filled
    <3>2. CASE s = x
      BY <1>3, <2>1, <2>3, <3>2
    <3>. QED  BY <3>1, <3>2
  <2>. QED  BY <2>2, <2>3
<1>. QED  BY <1>4, <1>5 DEF Truthful

LEMMA ReceivedBarTruthful ==
  ASSUME NEW r \in Recipients, NEW x \in StartSeqs, NEW G, Truthful(r, G), BufferedSeqs(r) \subseteq G,
         NEW q, q = NotifyReceivedBar(r, x)
  PROVE  Truthful(q, G)
<1>1. /\ q \in Recipients /\ Filled(r, q, {})
      /\ q.score = r.score \/ \E k \in Nat : q.score = Advance(r.score, k)
      /\ Pos(r.score.start) <= Pos(q.score.start)
  BY ReceivedBarMoves
<1>2. r.score \in Windows /\ r.start \in StartSeqs /\ r.score.start \in StartSeqs /\ q.score.start \in StartSeqs
  BY <1>1 DEF Recipients, Bitmaps
<1>3. Reports(q.score) \subseteq Reports(r.score)
  BY <1>1, <1>2, AdvanceReports
<1>4. ASSUME NEW s \in StartSeqs, Pos(q.score.start) <= Pos(s), Pos(s) < Pos(q.start)
      PROVE  s \in G
  <2>1. /\ Pos(s) \in Nat /\ Pos(q.score.start) \in Nat /\ Pos(r.score.start) \in Nat
        /\ Pos(r.start) \in Nat
    BY <1>2, PosDistance
  <2>2. CASE Pos(s) < Pos(r.start)
    BY <1>1, <1>4, <2>1, <2>2 DEF Truthful
  <2>3. CASE ~(Pos(s) < Pos(r.start))
    BY <1>1, <1>4, <2>1, <2>3 DEF Filled
  <2>. QED  BY <2>2, <2>3
<1>. QED  BY <1>3, <1>4 DEF Truthful

----------------------------------------------------------------------------
(***************************************************************************)
(* The order of delivery, over the whole system.                           *)
(***************************************************************************)
\* The MPDUs that are being transmitted.
InAir(E) == UNION {ToSet(E[l].todo) : l \in Links}

\* What the recipient holds, passed up or may still get.
LiveOf(r, E) == HeldIn(r) \cup ToSet(r.up) \cup InAir(E)

\* The inductive invariant, of an originator, a recipient and the exchanges.
InOrderOf(o, r, E) == Numbered(o, E, LiveOf(r, E)) /\ Ordered(r, o.seq)

\* What remains in the air after a step.
LEMMA LessInAir ==
  ASSUME NEW E, NEW F, \A l \in Links : ToSet(F[l].todo) \subseteq ToSet(E[l].todo)
  PROVE  InAir(F) \subseteq InAir(E)
BY DEF InAir

LEMMA NumberedLess ==
  ASSUME NEW o, NEW E, NEW live, Numbered(o, E, live), NEW less \in SUBSET live
  PROVE  Numbered(o, E, less)
<1>1. Handled(o, o, AnyLink)
  BY SameHandled
<1>. QED  BY <1>1, HandledNumbered, OriginatorAssumption

LEMMA LiveIsNumbered ==
  ASSUME NEW o, NEW r, NEW E, InOrderOf(o, r, E)
  PROVE  HeldIn(r) \cup ToSet(r.up) \cup InAir(E) \subseteq o.numbered
BY DEF InOrderOf, Numbered, LiveKept, LiveOf

LEMMA OrderedSame ==
  ASSUME NEW r, NEW sq, Ordered(r, sq), NEW st, \A n \in HeldIn(r) \cup ToSet(r.up) : st[n] = sq[n]
  PROVE  Ordered(r, st)
BY DEF Ordered, HeldIn, MpdusIn

\* A step of the originator.
LEMMA OriginatorInOrder ==
  ASSUME NEW o, NEW r, NEW E, InOrderOf(o, r, E), NEW p, NEW F,
         NEW live, Numbered(p, F, live), LiveOf(r, F) \subseteq live,
         \A n \in o.numbered : p.seq[n] = o.seq[n]
  PROVE  InOrderOf(p, r, F)
<1>1. Numbered(p, F, LiveOf(r, F))
  BY NumberedLess
<1>2. \A n \in HeldIn(r) \cup ToSet(r.up) : p.seq[n] = o.seq[n]
  BY LiveIsNumbered
<1>3. Ordered(r, p.seq)
  BY <1>2, OrderedSame DEF InOrderOf
<1>. QED  BY <1>1, <1>3 DEF InOrderOf

\* The exchanges after a step that protects no PSDU and transmits nothing.
Calmer(E, F) ==
  \A l \in Links : /\ F[l] = E[l] \/ F[l].phase # "RTS"
                   /\ ToSet(F[l].todo) \subseteq ToSet(E[l].todo)

LEMMA HandledInOrder ==
  ASSUME NEW o, NEW r, NEW E, InOrderOf(o, r, E), NEW p, NEW l, Handled(o, p, l), NEW F, Calmer(E, F),
         l \in Links => F[l].phase # "RTS"
  PROVE  InOrderOf(p, r, F)
<1>1. LiveOf(r, F) \subseteq LiveOf(r, E)
  BY LessInAir DEF LiveOf, Calmer
<1>2. Numbered(p, F, LiveOf(r, F))
  BY <1>1, HandledNumbered DEF InOrderOf, Calmer
<1>3. p.seq = o.seq
  BY DEF Handled
<1>. QED  BY <1>2, <1>3 DEF InOrderOf

\* A step of the recipient.
LEMMA RecipientInOrder ==
  ASSUME NEW o, NEW r, NEW E, InOrderOf(o, r, E), NEW q, NEW got \in SUBSET InAir(E),
         Promised(r, q, o.seq, got), NEW F, Calmer(E, F)
  PROVE  InOrderOf(o, q, F)
<1>1. Handled(o, o, AnyLink)
  BY SameHandled
<1>2. InAir(F) \subseteq InAir(E)
  BY LessInAir DEF Calmer
<1>3. LiveOf(q, F) \subseteq LiveOf(r, E)
  BY <1>2 DEF LiveOf, Promised
<1>4. Numbered(o, F, LiveOf(q, F))
  BY <1>1, <1>3, HandledNumbered, OriginatorAssumption DEF InOrderOf, Calmer
<1>. QED  BY <1>4 DEF InOrderOf, Promised

LEMMA NumberedRising ==
  ASSUME NEW sq, NEW ar \in 0 .. NumMpdus, NEW o \in Originators(sq, ar), NEW r, NEW E, InOrderOf(o, r, E)
  PROVE  o.numbered \in SUBSET Mpdus /\ Rising(o.seq, o.numbered)
<1>1. \A n \in o.numbered : n \in Mpdus /\ o.seq[n] \in SentSeqs
  BY PosOfNumbered
<1>2. \A n, m \in o.numbered : n < m => Pos(o.seq[n]) < Pos(o.seq[m])
  BY DEF InOrderOf, Numbered, NumbersInOrder
<1>. QED  BY <1>1, <1>2 DEF Rising

\* Nothing moves at the recipient, or a step of OrderedDelivery is taken.
InOrderStep ==
  /\ InOrderOf(orig', recip', exch')
  /\ \/ Delivers(HeldIn(recip), recip.up, HeldIn(recip'), recip'.up)
     \/ HeldIn(recip') = HeldIn(recip) /\ recip'.up = recip.up
  /\ HeldIn(recip) \cup ToSet(recip.up) \subseteq HeldIn(recip') \cup ToSet(recip'.up)
  /\ \A n \in orig.numbered : orig'.seq[n] = orig.seq[n]

LEMMA SameRecipient ==
  ASSUME recip' = recip, InOrderOf(orig', recip, exch'), \A n \in orig.numbered : orig'.seq[n] = orig.seq[n]
  PROVE  InOrderStep
BY DEF InOrderStep

----------------------------------------------------------------------------
(***************************************************************************)
(* The actions.                                                            *)
(***************************************************************************)
LEMMA SameExchanges ==
  ASSUME NEW E
  PROVE  Calmer(E, E)
BY DEF Calmer

LEMMA EnqueueInOrder ==
  ASSUME IInv, InOrderOf(orig, recip, exch), Enqueue
  PROVE  InOrderStep
<1>1. PICK live : live = LiveOf(recip, exch)
  OBVIOUS
<1>2. Numbered(orig', exch', live)
  BY <1>1, EnqueueNumbered DEF InOrderOf
<1>3. orig'.seq = orig.seq
  <2>1. PICK o : o = WipeAllExpiredMpdus(orig)
    OBVIOUS
  <2>2. o \in O /\ Handled(orig, o, AnyLink)
    BY <2>1, IInvFields, WipeKeeps, WipeHandled DEF O
  <2>3. PICK v, w : orig' = [o EXCEPT !.arrived = v, !.queued = w]
    BY <2>1 DEF Enqueue
  <2>. QED  BY <2>2, <2>3 DEF O, Originators, Handled
<1>4. recip' = recip /\ exch' = exch
  BY DEF Enqueue
<1>5. InOrderOf(orig', recip, exch')
  BY <1>1, <1>2, <1>3, <1>4, OriginatorInOrder
<1>. QED  BY <1>3, <1>4, <1>5, SameRecipient

LEMMA QueueInOrder ==
  ASSUME IInv, InOrderOf(orig, recip, exch), recip' = recip, exch' = exch, Handled(orig, orig', AnyLink)
  PROVE  InOrderStep
<1>1. InOrderOf(orig', recip, exch')
  BY HandledInOrder, SameExchanges, OriginatorAssumption
<1>. QED  BY <1>1, SameRecipient DEF Handled

LEMMA LifetimeOverInOrder ==
  ASSUME IInv, InOrderOf(orig, recip, exch), LifetimeOver
  PROVE  InOrderStep
<1>1. PICK v : orig' = [orig EXCEPT !.overdue = v]
  BY DEF LifetimeOver
<1>2. Handled(orig, orig', AnyLink)
  BY <1>1, IInvFields, SameHandled DEF O, Originators
<1>. QED  BY <1>2, QueueInOrder DEF LifetimeOver

LEMMA WipeExpiredInOrder ==
  ASSUME IInv, InOrderOf(orig, recip, exch), WipeExpired
  PROVE  InOrderStep
<1>1. Handled(orig, orig', AnyLink)
  BY IInvFields, WipeHandled DEF WipeExpired, O
<1>. QED  BY <1>1, QueueInOrder DEF WipeExpired

LEMMA FireExpiredInOrder ==
  ASSUME IInv, InOrderOf(orig, recip, exch), FireExpired
  PROVE  InOrderStep
<1>1. orig.firing \in Seq(1 .. orig.arrived) /\ orig.firing # <<>>
  BY IInvFields, OrigFields DEF FireExpired, Firing, O
<1>2. Tail(orig.firing) \in Seq(1 .. orig.arrived)
  BY <1>1, HeadAndTail, Zenon
<1>3. PICK p : p = [orig EXCEPT !.firing = Tail(orig.firing)]
  OBVIOUS
<1>4. p \in O
  BY <1>2, <1>3, IInvFields, SetFields DEF O
<1>5. Handled(orig, p, AnyLink)
  BY <1>3, IInvFields, SameHandled DEF O, Originators
<1>6. Handled(p, orig', AnyLink)
  <2>1. orig' = BaNotifyDiscardedMpdu(p, Head(orig.firing))
    BY <1>3 DEF FireExpired
  <2>. QED  BY <1>4, <2>1, IInvFields, BaNotifyDiscardedHandled DEF O
<1>7. Handled(orig, orig', AnyLink)
  BY <1>5, <1>6, HandledTrans
<1>. QED  BY <1>7, QueueInOrder DEF FireExpired

LEMMA RepeatedAddBaResponseInOrder ==
  ASSUME IInv, InOrderOf(orig, recip, exch), RepeatedAddBaResponse
  PROVE  InOrderStep
<1>1. Handled(orig, orig', AnyLink)
  BY IInvFields, GotAddBaResponseHandled DEF RepeatedAddBaResponse, O
<1>. QED  BY <1>1, QueueInOrder DEF RepeatedAddBaResponse

\* The frame exchange of a link after a step that protects nothing.
LEMMA QuieterLink ==
  ASSUME exch \in [Links -> Exchanges(K)], NEW l \in Links, NEW e, exch' = [exch EXCEPT ![l] = e],
         e.phase # "RTS", ToSet(e.todo) \subseteq ToSet(exch[l].todo)
  PROVE  Calmer(exch, exch') /\ exch'[l].phase # "RTS"
BY DEF Calmer

LEMMA NothingLeft ==
  ASSUME NEW S
  PROVE  ToSet(<<>>) \subseteq S
BY DEF ToSet

LEMMA LinkInOrder ==
  ASSUME IInv, InOrderOf(orig, recip, exch), NEW l \in Links, NEW e, exch' = [exch EXCEPT ![l] = e],
         e.phase # "RTS", ToSet(e.todo) \subseteq ToSet(exch[l].todo),
         Handled(orig, orig', l), recip' = recip
  PROVE  InOrderStep
<1>1. Calmer(exch, exch') /\ exch'[l].phase # "RTS"
  BY IInvFields, QuieterLink
<1>2. InOrderOf(orig', recip, exch')
  BY <1>1, HandledInOrder
<1>. QED  BY <1>2, SameRecipient DEF Handled

\* An exchange that ends.
LEMMA EndInOrder ==
  ASSUME IInv, InOrderOf(orig, recip, exch), NEW l \in Links, exch' = [exch EXCEPT ![l] = Idle],
         Handled(orig, orig', l), recip' = recip
  PROVE  InOrderStep
<1>1. Idle.phase # "RTS" /\ Idle.todo = <<>>
  BY DEF Idle
<1>2. ToSet(Idle.todo) \subseteq ToSet(exch[l].todo)
  BY <1>1, NothingLeft
<1>. HIDE DEF Idle
<1>. QED  BY <1>1, <1>2, LinkInOrder

LEMMA SendBarInOrder ==
  ASSUME IInv, InOrderOf(orig, recip, exch), NEW l \in Links, SendBar(l)
  PROVE  InOrderStep
<1>1. orig' \in GetBar(WipeAllExpiredMpdus(orig), l) /\ recip' = recip
  BY DEF SendBar
<1>2. PICK o : o = WipeAllExpiredMpdus(orig)
  OBVIOUS
<1>3. o \in O /\ Handled(orig, o, l)
  BY <1>2, IInvFields, WipeKeeps, WipeHandled DEF O
<1>4. Handled(o, orig', l)
  BY <1>1, <1>2, <1>3, GetBarHandled DEF O
<1>5. Handled(orig, orig', l)
  BY <1>3, <1>4, HandledTrans
<1>6. PICK e : e = [OnAir("BAR", <<>>) EXCEPT !.blockAck = InitWindow(orig'.win.start)]
  OBVIOUS
<1>7. e.phase = "AIR" /\ e.todo = <<>>
  BY <1>6 DEF OnAir, Idle
<1>8. exch' = [exch EXCEPT ![l] = e]
  BY <1>6 DEF SendBar
<1>. QED  BY <1>1, <1>5, <1>7, <1>8, NothingLeft, LinkInOrder

LEMMA StartNothingInOrder ==
  ASSUME IInv, InOrderOf(orig, recip, exch), NEW l \in Links, StartNothing(l)
  PROVE  InOrderStep
<1>1. PICK s \in AfterBar(l) : orig' = KeepBar(s, l)
  BY DEF StartNothing
<1>2. Handled(orig, orig', AnyLink)
  BY <1>1, AfterBarHandled
<1>. QED  BY <1>2, QueueInOrder DEF StartNothing

\* What is sent becomes live.
LEMMA LiveWithLink ==
  ASSUME NEW r, NEW E, NEW F, NEW l \in Links, \A k \in Links : k # l => F[k] = E[k]
  PROVE  LiveOf(r, F) \subseteq LiveOf(r, E) \cup ToSet(F[l].todo)
BY DEF LiveOf, InAir

LEMMA StartDataInOrder ==
  ASSUME IInv, OneLinkOrNoRts, InOrderOf(orig, recip, exch), NEW l \in Links, StartData(l)
  PROVE  InOrderStep
<1>1. PICK live : live = LiveOf(recip, exch)
  OBVIOUS
<1>2. /\ Numbered(orig', exch', live \cup ToSet(exch'[l].todo))
      /\ \A n \in orig.numbered : orig'.seq[n] = orig.seq[n]
      /\ \A k \in Links : k # l => exch'[k] = exch[k]
  BY <1>1, StartDataNumbered DEF InOrderOf
<1>3. LiveOf(recip, exch') \subseteq live \cup ToSet(exch'[l].todo)
  BY <1>1, <1>2, LiveWithLink
<1>4. InOrderOf(orig', recip, exch')
  BY <1>2, <1>3, OriginatorInOrder
<1>. QED  BY <1>2, <1>4, SameRecipient DEF StartData

LEMMA GotCtsInOrder ==
  ASSUME IInv, InOrderOf(orig, recip, exch), NEW l \in Links, GotCts(l)
  PROVE  InOrderStep
<1>1. PICK live : live = LiveOf(recip, exch)
  OBVIOUS
<1>2. Numbered(orig', exch', live \cup ToSet(exch[l].psdu))
  BY <1>1, GotCtsNumbered DEF InOrderOf
<1>3. PICK e \in Exchanges(K) : e = exch[l]
  BY ExchangeOf
<1>4. e.psdu \in Seq(K)
  BY ExchangeFields
<1>5. Handled(orig, orig', l)
  BY <1>3, <1>4, IInvFields, TransmitHandled DEF GotCts, O, K
<1>6. exch'[l].todo = exch[l].psdu /\ \A k \in Links : k # l => exch'[k] = exch[k]
  BY IInvFields DEF GotCts, OnAir, Idle
<1>7. LiveOf(recip, exch') \subseteq live \cup ToSet(exch[l].psdu)
  BY <1>1, <1>6, LiveWithLink
<1>8. \A n \in orig.numbered : orig'.seq[n] = orig.seq[n]
  BY <1>5 DEF Handled
<1>9. InOrderOf(orig', recip, exch')
  BY <1>2, <1>7, <1>8, OriginatorInOrder
<1>. QED  BY <1>8, <1>9, SameRecipient DEF GotCts

LEMMA CtsTimeoutInOrder ==
  ASSUME IInv, InOrderOf(orig, recip, exch), NEW l \in Links, CtsTimeout(l)
  PROVE  InOrderStep
<1>1. PICK live : live = LiveOf(recip, exch)
  OBVIOUS
<1>2. Numbered(orig', exch', live)
  BY <1>1, CtsTimeoutNumbered DEF InOrderOf
<1>3. exch'[l].todo = <<>> /\ \A k \in Links : k # l => exch'[k] = exch[k]
  BY IInvFields DEF CtsTimeout, Idle
<1>4. LiveOf(recip, exch') \subseteq live
  BY <1>1, <1>3, LiveWithLink, NothingLeft
<1>5. orig'.seq = orig.seq
  BY CtsTimeoutKeeps DEF O, Originators
<1>6. InOrderOf(orig', recip, exch')
  BY <1>2, <1>4, <1>5, OriginatorInOrder
<1>. QED  BY <1>5, <1>6, SameRecipient DEF CtsTimeout

\* A step of the recipient that gets some of what is in the air.
LEMMA PromisedInOrder ==
  ASSUME IInv, InOrderOf(orig, recip, exch), NEW l \in Links, NEW e, exch' = [exch EXCEPT ![l] = e],
         e.phase # "RTS", ToSet(e.todo) \subseteq ToSet(exch[l].todo),
         orig' = orig, NEW got \in SUBSET InAir(exch), Promised(recip, recip', orig.seq, got)
  PROVE  InOrderStep
<1>1. Calmer(exch, exch')
  BY IInvFields, QuieterLink
<1>2. InOrderOf(orig, recip', exch')
  BY <1>1, RecipientInOrder
<1>. QED  BY <1>2 DEF InOrderStep, Promised

LEMMA HeadOfTodo ==
  ASSUME NEW S, NEW s \in Seq(S), s # <<>>
  PROVE  Head(s) \in ToSet(s) /\ ToSet(Tail(s)) \subseteq ToSet(s)
<1>1. Len(s) \in Nat /\ Len(s) # 0 /\ DOMAIN s = 1 .. Len(s)
  BY EmptySeq, LenProperties
<1>2. Head(s) = s[1]
  BY HeadTailProperties
<1>3. \A i \in DOMAIN Tail(s) : i + 1 \in DOMAIN s /\ Tail(s)[i] = s[i + 1]
  BY <1>1, HeadTailProperties, LenProperties
<1>4. ToSet(Tail(s)) \subseteq ToSet(s)
  BY <1>3 DEF ToSet
<1>. QED  BY <1>1, <1>2, <1>4 DEF ToSet

LEMMA ReceiveMpduInOrder ==
  ASSUME IInv, InOrderOf(orig, recip, exch), NEW l \in Links, ReceiveMpdu(l)
  PROVE  InOrderStep
<1>1. PICK e \in Exchanges(K) : e = exch[l]
  BY ExchangeOf
<1>2. e.todo \in Seq(K) /\ e.todo # <<>> /\ e.phase = "AIR"
  BY <1>1, ExchangeFields DEF ReceiveMpdu, OnAirOnly
<1>3. PICK n : n = Head(e.todo)
  OBVIOUS
<1>4. n \in ToSet(e.todo) /\ ToSet(Tail(e.todo)) \subseteq ToSet(e.todo)
  BY <1>2, <1>3, HeadOfTodo
<1>5. {n} \in SUBSET InAir(exch)
  BY <1>1, <1>4 DEF InAir
<1>6. /\ orig.numbered \in SUBSET Mpdus /\ Rising(orig.seq, orig.numbered)
      /\ HeldIn(recip) \cup ToSet(recip.up) \cup InAir(exch) \subseteq orig.numbered
  BY IInvFields, NumberedRising, LiveIsNumbered DEF O
<1>7. Promised(recip, NotifyReceivedMpdu(recip, orig.seq[n], n), orig.seq, {n})
  BY <1>5, <1>6, IInvFields, ReceivedMpduDelivers DEF InOrderOf
<1>8. PICK f : f = [e EXCEPT !.todo = Tail(e.todo), !.got = TRUE]
  OBVIOUS
<1>9. f.phase = e.phase /\ f.todo = Tail(e.todo)
  BY <1>8, ExchangeFields
<1>10. /\ recip' = NotifyReceivedMpdu(recip, orig.seq[n], n) /\ orig' = orig
       /\ exch' = [exch EXCEPT ![l] = f]
  BY <1>1, <1>3, <1>8, IInvFields DEF ReceiveMpdu
<1>. QED  BY <1>1, <1>2, <1>4, <1>5, <1>7, <1>9, <1>10, PromisedInOrder

LEMMA LoseMpduInOrder ==
  ASSUME IInv, InOrderOf(orig, recip, exch), NEW l \in Links, LoseMpdu(l)
  PROVE  InOrderStep
<1>1. PICK e \in Exchanges(K) : e = exch[l]
  BY ExchangeOf
<1>2. e.todo \in Seq(K) /\ e.todo # <<>> /\ e.phase = "AIR"
  BY <1>1, ExchangeFields DEF LoseMpdu, OnAirOnly
<1>3. ToSet(Tail(e.todo)) \subseteq ToSet(e.todo)
  BY <1>2, HeadOfTodo
<1>4. PICK f : f = [e EXCEPT !.todo = Tail(e.todo)]
  OBVIOUS
<1>5. f.phase = e.phase /\ f.todo = Tail(e.todo)
  BY <1>4, ExchangeFields
<1>6. orig' = orig /\ recip' = recip /\ exch' = [exch EXCEPT ![l] = f]
  BY <1>1, <1>4, IInvFields DEF LoseMpdu
<1>7. Handled(orig, orig', l)
  BY <1>6, SameHandled
<1>. QED  BY <1>1, <1>2, <1>3, <1>5, <1>6, <1>7, LinkInOrder

LEMMA ReceiveBarInOrder ==
  ASSUME IInv, InOrderOf(orig, recip, exch), NEW l \in Links, ReceiveBar(l)
  PROVE  InOrderStep
<1>1. PICK e \in Exchanges(K) : e = exch[l]
  BY ExchangeOf
<1>2. e.blockAck.start \in StartSeqs /\ e.phase = "AIR"
  BY <1>1, ExchangeFields DEF Bitmaps, ReceiveBar, OnAirOnly
<1>3. /\ orig.numbered \in SUBSET Mpdus /\ Rising(orig.seq, orig.numbered)
      /\ HeldIn(recip) \cup ToSet(recip.up) \cup InAir(exch) \subseteq orig.numbered
  BY IInvFields, NumberedRising, LiveIsNumbered DEF O
<1>4. Promised(recip, NotifyReceivedBar(recip, e.blockAck.start), orig.seq, {})
  BY <1>2, <1>3, IInvFields, ReceivedBarDelivers DEF InOrderOf
<1>5. PICK f : f = [e EXCEPT !.got = TRUE]
  OBVIOUS
<1>6. f.phase = e.phase /\ f.todo = e.todo
  BY <1>5, ExchangeFields
<1>7. /\ recip' = NotifyReceivedBar(recip, e.blockAck.start) /\ orig' = orig
      /\ exch' = [exch EXCEPT ![l] = f]
  BY <1>1, <1>5, IInvFields DEF ReceiveBar
<1>8. {} \in SUBSET InAir(exch)
  OBVIOUS
<1>. QED  BY <1>1, <1>2, <1>4, <1>6, <1>7, <1>8, PromisedInOrder

LEMMA RespondInOrder ==
  ASSUME IInv, InOrderOf(orig, recip, exch), NEW l \in Links, Respond(l)
  PROVE  InOrderStep
<1>1. PICK e \in Exchanges(K) : e = exch[l]
  BY ExchangeOf
<1>2. PICK f : f = [e EXCEPT !.phase = "RESP", !.blockAck = FillBlockAckBitmap(recip)]
  OBVIOUS
<1>3. f.phase = "RESP" /\ f.todo = e.todo
  BY <1>2, ExchangeFields
<1>4. orig' = orig /\ recip' = recip /\ exch' = [exch EXCEPT ![l] = f]
  BY <1>1, <1>2, IInvFields DEF Respond
<1>5. Handled(orig, orig', l)
  BY <1>4, SameHandled
<1>. QED  BY <1>1, <1>3, <1>4, <1>5, LinkInOrder

LEMMA GotResponseInOrder ==
  ASSUME IInv, InOrderOf(orig, recip, exch), NEW l \in Links, GotResponse(l)
  PROVE  InOrderStep
<1>1. PICK e \in Exchanges(K) : e = exch[l]
  BY ExchangeOf
<1>2. e.kind \in {"ACK", "BA", "BAR"} /\ (e.kind = "ACK" => e.psdu[1] \in K)
  BY <1>1, ExchangeFields DEF GotResponse
<1>3. orig' = CASE e.kind = "ACK" -> NotifyGotAck(orig, e.psdu[1])
                [] e.kind = "BA"  -> NotifyGotBlockAck(orig, l, e.blockAck)
                [] e.kind = "BAR" -> DequeueBar(NotifyGotBlockAck(orig, l, e.blockAck), l)
  BY <1>1 DEF GotResponse
<1>4. PICK o : o = NotifyGotBlockAck(orig, l, e.blockAck)
  OBVIOUS
<1>5. o \in O /\ Handled(orig, o, l)
  BY <1>4, IInvFields, NotifyGotBlockAckKeeps, NotifyGotBlockAckHandled DEF O
<1>6. ASSUME e.kind = "ACK" PROVE Handled(orig, orig', l)
  <2>1. orig' = NotifyGotAck(orig, e.psdu[1])
    BY <1>3, <1>6
  <2>. QED  BY <1>2, <1>6, <2>1, IInvFields, NotifyGotAckHandled DEF O, K
<1>7. ASSUME e.kind = "BA" PROVE Handled(orig, orig', l)
  BY <1>3, <1>4, <1>5, <1>7
<1>8. ASSUME e.kind = "BAR" PROVE Handled(orig, orig', l)
  <2>1. orig' = DequeueBar(o, l)
    BY <1>3, <1>4, <1>8
  <2>2. Handled(o, orig', l)
    BY <1>5, <2>1, DequeueBarHandled DEF O
  <2>. QED  BY <1>5, <2>2, HandledTrans
<1>9. Handled(orig, orig', l)
  BY <1>2, <1>6, <1>7, <1>8
<1>. QED  BY <1>9, EndInOrder DEF GotResponse

LEMMA ResponseTimeoutInOrder ==
  ASSUME IInv, InOrderOf(orig, recip, exch), NEW l \in Links, ResponseTimeout(l)
  PROVE  InOrderStep
<1>1. PICK e \in Exchanges(K) : e = exch[l]
  BY ExchangeOf
<1>2. PICK o : o = DropMpduIfRetryLimitReached(orig, e.psdu)
  OBVIOUS
<1>3. e.psdu \in Seq(K) /\ (e.kind = "ACK" => e.psdu[1] \in K)
  BY ExchangeFields
<1>4. o \in O /\ Handled(orig, o, l)
  BY <1>2, <1>3, IInvFields, DropKeeps, DropHandled DEF O, K
<1>5. PICK isBar \in BOOLEAN : isBar = (e.kind = "BAR")
  OBVIOUS
<1>6. orig' = IF e.kind = "ACK" THEN NotifyMissedAck(o, e.psdu[1], l)
              ELSE MissedBlockAck(o, l, isBar)
  BY <1>1, <1>2, <1>5 DEF ResponseTimeout
<1>7. ASSUME e.kind = "ACK" PROVE Handled(o, orig', l)
  <2>1. orig' = NotifyMissedAck(o, e.psdu[1], l)
    BY <1>6, <1>7
  <2>. QED  BY <1>3, <1>4, <1>7, <2>1, IInvFields, NotifyMissedAckHandled DEF O, K
<1>8. ASSUME e.kind # "ACK" PROVE Handled(o, orig', l)
  <2>1. orig' = MissedBlockAck(o, l, isBar)
    BY <1>6, <1>8
  <2>. QED  BY <1>4, <2>1, IInvFields, MissedBlockAckHandled DEF O
<1>9. Handled(orig, orig', l)
  BY <1>4, <1>7, <1>8, HandledTrans
<1>. QED  BY <1>9, EndInOrder DEF ResponseTimeout

LEMMA NoResponseInOrder ==
  ASSUME IInv, InOrderOf(orig, recip, exch), NEW l \in Links, NoResponse(l)
  PROVE  InOrderStep
<1>1. Handled(orig, orig', l)
  BY SameHandled DEF NoResponse
<1>. QED  BY <1>1, EndInOrder DEF NoResponse

----------------------------------------------------------------------------
(***************************************************************************)
(* The invariant is inductive, and each step is one of OrderedDelivery.    *)
(***************************************************************************)
LEMMA StepInOrder ==
  ASSUME OneLinkOrNoRts, IInv, InOrderOf(orig, recip, exch), [Next]_vars
  PROVE  InOrderStep
<1>1. CASE Enqueue
  BY <1>1, EnqueueInOrder
<1>2. CASE LifetimeOver
  BY <1>2, LifetimeOverInOrder
<1>3. CASE WipeExpired
  BY <1>3, WipeExpiredInOrder
<1>4. CASE FireExpired
  BY <1>4, FireExpiredInOrder
<1>5. CASE RepeatedAddBaResponse
  BY <1>5, RepeatedAddBaResponseInOrder
<1>6. ASSUME NEW l \in Links, StartStep(l)
      PROVE  InOrderStep
  BY <1>6, SendBarInOrder, StartDataInOrder, StartNothingInOrder DEF StartStep
<1>7. ASSUME NEW l \in Links, ExchangeStep(l)
      PROVE  InOrderStep
  <2>1. CASE GotCts(l) \/ CtsTimeout(l)
    BY <2>1, GotCtsInOrder, CtsTimeoutInOrder
  <2>2. CASE ReceiveMpdu(l) \/ LoseMpdu(l) \/ ReceiveBar(l) \/ Respond(l)
    BY <2>2, ReceiveMpduInOrder, LoseMpduInOrder, ReceiveBarInOrder, RespondInOrder
  <2>3. CASE GotResponse(l) \/ ResponseTimeout(l) \/ NoResponse(l)
    BY <2>3, GotResponseInOrder, ResponseTimeoutInOrder, NoResponseInOrder
  <2>. QED  BY <1>7, <2>1, <2>2, <2>3 DEF ExchangeStep
<1>8. CASE UNCHANGED vars
  BY <1>8 DEF vars, InOrderStep
<1>. QED  BY <1>1, <1>2, <1>3, <1>4, <1>5, <1>6, <1>7, <1>8 DEF Next

\* Initially nothing has a number and nothing was received.
LEMMA InitInOrder ==
  ASSUME Init
  PROVE  InOrderOf(orig, recip, exch) /\ Held = {} /\ recip.up = <<>>
<1>1. /\ orig.numbered = {} /\ orig.queued = {}
      /\ recip.buf = {} /\ recip.up = <<>> /\ recip.last = NoSeq
  BY DEF Init, NewOriginator, NewRecipientAgreement
<1>2. \A l \in Links : exch[l].todo = <<>> /\ exch[l].phase # "RTS"
  BY DEF Init, Idle
<1>3. HeldIn(recip) = {} /\ Held = {}
  BY <1>1 DEF HeldIn, MpdusIn, Held
<1>4. LiveOf(recip, exch) = {}
  BY <1>1, <1>2, <1>3 DEF LiveOf, InAir, ToSet
<1>5. Numbered(orig, exch, {})
  BY <1>1, <1>2 DEF Numbered, NumbersInOrder, LiveKept, Reserved, Apart
<1>6. Ordered(recip, orig.seq)
  <2>1. ToSet(recip.up) = {}
    BY <1>1 DEF ToSet
  <2>. QED  BY <1>1, <2>1 DEF Ordered, LastBefore
<1>. QED  BY <1>1, <1>3, <1>4, <1>5, <1>6 DEF InOrderOf

\* The library operators that OrderedDelivery uses are those of BlockAck.
LEMMA SameOperators ==
  ASSUME NEW S
  PROVE  Delivery!ToSet(S) = ToSet(S) /\ Delivery!Cardinality(S) = Cardinality(S)
<1>1. Delivery!ToSet(S) = ToSet(S)
  BY DEF ToSet, Delivery!ToSet
<1>2. Delivery!Cardinality(S) = Cardinality(S)
  BY DEF Cardinality, Delivery!Cardinality
<1>. QED  BY <1>1, <1>2

LEMMA DeliversIsDeliver ==
  ASSUME Delivers(HeldIn(recip), recip.up, HeldIn(recip'), recip'.up)
  PROVE  Delivery!Deliver
<1>1. HeldIn(recip) = Held /\ HeldIn(recip') = Held'
  BY DEF HeldIn, MpdusIn, Held
<1>2. Delivers(Held, recip.up, Held', recip'.up)
  BY <1>1
<1>3. PICK got \in SUBSET (Mpdus \ Held) : \E out \in SUBSET (Held \cup got) :
        /\ \A n \in got, m \in ToSet(recip.up) : m < n
        /\ \A m \in out, n \in (Held \cup got) \ out : m < n
        /\ Held' = (Held \cup got) \ out
        /\ AddsInOrder(recip.up, out, recip'.up)
  BY <1>2 DEF Delivers
<1>4. PICK out \in SUBSET (Held \cup got) :
        /\ \A n \in got, m \in ToSet(recip.up) : m < n
        /\ \A m \in out, n \in (Held \cup got) \ out : m < n
        /\ Held' = (Held \cup got) \ out
        /\ AddsInOrder(recip.up, out, recip'.up)
  BY <1>3
<1>5. \E order \in [1 .. Delivery!Cardinality(out) -> out] :
        /\ \A i, j \in DOMAIN order : i < j => order[i] < order[j]
        /\ recip'.up = recip.up \o order
  BY <1>4, SameOperators DEF AddsInOrder
<1>6. \A n \in got, m \in Delivery!ToSet(recip.up) : m < n
  BY <1>4, SameOperators
<1>. QED  BY <1>4, <1>5, <1>6, Zenon DEF Delivery!Deliver

\* For every window, sequence number space, number of links and number of MPDUs,
\* whatever is lost, delayed or discarded, each step of the agreement stores some
\* MPDUs and passes some up (NotifyReceivedMpdu, NotifyReceivedBar) as Deliver of
\* OrderedDelivery does, or leaves alone what the recipient has: MPDUs leave the
\* recipient by their place in the queue, none twice.  In particular no two MPDUs
\* the recipient got share a number, although a CTS timeout gives numbers back
\* (ReleaseSequenceNumbers).  That needs one link for an MPDU at a time
\* (NMaxInflights, 1 by default) or no RTS: with RTS on two links, the CTS timeout
\* of one may give back the number of an MPDU that the other waits to send.
THEOREM OrderedDeliveryRefinement ==
  ASSUME MaxInflights = 1 \/ ~UseRts
  PROVE  Spec => DeliveryInOrder
<1>. DEFINE InOrderNow == InOrderOf(orig, recip, exch)
<1>1. OneLinkOrNoRts
  BY DEF OneLinkOrNoRts
<1>2. Init => InOrderNow /\ Delivery!Init
  BY InitInOrder DEF Delivery!Init
<1>3. IInv /\ InOrderNow /\ [Next]_vars => InOrderNow' /\ [Delivery!Deliver]_<<Held, recip.up>>
  <2>. SUFFICES ASSUME IInv, InOrderNow, [Next]_vars
                PROVE  InOrderNow' /\ [Delivery!Deliver]_<<Held, recip.up>>
    OBVIOUS
  <2>1. InOrderStep
    BY <1>1, StepInOrder
  <2>2. Delivery!Deliver \/ (Held' = Held /\ recip'.up = recip.up)
    BY <2>1, DeliversIsDeliver DEF InOrderStep, HeldIn, MpdusIn, Held
  <2>. QED  BY <2>1, <2>2 DEF InOrderStep
<1>. HIDE DEF InOrderNow
<1>. QED  BY <1>2, <1>3, IInvariant, PTL DEF Spec, DeliveryInOrder, Delivery!Spec
----------------------------------------------------------------------------
(***************************************************************************)
(* Block acks on their way.                                                *)
(***************************************************************************)
\* The scoreboard, and the bitmap of every response on its way, report MPDUs
\* the recipient got.
TruthfulOf(r, E, sq) ==
  /\ Truthful(r, GotSeqs(r, sq))
  /\ \A l \in Links : E[l].phase = "RESP" => Reports(E[l].blockAck) \subseteq GotSeqs(r, sq)

\* A response on its way was on its way before, or is made from the scoreboard.
Responses(E, F, r) ==
  \A l \in Links : F[l].phase = "RESP" => F[l] = E[l] \/ F[l].blockAck = r.score

LEMMA OtherResponses ==
  ASSUME IInv, NEW l \in Links, NEW e, exch' = [exch EXCEPT ![l] = e], e.phase # "RESP"
  PROVE  Responses(exch, exch', recip)
BY IInvFields DEF Responses

LEMMA StartResponses ==
  ASSUME IInv, NEW l \in Links, StartStep(l)
  PROVE  Responses(exch, exch', recip) /\ recip' = recip
<1>1. CASE SendBar(l)
  <2>1. PICK b, e : b = InitWindow(orig'.win.start) /\ e = [OnAir("BAR", <<>>) EXCEPT !.blockAck = b]
    OBVIOUS
  <2>2. e.phase # "RESP" /\ exch' = [exch EXCEPT ![l] = e] /\ recip' = recip
    BY <1>1, <2>1 DEF SendBar, OnAir, Idle
  <2>. QED  BY <2>2, OtherResponses
<1>2. CASE StartData(l)
  <2>1. \E kind, psdu : \/ exch' = [exch EXCEPT ![l] = [OnAir(kind, psdu) EXCEPT !.phase = "RTS", !.todo = <<>>]]
                        \/ exch' = [exch EXCEPT ![l] = OnAir(kind, psdu)]
    BY <1>2 DEF StartData
  <2>2. \A kind, psdu : /\ OnAir(kind, psdu).phase # "RESP"
                        /\ [OnAir(kind, psdu) EXCEPT !.phase = "RTS", !.todo = <<>>].phase # "RESP"
    BY DEF OnAir, Idle
  <2>3. PICK e : exch' = [exch EXCEPT ![l] = e] /\ e.phase # "RESP"
    BY <2>1, <2>2
  <2>. QED  BY <1>2, <2>3, OtherResponses DEF StartData
<1>3. CASE StartNothing(l)
  BY <1>3 DEF StartNothing, Responses
<1>. QED  BY <1>1, <1>2, <1>3 DEF StartStep

LEMMA ExchangeResponses ==
  ASSUME IInv, NEW l \in Links, ExchangeStep(l)
  PROVE  /\ Responses(exch, exch', recip)
         /\ recip' = recip \/ ReceiveMpdu(l) \/ ReceiveBar(l)
<1>1. PICK e \in Exchanges(K) : e = exch[l]
  BY ExchangeOf
<1>2. Idle.phase # "RESP" /\ \A kind, psdu : OnAir(kind, psdu).phase # "RESP"
  BY DEF OnAir, Idle
<1>3. CASE GotCts(l)
  <2>1. PICK f : f = OnAir(e.kind, e.psdu)
    OBVIOUS
  <2>2. exch' = [exch EXCEPT ![l] = f] /\ recip' = recip
    BY <1>1, <1>3, <2>1 DEF GotCts
  <2>3. f.phase # "RESP"
    BY <1>2, <2>1
  <2>. QED  BY <2>2, <2>3, OtherResponses
<1>4. CASE CtsTimeout(l) \/ GotResponse(l) \/ ResponseTimeout(l) \/ NoResponse(l)
  <2>1. exch' = [exch EXCEPT ![l] = Idle] /\ recip' = recip
    BY <1>4 DEF CtsTimeout, GotResponse, ResponseTimeout, NoResponse
  <2>. QED  BY <1>2, <2>1, OtherResponses
<1>5. ASSUME OnAirOnly(l), NEW f, f.phase = e.phase, exch' = [exch EXCEPT ![l] = f]
      PROVE  Responses(exch, exch', recip)
  <2>1. f.phase # "RESP"
    BY <1>1, <1>5 DEF OnAirOnly
  <2>. QED  BY <1>5, <2>1, OtherResponses
<1>6. CASE ReceiveMpdu(l)
  <2>1. PICK f : f = [e EXCEPT !.todo = Tail(e.todo), !.got = TRUE]
    OBVIOUS
  <2>2. f.phase = e.phase
    BY <2>1, ExchangeFields
  <2>3. exch' = [exch EXCEPT ![l] = f] /\ OnAirOnly(l)
    BY <1>1, <1>6, <2>1, IInvFields DEF ReceiveMpdu
  <2>. QED  BY <1>5, <1>6, <2>2, <2>3
<1>7. CASE LoseMpdu(l)
  <2>1. PICK f : f = [e EXCEPT !.todo = Tail(e.todo)]
    OBVIOUS
  <2>2. f.phase = e.phase
    BY <2>1, ExchangeFields
  <2>3. exch' = [exch EXCEPT ![l] = f] /\ OnAirOnly(l) /\ recip' = recip
    BY <1>1, <1>7, <2>1, IInvFields DEF LoseMpdu
  <2>. QED  BY <1>5, <2>2, <2>3
<1>8. CASE ReceiveBar(l)
  <2>1. PICK f : f = [e EXCEPT !.got = TRUE]
    OBVIOUS
  <2>2. f.phase = e.phase
    BY <2>1, ExchangeFields
  <2>3. exch' = [exch EXCEPT ![l] = f] /\ OnAirOnly(l)
    BY <1>1, <1>8, <2>1, IInvFields DEF ReceiveBar
  <2>. QED  BY <1>5, <1>8, <2>2, <2>3
<1>9. CASE Respond(l)
  <2>1. PICK f : f = [e EXCEPT !.phase = "RESP", !.blockAck = FillBlockAckBitmap(recip)]
    OBVIOUS
  <2>2. f.blockAck = recip.score
    BY <2>1 DEF Exchanges, FillBlockAckBitmap
  <2>3. exch' = [exch EXCEPT ![l] = f] /\ recip' = recip
    BY <1>1, <1>9, <2>1, IInvFields DEF Respond
  <2>. QED  BY <2>2, <2>3, IInvFields DEF Responses
<1>. QED  BY <1>3, <1>4, <1>6, <1>7, <1>8, <1>9 DEF ExchangeStep, GotCts

\* Every other step leaves responses and the recipient alone.
LEMMA StepResponses ==
  ASSUME IInv, [Next]_vars
  PROVE  /\ Responses(exch, exch', recip)
         /\ recip' = recip \/ \E l \in Links : ReceiveMpdu(l) \/ ReceiveBar(l)
<1>1. CASE \/ Enqueue \/ LifetimeOver \/ WipeExpired \/ FireExpired \/ RepeatedAddBaResponse
          \/ UNCHANGED vars
  <2>1. exch' = exch /\ recip' = recip
    BY <1>1 DEF Enqueue, LifetimeOver, WipeExpired, FireExpired, RepeatedAddBaResponse, vars
  <2>. QED  BY <2>1 DEF Responses
<1>2. ASSUME NEW l \in Links, StartStep(l) \/ ExchangeStep(l)
      PROVE  /\ Responses(exch, exch', recip)
             /\ recip' = recip \/ ReceiveMpdu(l) \/ ReceiveBar(l)
  BY <1>2, StartResponses, ExchangeResponses
<1>. QED  BY <1>1, <1>2 DEF Next

LEMMA TruthfulMore ==
  ASSUME NEW r, NEW G, Truthful(r, G), NEW H, G \subseteq H
  PROVE  Truthful(r, H)
BY DEF Truthful

\* The scoreboard of the recipient after a step.
LEMMA ScoreboardStep ==
  ASSUME IInv, InOrderOf(orig, recip, exch), NEW G, Truthful(recip, G), NEW l \in Links,
         GotSeqs(recip, orig.seq) \subseteq G, G = GotSeqs(recip', orig.seq),
         ReceiveMpdu(l) \/ ReceiveBar(l)
  PROVE  Truthful(recip', G)
<1>1. PICK e \in Exchanges(K) : e = exch[l]
  BY ExchangeOf
<1>2. /\ orig.numbered \in SUBSET Mpdus /\ Rising(orig.seq, orig.numbered)
      /\ HeldIn(recip) \cup ToSet(recip.up) \cup InAir(exch) \subseteq orig.numbered
      /\ Ordered(recip, orig.seq) /\ recip \in Recipients
  BY IInvFields, NumberedRising, LiveIsNumbered DEF O, InOrderOf
<1>3. BufferedSeqs(recip) \subseteq G
  BY <1>2 DEF BufferedSeqs, GotSeqs, Ordered, HeldIn, MpdusIn
<1>4. CASE ReceiveMpdu(l)
  <2>1. e.todo \in Seq(K) /\ e.todo # <<>>
    BY <1>1, <1>4, ExchangeFields DEF ReceiveMpdu
  <2>2. PICK n : n = Head(e.todo)
    OBVIOUS
  <2>3. n \in ToSet(e.todo)
    BY <2>1, <2>2, HeadOfTodo
  <2>4. n \in orig.numbered
    BY <1>1, <1>2, <2>3 DEF InAir
  <2>5. recip' = NotifyReceivedMpdu(recip, orig.seq[n], n)
    BY <1>1, <1>4, <2>2 DEF ReceiveMpdu
  <2>6. Pos(recip.start) <= Pos(orig.seq[n]) => orig.seq[n] \in G
    BY <1>2, <2>4, <2>5, ReceivedMpduDelivers
  <2>7. n \in Mpdus /\ orig.seq[n] \in SentSeqs
    BY <1>2, <2>4 DEF Rising
  <2>. QED  BY <1>2, <1>3, <2>5, <2>6, <2>7, ReceivedMpduTruthful
<1>5. CASE ReceiveBar(l)
  <2>1. e.blockAck.start \in StartSeqs
    BY ExchangeFields DEF Bitmaps
  <2>2. recip' = NotifyReceivedBar(recip, e.blockAck.start)
    BY <1>1, <1>5 DEF ReceiveBar
  <2>. QED  BY <1>2, <1>3, <2>1, <2>2, ReceivedBarTruthful
<1>. QED  BY <1>4, <1>5

LEMMA TruthfulStep ==
  ASSUME IInv, InOrderOf(orig, recip, exch), TruthfulOf(recip, exch, orig.seq), [Next]_vars, InOrderStep
  PROVE  TruthfulOf(recip', exch', orig'.seq)
<1>1. PICK G, H : G = GotSeqs(recip, orig.seq) /\ H = GotSeqs(recip', orig'.seq)
  OBVIOUS
<1>2. /\ HeldIn(recip) \cup ToSet(recip.up) \subseteq orig.numbered
      /\ HeldIn(recip) \cup ToSet(recip.up) \subseteq HeldIn(recip') \cup ToSet(recip'.up)
      /\ \A n \in orig.numbered : orig'.seq[n] = orig.seq[n]
  BY LiveIsNumbered DEF InOrderStep
<1>3. G \subseteq H
  BY <1>1, <1>2 DEF GotSeqs
<1>4. /\ Truthful(recip, G)
      /\ \A l \in Links : exch[l].phase = "RESP" => Reports(exch[l].blockAck) \subseteq G
  BY <1>1 DEF TruthfulOf
<1>5. Truthful(recip, H)
  BY <1>3, <1>4, TruthfulMore
<1>6. Truthful(recip', H)
  <2>1. CASE recip' = recip
    BY <1>5, <2>1
  <2>2. ASSUME NEW l \in Links, ReceiveMpdu(l) \/ ReceiveBar(l) PROVE Truthful(recip', H)
    <3>1. orig' = orig
      BY <2>2 DEF ReceiveMpdu, ReceiveBar
    <3>2. H = GotSeqs(recip', orig.seq)
      BY <1>1, <3>1
    <3>. QED  BY <1>1, <1>3, <1>5, <2>2, <3>2, ScoreboardStep
  <2>. QED  BY <2>1, <2>2, StepResponses
<1>7. ASSUME NEW l \in Links, exch'[l].phase = "RESP" PROVE Reports(exch'[l].blockAck) \subseteq H
  <2>1. CASE exch'[l] = exch[l]
    BY <1>3, <1>4, <1>7, <2>1
  <2>2. CASE exch'[l].blockAck = recip.score
    BY <1>5, <2>2 DEF Truthful
  <2>. QED  BY <1>7, <2>1, <2>2, StepResponses DEF Responses
<1>. QED  BY <1>1, <1>6, <1>7 DEF TruthfulOf

LEMMA InitTruthful ==
  ASSUME Init
  PROVE  TruthfulOf(recip, exch, orig.seq)
<1>1. /\ recip.score = InitWindow(StartSeq) /\ recip.start = StartSeq
      /\ \A l \in Links : exch[l].phase = "IDLE"
  BY DEF Init, NewRecipientAgreement, Idle
<1>2. recip.score.start = StartSeq /\ Reports(recip.score) = {}
  BY <1>1 DEF InitWindow, Reports
<1>3. \A s \in StartSeqs : Pos(s) \in Int /\ Pos(StartSeq) \in Int
  BY PosDistance, StartSeqIsStart
<1>. QED  BY <1>1, <1>2, <1>3 DEF TruthfulOf, Truthful

\* The number a block ack reports is that of one MPDU only.
LEMMA TruthfulImplies ==
  ASSUME IInv, InOrderOf(orig, recip, exch), TruthfulOf(recip, exch, orig.seq)
  PROVE  BlockAckIsTrue
<1>. SUFFICES ASSUME NEW l \in Links, exch[l].phase = "RESP", NEW n \in orig.numbered,
                     IsPacketReceived(exch[l].blockAck, orig.seq[n])
              PROVE  n \in Held \cup ToSet(recip.up)
  BY DEF BlockAckIsTrue
<1>1. PICK e \in Exchanges(K) : e = exch[l]
  BY ExchangeOf
<1>2. /\ orig.numbered \in SUBSET Mpdus /\ Rising(orig.seq, orig.numbered)
      /\ HeldIn(recip) \cup ToSet(recip.up) \subseteq orig.numbered
  BY IInvFields, NumberedRising, LiveIsNumbered DEF O
<1>3. e.blockAck \in Windows /\ orig.seq[n] \in Seqs
  BY <1>2, ExchangeFields, SentIsStart DEF Bitmaps, Rising
<1>4. orig.seq[n] \in GotSeqs(recip, orig.seq)
  BY <1>1, <1>3, ReportedNumber DEF TruthfulOf
<1>5. PICK m \in HeldIn(recip) \cup ToSet(recip.up) : orig.seq[m] = orig.seq[n]
  BY <1>4 DEF GotSeqs
<1>6. /\ m \in orig.numbered /\ m \in Int /\ n \in Int /\ Pos(orig.seq[n]) \in Int
      /\ Pos(orig.seq[m]) = Pos(orig.seq[n])
  BY <1>2, <1>5, SentIsStart DEF Mpdus, Rising
<1>7. ~(m < n) /\ ~(n < m)
  BY <1>2, <1>6 DEF Rising
<1>8. m = n
  BY <1>6, <1>7
<1>9. Held = HeldIn(recip)
  BY DEF Held, HeldIn, MpdusIn
<1>. QED  BY <1>5, <1>8, <1>9

\* For every window, sequence number space, number of links and number of MPDUs,
\* a block ack reports only MPDUs that the recipient passed up or holds, whatever
\* is lost, discarded or given its number back: the bitmap is read from the
\* scoreboard (FillBlockAckBitmap), which MPDUs and block ack requests move
\* without the reordering buffer (UpdateScoreboard, NotifyReceivedBar).  The
\* hypothesis is that of OrderedDeliveryRefinement.
THEOREM BlockAckTruthful ==
  ASSUME MaxInflights = 1 \/ ~UseRts
  PROVE  Spec => []BlockAckIsTrue
<1>. DEFINE Inv == InOrderOf(orig, recip, exch) /\ TruthfulOf(recip, exch, orig.seq)
<1>1. OneLinkOrNoRts
  BY DEF OneLinkOrNoRts
<1>2. Init => Inv
  BY InitInOrder, InitTruthful
<1>3. IInv /\ Inv /\ [Next]_vars => Inv'
  <2>. SUFFICES ASSUME IInv, Inv, [Next]_vars PROVE Inv'
    OBVIOUS
  <2>1. InOrderStep
    BY <1>1, StepInOrder
  <2>2. TruthfulOf(recip', exch', orig'.seq)
    BY <2>1, TruthfulStep
  <2>. QED  BY <2>1, <2>2 DEF InOrderStep
<1>4. IInv /\ Inv => BlockAckIsTrue
  BY TruthfulImplies
<1>. HIDE DEF Inv
<1>. QED  BY <1>2, <1>3, <1>4, IInvariant, PTL DEF Spec
=============================================================================
