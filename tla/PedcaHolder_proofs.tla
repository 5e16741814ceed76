------------------------- MODULE PedcaHolder_proofs -------------------------
(***************************************************************************)
(* Who holds the channel of a link, proved for every device: the frame     *)
(* exchange manager (phase, m_edca) and the EDCAFs (access status, start   *)
(* of the TXOP, pending CTS-to-self) agree on it, and no device with an    *)
(* MPDU to send is left without a request for a channel.  With the same    *)
(* invariant, the rounds of P-EDCA: each EDCAF implements PedcaRounds, and *)
(* a round that ends leaves nothing behind.                                *)
(***************************************************************************)
EXTENDS PedcaDevice_proofs

----------------------------------------------------------------------------
(***************************************************************************)
(* The inductive invariant of link l.  The holder has requested the        *)
(* channel and its TXOP has started, with any attributes.  With            *)
(* PifsRecovery no EDCAF backs off within its TXOP, so that only the       *)
(* holder is granted access and only the holder has a TXOP.  A holder has  *)
(* no CTS-to-self pending unless it may be in a TXOP that it continued     *)
(* without being granted access, where ProactiveBackoff reaches it.        *)
(***************************************************************************)
HolderUsesChannel(l) ==
  \A a \in ACs : /\ Holds(l, a) => ent[l][a].access # "NOT_REQUESTED"
                 /\ phase[l] # "idle" /\ edca[l] = a => ent[l][a].txop # NoTxop

OnlyHolderUsesChannel(l) ==
  /\ backingOff[l] = None
  /\ \A a \in ACs : /\ ent[l][a].access = "GRANTED" <=> Holds(l, a)
                    /\ ent[l][a].txop # NoTxop => phase[l] # "idle" /\ edca[l] = a

HolderOwesNoCts(l) == \A a \in ACs : Holds(l, a) => ~ent[l][a].pedcaCtsPending

HolderOK(l) ==
  /\ HolderUsesChannel(l)
  /\ PifsRecoveryOn => OnlyHolderUsesChannel(l)
  /\ PifsRecoveryOn \/ ~ProactiveOn => HolderOwesNoCts(l)

HolderInv == \A l \in Links : HolderOK(l)

----------------------------------------------------------------------------
(***************************************************************************)
(* What the operations of QosTxop do to the access status and the TXOP.    *)
(***************************************************************************)
\* QosTxop::GenerateBackoff leaves both alone.
LEMMA GenerateBackoffEffect ==
  ASSUME NEW l \in Links, NEW a \in ACs, NEW e \in LinkEntity
  PROVE  /\ GenerateBackoff(l, a, e).access = e.access
         /\ GenerateBackoff(l, a, e).txop = e.txop
<1>1. CASE ~IsUhrVo(l, a)
  BY <1>1 DEF GenerateBackoff, PedcaCapable
<1>2. CASE IsUhrVo(l, a) /\ NotPreferred(l)
  BY <1>2 DEF GenerateBackoff, PedcaCapable, LinkEntity
<1>3. CASE PedcaCapable(l, a)
  <2>1. GenerateBackoff(l, a, e) = PedcaBackoff(e)
    BY <1>3 DEF GenerateBackoff, PedcaCapable
  <2>2. PedcaBackoff(e).access = e.access /\ PedcaBackoff(e).txop = e.txop
    BY DEF PedcaBackoff, ResetPedcaCounters, GenerateUhrVoBackoff, LinkEntity
  <2>. QED  BY <2>1, <2>2
<1>. QED  BY <1>1, <1>2, <1>3 DEF PedcaCapable

\* Txop::UpdateFailedCw and Txop::ResetCw are about the window only.
LEMMA CwEffect ==
  ASSUME NEW a \in ACs, NEW e \in LinkEntity
  PROVE  /\ UpdateFailedCw(a, e).access = e.access
         /\ UpdateFailedCw(a, e).txop = e.txop
         /\ UpdateFailedCw(a, e).pedcaCtsPending = e.pedcaCtsPending
         /\ ResetCw(a, e).access = e.access
         /\ ResetCw(a, e).txop = e.txop
         /\ ResetCw(a, e).pedcaCtsPending = e.pedcaCtsPending
         /\ ResetBackoff(a, e).access = "NOT_REQUESTED"
         /\ ResetBackoff(a, e).txop = e.txop
BY DEF UpdateFailedCw, ResetCw, ResetBackoff, LinkEntity

\* QosTxop::NotifyChannelReleased ends the TXOP and the use of the channel.
LEMMA ReleasesEffect ==
  ASSUME NEW l \in Links, NEW a \in ACs, NEW e \in Consistent(l, a),
         NEW elapsed \in BOOLEAN, NEW q
  PROVE  /\ Releases(l, a, e, elapsed, q).access = "NOT_REQUESTED"
         /\ Releases(l, a, e, elapsed, q).txop = NoTxop
<1> DEFINE b == BacksOffOnRelease(e, elapsed, q > 0 /\ BackoffOnNoTx)
           f == IF b THEN GenerateBackoff(l, a, e) ELSE e
<1>1. f \in LinkEntity
  BY GenerateBackoffConsistent DEF Consistent
<1>2. Releases(l, a, e, elapsed, q) = [f EXCEPT !.txop = NoTxop, !.access = "NOT_REQUESTED"]
  BY DEF Releases, Released
<1> HIDE DEF f
<1>. QED  BY <1>1, <1>2 DEF LinkEntity

\* Txop::NotifyChannelReleased leaves the TXOP as it is.
LEMMA BackoffInTxopEffect ==
  ASSUME NEW l \in Links, NEW a \in ACs, NEW e \in LinkEntity
  PROVE  /\ BackoffInTxop(l, a, e).access = "NOT_REQUESTED"
         /\ BackoffInTxop(l, a, e).txop = e.txop
<1> DEFINE f == [e EXCEPT !.access = "NOT_REQUESTED"]
<1>1. f \in LinkEntity /\ f.access = "NOT_REQUESTED" /\ f.txop = e.txop
  BY DEF LinkEntity, AccessStatus
<1>2. BackoffInTxop(l, a, e) = GenerateBackoff(l, a, f)
  BY DEF BackoffInTxop
<1> HIDE DEF f
<1>. QED  BY <1>1, <1>2, GenerateBackoffEffect

\* FrameExchangeManager::NotifyInternalCollision.
\* A release when no time is left to the TXOP.
LEMMA ReleasesElapsed ==
  ASSUME NEW l \in Links, NEW a \in ACs, NEW e \in Consistent(l, a), NEW q
  PROVE  /\ Releases(l, a, e, TRUE, q).access = "NOT_REQUESTED"
         /\ Releases(l, a, e, TRUE, q).txop = NoTxop
<1>1. PICK t \in BOOLEAN : t = TRUE
  OBVIOUS
<1>. QED  BY <1>1, ReleasesEffect

LEMMA CollidedEffect ==
  ASSUME IInv, NEW l \in Links, NEW b \in ACs
  PROVE  Collided(l, b).access = "NOT_REQUESTED" /\ Collided(l, b).txop = ent[l][b].txop
<1> DEFINE e == ent[l][b]
           f == UpdateFailedCw(b, e)
<1>1. e \in Consistent(l, b)
  BY DEF IInv, EntitiesConsistent
<1>2. f \in LinkEntity /\ f.txop = e.txop
  BY <1>1, UpdateFailedCwConsistent, CwEffect DEF Consistent
<1>3. Collided(l, b) = BackoffInTxop(l, b, f)
  BY DEF Collided
<1> HIDE DEF f
<1>. QED  BY <1>2, <1>3, BackoffInTxopEffect

----------------------------------------------------------------------------
(***************************************************************************)
(* Steps of one link.                                                      *)
(***************************************************************************)
\* A link on which nothing happens.
LEMMA IdleLink ==
  ASSUME NEW l \in Links, HolderOK(l),
         \A a \in ACs : ent'[l][a] = ent[l][a],
         phase'[l] = phase[l], edca'[l] = edca[l], backingOff'[l] = backingOff[l]
  PROVE  HolderOK(l)'
BY DEF HolderOK, HolderUsesChannel, OnlyHolderUsesChannel, HolderOwesNoCts, Holds

\* A step on link l leaves the other links alone.
OnlyLink(l) ==
  \A k \in Links \ {l} :
    /\ \A a \in ACs : ent'[k][a] = ent[k][a]
    /\ phase'[k] = phase[k] /\ edca'[k] = edca[k] /\ backingOff'[k] = backingOff[k]

\* Then its own part of the invariant is all there is to show.
LEMMA OneLinkStep ==
  ASSUME HolderInv, NEW l \in Links, OnlyLink(l), HolderOK(l)'
  PROVE  HolderInv'
BY IdleLink DEF HolderInv, OnlyLink

\* The EDCAFs of link l after a grant to a that leaves it with entity e.
LEMMA SettleEffect ==
  ASSUME IInv, NEW l \in Links, NEW a \in ACs, NEW e, NEW L, Settle(l, a, e, L)
  PROVE  /\ ent'[l][a] = e
         /\ \A b \in ACs \ {a} :
              IF b \in L
              THEN /\ ent'[l][b].access = "NOT_REQUESTED"
                   /\ ent'[l][b].txop = ent[l][b].txop
              ELSE IF phase[l] = "pifs" /\ b = edca[l]
              THEN /\ ent'[l][b].access = "NOT_REQUESTED"
                   /\ ent'[l][b].txop = NoTxop
              ELSE ent'[l][b] = ent[l][b]
         /\ \A k \in Links \ {l} : ent'[k] = ent[k]
<1> DEFINE F(b) == CASE b = a -> e
                     [] b # a /\ b \in L -> Collided(l, b)
                     [] b # a /\ b \notin L /\ b \in Preempted(l, a) ->
                          Releases(l, b, ent[l][b], TRUE, queue[b])
                     [] OTHER -> ent[l][b]
<1>1. ent' = [ent EXCEPT ![l] = [b \in ACs |-> F(b)]]
  BY DEF Settle
<1>2. ent \in [Links -> [ACs -> LinkEntity]]
  BY DEF IInv, TypeOK
<1>3. /\ \A b \in ACs : ent'[l][b] = F(b)
      /\ \A k \in Links \ {l} : ent'[k] = ent[k]
  <2> HIDE DEF F
  <2>. QED  BY <1>1, <1>2
<1>4. ASSUME NEW b \in ACs \ {a}
      PROVE  /\ b \in L => F(b) = Collided(l, b)
             /\ b \notin L /\ phase[l] = "pifs" /\ b = edca[l]
                  => F(b) = Releases(l, b, ent[l][b], TRUE, queue[b])
             /\ b \notin L /\ ~(phase[l] = "pifs" /\ b = edca[l]) => F(b) = ent[l][b]
  BY DEF Preempted
<1>5. F(a) = e
  OBVIOUS
<1> HIDE DEF F
<1>6. ASSUME NEW b \in ACs
      PROVE  /\ Collided(l, b).access = "NOT_REQUESTED"
             /\ Collided(l, b).txop = ent[l][b].txop
             /\ Releases(l, b, ent[l][b], TRUE, queue[b]).access = "NOT_REQUESTED"
             /\ Releases(l, b, ent[l][b], TRUE, queue[b]).txop = NoTxop
  <2>1. ent[l][b] \in Consistent(l, b) /\ TRUE \in BOOLEAN
    BY DEF IInv, EntitiesConsistent
  <2>2. Collided(l, b).access = "NOT_REQUESTED" /\ Collided(l, b).txop = ent[l][b].txop
    BY CollidedEffect, Zenon
  <2>3. /\ Releases(l, b, ent[l][b], TRUE, queue[b]).access = "NOT_REQUESTED"
        /\ Releases(l, b, ent[l][b], TRUE, queue[b]).txop = NoTxop
    BY <2>1, ReleasesElapsed
  <2>. QED  BY <2>2, <2>3
<1>7. ASSUME NEW b \in ACs \ {a}
      PROVE  /\ b \in L => ent'[l][b] = Collided(l, b)
             /\ b \notin L /\ phase[l] = "pifs" /\ b = edca[l]
                  => ent'[l][b] = Releases(l, b, ent[l][b], TRUE, queue[b])
             /\ b \notin L /\ ~(phase[l] = "pifs" /\ b = edca[l]) => ent'[l][b] = ent[l][b]
  BY <1>3, <1>4
<1>8. ASSUME NEW b \in ACs \ {a}
      PROVE  IF b \in L
             THEN /\ ent'[l][b].access = "NOT_REQUESTED"
                  /\ ent'[l][b].txop = ent[l][b].txop
             ELSE IF phase[l] = "pifs" /\ b = edca[l]
             THEN /\ ent'[l][b].access = "NOT_REQUESTED"
                  /\ ent'[l][b].txop = NoTxop
             ELSE ent'[l][b] = ent[l][b]
  <2>1. CASE b \in L
    BY <1>6, <1>7, <2>1
  <2>2. CASE b \notin L /\ phase[l] = "pifs" /\ b = edca[l]
    <3>1. PICK r : r = Releases(l, b, ent[l][b], TRUE, queue[b])
      OBVIOUS
    <3>2. r.access = "NOT_REQUESTED" /\ r.txop = NoTxop
      BY <1>6, <3>1, b \in ACs, Zenon
    <3>3. ent'[l][b] = r
      BY <1>7, <2>2, <3>1, Zenon
    <3>. QED  BY <2>2, <3>2, <3>3, Zenon
  <2>3. CASE b \notin L /\ ~(phase[l] = "pifs" /\ b = edca[l])
    BY <1>7, <2>3
  <2>. QED  BY <2>1, <2>2, <2>3
<1>. QED  BY <1>3, <1>5, <1>8

\* Who may call StartTransmission: an EDCAF that contends, and the holder after
\* a SIFS or a PIFS.
Starter(l, a) == \/ Contends(l, a)
                 \/ phase[l] \in {"sifs", "pifs"} /\ edca[l] = a

\* The EDCAFs that may collide with a.
MayCollide(l, a) == {b \in ACs \ {a} : Contends(l, b)}

\* After a grant to a no other EDCAF uses the channel.
LEMMA OthersStandBack ==
  ASSUME IInv, NEW l \in Links, NEW a \in ACs, NEW e, NEW L \in SUBSET MayCollide(l, a),
         Settle(l, a, e, L), Starter(l, a), OnlyHolderUsesChannel(l)
  PROVE  \A b \in ACs \ {a} : ent'[l][b].access # "GRANTED" /\ ent'[l][b].txop = NoTxop
<1> SUFFICES ASSUME NEW b \in ACs \ {a}
             PROVE  ent'[l][b].access # "GRANTED" /\ ent'[l][b].txop = NoTxop
  OBVIOUS
<1>1. IF b \in L
      THEN /\ ent'[l][b].access = "NOT_REQUESTED"
           /\ ent'[l][b].txop = ent[l][b].txop
      ELSE IF phase[l] = "pifs" /\ b = edca[l]
      THEN /\ ent'[l][b].access = "NOT_REQUESTED"
           /\ ent'[l][b].txop = NoTxop
      ELSE ent'[l][b] = ent[l][b]
  BY SettleEffect
<1>2. /\ ent[l][b].access = "GRANTED" <=> Holds(l, b)
      /\ ent[l][b].txop # NoTxop => phase[l] # "idle" /\ edca[l] = b
  BY DEF OnlyHolderUsesChannel
<1>3. phase[l] = "idle" \/ phase[l] = "pifs" \/ (phase[l] = "sifs" /\ edca[l] = a)
  BY DEF Starter, Contends
<1>4. CASE b \in L
  <2>1. Contends(l, b)
    BY <1>4 DEF MayCollide
  <2>2. ent[l][b].txop = NoTxop
    BY <1>2, <2>1 DEF Contends
  <2>. QED  BY <1>1, <1>4, <2>2
<1>5. CASE b \notin L /\ phase[l] = "pifs" /\ b = edca[l]
  BY <1>1, <1>5
<1>6. CASE b \notin L /\ ~(phase[l] = "pifs" /\ b = edca[l])
  <2>1. ent'[l][b] = ent[l][b]
    BY <1>1, <1>6
  <2>2. ~Holds(l, b) /\ ~(phase[l] # "idle" /\ edca[l] = b)
    BY <1>3, <1>6 DEF Holds
  <2>. QED  BY <1>2, <2>1, <2>2
<1>. QED  BY <1>4, <1>5, <1>6

\* StartTransmission goes on with entity e of the new holder ...
LEMMA ProceedHolder ==
  ASSUME IInv, NEW l \in Links, HolderOK(l), NEW a \in ACs, NEW e, Starter(l, a),
         NEW L \in SUBSET MayCollide(l, a), NEW D, Proceed(l, a, e, L, D),
         e.txop # NoTxop, ~e.pedcaCtsPending, e.access # "NOT_REQUESTED",
         PifsRecoveryOn => e.access = "GRANTED",
         NEW ph \in {"cts", "frame", "cfend"}, phase' = [phase EXCEPT ![l] = ph],
         NEW c \in {backingOff[l], None}, backingOff' = [backingOff EXCEPT ![l] = c]
  PROVE  HolderOK(l)' /\ OnlyLink(l)
<1>1. Settle(l, a, e, L) /\ edca' = [edca EXCEPT ![l] = a]
  BY DEF Proceed
<1>2. /\ phase \in [Links -> Phases] /\ edca \in [Links -> ACs \cup {None}]
      /\ backingOff \in [Links -> ACs \cup {None}]
  BY DEF IInv, TypeOK
<1>3. ent'[l][a] = e /\ \A k \in Links \ {l} : ent'[k] = ent[k]
  BY <1>1, SettleEffect
<1>4. /\ phase'[l] = ph /\ edca'[l] = a /\ backingOff'[l] = c
      /\ \A k \in Links \ {l} : /\ phase'[k] = phase[k] /\ edca'[k] = edca[k]
                                /\ backingOff'[k] = backingOff[k]
  BY <1>1, <1>2
<1>5. OnlyLink(l)
  BY <1>3, <1>4 DEF OnlyLink
<1>6. \A b \in ACs : Holds(l, b)' <=> b = a
  BY <1>4 DEF Holds
<1>7. HolderUsesChannel(l)'
  BY <1>3, <1>4, <1>6 DEF HolderUsesChannel
<1>8. HolderOwesNoCts(l)'
  BY <1>3, <1>6 DEF HolderOwesNoCts
<1>9. ASSUME PifsRecoveryOn PROVE OnlyHolderUsesChannel(l)'
  <2>1. OnlyHolderUsesChannel(l)
    BY <1>9 DEF HolderOK
  <2>2. \A b \in ACs \ {a} : ent'[l][b].access # "GRANTED" /\ ent'[l][b].txop = NoTxop
    BY <1>1, <2>1, OthersStandBack
  <2>3. backingOff'[l] = None
    BY <1>4, <2>1 DEF OnlyHolderUsesChannel
  <2>. QED  BY <1>3, <1>4, <1>6, <1>9, <2>2, <2>3 DEF OnlyHolderUsesChannel
<1>. QED  BY <1>5, <1>7, <1>8, <1>9 DEF HolderOK

\* ... or gives the channel back.
LEMMA GiveUpHolder ==
  ASSUME IInv, NEW l \in Links, HolderOK(l), NEW a \in ACs, NEW elapsed \in BOOLEAN,
         Starter(l, a), GiveUp(l, a, ent[l][a], elapsed),
         NEW c \in {backingOff[l], None}, backingOff' = [backingOff EXCEPT ![l] = c]
  PROVE  HolderOK(l)' /\ OnlyLink(l)
<1> DEFINE e == Releases(l, a, ent[l][a], elapsed, queue[a])
           L == {}
<1>1. /\ Settle(l, a, e, L) /\ edca' = [edca EXCEPT ![l] = None]
      /\ phase' = [phase EXCEPT ![l] = "idle"]
  BY DEF GiveUp
<1>2. /\ phase \in [Links -> Phases] /\ edca \in [Links -> ACs \cup {None}]
      /\ backingOff \in [Links -> ACs \cup {None}] /\ ent[l][a] \in Consistent(l, a)
  BY DEF IInv, TypeOK, EntitiesConsistent
<1>3. e.access = "NOT_REQUESTED" /\ e.txop = NoTxop
  BY <1>2, ReleasesEffect
<1>4. L \in SUBSET MayCollide(l, a)
  OBVIOUS
<1> HIDE DEF e, L
<1>5. ent'[l][a] = e /\ \A k \in Links \ {l} : ent'[k] = ent[k]
  BY <1>1, SettleEffect
<1>6. /\ phase'[l] = "idle" /\ edca'[l] = None /\ backingOff'[l] = c
      /\ \A k \in Links \ {l} : /\ phase'[k] = phase[k] /\ edca'[k] = edca[k]
                                /\ backingOff'[k] = backingOff[k]
  BY <1>1, <1>2
<1>7. OnlyLink(l)
  BY <1>5, <1>6 DEF OnlyLink
<1>8. HolderUsesChannel(l)' /\ HolderOwesNoCts(l)'
  BY <1>6 DEF HolderUsesChannel, HolderOwesNoCts, Holds
<1>9. ASSUME PifsRecoveryOn PROVE OnlyHolderUsesChannel(l)'
  <2>1. OnlyHolderUsesChannel(l)
    BY <1>9 DEF HolderOK
  <2>2. \A b \in ACs \ {a} : ent'[l][b].access # "GRANTED" /\ ent'[l][b].txop = NoTxop
    BY <1>1, <1>4, <2>1, OthersStandBack
  <2>3. backingOff'[l] = None
    BY <1>6, <2>1 DEF OnlyHolderUsesChannel
  <2>. QED  BY <1>3, <1>5, <1>6, <2>2, <2>3 DEF OnlyHolderUsesChannel, Holds
<1>. QED  BY <1>7, <1>8, <1>9 DEF HolderOK

\* m_edcaBackingOff of link l is cleared or left as it is.
LEMMA BackingOffCleared ==
  ASSUME IInv, NEW l \in Links, NEW a \in ACs, ClearBackingOff(l, a) \/ backingOff' = backingOff
  PROVE  \E c \in {backingOff[l], None} : backingOff' = [backingOff EXCEPT ![l] = c]
<1>1. backingOff \in [Links -> ACs \cup {None}]
  BY DEF IInv, TypeOK
<1>2. CASE backingOff' = backingOff
  <2>1. backingOff' = [backingOff EXCEPT ![l] = backingOff[l]]
    BY <1>1, <1>2
  <2>. QED  BY <2>1
<1>3. CASE ClearBackingOff(l, a)
  <2> DEFINE c == IF backingOff[l] = a THEN None ELSE backingOff[l]
  <2>1. backingOff' = [backingOff EXCEPT ![l] = c]
    BY <1>3 DEF ClearBackingOff
  <2>2. c \in {backingOff[l], None}
    OBVIOUS
  <2>. QED  BY <2>1, <2>2
<1>. QED  BY <1>2, <1>3

\* A TXOP that goes on is that of an EDCAF which asked for the channel, and with
\* PifsRecovery that of the holder.
LEMMA ContinuesAsHolder ==
  ASSUME IInv, NEW l \in Links, HolderOK(l), NEW a \in ACs, Starter(l, a),
         ~ent[l][a].pedcaCtsPending,
         NEW left \in TimeLeft(ent[l][a]), ~StartsNewTxop(l, a, left),
         NEW e, e = [ent[l][a] EXCEPT !.txop = left]
  PROVE  /\ e.txop # NoTxop /\ ~e.pedcaCtsPending /\ e.access # "NOT_REQUESTED"
         /\ PifsRecoveryOn => e.access = "GRANTED"
<1>1. ent[l][a] \in LinkEntity
  BY DEF IInv, TypeOK
<1>2. left \in Nat
  BY <1>1 DEF TimeLeft, LinkEntity, NoTxop
<1>3. /\ e.txop = left /\ e.pedcaCtsPending = ent[l][a].pedcaCtsPending
      /\ e.access = ent[l][a].access
  BY <1>1 DEF LinkEntity
<1>4. Contends(l, a) \/ Holds(l, a)
  BY DEF Starter, Holds
<1>5. ent[l][a].access # "NOT_REQUESTED"
  BY <1>4 DEF Contends, HolderOK, HolderUsesChannel
<1>6. ASSUME PifsRecoveryOn PROVE ent[l][a].access = "GRANTED"
  <2>1. ent[l][a].txop # NoTxop
    BY DEF StartsNewTxop
  <2>2. phase[l] # "idle" /\ edca[l] = a
    BY <1>6, <2>1 DEF HolderOK, OnlyHolderUsesChannel
  <2>3. Holds(l, a)
    BY <1>4, <2>2 DEF Contends
  <2>. QED  BY <1>6, <2>3 DEF HolderOK, OnlyHolderUsesChannel
<1>. QED  BY <1>2, <1>3, <1>5, <1>6 DEF NoTxop

\* QosFrameExchangeManager::StartTransmission.
LEMMA StartTransmissionHolder ==
  ASSUME IInv, NEW l \in Links, HolderOK(l), NEW a \in ACs, Starter(l, a),
         NEW L \in SUBSET MayCollide(l, a), NEW D, StartTransmission(l, a, L, D)
  PROVE  HolderOK(l)' /\ OnlyLink(l)
<1>0. ent[l][a] \in LinkEntity /\ TxopLimit[a] \in Nat
  BY EdcaParameterAssumption DEF IInv, TypeOK
<1>1. ClearBackingOff(l, a) \/ backingOff' = backingOff
  BY DEF StartTransmission, SendPedcaCts, StartTxop, ContinueTxop, SendCfEnd,
         NoFrameTransmitted, EndTxop
<1>2. PICK c \in {backingOff[l], None} : backingOff' = [backingOff EXCEPT ![l] = c]
  BY <1>1, BackingOffCleared
<1>3. CASE SendPedcaCts(l, a, L, D)
  <2> DEFINE e == [NotifyChannelAccessed(ent[l][a], 0) EXCEPT !.pedcaCtsPending = FALSE,
                                                              !.psrc            = @ + 1,
                                                              !.pedcaAfterCts   = TRUE]
  <2>1. Proceed(l, a, e, L, D) /\ phase' = [phase EXCEPT ![l] = "cts"]
    BY <1>3 DEF SendPedcaCts
  <2>2. e.txop = 0 /\ ~e.pedcaCtsPending /\ e.access = "GRANTED"
    BY <1>0 DEF NotifyChannelAccessed, LinkEntity
  <2> HIDE DEF e
  <2>3. e.txop # NoTxop
    BY <2>2 DEF NoTxop
  <2>. QED  BY <1>2, <2>1, <2>2, <2>3, ProceedHolder
<1>4. CASE StartTxop(l, a, L, D)
  <2> DEFINE e == NotifyChannelAccessed(ent[l][a], TxopLimit[a])
  <2>1. /\ Proceed(l, a, e, L, D) /\ phase' = [phase EXCEPT ![l] = "frame"]
        /\ ~ent[l][a].pedcaCtsPending
    BY <1>4 DEF StartTxop
  <2>2. e.txop = TxopLimit[a] /\ ~e.pedcaCtsPending /\ e.access = "GRANTED"
    BY <1>0, <2>1 DEF NotifyChannelAccessed, LinkEntity
  <2> HIDE DEF e
  <2>3. e.txop # NoTxop
    BY <1>0, <2>2 DEF NoTxop
  <2>. QED  BY <1>2, <2>1, <2>2, <2>3, ProceedHolder
<1>5. CASE ContinueTxop(l, a, L, D) \/ SendCfEnd(l, a, L, D)
  <2>1. PICK ph \in {"cts", "frame", "cfend"} : phase' = [phase EXCEPT ![l] = ph]
    BY <1>5 DEF ContinueTxop, SendCfEnd
  <2>2. PICK left \in TimeLeft(ent[l][a]) :
          /\ ~StartsNewTxop(l, a, left)
          /\ Proceed(l, a, [ent[l][a] EXCEPT !.txop = left], L, D)
    BY <1>5 DEF ContinueTxop, SendCfEnd
  <2> DEFINE e == [ent[l][a] EXCEPT !.txop = left]
  <2>3. e = [ent[l][a] EXCEPT !.txop = left] /\ Proceed(l, a, e, L, D)
    BY <2>2
  <2>4. ~ent[l][a].pedcaCtsPending
    BY <1>5 DEF ContinueTxop, SendCfEnd
  <2> HIDE DEF e
  <2>5. /\ e.txop # NoTxop /\ ~e.pedcaCtsPending /\ e.access # "NOT_REQUESTED"
        /\ PifsRecoveryOn => e.access = "GRANTED"
    BY <2>2, <2>3, <2>4, ContinuesAsHolder
  <2>. QED  BY <1>2, <2>1, <2>3, <2>5, ProceedHolder
<1>6. CASE NoFrameTransmitted(l, a) \/ EndTxop(l, a)
  <2>1. PICK elapsed \in BOOLEAN : GiveUp(l, a, ent[l][a], elapsed)
    BY <1>6 DEF NoFrameTransmitted, EndTxop
  <2>. QED  BY <1>2, <2>1, GiveUpHolder
<1>. QED  BY <1>3, <1>4, <1>5, <1>6 DEF StartTransmission

\* Who calls it: DoGrantDcfAccess, the end of a SIFS and PifsRecovery.
LEMMA StartsTransmission ==
  ASSUME IInv, NEW l \in Links,
         (\E a \in ACs : GrantAccess(l, a)) \/ SifsElapsed(l) \/ PifsRecovery(l)
  PROVE  \E a \in ACs : /\ Starter(l, a)
                        /\ \E L \in SUBSET MayCollide(l, a) : \E D :
                              StartTransmission(l, a, L, D)
<1>1. ASSUME NEW a \in ACs, GrantAccess(l, a)
      PROVE  Starter(l, a) /\ \E L \in SUBSET MayCollide(l, a) : \E D : StartTransmission(l, a, L, D)
  <2>1. PICK L \in SUBSET Losers(l, a) : \E D \in SUBSET L : StartTransmission(l, a, L, D)
    BY <1>1 DEF GrantAccess
  <2>2. Prio[a] \in Nat
    BY FemAssumption
  <2>3. L \in SUBSET MayCollide(l, a)
    BY <2>2 DEF Losers, MayCollide
  <2>. QED  BY <1>1, <2>1, <2>3 DEF GrantAccess, Starter
<1>2. CASE SifsElapsed(l) \/ PifsRecovery(l)
  <2>1. phase[l] \in {"sifs", "pifs"} /\ StartTransmission(l, edca[l], {}, {})
    BY <1>2 DEF SifsElapsed, PifsRecovery
  <2>2. edca[l] \in ACs
    BY <2>1 DEF IInv, HolderIsEdcaf
  <2>3. Starter(l, edca[l]) /\ {} \in SUBSET MayCollide(l, edca[l])
    BY <2>1 DEF Starter
  <2> DEFINE a == edca[l]
             L == {}
  <2>4. /\ a \in ACs /\ Starter(l, a) /\ L \in SUBSET MayCollide(l, a)
        /\ StartTransmission(l, a, L, L)
    BY <2>1, <2>2, <2>3
  <2> HIDE DEF a, L
  <2>. QED  BY <2>4
<1>. QED  BY <1>1, <1>2

----------------------------------------------------------------------------
(***************************************************************************)
(* The other ways in which a step changes who uses the channel of link l.  *)
(***************************************************************************)
\* m_edca, m_edcaBackingOff and what the exchange waits for stay as they are.
SameExchange(l) ==
  phase'[l] = phase[l] /\ edca'[l] = edca[l] /\ backingOff'[l] = backingOff[l]

\* EDCAFs request the channel or draw a backoff.
LEMMA ContentionStep ==
  ASSUME NEW l \in Links, HolderOK(l), SameExchange(l),
         \A b \in ACs :
           /\ ent'[l][b].txop = ent[l][b].txop
           /\ \/ ent'[l][b].access = ent[l][b].access
              \/ ent[l][b].access = "NOT_REQUESTED" /\ ent'[l][b].access = "REQUESTED"
           /\ \/ ent'[l][b].pedcaCtsPending = ent[l][b].pedcaCtsPending
              \/ ent[l][b].access = "NOT_REQUESTED"
              \/ ProactiveOn /\ ent[l][b].access # "GRANTED"
  PROVE  HolderOK(l)'
<1>1. \A b \in ACs : Holds(l, b)' <=> Holds(l, b)
  BY DEF Holds, SameExchange
<1>2. HolderUsesChannel(l) /\ HolderUsesChannel(l)'
  BY <1>1 DEF HolderOK, HolderUsesChannel, SameExchange
<1>3. ASSUME PifsRecoveryOn PROVE OnlyHolderUsesChannel(l) /\ OnlyHolderUsesChannel(l)'
  BY <1>1, <1>3 DEF HolderOK, OnlyHolderUsesChannel, SameExchange
<1>4. ASSUME PifsRecoveryOn \/ ~ProactiveOn PROVE HolderOwesNoCts(l)'
  <2> SUFFICES ASSUME NEW a \in ACs, Holds(l, a) PROVE ~ent'[l][a].pedcaCtsPending
    BY <1>1 DEF HolderOwesNoCts
  <2>1. ~ent[l][a].pedcaCtsPending
    BY <1>4 DEF HolderOK, HolderOwesNoCts
  <2>2. ent[l][a].access # "NOT_REQUESTED"
    BY <1>2 DEF HolderUsesChannel
  <2>3. ~(ProactiveOn /\ ent[l][a].access # "GRANTED")
    BY <1>3, <1>4 DEF OnlyHolderUsesChannel
  <2>. QED  BY <2>1, <2>2, <2>3
<1>. QED  BY <1>2, <1>3, <1>4 DEF HolderOK

\* The holder gives the channel back.
LEMMA ReleaseStep ==
  ASSUME NEW l \in Links, HolderOK(l), NEW a \in ACs, edca[l] = a,
         phase'[l] = "idle", backingOff'[l] = backingOff[l],
         ent'[l][a].access = "NOT_REQUESTED", ent'[l][a].txop = NoTxop,
         \A b \in ACs \ {a} :
           /\ ent'[l][b].txop = ent[l][b].txop
           /\ ent'[l][b].access \in {ent[l][b].access, "NOT_REQUESTED"}
  PROVE  HolderOK(l)'
<1>1. \A b \in ACs : ~Holds(l, b)'
  BY DEF Holds
<1>2. HolderUsesChannel(l)' /\ HolderOwesNoCts(l)'
  BY <1>1 DEF HolderUsesChannel, HolderOwesNoCts
<1>3. ASSUME PifsRecoveryOn PROVE OnlyHolderUsesChannel(l)'
  <2>1. OnlyHolderUsesChannel(l)
    BY <1>3 DEF HolderOK
  <2>2. ASSUME NEW b \in ACs PROVE ent'[l][b].access # "GRANTED" /\ ent'[l][b].txop = NoTxop
    <3>1. CASE b = a
      BY <3>1
    <3>2. CASE b # a
      BY <2>1, <3>2 DEF OnlyHolderUsesChannel, Holds
    <3>. QED  BY <3>1, <3>2
  <2>. QED  BY <1>1, <2>1, <2>2 DEF OnlyHolderUsesChannel
<1>. QED  BY <1>2, <1>3 DEF HolderOK

\* The holder goes on to wait for a SIFS or a PIFS.
LEMMA WaitStep ==
  ASSUME NEW l \in Links, HolderOK(l), NEW a \in ACs, Holds(l, a),
         phase'[l] \in {"sifs", "pifs"}, edca'[l] = a, backingOff'[l] = backingOff[l],
         ent'[l][a].access = ent[l][a].access, ent'[l][a].txop # NoTxop,
         ent'[l][a].pedcaCtsPending => ent[l][a].pedcaCtsPending,
         \A b \in ACs \ {a} : ent'[l][b] = ent[l][b]
  PROVE  HolderOK(l)'
<1>1. \A b \in ACs : (Holds(l, b) <=> b = a) /\ (Holds(l, b)' <=> b = a)
  BY DEF Holds
<1>2. HolderUsesChannel(l)'
  BY <1>1 DEF HolderOK, HolderUsesChannel
<1>3. PifsRecoveryOn \/ ~ProactiveOn => HolderOwesNoCts(l)'
  BY <1>1 DEF HolderOK, HolderOwesNoCts
<1>4. ASSUME PifsRecoveryOn PROVE OnlyHolderUsesChannel(l)'
  <2>1. OnlyHolderUsesChannel(l)
    BY <1>4 DEF HolderOK
  <2>2. ASSUME NEW b \in ACs
        PROVE  /\ ent'[l][b].access = "GRANTED" <=> Holds(l, b)'
               /\ ent'[l][b].txop # NoTxop => phase'[l] # "idle" /\ edca'[l] = b
    <3>1. CASE b = a
      BY <1>1, <2>1, <3>1 DEF OnlyHolderUsesChannel
    <3>2. CASE b # a
      BY <1>1, <2>1, <3>2 DEF OnlyHolderUsesChannel, Holds
    <3>. QED  BY <3>1, <3>2
  <2>. QED  BY <2>1, <2>2 DEF OnlyHolderUsesChannel
<1>. QED  BY <1>2, <1>3, <1>4 DEF HolderOK

\* The channel switches: every EDCAF has to request it again, also the holder
\* whose TXOP a failing PIFS recovery is about to end.
LEMMA SwitchStep ==
  ASSUME NEW l \in Links, HolderOK(l), NEW a, edca[l] = a, edca'[l] = a,
         backingOff'[l] = backingOff[l],
         \/ phase[l] = "idle" /\ phase'[l] = "idle"
         \/ phase[l] = "frame" /\ phase'[l] = "lost" /\ ent'[l][a].txop # NoTxop,
         \A b \in ACs : ent'[l][b].access = "NOT_REQUESTED",
         \A b \in ACs : phase'[l] = "idle" \/ b # a => ent'[l][b].txop = ent[l][b].txop
  PROVE  HolderOK(l)'
<1>1. \A b \in ACs : ~Holds(l, b)'
  BY DEF Holds
<1>2. HolderUsesChannel(l)' /\ HolderOwesNoCts(l)'
  BY <1>1 DEF HolderUsesChannel, HolderOwesNoCts
<1>3. ASSUME PifsRecoveryOn PROVE OnlyHolderUsesChannel(l)'
  BY <1>1, <1>3 DEF HolderOK, OnlyHolderUsesChannel
<1>. QED  BY <1>2, <1>3 DEF HolderOK

\* The EDCAFs of link l after an update of one entity.
LEMMA SetEntityEffect ==
  ASSUME IInv, NEW l \in Links, NEW a \in ACs, NEW e, SetEntity(l, a, e)
  PROVE  /\ ent'[l][a] = e
         /\ \A b \in ACs \ {a} : ent'[l][b] = ent[l][b]
         /\ \A k \in Links \ {l}, b \in ACs : ent'[k][b] = ent[k][b]
<1>1. ent \in [Links -> [ACs -> LinkEntity]]
  BY DEF IInv, TypeOK
<1>. QED  BY <1>1 DEF SetEntity

\* The exchange of link l is in phase ph and m_edca is c after a step of it.
LEMMA ExchangeEffect ==
  ASSUME IInv, NEW l \in Links, NEW ph, phase' = [phase EXCEPT ![l] = ph],
         NEW c, edca' = [edca EXCEPT ![l] = c]
  PROVE  /\ phase'[l] = ph /\ edca'[l] = c
         /\ \A k \in Links \ {l} : phase'[k] = phase[k] /\ edca'[k] = edca[k]
<1>1. phase \in [Links -> Phases] /\ edca \in [Links -> ACs \cup {None}]
  BY DEF IInv, TypeOK
<1>. QED  BY <1>1

----------------------------------------------------------------------------
(***************************************************************************)
(* The outcome of a frame exchange.                                        *)
(***************************************************************************)
\* The entity of EDCAF a after a success ...
Succeeded(a, e, acked) ==
  LET g == IF acked THEN ResetCw(a, e) ELSE e
  IN  [(IF g.pedcaMode THEN ResetPedcaCounters(g) ELSE g) EXCEPT !.txop = Spend(g)]

\* ... and after a failure, before it releases the channel or recovers.
Failed(e) == [FailedEntity(e) EXCEPT !.txop = Spend(FailedEntity(e))]

\* A success leaves the EDCAF granted access and its TXOP open, and makes no
\* CTS-to-self due.
LEMMA SucceededEffect ==
  ASSUME NEW l \in Links, NEW a \in ACs, NEW e \in Consistent(l, a), NEW acked \in BOOLEAN
  PROVE  /\ Succeeded(a, e, acked) \in Consistent(l, a)
         /\ Succeeded(a, e, acked).access = e.access
         /\ Succeeded(a, e, acked).txop # NoTxop
         /\ Succeeded(a, e, acked).pedcaCtsPending => e.pedcaCtsPending
<1> DEFINE g == IF acked THEN ResetCw(a, e) ELSE e
           r == IF g.pedcaMode THEN ResetPedcaCounters(g) ELSE g
           h == [r EXCEPT !.txop = Spend(g)]
<1>1. /\ g \in Consistent(l, a) /\ g \in LinkEntity /\ g.access = e.access
      /\ g.pedcaCtsPending = e.pedcaCtsPending
  BY ResetCwConsistent, CwEffect DEF Consistent
<1>2. Succeeded(a, e, acked) = h
  BY DEF Succeeded
<1> HIDE DEF g
<1>3. /\ r \in Consistent(l, a) /\ r \in LinkEntity
  BY <1>1, ResetPedcaConsistent DEF Consistent
<1>4. r.access = g.access /\ (r.pedcaCtsPending => g.pedcaCtsPending)
  BY <1>1 DEF ResetPedcaCounters, LinkEntity
<1>5. Spend(g) \in Nat
  BY <1>1 DEF Spend, LinkEntity, NoTxop
<1> HIDE DEF r
<1>6. h \in Consistent(l, a)
  BY <1>1, <1>3, SpendConsistent
<1>7. h.access = r.access /\ h.txop = Spend(g) /\ h.pedcaCtsPending = r.pedcaCtsPending
  BY <1>3 DEF LinkEntity
<1>8. h.txop # NoTxop
  BY <1>5, <1>7 DEF NoTxop
<1>. QED  BY <1>1, <1>2, <1>4, <1>6, <1>7, <1>8

\* Neither does a failure.
LEMMA FailedEffect ==
  ASSUME NEW l \in Links, NEW a \in ACs, NEW e \in Consistent(l, a)
  PROVE  /\ Failed(e) \in Consistent(l, a)
         /\ Failed(e).access = e.access
         /\ Failed(e).txop # NoTxop
         /\ Failed(e).pedcaCtsPending = e.pedcaCtsPending
<1> DEFINE f == FailedEntity(e)
           h == [f EXCEPT !.txop = Spend(f)]
<1>1. f \in Consistent(l, a) /\ f \in LinkEntity
  BY FailedConsistent DEF Consistent
<1>2. f.access = e.access /\ f.pedcaCtsPending = e.pedcaCtsPending
  BY DEF FailedEntity, IncrementPedcaTriggerCount, Consistent, LinkEntity
<1>3. Failed(e) = h
  BY DEF Failed
<1> HIDE DEF f
<1>4. Spend(f) \in Nat
  BY <1>1 DEF Spend, LinkEntity, NoTxop
<1>5. h \in Consistent(l, a)
  BY <1>1, SpendConsistent
<1>6. h.access = f.access /\ h.txop = Spend(f) /\ h.pedcaCtsPending = f.pedcaCtsPending
  BY <1>1 DEF LinkEntity
<1>7. h.txop # NoTxop
  BY <1>4, <1>6 DEF NoTxop
<1>. QED  BY <1>2, <1>3, <1>5, <1>6, <1>7

\* What TransmissionSucceeded does, in those words.
SucceedsAs(l, a, acked) ==
  LET h == Succeeded(a, ent[l][a], acked)
      q == queue[a] - 1
  IN
  /\ edca[l] = a /\ phase[l] = "frame"
  /\ queue' = [queue EXCEPT ![a] = q] /\ backingOff' = backingOff /\ accEvent' = accEvent
  /\ \/ /\ SetEntity(l, a, h)
        /\ phase' = [phase EXCEPT ![l] = "sifs"]
        /\ edca' = [edca EXCEPT ![l] = a] /\ reqEvent' = reqEvent
     \/ /\ SetEntity(l, a, Releases(l, a, h, TRUE, q))
        /\ phase' = [phase EXCEPT ![l] = "idle"]
        /\ edca' = [edca EXCEPT ![l] = None]
        /\ reqEvent' = [reqEvent EXCEPT ![l] = @ \cup RequestsAgain(a, h, TRUE, q)]

\* A success is one of an EDCAF that holds the channel.
LEMMA SucceededCases ==
  ASSUME IInv, NEW l \in Links, TransmissionSucceeded(l)
  PROVE  \E a \in ACs, acked \in BOOLEAN : SucceedsAs(l, a, acked)
<1> DEFINE a == edca[l]
           q == queue[a] - 1
           h(acked) == Succeeded(a, ent[l][a], acked)
           P(acked) ==
              \/ /\ SetEntity(l, a, h(acked))
                 /\ phase' = [phase EXCEPT ![l] = "sifs"]
                 /\ edca' = edca /\ reqEvent' = reqEvent
              \/ /\ SetEntity(l, a, Releases(l, a, h(acked), TRUE, q))
                 /\ phase' = [phase EXCEPT ![l] = "idle"]
                 /\ edca' = [edca EXCEPT ![l] = None]
                 /\ reqEvent' = [reqEvent EXCEPT ![l] = @ \cup RequestsAgain(a, h(acked), TRUE, q)]
<1>1. /\ phase[l] = "frame" /\ queue' = [queue EXCEPT ![a] = q]
      /\ accEvent' = accEvent /\ backingOff' = backingOff
  BY DEF TransmissionSucceeded
<1>2. \E acked \in BOOLEAN : P(acked)
  BY DEF TransmissionSucceeded, Succeeded
<1>3. a \in ACs
  BY <1>1 DEF IInv, HolderIsEdcaf
<1>4. edca' = edca => edca' = [edca EXCEPT ![l] = a]
  BY DEF IInv, TypeOK
<1>5. edca[l] = a
  OBVIOUS
<1> HIDE DEF a
<1>. QED  BY <1>1, <1>2, <1>3, <1>4, <1>5 DEF SucceedsAs

\* What TransmissionFailed does when the entities of link l are E.
FailsAs(l, E, recovery, a, force, drop) ==
  LET f == Failed(E[a])
      q == IF drop THEN queue[a] - 1 ELSE queue[a]
      Update(g) == IF force THEN g ELSE UpdateFailedCw(a, g)
  IN
  /\ edca[l] = a /\ queue' = [queue EXCEPT ![a] = q] /\ accEvent' = accEvent
  /\ \/ /\ ent' = [ent EXCEPT ![l] = [E EXCEPT ![a] = Releases(l, a, Update(f), TRUE, q)]]
        /\ reqEvent' = [reqEvent EXCEPT ![l] = @ \cup RequestsAgain(a, f, TRUE, q)]
        /\ phase' = [phase EXCEPT ![l] = "idle"]
        /\ edca' = [edca EXCEPT ![l] = None]
        /\ backingOff' = backingOff
     \/ /\ PifsRecoveryOn
        /\ ent' = [ent EXCEPT ![l] = [E EXCEPT ![a] = f]]
        /\ phase' = [phase EXCEPT ![l] = recovery]
        /\ edca' = [edca EXCEPT ![l] = a]
        /\ reqEvent' = reqEvent /\ backingOff' = backingOff
     \/ /\ ~PifsRecoveryOn
        /\ ent' = [ent EXCEPT ![l] = [E EXCEPT ![a] = Update(BackoffInTxop(l, a, f))]]
        /\ reqEvent' = [reqEvent EXCEPT ![l] =
                          @ \cup (IF HasFramesToTransmit(q) THEN {a} ELSE {})]
        /\ phase' = [phase EXCEPT ![l] = "idle"]
        /\ edca' = [edca EXCEPT ![l] = None]
        /\ backingOff' = [backingOff EXCEPT ![l] = a]

\* A failure is one of an EDCAF that holds the channel.
LEMMA FailCases ==
  ASSUME IInv, NEW l \in Links, phase[l] = "frame", NEW E \in [ACs -> LinkEntity],
         NEW recovery, Fail(l, E, recovery)
  PROVE  \E a \in ACs, force \in BOOLEAN, drop \in BOOLEAN :
           FailsAs(l, E, recovery, a, force, drop)
<1> DEFINE a == edca[l]
           f == Failed(E[a])
           q(drop) == IF drop THEN queue[a] - 1 ELSE queue[a]
           Update(force, g) == IF force THEN g ELSE UpdateFailedCw(a, g)
           P(force, drop) ==
             /\ queue' = [queue EXCEPT ![a] = q(drop)] /\ accEvent' = accEvent
             /\ \/ /\ ent' = [ent EXCEPT ![l] =
                                [E EXCEPT ![a] = Releases(l, a, Update(force, f), TRUE, q(drop))]]
                   /\ reqEvent' = [reqEvent EXCEPT ![l] = @ \cup RequestsAgain(a, f, TRUE, q(drop))]
                   /\ phase' = [phase EXCEPT ![l] = "idle"]
                   /\ edca' = [edca EXCEPT ![l] = None]
                   /\ backingOff' = backingOff
                \/ /\ PifsRecoveryOn
                   /\ ent' = [ent EXCEPT ![l] = [E EXCEPT ![a] = f]]
                   /\ phase' = [phase EXCEPT ![l] = recovery]
                   /\ edca' = edca
                   /\ reqEvent' = reqEvent /\ backingOff' = backingOff
                \/ /\ ~PifsRecoveryOn
                   /\ ent' = [ent EXCEPT ![l] =
                                [E EXCEPT ![a] = Update(force, BackoffInTxop(l, a, f))]]
                   /\ reqEvent' = [reqEvent EXCEPT ![l] =
                                     @ \cup (IF HasFramesToTransmit(q(drop)) THEN {a} ELSE {})]
                   /\ phase' = [phase EXCEPT ![l] = "idle"]
                   /\ edca' = [edca EXCEPT ![l] = None]
                   /\ backingOff' = [backingOff EXCEPT ![l] = a]
<1>1. \E force, drop \in BOOLEAN : P(force, drop)
  BY DEF Fail, Failed, FailedEntity
<1>2. a \in ACs
  BY DEF IInv, HolderIsEdcaf
<1>3. edca' = edca => edca' = [edca EXCEPT ![l] = a]
  BY DEF IInv, TypeOK
<1>4. edca[l] = a
  OBVIOUS
<1> HIDE DEF a
<1>. QED  BY <1>1, <1>2, <1>3, <1>4 DEF FailsAs

----------------------------------------------------------------------------
(***************************************************************************)
(* The actions keep the invariant.                                         *)
(***************************************************************************)
\* Steps that leave the exchanges of all the links and the other links' entities.
LEMMA OnlyEntities ==
  ASSUME NEW l \in Links, UNCHANGED <<phase, edca, backingOff>>,
         \A k \in Links \ {l}, b \in ACs : ent'[k][b] = ent[k][b]
  PROVE  OnlyLink(l) /\ SameExchange(l)
BY DEF OnlyLink, SameExchange

\* Txop::StartAccessAfterEvent and Txop::RequestAccess.
LEMMA RequestHolder ==
  ASSUME IInv, HolderInv, NEW l \in Links, NEW a \in ACs,
         StartAccessAfterEvent(l, a) \/ RequestAccess(l, a)
  PROVE  HolderInv'
<1> DEFINE e == ent[l][a]
<1>1. UNCHANGED <<phase, edca, backingOff>>
  BY DEF StartAccessAfterEvent, RequestAccess
<1>2. CASE UNCHANGED ent
  BY <1>1, <1>2 DEF HolderInv, HolderOK, HolderUsesChannel, OnlyHolderUsesChannel,
                    HolderOwesNoCts, Holds
<1>3. CASE ~(UNCHANGED ent)
  <2>1. e \in Consistent(l, a) /\ e \in LinkEntity
    BY DEF IInv, EntitiesConsistent, TypeOK
  <2>2. /\ e.access = "NOT_REQUESTED"
        /\ \E f \in {e, GenerateBackoff(l, a, e)} :
              SetEntity(l, a, [f EXCEPT !.access = "REQUESTED"])
    BY <1>3 DEF StartAccessAfterEvent, RequestAccess
  <2>3. PICK f \in {e, GenerateBackoff(l, a, e)} :
          SetEntity(l, a, [f EXCEPT !.access = "REQUESTED"])
    BY <2>2
  <2>4. f \in LinkEntity /\ f.txop = e.txop
    BY <2>1, GenerateBackoffConsistent, GenerateBackoffEffect DEF Consistent
  <2> DEFINE g == [f EXCEPT !.access = "REQUESTED"]
  <2>5. g.access = "REQUESTED" /\ g.txop = e.txop
    BY <2>4 DEF LinkEntity
  <2>6. SetEntity(l, a, g)
    BY <2>3
  <2> HIDE DEF g
  <2>7. /\ ent'[l][a] = g
        /\ \A b \in ACs \ {a} : ent'[l][b] = ent[l][b]
        /\ \A k \in Links \ {l}, b \in ACs : ent'[k][b] = ent[k][b]
    BY <2>6, SetEntityEffect
  <2>8. OnlyLink(l) /\ SameExchange(l)
    BY <1>1, <2>7, OnlyEntities
  <2>9. HolderOK(l)'
    BY <2>2, <2>5, <2>7, <2>8, ContentionStep DEF HolderInv
  <2>. QED  BY <2>8, <2>9, OneLinkStep
<1>. QED  BY <1>2, <1>3

\* Txop::NotifyCcaBusy does not reach an EDCAF that is granted access.
LEMMA CcaBusyHolder ==
  ASSUME IInv, HolderInv, NEW l \in Links, CcaBusy(l)
  PROVE  HolderInv'
<1>1. ProactiveOn /\ UNCHANGED <<phase, edca, backingOff>>
  BY DEF CcaBusy
<1> DEFINE F(S, b) == IF b \in S THEN GenerateBackoff(l, b, ent[l][b]) ELSE ent[l][b]
<1>2. PICK S \in SUBSET {b \in ACs : ent[l][b].access # "GRANTED"} :
        ent' = [ent EXCEPT ![l] = [b \in ACs |-> F(S, b)]]
  BY DEF CcaBusy
<1>3. ent \in [Links -> [ACs -> LinkEntity]]
  BY DEF IInv, TypeOK
<1>4. ASSUME NEW b \in ACs
      PROVE  /\ F(S, b).txop = ent[l][b].txop /\ F(S, b).access = ent[l][b].access
             /\ F(S, b) = ent[l][b] \/ ent[l][b].access # "GRANTED"
  BY <1>3, GenerateBackoffEffect
<1> HIDE DEF F
<1>5. /\ \A b \in ACs : ent'[l][b] = F(S, b)
      /\ \A k \in Links \ {l}, b \in ACs : ent'[k][b] = ent[k][b]
  BY <1>2, <1>3
<1>6. OnlyLink(l) /\ SameExchange(l)
  BY <1>1, <1>5, OnlyEntities
<1>7. HolderOK(l)'
  BY <1>1, <1>4, <1>5, <1>6, ContentionStep DEF HolderInv
<1>. QED  BY <1>6, <1>7, OneLinkStep

\* The release of the channel at the end of a CTS-to-self or of a CF-End frame,
\* and when a PIFS recovery fails.
LEMMA EndReleaseHolder ==
  ASSUME IInv, HolderInv, NEW l \in Links,
         PedcaCtsEnd(l) \/ CfEndDone(l) \/ PifsRecoveryFails(l)
  PROVE  HolderInv'
<1> DEFINE a == edca[l]
           f == Releases(l, a, ent[l][a], TRUE, queue[a])
<1>1. phase[l] # "idle" /\ phase' = [phase EXCEPT ![l] = "idle"] /\ backingOff' = backingOff
  BY DEF PedcaCtsEnd, CfEndDone, PifsRecoveryFails, EndRelease
<1>2. a \in ACs
  BY <1>1 DEF IInv, HolderIsEdcaf
<1>3. PICK g \in {f, UpdateFailedCw(a, f)} : SetEntity(l, a, g)
  BY DEF PedcaCtsEnd, CfEndDone, PifsRecoveryFails, EndRelease
<1>4. PICK c \in {a, None} : edca' = [edca EXCEPT ![l] = c]
  <2>1. CASE CfEndDone(l)
    <3>1. edca' = [edca EXCEPT ![l] = a]
      BY <2>1 DEF CfEndDone, IInv, TypeOK
    <3>. QED  BY <3>1
  <2>2. CASE PedcaCtsEnd(l) \/ PifsRecoveryFails(l)
    BY <2>2 DEF PedcaCtsEnd, PifsRecoveryFails
  <2>. QED  BY <2>1, <2>2
<1>5. ent[l][a] \in Consistent(l, a) /\ queue[a] \in Nat
  BY <1>2 DEF IInv, EntitiesConsistent, TypeOK
<1>6. edca[l] = a
  OBVIOUS
<1> HIDE DEF a
<1>7. f \in LinkEntity /\ f.access = "NOT_REQUESTED" /\ f.txop = NoTxop
  <2>1. f \in Consistent(l, a)
    BY <1>2, <1>5, ReleasesConsistent
  <2>2. f.access = "NOT_REQUESTED" /\ f.txop = NoTxop
    BY <1>2, <1>5, ReleasesElapsed
  <2>. QED  BY <2>1, <2>2 DEF Consistent
<1> HIDE DEF f
<1>8. g.access = "NOT_REQUESTED" /\ g.txop = NoTxop
  BY <1>2, <1>7, CwEffect
<1>9. /\ ent'[l][a] = g
      /\ \A b \in ACs \ {a} : ent'[l][b] = ent[l][b]
      /\ \A k \in Links \ {l}, b \in ACs : ent'[k][b] = ent[k][b]
  BY <1>2, <1>3, SetEntityEffect
<1>10. /\ phase'[l] = "idle" /\ edca'[l] = c
       /\ \A k \in Links \ {l} : phase'[k] = phase[k] /\ edca'[k] = edca[k]
  BY <1>1, <1>4, ExchangeEffect
<1>11. OnlyLink(l)
  BY <1>1, <1>9, <1>10 DEF OnlyLink
<1>12. HolderOK(l)'
  BY <1>1, <1>2, <1>6, <1>8, <1>9, <1>10, ReleaseStep DEF HolderInv
<1>. QED  BY <1>11, <1>12, OneLinkStep

\* QosFrameExchangeManager::TransmissionSucceeded.
LEMMA SucceededHolder ==
  ASSUME IInv, HolderInv, NEW l \in Links, TransmissionSucceeded(l)
  PROVE  HolderInv'
<1>1. PICK a \in ACs, acked \in BOOLEAN : SucceedsAs(l, a, acked)
  BY SucceededCases
<1>0. edca[l] = a /\ phase[l] = "frame" /\ backingOff' = backingOff
  BY <1>1 DEF SucceedsAs
<1> DEFINE h == Succeeded(a, ent[l][a], acked)
           r == Releases(l, a, h, TRUE, queue[a] - 1)
<1>2. ent[l][a] \in Consistent(l, a)
  BY DEF IInv, EntitiesConsistent
<1>3. /\ h \in Consistent(l, a) /\ h.access = ent[l][a].access /\ h.txop # NoTxop
      /\ h.pedcaCtsPending => ent[l][a].pedcaCtsPending
  BY <1>2, SucceededEffect
<1>4. \/ /\ SetEntity(l, a, h)
         /\ phase' = [phase EXCEPT ![l] = "sifs"]
         /\ edca' = [edca EXCEPT ![l] = a]
      \/ /\ SetEntity(l, a, r)
         /\ phase' = [phase EXCEPT ![l] = "idle"]
         /\ edca' = [edca EXCEPT ![l] = None]
  BY <1>1 DEF SucceedsAs
<1> HIDE DEF h
<1>5. r.access = "NOT_REQUESTED" /\ r.txop = NoTxop
  BY <1>3, ReleasesEffect
<1> HIDE DEF r
<1>6. CASE /\ SetEntity(l, a, h)
           /\ phase' = [phase EXCEPT ![l] = "sifs"]
           /\ edca' = [edca EXCEPT ![l] = a]
  <2>1. /\ ent'[l][a] = h
        /\ \A b \in ACs \ {a} : ent'[l][b] = ent[l][b]
        /\ \A k \in Links \ {l}, b \in ACs : ent'[k][b] = ent[k][b]
    BY <1>6, SetEntityEffect
  <2>2. /\ phase'[l] = "sifs" /\ edca'[l] = a
        /\ \A k \in Links \ {l} : phase'[k] = phase[k] /\ edca'[k] = edca[k]
    BY <1>6, ExchangeEffect
  <2>3. OnlyLink(l)
    BY <1>0, <2>1, <2>2 DEF OnlyLink
  <2>4. Holds(l, a)
    BY <1>0 DEF Holds
  <2>5. HolderOK(l)'
    BY <1>0, <1>3, <2>1, <2>2, <2>4, WaitStep DEF HolderInv
  <2>. QED  BY <2>3, <2>5, OneLinkStep
<1>7. CASE /\ SetEntity(l, a, r)
           /\ phase' = [phase EXCEPT ![l] = "idle"]
           /\ edca' = [edca EXCEPT ![l] = None]
  <2>1. /\ ent'[l][a] = r
        /\ \A b \in ACs \ {a} : ent'[l][b] = ent[l][b]
        /\ \A k \in Links \ {l}, b \in ACs : ent'[k][b] = ent[k][b]
    BY <1>7, SetEntityEffect
  <2>2. /\ phase'[l] = "idle" /\ edca'[l] = None
        /\ \A k \in Links \ {l} : phase'[k] = phase[k] /\ edca'[k] = edca[k]
    BY <1>7, ExchangeEffect
  <2>3. OnlyLink(l)
    BY <1>0, <2>1, <2>2 DEF OnlyLink
  <2>4. HolderOK(l)'
    BY <1>0, <1>5, <2>1, <2>2, ReleaseStep DEF HolderInv
  <2>. QED  BY <2>3, <2>4, OneLinkStep
<1>. QED  BY <1>4, <1>6, <1>7

\* The EDCAFs of link l after an update of one entity among those in E.
LEMMA UpdateOneEffect ==
  ASSUME IInv, NEW l \in Links, NEW a \in ACs, NEW E \in [ACs -> LinkEntity], NEW e,
         ent' = [ent EXCEPT ![l] = [E EXCEPT ![a] = e]]
  PROVE  /\ ent'[l][a] = e
         /\ \A b \in ACs \ {a} : ent'[l][b] = E[b]
         /\ \A k \in Links \ {l}, b \in ACs : ent'[k][b] = ent[k][b]
<1>1. ent \in [Links -> [ACs -> LinkEntity]]
  BY DEF IInv, TypeOK
<1>. QED  BY <1>1

\* TransmissionFailed, after a timeout or after a channel switch that reset the
\* backoffs: E are the entities of the link.
LEMMA FailHolder ==
  ASSUME IInv, HolderInv, NEW l \in Links, phase[l] = "frame",
         NEW E \in [ACs -> LinkEntity], \A b \in ACs : E[b] \in Consistent(l, b),
         \A b \in ACs : E[b].txop = ent[l][b].txop,
         NEW recovery \in {"pifs", "lost"}, Fail(l, E, recovery),
         \/ recovery = "pifs" /\ E = ent[l]
         \/ recovery = "lost" /\ \A b \in ACs : E[b].access = "NOT_REQUESTED"
  PROVE  HolderInv'
<1>1. PICK a \in ACs, force \in BOOLEAN, drop \in BOOLEAN :
        FailsAs(l, E, recovery, a, force, drop)
  BY FailCases
<1> DEFINE f == Failed(E[a])
           q == IF drop THEN queue[a] - 1 ELSE queue[a]
           Update(g) == IF force THEN g ELSE UpdateFailedCw(a, g)
           r == Releases(l, a, Update(f), TRUE, q)
           u == Update(BackoffInTxop(l, a, f))
<1>2. /\ f \in Consistent(l, a) /\ f.access = E[a].access /\ f.txop # NoTxop
      /\ f.pedcaCtsPending = E[a].pedcaCtsPending
  BY FailedEffect
<1>3. /\ edca[l] = a
      /\ \/ /\ ent' = [ent EXCEPT ![l] = [E EXCEPT ![a] = r]]
            /\ phase' = [phase EXCEPT ![l] = "idle"]
            /\ edca' = [edca EXCEPT ![l] = None]
            /\ backingOff' = backingOff
         \/ /\ ent' = [ent EXCEPT ![l] = [E EXCEPT ![a] = f]]
            /\ phase' = [phase EXCEPT ![l] = recovery]
            /\ edca' = [edca EXCEPT ![l] = a]
            /\ backingOff' = backingOff
         \/ /\ ~PifsRecoveryOn
            /\ ent' = [ent EXCEPT ![l] = [E EXCEPT ![a] = u]]
            /\ phase' = [phase EXCEPT ![l] = "idle"]
            /\ edca' = [edca EXCEPT ![l] = None]
            /\ backingOff' = [backingOff EXCEPT ![l] = a]
  BY <1>1 DEF FailsAs
<1> HIDE DEF f
<1>4. Update(f) \in Consistent(l, a)
  BY <1>2, UpdateFailedCwConsistent
<1> HIDE DEF Update, q
<1>5. r.access = "NOT_REQUESTED" /\ r.txop = NoTxop
  BY <1>4, ReleasesEffect
<1> HIDE DEF r, u
<1>6. CASE /\ ent' = [ent EXCEPT ![l] = [E EXCEPT ![a] = r]]
           /\ phase' = [phase EXCEPT ![l] = "idle"]
           /\ edca' = [edca EXCEPT ![l] = None]
           /\ backingOff' = backingOff
  <2>1. /\ ent'[l][a] = r
        /\ \A b \in ACs \ {a} : ent'[l][b] = E[b]
        /\ \A k \in Links \ {l}, b \in ACs : ent'[k][b] = ent[k][b]
    BY <1>6, UpdateOneEffect
  <2>2. /\ phase'[l] = "idle" /\ edca'[l] = None
        /\ \A k \in Links \ {l} : phase'[k] = phase[k] /\ edca'[k] = edca[k]
    BY <1>6, ExchangeEffect
  <2>3. OnlyLink(l)
    BY <1>6, <2>1, <2>2 DEF OnlyLink
  <2>4. \A b \in ACs \ {a} : /\ ent'[l][b].txop = ent[l][b].txop
                             /\ ent'[l][b].access \in {ent[l][b].access, "NOT_REQUESTED"}
    BY <2>1
  <2>5. HolderOK(l)'
    BY <1>3, <1>5, <1>6, <2>1, <2>2, <2>4, ReleaseStep DEF HolderInv
  <2>. QED  BY <2>3, <2>5, OneLinkStep
<1>7. CASE /\ ent' = [ent EXCEPT ![l] = [E EXCEPT ![a] = f]]
           /\ phase' = [phase EXCEPT ![l] = recovery]
           /\ edca' = [edca EXCEPT ![l] = a]
           /\ backingOff' = backingOff
  <2>1. /\ ent'[l][a] = f
        /\ \A b \in ACs \ {a} : ent'[l][b] = E[b]
        /\ \A k \in Links \ {l}, b \in ACs : ent'[k][b] = ent[k][b]
    BY <1>7, UpdateOneEffect
  <2>2. /\ phase'[l] = recovery /\ edca'[l] = a
        /\ \A k \in Links \ {l} : phase'[k] = phase[k] /\ edca'[k] = edca[k]
    BY <1>7, ExchangeEffect
  <2>3. OnlyLink(l)
    BY <1>7, <2>1, <2>2 DEF OnlyLink
  <2>4. CASE recovery = "pifs" /\ E = ent[l]
    <3>1. Holds(l, a)
      BY <1>3 DEF Holds
    <3>2. HolderOK(l)'
      BY <1>2, <1>7, <2>1, <2>2, <2>4, <3>1, WaitStep DEF HolderInv
    <3>. QED  BY <2>3, <3>2, OneLinkStep
  <2>5. CASE recovery = "lost" /\ \A b \in ACs : E[b].access = "NOT_REQUESTED"
    <3>1. \A b \in ACs : /\ ent'[l][b].access = "NOT_REQUESTED"
                         /\ phase'[l] = "idle" \/ b # a => ent'[l][b].txop = ent[l][b].txop
      BY <1>2, <2>1, <2>2, <2>5
    <3>2. HolderOK(l)'
      BY <1>2, <1>3, <1>7, <2>1, <2>2, <2>5, <3>1, SwitchStep DEF HolderInv
    <3>. QED  BY <2>3, <3>2, OneLinkStep
  <2>. QED  BY <2>4, <2>5
<1>8. CASE /\ ~PifsRecoveryOn
           /\ ent' = [ent EXCEPT ![l] = [E EXCEPT ![a] = u]]
           /\ phase' = [phase EXCEPT ![l] = "idle"]
           /\ edca' = [edca EXCEPT ![l] = None]
           /\ backingOff' = [backingOff EXCEPT ![l] = a]
  <2>1. \A k \in Links \ {l}, b \in ACs : ent'[k][b] = ent[k][b]
    BY <1>8, UpdateOneEffect
  <2>2. /\ phase'[l] = "idle"
        /\ \A k \in Links \ {l} : phase'[k] = phase[k] /\ edca'[k] = edca[k]
    BY <1>8, ExchangeEffect
  <2>3. \A k \in Links \ {l} : backingOff'[k] = backingOff[k]
    BY <1>8 DEF IInv, TypeOK
  <2>4. OnlyLink(l)
    BY <2>1, <2>2, <2>3 DEF OnlyLink
  <2>5. HolderOK(l)'
    BY <1>8, <2>2 DEF HolderOK, HolderUsesChannel, HolderOwesNoCts, Holds
  <2>. QED  BY <2>4, <2>5, OneLinkStep
<1>. QED  BY <1>3, <1>6, <1>7, <1>8

\* ChannelAccessManager::NotifySwitchingStartNow.
LEMMA SwitchHolder ==
  ASSUME IInv, HolderInv, NEW l \in Links, ChannelSwitch(l)
  PROVE  HolderInv'
<1> DEFINE E == AllReset(l)
<1>1. \A b \in ACs : ent[l][b] \in Consistent(l, b) /\ ent[l][b] \in LinkEntity
  BY DEF IInv, EntitiesConsistent, TypeOK
<1>2. /\ E = [b \in ACs |-> E[b]]
      /\ \A b \in ACs : E[b] = ResetBackoff(b, ent[l][b])
  BY DEF AllReset
<1> HIDE DEF E
<1>3. \A b \in ACs : E[b] \in Consistent(l, b)
  BY <1>1, <1>2, ResetBackoffConsistent
<1>4. \A b \in ACs : E[b].access = "NOT_REQUESTED" /\ E[b].txop = ent[l][b].txop
  BY <1>1, <1>2, CwEffect
<1>5. E \in [ACs -> LinkEntity]
  BY <1>2, <1>3 DEF Consistent
<1>6. CASE phase[l] = "frame" /\ Fail(l, AllReset(l), "lost")
  <2>1. Fail(l, E, "lost")
    BY <1>6 DEF E
  <2>. QED  BY <1>3, <1>4, <1>5, <1>6, <2>1, FailHolder
<1>7. CASE /\ phase[l] = "idle" /\ ent' = [ent EXCEPT ![l] = AllReset(l)]
           /\ UNCHANGED <<phase, edca, backingOff>>
  <2>1. ent' = [ent EXCEPT ![l] = E]
    BY <1>7 DEF E
  <2>2. /\ \A b \in ACs : ent'[l][b] = E[b]
        /\ \A k \in Links \ {l}, b \in ACs : ent'[k][b] = ent[k][b]
    BY <2>1 DEF IInv, TypeOK
  <2>3. OnlyLink(l)
    BY <1>7, <2>2, OnlyEntities
  <2>4. \A b \in ACs : ent'[l][b].access = "NOT_REQUESTED" /\ ent'[l][b].txop = ent[l][b].txop
    BY <1>4, <2>2
  <2> DEFINE c == edca[l]
  <2>5. edca[l] = c /\ edca'[l] = c /\ backingOff'[l] = backingOff[l] /\ phase'[l] = "idle"
    BY <1>7
  <2> HIDE DEF c
  <2>6. HolderOK(l)'
    BY <1>7, <2>4, <2>5, SwitchStep DEF HolderInv
  <2>. QED  BY <2>3, <2>6, OneLinkStep
<1>. QED  BY <1>6, <1>7 DEF ChannelSwitch

----------------------------------------------------------------------------
(***************************************************************************)
(* The theorems.                                                           *)
(***************************************************************************)
\* No channel is in use when a device starts.
LEMMA InitHolder == Init => HolderInv
<1> SUFFICES ASSUME Init, NEW l \in Links PROVE HolderOK(l)
  BY DEF HolderInv
<1>1. phase[l] = "idle" /\ backingOff[l] = None
  BY DEF Init
<1>2. ASSUME NEW a \in ACs PROVE ent[l][a].access = "NOT_REQUESTED" /\ ent[l][a].txop = NoTxop
  <2>1. ent[l][a] = GenerateBackoff(l, a, NewEntity(a))
    BY DEF Init
  <2>2. NewEntity(a) \in LinkEntity
    BY EdcaParameterAssumption DEF NewEntity, LinkEntity, AccessStatus
  <2>3. NewEntity(a).access = "NOT_REQUESTED" /\ NewEntity(a).txop = NoTxop
    BY DEF NewEntity
  <2>. QED  BY <2>1, <2>2, <2>3, GenerateBackoffEffect
<1>. QED  BY <1>1, <1>2 DEF HolderOK, HolderUsesChannel, OnlyHolderUsesChannel,
                            HolderOwesNoCts, Holds

\* Every event keeps the frame exchange manager and the EDCAFs in agreement.
LEMMA NextHolder == IInv /\ HolderInv /\ [Next]_vars => HolderInv'
<1> SUFFICES ASSUME IInv, HolderInv, [Next]_vars PROVE HolderInv'
  OBVIOUS
<1>1. ASSUME UNCHANGED <<ent, phase, edca, backingOff>> PROVE HolderInv'
  BY <1>1 DEF HolderInv, HolderOK, HolderUsesChannel, OnlyHolderUsesChannel,
              HolderOwesNoCts, Holds
<1>2. CASE UNCHANGED vars
  BY <1>1, <1>2 DEF vars
<1>3. ASSUME NEW a \in ACs, Enqueue(a) \/ Expire(a) PROVE HolderInv'
  BY <1>1, <1>3 DEF Enqueue, Expire
<1>4. ASSUME NEW l \in Links, NEW a \in ACs,
             StartAccessAfterEvent(l, a) \/ RequestAccess(l, a)
      PROVE  HolderInv'
  BY <1>4, RequestHolder
<1>5. ASSUME NEW l \in Links,
             (\E a \in ACs : GrantAccess(l, a)) \/ SifsElapsed(l) \/ PifsRecovery(l)
      PROVE  HolderInv'
  <2>1. PICK a \in ACs : /\ Starter(l, a)
                         /\ \E L \in SUBSET MayCollide(l, a) : \E D :
                               StartTransmission(l, a, L, D)
    BY <1>5, StartsTransmission
  <2>2. HolderOK(l)' /\ OnlyLink(l)
    BY <2>1, StartTransmissionHolder DEF HolderInv
  <2>. QED  BY <2>2, OneLinkStep
<1>6. ASSUME NEW l \in Links, Exchange(l) PROVE HolderInv'
  <2>1. CASE SifsElapsed(l) \/ PifsRecovery(l)
    BY <1>5, <2>1
  <2>2. CASE PifsRecoveryFails(l) \/ PedcaCtsEnd(l) \/ CfEndDone(l)
    BY <2>2, EndReleaseHolder
  <2>3. CASE TransmissionSucceeded(l)
    BY <2>3, SucceededHolder
  <2>4. CASE TransmissionFailed(l)
    <3>1. phase[l] = "frame" /\ Fail(l, ent[l], "pifs")
      BY <2>4 DEF TransmissionFailed
    <3> DEFINE E == ent[l]
    <3>2. /\ E \in [ACs -> LinkEntity] /\ Fail(l, E, "pifs") /\ E = ent[l]
          /\ \A b \in ACs : E[b] \in Consistent(l, b) /\ E[b].txop = ent[l][b].txop
      BY <3>1 DEF IInv, EntitiesConsistent
    <3> HIDE DEF E
    <3>. QED  BY <3>1, <3>2, FailHolder
  <2>. QED  BY <1>6, <2>1, <2>2, <2>3, <2>4 DEF Exchange
<1>7. ASSUME NEW l \in Links, CcaBusy(l) PROVE HolderInv'
  BY <1>7, CcaBusyHolder
<1>8. ASSUME NEW l \in Links, ChannelSwitch(l) PROVE HolderInv'
  BY <1>8, SwitchHolder
<1>. QED  BY <1>2, <1>3, <1>4, <1>5, <1>6, <1>7, <1>8 DEF Next

\* The holder invariant holds of every reachable state of every device.
THEOREM HolderInvariance == Spec => []HolderInv
<1>1. Init => HolderInv
  BY InitHolder
<1>2. IInv /\ HolderInv /\ [Next]_vars => HolderInv'
  BY NextHolder
<1>. QED  BY <1>1, <1>2, Invariance, PTL DEF Spec

\* With PifsRecovery, the EDCAF whose exchange the frame exchange manager runs is
\* the one, and the only one, that is granted access.
THEOREM HolderIsGranted ==
  ASSUME PifsRecoveryOn
  PROVE  Spec => []GrantedIffHolder
<1>1. HolderInv => GrantedIffHolder
  BY DEF HolderInv, HolderOK, OnlyHolderUsesChannel, GrantedIffHolder
<1>. QED  BY <1>1, HolderInvariance, PTL

\* With PifsRecovery, an EDCAF that is not using the channel has no open TXOP
\* that its next grant would be taken to continue.
THEOREM TxopIsHolders ==
  ASSUME PifsRecoveryOn
  PROVE  Spec => []OpenTxopIsKnown
<1>1. HolderInv => OpenTxopIsKnown
  BY DEF HolderInv, HolderOK, OnlyHolderUsesChannel, OpenTxopIsKnown
<1>. QED  BY <1>1, HolderInvariance, PTL

\* The holder of the channel has no CTS-to-self pending, which StartTransmission
\* would send in the middle of the TXOP: with PifsRecovery, and without it unless
\* ProactiveBackoff draws a backoff for a TXOP holder that is not granted access.
THEOREM HolderSendsNoCts ==
  ASSUME PifsRecoveryOn \/ ~ProactiveOn
  PROVE  Spec => []NoCtsInTxop
<1>1. HolderInv => NoCtsInTxop
  BY DEF HolderInv, HolderOK, HolderOwesNoCts, NoCtsInTxop
<1>. QED  BY <1>1, HolderInvariance, PTL

----------------------------------------------------------------------------
(***************************************************************************)
(* Nobody sleeps on a queued MPDU unless the channel switches.             *)
(***************************************************************************)
\* EDCAF b uses or has requested the channel of link l, or an event is scheduled
\* in which it will request it.
Awake(l, b) == \/ ent[l][b].access # "NOT_REQUESTED"
               \/ b \in reqEvent[l]
               \/ accEvent[l][b] # "none"

\* A step of link l leaves the EDCAFs of the other links and their events alone.
OnlyLinkWakes(l) ==
  \A k \in Links \ {l} :
    /\ reqEvent'[k] = reqEvent[k]
    /\ \A b \in ACs : ent'[k][b] = ent[k][b] /\ accEvent'[k][b] = accEvent[k][b]

\* It is enough that the EDCAFs of link l do not fall asleep.
LEMMA WakeStep ==
  ASSUME NoLostWakeup, NEW l \in Links, OnlyLinkWakes(l),
         \A b \in ACs : queue'[b] > 0 => queue[b] > 0,
         \A b \in ACs : queue'[b] > 0 /\ Awake(l, b) => \E k \in Links : Awake(k, b)'
  PROVE  NoLostWakeup'
<1> SUFFICES ASSUME NEW b \in ACs, queue'[b] > 0 PROVE \E k \in Links : Awake(k, b)'
  BY DEF NoLostWakeup, Awake
<1>1. PICK k \in Links : Awake(k, b)
  BY DEF NoLostWakeup, Awake
<1>2. CASE k = l
  BY <1>1, <1>2
<1>3. CASE k # l
  BY <1>1, <1>3 DEF OnlyLinkWakes, Awake
<1>. QED  BY <1>2, <1>3

\* An EDCAF that sent frames requests the channel again if it has more.
LEMMA RequestsAgainWhen ==
  ASSUME NEW a \in ACs, NEW e, e.txop # NoTxop, NEW q, q > 0
  PROVE  a \in RequestsAgain(a, e, TRUE, q)
BY DEF RequestsAgain, BacksOffOnRelease

\* The EDCAFs of link l that request the channel again, in the set R.
LEMMA RequestEffect ==
  ASSUME IInv, NEW l \in Links, NEW R, reqEvent' = [reqEvent EXCEPT ![l] = @ \cup R]
  PROVE  /\ reqEvent'[l] = reqEvent[l] \cup R
         /\ \A k \in Links \ {l} : reqEvent'[k] = reqEvent[k]
BY DEF IInv, TypeOK

\* A queue that gets shorter or stays as it is.
LEMMA QueueShrinks ==
  ASSUME IInv, NEW a \in ACs, NEW q, q \in {queue[a], queue[a] - 1},
         queue' = [queue EXCEPT ![a] = q]
  PROVE  \A b \in ACs : queue'[b] > 0 => queue[b] > 0
<1>1. queue \in [ACs -> Nat]
  BY DEF IInv, TypeOK
<1> SUFFICES ASSUME NEW b \in ACs, queue'[b] > 0 PROVE queue[b] > 0
  OBVIOUS
<1>2. queue'[b] \in {queue[b], queue[b] - 1} /\ queue[b] \in Nat
  BY <1>1
<1>. QED  BY <1>2

\* The end of an exchange of EDCAF a on link l, after which a requests the
\* channel again if it has frames or still holds the channel.
EndsExchange(l, a, R, q) ==
  /\ q \in {queue[a], queue[a] - 1} /\ queue' = [queue EXCEPT ![a] = q]
  /\ reqEvent' = [reqEvent EXCEPT ![l] = @ \cup R] /\ accEvent' = accEvent
  /\ \A b \in ACs \ {a} : ent'[l][b] = ent[l][b]
  /\ \A k \in Links \ {l}, b \in ACs : ent'[k][b] = ent[k][b]
  /\ q > 0 => a \in R \/ ent'[l][a].access # "NOT_REQUESTED"

LEMMA ExchangeWakes ==
  ASSUME IInv, NoLostWakeup, NEW l \in Links, NEW a \in ACs, NEW R, NEW q,
         EndsExchange(l, a, R, q)
  PROVE  NoLostWakeup'
<1>0. /\ q \in {queue[a], queue[a] - 1} /\ queue' = [queue EXCEPT ![a] = q]
      /\ reqEvent' = [reqEvent EXCEPT ![l] = @ \cup R] /\ accEvent' = accEvent
      /\ \A b \in ACs \ {a} : ent'[l][b] = ent[l][b]
      /\ \A k \in Links \ {l}, b \in ACs : ent'[k][b] = ent[k][b]
      /\ q > 0 => a \in R \/ ent'[l][a].access # "NOT_REQUESTED"
  BY DEF EndsExchange
<1>1. /\ reqEvent'[l] = reqEvent[l] \cup R
      /\ \A k \in Links \ {l} : reqEvent'[k] = reqEvent[k]
  BY <1>0, RequestEffect
<1>2. OnlyLinkWakes(l)
  BY <1>0, <1>1 DEF OnlyLinkWakes
<1>3. queue'[a] = q
  BY <1>0 DEF IInv, TypeOK
<1>4. ASSUME NEW b \in ACs, queue'[b] > 0, Awake(l, b) PROVE Awake(l, b)'
  <2>1. CASE b = a
    BY <1>0, <1>1, <1>3, <1>4, <2>1 DEF Awake
  <2>2. CASE b # a
    BY <1>0, <1>1, <1>4, <2>2 DEF Awake
  <2>. QED  BY <2>1, <2>2
<1>5. \A b \in ACs : queue'[b] > 0 => queue[b] > 0
  BY <1>0, QueueShrinks
<1>. QED  BY <1>2, <1>4, <1>5, WakeStep

\* The releases at the end of a CTS-to-self, of a CF-End and of a PIFS recovery.
LEMMA EndReleaseWakes ==
  ASSUME IInv, HolderInv, NoLostWakeup, NEW l \in Links,
         PedcaCtsEnd(l) \/ CfEndDone(l) \/ PifsRecoveryFails(l)
  PROVE  NoLostWakeup'
<1> DEFINE a == edca[l]
           R == RequestsAgain(a, ent[l][a], TRUE, queue[a])
<1>1. /\ phase[l] # "idle" /\ queue' = queue /\ accEvent' = accEvent
      /\ reqEvent' = [reqEvent EXCEPT ![l] = @ \cup R]
  BY DEF PedcaCtsEnd, CfEndDone, PifsRecoveryFails, EndRelease
<1>2. a \in ACs /\ edca[l] = a
  BY <1>1 DEF IInv, HolderIsEdcaf
<1>3. \E e : SetEntity(l, a, e)
  BY DEF PedcaCtsEnd, CfEndDone, PifsRecoveryFails, EndRelease
<1> DEFINE q == queue[a]
<1>4. ent[l][a].txop # NoTxop /\ queue' = [queue EXCEPT ![a] = q] /\ q \in {queue[a], queue[a] - 1}
  BY <1>1, <1>2, QueueUntouched DEF HolderInv, HolderOK, HolderUsesChannel
<1>5. q > 0 => a \in R
  BY <1>2, <1>4, RequestsAgainWhen
<1> HIDE DEF a, R, q
<1>6. /\ \A b \in ACs \ {a} : ent'[l][b] = ent[l][b]
      /\ \A k \in Links \ {l}, b \in ACs : ent'[k][b] = ent[k][b]
  BY <1>2, <1>3, SetEntityEffect
<1>7. /\ a \in ACs /\ q \in {queue[a], queue[a] - 1} /\ queue' = [queue EXCEPT ![a] = q]
      /\ reqEvent' = [reqEvent EXCEPT ![l] = @ \cup R] /\ accEvent' = accEvent
      /\ q > 0 => a \in R \/ ent'[l][a].access # "NOT_REQUESTED"
  BY <1>1, <1>2, <1>4, <1>5
<1>8. EndsExchange(l, a, R, q)
  BY <1>6, <1>7 DEF EndsExchange
<1>. QED  BY <1>2, <1>8, ExchangeWakes

\* QosFrameExchangeManager::TransmissionSucceeded.
LEMMA SucceededWakes ==
  ASSUME IInv, HolderInv', NoLostWakeup, NEW l \in Links, TransmissionSucceeded(l)
  PROVE  NoLostWakeup'
<1>1. PICK a \in ACs, acked \in BOOLEAN : SucceedsAs(l, a, acked)
  BY SucceededCases
<1> DEFINE h == Succeeded(a, ent[l][a], acked)
           q == queue[a] - 1
           again == RequestsAgain(a, h, TRUE, q)
           r == Releases(l, a, h, TRUE, q)
<1>2. h.txop # NoTxop
  BY SucceededEffect DEF IInv, EntitiesConsistent
<1>3. /\ queue' = [queue EXCEPT ![a] = q] /\ accEvent' = accEvent
      /\ \/ /\ SetEntity(l, a, h)
            /\ phase' = [phase EXCEPT ![l] = "sifs"]
            /\ edca' = [edca EXCEPT ![l] = a] /\ reqEvent' = reqEvent
         \/ /\ SetEntity(l, a, r)
            /\ reqEvent' = [reqEvent EXCEPT ![l] = @ \cup again]
  BY <1>1 DEF SucceedsAs
<1>4. q > 0 => a \in again
  BY <1>2, RequestsAgainWhen
<1>5. q \in {queue[a], queue[a] - 1}
  OBVIOUS
<1> HIDE DEF h, q, again, r
<1>6. PICK e : SetEntity(l, a, e)
  BY <1>3
<1>7. /\ \A b \in ACs \ {a} : ent'[l][b] = ent[l][b]
      /\ \A k \in Links \ {l}, b \in ACs : ent'[k][b] = ent[k][b]
  BY <1>6, SetEntityEffect
<1>8. CASE reqEvent' = [reqEvent EXCEPT ![l] = @ \cup again]
  <2>1. EndsExchange(l, a, again, q)
    BY <1>3, <1>4, <1>5, <1>7, <1>8 DEF EndsExchange
  <2>. QED  BY <2>1, ExchangeWakes
<1>9. CASE /\ phase' = [phase EXCEPT ![l] = "sifs"]
           /\ edca' = [edca EXCEPT ![l] = a] /\ reqEvent' = reqEvent
  <2>1. phase'[l] = "sifs" /\ edca'[l] = a
    BY <1>9, ExchangeEffect
  <2>2. ent'[l][a].access # "NOT_REQUESTED"
    BY <2>1 DEF HolderInv, HolderOK, HolderUsesChannel, Holds
  <2>3. reqEvent' = [reqEvent EXCEPT ![l] = @ \cup {}]
    BY <1>9 DEF IInv, TypeOK
  <2>4. EndsExchange(l, a, {}, q)
    BY <1>3, <1>5, <1>7, <2>2, <2>3 DEF EndsExchange
  <2>. QED  BY <2>4, ExchangeWakes
<1>. QED  BY <1>3, <1>8, <1>9

\* QosFrameExchangeManager::TransmissionFailed.
LEMMA FailedWakes ==
  ASSUME IInv, HolderInv', NoLostWakeup, NEW l \in Links, TransmissionFailed(l)
  PROVE  NoLostWakeup'
<1> DEFINE E == ent[l]
<1>0. phase[l] = "frame" /\ Fail(l, E, "pifs")
  BY DEF TransmissionFailed
<1>1. /\ E \in [ACs -> LinkEntity] /\ E = ent[l]
      /\ \A b \in ACs : E[b] \in Consistent(l, b)
  BY DEF IInv, EntitiesConsistent
<1> HIDE DEF E
<1>2. PICK a \in ACs, force \in BOOLEAN, drop \in BOOLEAN : FailsAs(l, E, "pifs", a, force, drop)
  BY <1>0, <1>1, FailCases
<1> DEFINE f == Failed(E[a])
           q == IF drop THEN queue[a] - 1 ELSE queue[a]
           again == RequestsAgain(a, f, TRUE, q)
           more == IF HasFramesToTransmit(q) THEN {a} ELSE {}
<1>3. f.txop # NoTxop
  BY <1>1, FailedEffect
<1>4. q > 0 => a \in again /\ a \in more
  BY <1>3, RequestsAgainWhen DEF HasFramesToTransmit
<1>5. q \in {queue[a], queue[a] - 1}
  OBVIOUS
<1>6. /\ queue' = [queue EXCEPT ![a] = q] /\ accEvent' = accEvent
      /\ \E e : ent' = [ent EXCEPT ![l] = [E EXCEPT ![a] = e]]
      /\ \/ reqEvent' = [reqEvent EXCEPT ![l] = @ \cup again]
         \/ reqEvent' = [reqEvent EXCEPT ![l] = @ \cup more]
         \/ /\ phase' = [phase EXCEPT ![l] = "pifs"]
            /\ edca' = [edca EXCEPT ![l] = a] /\ reqEvent' = reqEvent
  BY <1>2 DEF FailsAs
<1> HIDE DEF f, q, again, more
<1>7. /\ \A b \in ACs \ {a} : ent'[l][b] = ent[l][b]
      /\ \A k \in Links \ {l}, b \in ACs : ent'[k][b] = ent[k][b]
  BY <1>1, <1>6, UpdateOneEffect
<1>8. ASSUME NEW R \in {again, more}, reqEvent' = [reqEvent EXCEPT ![l] = @ \cup R]
      PROVE  NoLostWakeup'
  <2>1. /\ queue' = [queue EXCEPT ![a] = q] /\ accEvent' = accEvent
        /\ q > 0 => a \in R \/ ent'[l][a].access # "NOT_REQUESTED"
    BY <1>4, <1>6, <1>8
  <2>2. EndsExchange(l, a, R, q)
    BY <1>5, <1>7, <1>8, <2>1 DEF EndsExchange
  <2>. QED  BY <2>2, ExchangeWakes
<1>9. CASE /\ phase' = [phase EXCEPT ![l] = "pifs"]
           /\ edca' = [edca EXCEPT ![l] = a] /\ reqEvent' = reqEvent
  <2>1. phase'[l] = "pifs" /\ edca'[l] = a
    BY <1>9, ExchangeEffect
  <2>2. ent'[l][a].access # "NOT_REQUESTED"
    BY <2>1 DEF HolderInv, HolderOK, HolderUsesChannel, Holds
  <2>3. reqEvent' = [reqEvent EXCEPT ![l] = @ \cup {}]
    BY <1>9 DEF IInv, TypeOK
  <2>4. EndsExchange(l, a, {}, q)
    BY <1>5, <1>6, <1>7, <2>2, <2>3 DEF EndsExchange
  <2>. QED  BY <2>4, ExchangeWakes
<1>. QED  BY <1>6, <1>8, <1>9

\* The requests after a grant to a: of the EDCAFs that collided or whose PIFS
\* recovery was aborted, and of those in the set again.
LEMMA CollideWakes ==
  ASSUME IInv, NoLostWakeup, NEW l \in Links, NEW a \in ACs, NEW e,
         NEW L \in SUBSET MayCollide(l, a), NEW D, NEW again,
         Settle(l, a, e, L), Collide(l, a, L, D, again), accEvent' = accEvent,
         Awake(l, a) /\ queue'[a] > 0 => \E k \in Links : Awake(k, a)'
  PROVE  NoLostWakeup'
<1>1. queue \in [ACs -> Nat]
  BY DEF IInv, TypeOK
<1>2. \A b \in ACs : queue'[b] \in {queue[b], queue[b] - 1}
  BY DEF Collide
<1>3. \A b \in ACs : queue'[b] > 0 => queue[b] > 0
  BY <1>1, <1>2
<1> DEFINE R == again \cup {b \in L : HasFramesToTransmit(queue'[b])}
                      \cup {b \in Preempted(l, a) : queue[b] > 0}
<1>4. reqEvent' = [reqEvent EXCEPT ![l] = @ \cup R]
  <2>1. reqEvent' = [reqEvent EXCEPT ![l] =
                       reqEvent[l] \cup again \cup {b \in L : HasFramesToTransmit(queue'[b])}
                                   \cup {b \in Preempted(l, a) : queue[b] > 0}]
    BY DEF Collide
  <2>2. reqEvent[l] \cup again \cup {b \in L : HasFramesToTransmit(queue'[b])}
                    \cup {b \in Preempted(l, a) : queue[b] > 0} = reqEvent[l] \cup R
    OBVIOUS
  <2> HIDE DEF R
  <2>. QED  BY <2>1, <2>2
<1>5. /\ reqEvent'[l] = reqEvent[l] \cup R
      /\ \A k \in Links \ {l} : reqEvent'[k] = reqEvent[k]
  <2> HIDE DEF R
  <2>. QED  BY <1>4, RequestEffect
<1>6. OnlyLinkWakes(l)
  BY <1>5, SettleEffect DEF OnlyLinkWakes
<1>7. ASSUME NEW b \in ACs \ {a}, queue'[b] > 0, Awake(l, b) PROVE Awake(l, b)'
  <2>1. CASE b \in L
    <3>1. b \in R
      BY <1>7, <2>1 DEF HasFramesToTransmit
    <3>. QED  BY <1>5, <3>1 DEF Awake
  <2>2. CASE b \notin L /\ phase[l] = "pifs" /\ b = edca[l]
    <3>1. b \in R
      BY <1>3, <1>7, <2>2 DEF Preempted
    <3>. QED  BY <1>5, <3>1 DEF Awake
  <2>3. CASE b \notin L /\ ~(phase[l] = "pifs" /\ b = edca[l])
    <3>1. ent'[l][b] = ent[l][b]
      BY <2>3, SettleEffect
    <3> HIDE DEF R
    <3>. QED  BY <1>5, <1>7, <3>1 DEF Awake
  <2>. QED  BY <2>1, <2>2, <2>3
<1>8. ASSUME NEW b \in ACs, queue'[b] > 0, Awake(l, b) PROVE \E k \in Links : Awake(k, b)'
  BY <1>7, <1>8
<1>. QED  BY <1>3, <1>6, <1>8, WakeStep

\* An MPDU that is not available to link l is being sent on another link.
LEMMA SentElsewhere ==
  ASSUME IInv, NEW l \in Links, NEW a \in ACs, queue[a] > 0, ~Available(l, a, queue[a])
  PROVE  \E k \in Links \ {l} : phase[k] = "frame" /\ edca[k] = a
<1> SUFFICES ASSUME ~\E k \in Links \ {l} : phase[k] = "frame" /\ edca[k] = a PROVE FALSE
  OBVIOUS
<1>1. {k \in Links \ {l} : phase[k] = "frame" /\ edca[k] = a} = {}
  OBVIOUS
<1>2. InFlight(a, Links \ {l}) = 0
  BY <1>1, FS_EmptySet DEF InFlight
<1>3. queue[a] \in Nat
  BY DEF IInv, TypeOK
<1>. QED  BY <1>2, <1>3 DEF Available

\* QosFrameExchangeManager::StartTransmission: who gets the channel uses it, and
\* who gives it back without a frame to send leaves its MPDUs to another link.
LEMMA StartTransmissionWakes ==
  ASSUME IInv, HolderInv, HolderInv', NoLostWakeup, NEW l \in Links, NEW a \in ACs,
         NEW L \in SUBSET MayCollide(l, a), NEW D, StartTransmission(l, a, L, D)
  PROVE  NoLostWakeup'
<1>1. ASSUME NEW e, Proceed(l, a, e, L, D),
             NEW ph \in {"cts", "frame", "cfend"}, phase' = [phase EXCEPT ![l] = ph]
      PROVE  NoLostWakeup'
  <2>1. /\ Settle(l, a, e, L) /\ Collide(l, a, L, D, {}) /\ accEvent' = accEvent
        /\ edca' = [edca EXCEPT ![l] = a]
    BY <1>1 DEF Proceed
  <2>2. phase'[l] = ph /\ edca'[l] = a
    BY <1>1, <2>1, ExchangeEffect
  <2>3. Holds(l, a)'
    BY <2>2 DEF Holds
  <2>4. Awake(l, a)'
    BY <2>3 DEF HolderInv, HolderOK, HolderUsesChannel, Awake
  <2>. QED  BY <2>1, <2>4, CollideWakes
<1>2. CASE SendPedcaCts(l, a, L, D) \/ StartTxop(l, a, L, D) \/ ContinueTxop(l, a, L, D)
             \/ SendCfEnd(l, a, L, D)
  <2>1. /\ \E e : Proceed(l, a, e, L, D)
        /\ \E ph \in {"cts", "frame", "cfend"} : phase' = [phase EXCEPT ![l] = ph]
    BY <1>2 DEF SendPedcaCts, StartTxop, ContinueTxop, SendCfEnd
  <2>. QED  BY <1>1, <2>1
<1>3. CASE EndTxop(l, a)
  <2> DEFINE R == RequestsAgain(a, ent[l][a], TRUE, queue[a])
             e == Releases(l, a, ent[l][a], TRUE, queue[a])
             N == {}
  <2>1. /\ Settle(l, a, e, N) /\ Collide(l, a, N, N, R) /\ accEvent' = accEvent
        /\ N \in SUBSET MayCollide(l, a)
    BY <1>3 DEF EndTxop, GiveUp
  <2>2. ent[l][a].txop # NoTxop
    BY <1>3 DEF EndTxop, StartsNewTxop
  <2>3. queue'[a] = queue[a]
    BY <2>1 DEF Collide, IInv, TypeOK
  <2>4. queue[a] > 0 => a \in R
    BY <2>2, RequestsAgainWhen
  <2> HIDE DEF R, e
  <2>5. R \subseteq reqEvent'[l]
    BY <2>1 DEF Collide, IInv, TypeOK
  <2>6. queue'[a] > 0 => Awake(l, a)'
    BY <2>3, <2>4, <2>5 DEF Awake
  <2> HIDE DEF N
  <2>. QED  BY <2>1, <2>6, CollideWakes
<1>4. CASE NoFrameTransmitted(l, a)
  <2> DEFINE R == RequestsAgain(a, ent[l][a], FALSE, queue[a])
             e == Releases(l, a, ent[l][a], FALSE, queue[a])
             N == {}
  <2>1. /\ Settle(l, a, e, N) /\ Collide(l, a, N, N, R) /\ accEvent' = accEvent
        /\ N \in SUBSET MayCollide(l, a)
    BY <1>4 DEF NoFrameTransmitted, GiveUp
  <2>2. queue'[a] = queue[a]
    BY <2>1 DEF Collide, IInv, TypeOK
  <2> HIDE DEF R, e, N
  <2>3. ASSUME queue'[a] > 0 PROVE \E k \in Links : Awake(k, a)'
    <3>1. PICK k \in Links \ {l} : phase[k] = "frame" /\ edca[k] = a
      BY <1>4, <2>2, <2>3, SentElsewhere DEF NoFrameTransmitted
    <3>2. ent[k][a].access # "NOT_REQUESTED"
      BY <3>1 DEF HolderInv, HolderOK, HolderUsesChannel, Holds
    <3>3. ent'[k] = ent[k]
      BY <2>1, SettleEffect
    <3>. QED  BY <3>2, <3>3 DEF Awake
  <2>. QED  BY <2>1, <2>3, CollideWakes
<1>. QED  BY <1>2, <1>3, <1>4 DEF StartTransmission

\* Txop::StartAccessAfterEvent and Txop::RequestAccess request the channel if they
\* are called with frames to transmit.
LEMMA RequestWakes ==
  ASSUME IInv, NoLostWakeup, NEW l \in Links, NEW a \in ACs,
         StartAccessAfterEvent(l, a) \/ RequestAccess(l, a)
  PROVE  NoLostWakeup'
<1> DEFINE e == ent[l][a]
<1>1. /\ queue' = queue /\ e \in LinkEntity
      /\ reqEvent \in [Links -> SUBSET ACs] /\ accEvent \in [Links -> [ACs -> AccEvents]]
      /\ ent \in [Links -> [ACs -> LinkEntity]]
  BY DEF StartAccessAfterEvent, RequestAccess, IInv, TypeOK
<1>2. /\ \A k \in Links \ {l} : reqEvent'[k] = reqEvent[k]
      /\ \A k \in Links \ {l}, b \in ACs : accEvent'[k][b] = accEvent[k][b]
      /\ \A b \in ACs \ {a} : b \in reqEvent[l] => b \in reqEvent'[l]
      /\ \A b \in ACs \ {a} : accEvent'[l][b] = accEvent[l][b]
  BY <1>1 DEF StartAccessAfterEvent, RequestAccess
<1>3. \/ UNCHANGED ent /\ (e.access # "NOT_REQUESTED" \/ ~(queue[a] > 0))
      \/ \E f \in {e, GenerateBackoff(l, a, e)} :
              SetEntity(l, a, [f EXCEPT !.access = "REQUESTED"])
  BY DEF StartAccessAfterEvent, RequestAccess, HasFramesToTransmit
<1>4. /\ \A b \in ACs \ {a} : ent'[l][b] = ent[l][b]
      /\ \A k \in Links \ {l}, b \in ACs : ent'[k][b] = ent[k][b]
      /\ ent'[l][a].access # "NOT_REQUESTED" \/ ~(queue[a] > 0)
  <2>1. CASE UNCHANGED ent /\ (e.access # "NOT_REQUESTED" \/ ~(queue[a] > 0))
    BY <2>1
  <2>2. ASSUME NEW f \in {e, GenerateBackoff(l, a, e)},
               SetEntity(l, a, [f EXCEPT !.access = "REQUESTED"])
        PROVE  /\ \A b \in ACs \ {a} : ent'[l][b] = ent[l][b]
               /\ \A k \in Links \ {l}, b \in ACs : ent'[k][b] = ent[k][b]
               /\ ent'[l][a].access # "NOT_REQUESTED"
    <3>1. f \in LinkEntity
      BY <1>1, GenerateBackoffConsistent DEF Consistent, IInv, EntitiesConsistent
    <3> DEFINE g == [f EXCEPT !.access = "REQUESTED"]
    <3>2. g.access = "REQUESTED" /\ SetEntity(l, a, g)
      BY <2>2, <3>1 DEF LinkEntity
    <3> HIDE DEF g
    <3>. QED  BY <3>2, SetEntityEffect
  <2>. QED  BY <1>3, <2>1, <2>2
<1>5. OnlyLinkWakes(l)
  BY <1>2, <1>4 DEF OnlyLinkWakes
<1>6. ASSUME NEW b \in ACs, queue'[b] > 0, Awake(l, b) PROVE Awake(l, b)'
  <2>1. CASE b = a
    BY <1>1, <1>4, <1>6, <2>1 DEF Awake
  <2>2. CASE b # a
    BY <1>2, <1>4, <1>6, <2>2 DEF Awake
  <2>. QED  BY <2>1, <2>2
<1>. QED  BY <1>1, <1>5, <1>6, WakeStep

\* Txop::NotifyCcaBusy takes no request back.
LEMMA CcaBusyWakes ==
  ASSUME IInv, NoLostWakeup, NEW l \in Links, CcaBusy(l)
  PROVE  NoLostWakeup'
<1>1. UNCHANGED <<queue, reqEvent, accEvent>>
  BY DEF CcaBusy
<1> DEFINE F(S, b) == IF b \in S THEN GenerateBackoff(l, b, ent[l][b]) ELSE ent[l][b]
<1>2. PICK S : ent' = [ent EXCEPT ![l] = [b \in ACs |-> F(S, b)]]
  BY DEF CcaBusy
<1>3. ent \in [Links -> [ACs -> LinkEntity]]
  BY DEF IInv, TypeOK
<1>4. \A b \in ACs : F(S, b).access = ent[l][b].access
  BY <1>3, GenerateBackoffEffect
<1> HIDE DEF F
<1>5. /\ \A b \in ACs : ent'[l][b].access = ent[l][b].access
      /\ \A k \in Links \ {l}, b \in ACs : ent'[k][b] = ent[k][b]
  BY <1>2, <1>3, <1>4
<1>6. OnlyLinkWakes(l)
  BY <1>1, <1>5 DEF OnlyLinkWakes
<1>7. \A b \in ACs : Awake(l, b) => Awake(l, b)'
  BY <1>1, <1>5 DEF Awake
<1>. QED  BY <1>1, <1>6, <1>7, WakeStep

\* Txop::Queue schedules an event on every link.
LEMMA QueueWakes ==
  ASSUME IInv, NoLostWakeup, NEW a \in ACs, Enqueue(a) \/ Expire(a)
  PROVE  NoLostWakeup'
<1>1. /\ ent' = ent /\ reqEvent' = reqEvent /\ queue \in [ACs -> Nat]
      /\ accEvent \in [Links -> [ACs -> AccEvents]]
  BY DEF Enqueue, Expire, IInv, TypeOK
<1>2. CASE Expire(a)
  <2> DEFINE q == queue[a] - 1
  <2>1. queue' = [queue EXCEPT ![a] = q] /\ q \in {queue[a], queue[a] - 1} /\ accEvent' = accEvent
    BY <1>2 DEF Expire
  <2> HIDE DEF q
  <2>2. \A b \in ACs : queue'[b] > 0 => queue[b] > 0
    BY <2>1, QueueShrinks
  <2>. QED  BY <1>1, <2>1, <2>2 DEF NoLostWakeup
<1>3. CASE Enqueue(a)
  <2> DEFINE v(l) == CASE accEvent[l][a] # "none" -> accEvent[l][a]
                       [] accEvent[l][a] = "none" /\ HasFramesToTransmit(queue[a]) -> "had"
                       [] accEvent[l][a] = "none" /\ ~HasFramesToTransmit(queue[a]) -> "hadnot"
  <2>1. /\ accEvent' = [l \in Links |-> [accEvent[l] EXCEPT ![a] = v(l)]]
        /\ queue' = [queue EXCEPT ![a] = queue[a] + 1]
    BY <1>3 DEF Enqueue
  <2>2. \A l \in Links : v(l) # "none"
    OBVIOUS
  <2> HIDE DEF v
  <2>3. \A l \in Links : Awake(l, a)'
    BY <1>1, <2>1, <2>2 DEF Awake
  <2>4. \A l \in Links, b \in ACs \ {a} : Awake(l, b) => Awake(l, b)'
    BY <1>1, <2>1 DEF Awake
  <2>5. \A b \in ACs \ {a} : queue'[b] = queue[b]
    BY <1>1, <2>1
  <2> SUFFICES ASSUME NEW b \in ACs, queue'[b] > 0 PROVE \E k \in Links : Awake(k, b)'
    BY DEF NoLostWakeup, Awake
  <2>6. CASE b = a
    BY <2>3, <2>6, DeviceAssumption
  <2>7. CASE b # a
    <3>1. PICK k \in Links : Awake(k, b)
      BY <2>5, <2>7 DEF NoLostWakeup, Awake
    <3>. QED  BY <2>4, <2>7, <3>1
  <2>. QED  BY <2>6, <2>7
<1>. QED  BY <1>2, <1>3

\* A device with an MPDU to send always has somebody working on it, on any number
\* of links, unless a channel switch cancels the requests.
THEOREM NobodySleeps ==
  ASSUME ~SwitchOn
  PROVE  Spec => []NoLostWakeup
<1>1. Init => NoLostWakeup
  BY DEF Init, NoLostWakeup
<1>2. IInv /\ HolderInv /\ HolderInv' /\ NoLostWakeup /\ [Next]_vars => NoLostWakeup'
  <2> SUFFICES ASSUME IInv, HolderInv, HolderInv', NoLostWakeup, [Next]_vars
               PROVE  NoLostWakeup'
    OBVIOUS
  <2>1. CASE UNCHANGED vars
    BY <2>1 DEF vars, NoLostWakeup
  <2>2. ASSUME NEW a \in ACs, Enqueue(a) \/ Expire(a) PROVE NoLostWakeup'
    BY <2>2, QueueWakes
  <2>3. ASSUME NEW l \in Links, NEW a \in ACs,
               StartAccessAfterEvent(l, a) \/ RequestAccess(l, a)
        PROVE  NoLostWakeup'
    BY <2>3, RequestWakes
  <2>4. ASSUME NEW l \in Links,
               (\E a \in ACs : GrantAccess(l, a)) \/ SifsElapsed(l) \/ PifsRecovery(l)
        PROVE  NoLostWakeup'
    BY <2>4, StartsTransmission, StartTransmissionWakes
  <2>5. ASSUME NEW l \in Links, Exchange(l) PROVE NoLostWakeup'
    BY <2>4, <2>5, EndReleaseWakes, SucceededWakes, FailedWakes DEF Exchange
  <2>6. ASSUME NEW l \in Links, CcaBusy(l) PROVE NoLostWakeup'
    BY <2>6, CcaBusyWakes
  <2>7. \A l \in Links : ~ChannelSwitch(l)
    BY DEF ChannelSwitch
  <2>. QED  BY <2>1, <2>2, <2>3, <2>4, <2>5, <2>6, <2>7 DEF Next
<1>. QED  BY <1>1, <1>2, Invariance, HolderInvariance, PTL DEF Spec

----------------------------------------------------------------------------
(***************************************************************************)
(* Steps of PedcaRounds between two entities e and f of EDCAF a on link l. *)
(***************************************************************************)
RoundMove(e, f) ==
  \/ /\ Stage(e) \in {"edca", "protected"} /\ Stage(f) = "selected"
     /\ f.psrc = e.psrc
  \/ /\ Stage(e) # "due" /\ e.psrc < PsrcThreshold /\ Stage(f) = "due"
     /\ f.psrc = e.psrc
  \/ /\ Stage(e) = "due" /\ Stage(f) = "protected"
     /\ f.psrc = e.psrc + 1
  \/ /\ Stage(e) \in {"selected", "protected"} /\ Stage(f) = "edca"
     /\ f.psrc = 0
  \/ /\ QsrcThreshold = 0 /\ PsrcThreshold > 0
     /\ Stage(e) \in {"selected", "protected"} /\ Stage(f) = "due"
     /\ f.psrc = 0
  \/ /\ Stage(f) = Stage(e)
     /\ f.psrc = e.psrc

\* What is left of a round when it ends.
CleanMove(l, a, e, f) ==
  PedcaCapable(l, a) /\ e.pedcaMode /\ ~f.pedcaMode
  => f.psrc = 0 /\ f.pedcaTriggerCount = 0 /\ ~f.pedcaCtsPending /\ ~f.pedcaAfterCts

\* The counters and flags of P-EDCA are the same.
SamePedca(e, f) ==
  /\ f.pedcaTriggerCount = e.pedcaTriggerCount
  /\ f.psrc = e.psrc
  /\ f.pedcaMode = e.pedcaMode
  /\ f.pedcaCtsPending = e.pedcaCtsPending
  /\ f.pedcaAfterCts = e.pedcaAfterCts

\* The stages, by the flags.
LEMMA StageFacts ==
  ASSUME NEW e \in LinkEntity
  PROVE  /\ Stage(e) = "due" <=> e.pedcaCtsPending
         /\ Stage(e) = "protected" <=> ~e.pedcaCtsPending /\ e.pedcaAfterCts
         /\ Stage(e) = "selected" <=> ~e.pedcaCtsPending /\ ~e.pedcaAfterCts /\ e.pedcaMode
         /\ Stage(e) = "edca" <=> ~e.pedcaCtsPending /\ ~e.pedcaAfterCts /\ ~e.pedcaMode
BY DEF Stage, LinkEntity

\* Operations on the rest of the entity are no steps of a round ...
LEMMA SameStage ==
  ASSUME NEW l \in Links, NEW a \in ACs, NEW e \in LinkEntity, NEW f \in LinkEntity,
         SamePedca(e, f)
  PROVE  Stage(f) = Stage(e) /\ RoundMove(e, f) /\ CleanMove(l, a, e, f)
<1>1. Stage(f) = Stage(e)
  BY StageFacts DEF SamePedca, Stage
<1>. QED  BY <1>1 DEF RoundMove, CleanMove, SamePedca

\* ... before and after one.
LEMMA MoveOfSame ==
  ASSUME NEW l \in Links, NEW a \in ACs,
         NEW e \in LinkEntity, NEW g \in LinkEntity, NEW h \in LinkEntity, NEW f \in LinkEntity,
         SamePedca(e, g), SamePedca(h, f)
  PROVE  /\ RoundMove(g, h) => RoundMove(e, f)
         /\ CleanMove(l, a, g, h) => CleanMove(l, a, e, f)
<1>1. Stage(g) = Stage(e) /\ Stage(f) = Stage(h) /\ g.psrc = e.psrc /\ f.psrc = h.psrc
  BY SameStage DEF SamePedca
<1>2. RoundMove(g, h) => RoundMove(e, f)
  BY <1>1 DEF RoundMove
<1>3. CleanMove(l, a, g, h) => CleanMove(l, a, e, f)
  BY DEF CleanMove, SamePedca
<1>. QED  BY <1>2, <1>3

\* In particular, before one.
LEMMA MoveAfterSame ==
  ASSUME NEW l \in Links, NEW a \in ACs,
         NEW e \in LinkEntity, NEW g \in LinkEntity, NEW f \in LinkEntity,
         SamePedca(e, g), RoundMove(g, f), CleanMove(l, a, g, f)
  PROVE  RoundMove(e, f) /\ CleanMove(l, a, e, f)
<1>1. SamePedca(f, f)
  BY DEF SamePedca
<1>. QED  BY <1>1, MoveOfSame

----------------------------------------------------------------------------
(***************************************************************************)
(* The operations of QosTxop.                                              *)
(***************************************************************************)
\* Contention window, access status and TXOP are not P-EDCA's.
LEMMA OtherOperations ==
  ASSUME NEW a \in ACs, NEW e \in LinkEntity, NEW s, NEW t
  PROVE  /\ SamePedca(e, UpdateFailedCw(a, e))
         /\ SamePedca(e, ResetCw(a, e))
         /\ SamePedca(e, ResetBackoff(a, e))
         /\ SamePedca(e, NotifyChannelAccessed(e, t))
         /\ SamePedca(e, [e EXCEPT !.access = s])
         /\ SamePedca(e, [e EXCEPT !.txop = t])
         /\ SamePedca(e, [e EXCEPT !.txop = t, !.access = s])
<1>1. SamePedca(e, UpdateFailedCw(a, e)) /\ SamePedca(e, ResetCw(a, e))
  BY DEF UpdateFailedCw, ResetCw, LinkEntity, SamePedca
<1>2. SamePedca(e, ResetBackoff(a, e))
  BY DEF ResetBackoff, ResetCw, LinkEntity, SamePedca
<1>3. SamePedca(e, NotifyChannelAccessed(e, t))
  BY DEF NotifyChannelAccessed, LinkEntity, SamePedca
<1>4. /\ SamePedca(e, [e EXCEPT !.access = s]) /\ SamePedca(e, [e EXCEPT !.txop = t])
      /\ SamePedca(e, [e EXCEPT !.txop = t, !.access = s])
  BY DEF LinkEntity, SamePedca
<1>. QED  BY <1>1, <1>2, <1>3, <1>4

\* QosTxop::ResetPedcaCounters ends the round of an EDCAF with no CTS-to-self due.
LEMMA ResetMove ==
  ASSUME NEW l \in Links, NEW a \in ACs, NEW e \in Consistent(l, a)
  PROVE  /\ CleanMove(l, a, e, ResetPedcaCounters(e))
         /\ ~e.pedcaCtsPending => RoundMove(e, ResetPedcaCounters(e))
<1> DEFINE f == ResetPedcaCounters(e)
<1>1. e \in LinkEntity
  BY DEF Consistent
<1>2. /\ f.psrc = 0 /\ f.pedcaTriggerCount = 0 /\ ~f.pedcaMode
      /\ ~f.pedcaCtsPending /\ ~f.pedcaAfterCts
  BY <1>1 DEF ResetPedcaCounters, LinkEntity
<1>3. Stage(f) = "edca"
  BY <1>2 DEF Stage
<1>4. e.psrc = 0 \/ e.pedcaMode
  BY DEF Consistent
<1>5. ASSUME ~e.pedcaCtsPending PROVE RoundMove(e, f)
  <2>1. Stage(e) \in {"selected", "protected"} \/ (Stage(e) = "edca" /\ ~e.pedcaMode)
    BY <1>1, <1>5, StageFacts DEF Stage
  <2>. QED  BY <1>2, <1>3, <1>4, <2>1 DEF RoundMove
<1>. QED  BY <1>2, <1>5 DEF CleanMove

\* The P-EDCA branch of QosTxop::GenerateBackoff is a step of a round.
LEMMA PedcaBackoffMove ==
  ASSUME NEW l \in Links, NEW a \in ACs, NEW e \in Consistent(l, a)
  PROVE  RoundMove(e, PedcaBackoff(e)) /\ CleanMove(l, a, e, PedcaBackoff(e))
<1> DEFINE f == PedcaBackoff(e)
<1>0. e \in LinkEntity /\ (e.pedcaAfterCts => e.pedcaMode) /\ (e.pedcaCtsPending => e.pedcaMode)
  BY DEF Consistent
<1>1. CASE ~Selected(e)
  <2>1. ~e.pedcaMode
    BY <1>1 DEF Selected
  <2>2. f = [e EXCEPT !.pedcaMode = FALSE, !.pedcaAfterCts = FALSE]
    BY <1>1 DEF PedcaBackoff
  <2>3. SamePedca(e, f) /\ f \in LinkEntity
    BY <1>0, <2>1, <2>2 DEF SamePedca, LinkEntity
  <2>. QED  BY <1>0, <2>3, SameStage
<1>2. CASE Selected(e) /\ e.psrc = PsrcThreshold
  <2>1. f = ResetPedcaCounters(e)
    BY <1>2 DEF PedcaBackoff
  <2>2. ~e.pedcaCtsPending
    BY <1>2, ThresholdAssumption DEF Consistent
  <2>. QED  BY <2>1, <2>2, ResetMove
<1>3. CASE Selected(e) /\ e.psrc # PsrcThreshold /\ e.pedcaAfterCts
  <2>1. f = [e EXCEPT !.pedcaMode = TRUE]
    BY <1>3 DEF PedcaBackoff
  <2>2. SamePedca(e, f) /\ f \in LinkEntity
    BY <1>0, <1>3, <2>1 DEF SamePedca, LinkEntity
  <2>. QED  BY <1>0, <2>2, SameStage
<1>4. CASE Selected(e) /\ e.psrc # PsrcThreshold /\ ~e.pedcaAfterCts
  <2>1. f = [[e EXCEPT !.pedcaMode = TRUE] EXCEPT !.pedcaCtsPending = TRUE]
    BY <1>4 DEF PedcaBackoff, GenerateUhrVoBackoff
  <2>2. f \in LinkEntity /\ f.pedcaCtsPending /\ f.pedcaMode /\ f.psrc = e.psrc
    BY <1>0, <2>1 DEF LinkEntity
  <2>3. Stage(f) = "due"
    BY <2>2, StageFacts
  <2>4. e.psrc < PsrcThreshold
    BY <1>4, ThresholdAssumption DEF Consistent, LinkEntity
  <2>. QED  BY <2>2, <2>3, <2>4 DEF RoundMove, CleanMove
<1>. QED  BY <1>1, <1>2, <1>3, <1>4

\* QosTxop::GenerateBackoff, on a link where P-EDCA is allowed and elsewhere.
LEMMA GenerateBackoffMove ==
  ASSUME NEW l \in Links, NEW a \in ACs, NEW e \in Consistent(l, a)
  PROVE  RoundMove(e, GenerateBackoff(l, a, e)) /\ CleanMove(l, a, e, GenerateBackoff(l, a, e))
<1> DEFINE f == GenerateBackoff(l, a, e)
<1>0. e \in LinkEntity
  BY DEF Consistent
<1>1. CASE ~IsUhrVo(l, a)
  <2>1. f = e
    BY <1>1 DEF GenerateBackoff, PedcaCapable
  <2>2. SamePedca(e, e)
    BY DEF SamePedca
  <2>. QED  BY <1>0, <2>1, <2>2, SameStage
<1>2. CASE IsUhrVo(l, a) /\ NotPreferred(l)
  <2>1. f = [e EXCEPT !.pedcaMode = FALSE, !.pedcaAfterCts = FALSE, !.pedcaCtsPending = FALSE]
    BY <1>2 DEF GenerateBackoff, PedcaCapable
  <2>2. ~PedcaCapable(l, a)
    BY <1>2 DEF PedcaCapable
  <2>3. /\ f \in LinkEntity /\ f.psrc = e.psrc
        /\ ~f.pedcaMode /\ ~f.pedcaAfterCts /\ ~f.pedcaCtsPending
    BY <1>0, <2>1 DEF LinkEntity
  <2>4. e.psrc = 0 /\ ~e.pedcaCtsPending /\ ~e.pedcaAfterCts
    BY <2>2 DEF Consistent
  <2>5. Stage(f) = "edca" /\ Stage(e) \in {"edca", "selected"}
    BY <1>0, <2>3, <2>4, StageFacts DEF Stage
  <2>. QED  BY <2>2, <2>3, <2>4, <2>5 DEF RoundMove, CleanMove
<1>3. CASE PedcaCapable(l, a)
  <2>1. f = PedcaBackoff(e)
    BY <1>3 DEF GenerateBackoff, PedcaCapable
  <2>. QED  BY <2>1, PedcaBackoffMove
<1>. QED  BY <1>1, <1>2, <1>3 DEF PedcaCapable

\* QosTxop::NotifyChannelReleased and Txop::NotifyChannelReleased.
LEMMA ReleaseMove ==
  ASSUME NEW l \in Links, NEW a \in ACs, NEW e \in Consistent(l, a)
  PROVE  /\ \A elapsed \in BOOLEAN : \A q :
              LET f == Releases(l, a, e, elapsed, q)
              IN  RoundMove(e, f) /\ CleanMove(l, a, e, f)
         /\ LET f == BackoffInTxop(l, a, e)
            IN  RoundMove(e, f) /\ CleanMove(l, a, e, f)
<1>0. e \in LinkEntity /\ SamePedca(e, e)
  BY DEF Consistent, SamePedca
<1>1. ASSUME NEW elapsed \in BOOLEAN, NEW q, NEW f, f = Releases(l, a, e, elapsed, q)
      PROVE  RoundMove(e, f) /\ CleanMove(l, a, e, f)
  <2> DEFINE b == BacksOffOnRelease(e, elapsed, q > 0 /\ BackoffOnNoTx)
             g == IF b THEN GenerateBackoff(l, a, e) ELSE e
  <2>1. g \in LinkEntity
    BY <1>0, GenerateBackoffConsistent DEF Consistent
  <2>2. RoundMove(e, g) /\ CleanMove(l, a, e, g)
    BY <1>0, GenerateBackoffMove, SameStage
  <2>3. f = [g EXCEPT !.txop = NoTxop, !.access = "NOT_REQUESTED"]
    BY <1>1 DEF Releases, Released
  <2> HIDE DEF g
  <2>4. SamePedca(g, f) /\ f \in LinkEntity
    BY <2>1, <2>3 DEF SamePedca, LinkEntity, AccessStatus
  <2>. QED  BY <1>0, <2>1, <2>2, <2>4, MoveOfSame
<1>2. ASSUME NEW f, f = BackoffInTxop(l, a, e)
      PROVE  RoundMove(e, f) /\ CleanMove(l, a, e, f)
  <2> DEFINE g == [e EXCEPT !.access = "NOT_REQUESTED"]
  <2>1. g \in Consistent(l, a) /\ g \in LinkEntity
    BY AccessConsistent DEF AccessStatus, Consistent
  <2>2. SamePedca(e, g) /\ f = GenerateBackoff(l, a, g)
    BY <1>0, <1>2, OtherOperations DEF BackoffInTxop
  <2> HIDE DEF g
  <2>3. RoundMove(g, f) /\ CleanMove(l, a, g, f)
    BY <2>1, <2>2, GenerateBackoffMove
  <2>4. f \in LinkEntity /\ SamePedca(f, f)
    BY <2>1, <2>2, GenerateBackoffConsistent DEF Consistent, SamePedca
  <2>. QED  BY <1>0, <2>1, <2>2, <2>3, <2>4, MoveOfSame
<1>. QED  BY <1>1, <1>2

\* FrameExchangeManager::NotifyInternalCollision.
LEMMA CollidedMove ==
  ASSUME IInv, NEW l \in Links, NEW b \in ACs
  PROVE  /\ RoundMove(ent[l][b], Collided(l, b))
         /\ CleanMove(l, b, ent[l][b], Collided(l, b))
<1> DEFINE e == ent[l][b]
           g == UpdateFailedCw(b, e)
           f == Collided(l, b)
<1>1. e \in Consistent(l, b) /\ e \in LinkEntity
  BY DEF IInv, EntitiesConsistent, TypeOK
<1>2. g \in Consistent(l, b) /\ SamePedca(e, g)
  BY <1>1, UpdateFailedCwConsistent, OtherOperations
<1>3. f = BackoffInTxop(l, b, g)
  BY DEF Collided
<1> HIDE DEF g, f
<1>4. RoundMove(g, f) /\ CleanMove(l, b, g, f)
  BY <1>2, <1>3, ReleaseMove
<1>5. g \in LinkEntity /\ f \in LinkEntity /\ SamePedca(f, f)
  BY <1>2, <1>3, BackoffInTxopConsistent DEF Consistent, SamePedca
<1>6. RoundMove(e, f) /\ CleanMove(l, b, e, f)
  BY <1>1, <1>2, <1>4, <1>5, MoveOfSame
<1>. QED  BY <1>6 DEF f

\* QosFrameExchangeManager::SendPedcaCtsAndRecontend.
LEMMA SendPedcaCtsMove ==
  ASSUME NEW l \in Links, NEW a \in ACs, NEW e \in Consistent(l, a), e.pedcaCtsPending
  PROVE  LET f == [NotifyChannelAccessed(e, 0) EXCEPT !.pedcaCtsPending = FALSE,
                                                      !.psrc            = @ + 1,
                                                      !.pedcaAfterCts   = TRUE]
         IN  RoundMove(e, f) /\ CleanMove(l, a, e, f)
<1> DEFINE f == [NotifyChannelAccessed(e, 0) EXCEPT !.pedcaCtsPending = FALSE,
                                                    !.psrc            = @ + 1,
                                                    !.pedcaAfterCts   = TRUE]
<1>1. e \in LinkEntity /\ f \in LinkEntity
  BY SendPedcaCtsConsistent DEF Consistent
<1>2. ~f.pedcaCtsPending /\ f.pedcaAfterCts /\ f.psrc = e.psrc + 1 /\ f.pedcaMode = e.pedcaMode
  BY <1>1 DEF NotifyChannelAccessed, LinkEntity
<1>3. Stage(e) = "due" /\ Stage(f) = "protected"
  BY <1>1, <1>2, StageFacts
<1> HIDE DEF f
<1>4. RoundMove(e, f) /\ CleanMove(l, a, e, f)
  BY <1>2, <1>3 DEF RoundMove, CleanMove
<1>. QED  BY <1>4 DEF f

----------------------------------------------------------------------------
(***************************************************************************)
(* The outcome of a frame exchange.                                        *)
(***************************************************************************)
\* A success takes an EDCAF out of P-EDCA mode.
LEMMA SucceededMove ==
  ASSUME NEW l \in Links, NEW a \in ACs, NEW e \in Consistent(l, a), NEW acked \in BOOLEAN,
         NEW h, h = Succeeded(a, e, acked)
  PROVE  /\ CleanMove(l, a, e, h)
         /\ ~e.pedcaCtsPending => RoundMove(e, h)
         /\ \/ SamePedca(e, h) /\ ~e.pedcaMode
            \/ h.pedcaTriggerCount = 0 /\ h.psrc = 0 /\ ~h.pedcaMode
<1> DEFINE g == IF acked THEN ResetCw(a, e) ELSE e
           r == IF g.pedcaMode THEN ResetPedcaCounters(g) ELSE g
<1>1. e \in LinkEntity /\ SamePedca(e, e)
  BY DEF Consistent, SamePedca
<1>2. g \in Consistent(l, a) /\ g \in LinkEntity /\ SamePedca(e, g)
  BY <1>1, ResetCwConsistent, OtherOperations DEF Consistent
<1>3. h = [r EXCEPT !.txop = Spend(g)]
  BY DEF Succeeded
<1>4. h \in LinkEntity
  BY SucceededEffect DEF Consistent
<1> HIDE DEF g
<1>5. r \in LinkEntity
  BY <1>2, ResetPedcaConsistent DEF Consistent
<1>6. SamePedca(r, h)
  <2> HIDE DEF r
  <2>. QED  BY <1>3, <1>5, OtherOperations
<1>7. CASE ~g.pedcaMode
  <2>1. SamePedca(e, h) /\ ~e.pedcaMode
    BY <1>2, <1>6, <1>7 DEF SamePedca
  <2>. QED  BY <1>1, <1>4, <2>1, SameStage
<1>8. CASE g.pedcaMode
  <2>1. r = ResetPedcaCounters(g)
    BY <1>8
  <2> HIDE DEF r
  <2>2. CleanMove(l, a, g, r) /\ (~g.pedcaCtsPending => RoundMove(g, r))
    BY <1>2, <2>1, ResetMove
  <2>3. r.pedcaTriggerCount = 0 /\ r.psrc = 0 /\ ~r.pedcaMode
    BY <1>2, <2>1 DEF ResetPedcaCounters, LinkEntity
  <2>4. CleanMove(l, a, e, h) /\ (~e.pedcaCtsPending => RoundMove(e, h))
    <3>1. g.pedcaCtsPending = e.pedcaCtsPending
      BY <1>2 DEF SamePedca
    <3>. QED  BY <1>1, <1>2, <1>4, <1>5, <1>6, <2>2, <3>1, MoveOfSame
  <2>5. h.pedcaTriggerCount = 0 /\ h.psrc = 0 /\ ~h.pedcaMode
    BY <1>6, <2>3 DEF SamePedca
  <2>. QED  BY <2>4, <2>5
<1>. QED  BY <1>7, <1>8

\* After that the EDCAF is back in EDCA, unless P-EDCA is selected without any
\* failure.
LEMMA FreshRelease ==
  ASSUME NEW l \in Links, NEW a \in ACs, NEW h \in Consistent(l, a), NEW q,
         h.pedcaTriggerCount = 0, h.psrc = 0, ~h.pedcaMode,
         NEW r, r = Releases(l, a, h, TRUE, q)
  PROVE  /\ r.psrc = 0
         /\ \/ Stage(r) = "edca" /\ ~r.pedcaMode
            \/ Stage(r) = "due" /\ r.pedcaMode /\ QsrcThreshold = 0 /\ PsrcThreshold > 0
         /\ ~r.pedcaMode /\ PedcaCapable(l, a)
              => r.pedcaTriggerCount = 0 /\ ~r.pedcaCtsPending /\ ~r.pedcaAfterCts
<1>0. h \in LinkEntity /\ ~h.pedcaAfterCts /\ ~h.pedcaCtsPending
  BY DEF Consistent
<1>1. r \in Consistent(l, a) /\ r \in LinkEntity
  BY ReleasesConsistent DEF Consistent
<1>2. RoundMove(h, r)
  BY ReleaseMove
<1>3. Stage(h) = "edca"
  BY <1>0, StageFacts
<1>4. r.psrc = 0
  BY <1>2, <1>3 DEF RoundMove
<1> DEFINE b == BacksOffOnRelease(h, TRUE, q > 0 /\ BackoffOnNoTx)
           g == IF b THEN GenerateBackoff(l, a, h) ELSE h
<1>5. g \in LinkEntity
  BY <1>0, GenerateBackoffConsistent DEF Consistent
<1>6. r = [g EXCEPT !.txop = NoTxop, !.access = "NOT_REQUESTED"]
  BY DEF Releases, Released
<1>7. CASE ~b \/ ~PedcaCapable(l, a) \/ ~Selected(h)
  <2>1. ~g.pedcaMode /\ g.pedcaTriggerCount = 0
    BY <1>0, <1>7 DEF GenerateBackoff, PedcaBackoff, PedcaCapable, LinkEntity
  <2> HIDE DEF g
  <2>2. ~r.pedcaMode /\ r.pedcaTriggerCount = 0
    BY <1>5, <1>6, <2>1 DEF LinkEntity
  <2>3. ~r.pedcaCtsPending /\ ~r.pedcaAfterCts
    BY <1>1, <2>2 DEF Consistent
  <2>. QED  BY <1>1, <1>4, <2>2, <2>3, StageFacts
<1>8. CASE b /\ PedcaCapable(l, a) /\ Selected(h)
  <2>1. QsrcThreshold = 0
    BY <1>8, ThresholdAssumption DEF Selected
  <2>2. g = PedcaBackoff(h)
    BY <1>8 DEF GenerateBackoff, PedcaCapable
  <2>3. CASE PsrcThreshold = 0
    <3>1. g = ResetPedcaCounters(h)
      BY <1>8, <2>2, <2>3 DEF PedcaBackoff
    <3>2. ~g.pedcaMode /\ g.pedcaTriggerCount = 0
      BY <1>0, <3>1 DEF ResetPedcaCounters, LinkEntity
    <3> HIDE DEF g
    <3>3. ~r.pedcaMode /\ r.pedcaTriggerCount = 0
      BY <1>5, <1>6, <3>2 DEF LinkEntity
    <3>4. ~r.pedcaCtsPending /\ ~r.pedcaAfterCts
      BY <1>1, <3>3 DEF Consistent
    <3>. QED  BY <1>1, <1>4, <3>3, <3>4, StageFacts
  <2>4. CASE PsrcThreshold # 0
    <3>1. g = [[h EXCEPT !.pedcaMode = TRUE] EXCEPT !.pedcaCtsPending = TRUE]
      BY <1>0, <1>8, <2>2, <2>4 DEF PedcaBackoff, GenerateUhrVoBackoff
    <3>2. g.pedcaMode /\ g.pedcaCtsPending
      BY <1>0, <3>1 DEF LinkEntity
    <3> HIDE DEF g
    <3>3. r.pedcaMode /\ r.pedcaCtsPending
      BY <1>5, <1>6, <3>2 DEF LinkEntity
    <3>4. Stage(r) = "due"
      BY <1>1, <3>3, StageFacts
    <3>5. PsrcThreshold > 0
      BY <2>4, ThresholdAssumption
    <3>. QED  BY <1>4, <2>1, <3>3, <3>4, <3>5
  <2>. QED  BY <2>3, <2>4
<1>. QED  BY <1>7, <1>8
\* A failure that is followed by a step of a round is that step, or starts the
\* round.
LEMMA FailedMove ==
  ASSUME NEW l \in Links, NEW a \in ACs, NEW e \in Consistent(l, a),
         NEW f, f = Failed(e), NEW r \in LinkEntity
  PROVE  /\ CleanMove(l, a, f, r) => CleanMove(l, a, e, r)
         /\ ~e.pedcaCtsPending /\ RoundMove(f, r) => RoundMove(e, r)
<1> DEFINE g == FailedEntity(e)
<1>1. e \in LinkEntity /\ f \in LinkEntity /\ g \in LinkEntity
  BY FailedEffect, FailedConsistent DEF Consistent
<1>2. SamePedca(g, f)
  <2>1. f = [g EXCEPT !.txop = Spend(g)]
    BY DEF Failed
  <2> HIDE DEF g
  <2>. QED  BY <1>1, <2>1, OtherOperations
<1>3. CASE e.pedcaMode
  <2>1. g = [e EXCEPT !.pedcaAfterCts = FALSE]
    BY <1>3 DEF FailedEntity
  <2>2. /\ g.pedcaMode /\ g.psrc = e.psrc /\ ~g.pedcaAfterCts
        /\ g.pedcaCtsPending = e.pedcaCtsPending
    BY <1>1, <1>3, <2>1 DEF LinkEntity
  <2> HIDE DEF g
  <2>3. /\ f.pedcaMode /\ f.psrc = e.psrc /\ ~f.pedcaAfterCts
        /\ f.pedcaCtsPending = e.pedcaCtsPending
    BY <1>2, <2>2 DEF SamePedca
  <2>4. CleanMove(l, a, f, r) => CleanMove(l, a, e, r)
    BY <2>3 DEF CleanMove
  <2>5. ASSUME ~e.pedcaCtsPending, RoundMove(f, r) PROVE RoundMove(e, r)
    <3>1. Stage(f) = "selected" /\ Stage(e) \in {"selected", "protected"}
      BY <1>1, <1>3, <2>3, <2>5, StageFacts DEF Stage
    <3>. QED  BY <2>3, <2>5, <3>1 DEF RoundMove
  <2>. QED  BY <2>4, <2>5
<1>4. CASE ~e.pedcaMode
  <2>1. g = IncrementPedcaTriggerCount(e)
    BY <1>4 DEF FailedEntity
  <2>2. e.psrc = 0 /\ ~e.pedcaAfterCts /\ ~e.pedcaCtsPending
    BY <1>4 DEF Consistent
  <2>3. g.psrc = 0 /\ ~g.pedcaAfterCts /\ ~g.pedcaCtsPending
    BY <1>1, <2>1, <2>2 DEF IncrementPedcaTriggerCount, LinkEntity
  <2> HIDE DEF g
  <2>4. f.psrc = 0 /\ ~f.pedcaAfterCts /\ ~f.pedcaCtsPending
    BY <1>2, <2>3 DEF SamePedca
  <2>5. ASSUME RoundMove(f, r) PROVE RoundMove(e, r)
    <3>1. Stage(f) \in {"edca", "selected"} /\ Stage(e) = "edca"
      BY <1>1, <1>4, <2>2, <2>4, StageFacts DEF Stage
    <3>. QED  BY <2>2, <2>4, <2>5, <3>1 DEF RoundMove
  <2>. QED  BY <1>4, <2>5 DEF CleanMove
<1>. QED  BY <1>3, <1>4

\* A success and the release of the channel after it.
LEMMA SucceededReleaseMove ==
  ASSUME NEW l \in Links, NEW a \in ACs, NEW e \in Consistent(l, a), NEW acked \in BOOLEAN,
         NEW h, h = Succeeded(a, e, acked), NEW q, NEW r, r = Releases(l, a, h, TRUE, q)
  PROVE  /\ CleanMove(l, a, e, r)
         /\ ~e.pedcaCtsPending => RoundMove(e, r)
<1>1. e \in LinkEntity /\ h \in LinkEntity /\ h \in Consistent(l, a)
  BY SucceededEffect DEF Consistent
<1>2. r \in LinkEntity /\ SamePedca(r, r)
  BY <1>1, ReleasesConsistent DEF Consistent, SamePedca
<1>3. CASE SamePedca(e, h)
  <2>1. RoundMove(h, r) /\ CleanMove(l, a, h, r)
    BY <1>1, ReleaseMove
  <2>2. /\ SamePedca(e, h) /\ SamePedca(r, r) /\ RoundMove(h, r) /\ CleanMove(l, a, h, r)
        /\ e \in LinkEntity /\ h \in LinkEntity /\ r \in LinkEntity
    BY <1>1, <1>2, <1>3, <2>1
  <2>3. RoundMove(e, r) /\ CleanMove(l, a, e, r)
    BY <2>2, MoveAfterSame
  <2>. QED  BY <2>3
<1>4. CASE h.pedcaTriggerCount = 0 /\ h.psrc = 0 /\ ~h.pedcaMode /\ ~SamePedca(e, h)
  <2>1. /\ r.psrc = 0
        /\ \/ Stage(r) = "edca" /\ ~r.pedcaMode
           \/ Stage(r) = "due" /\ r.pedcaMode /\ QsrcThreshold = 0 /\ PsrcThreshold > 0
        /\ ~r.pedcaMode /\ PedcaCapable(l, a)
             => r.pedcaTriggerCount = 0 /\ ~r.pedcaCtsPending /\ ~r.pedcaAfterCts
    BY <1>1, <1>4, FreshRelease
  <2>2. CleanMove(l, a, e, r)
    BY <2>1 DEF CleanMove
  <2>3. ASSUME ~e.pedcaCtsPending PROVE RoundMove(e, r)
    <3>1. CASE e.pedcaMode
      <4>1. Stage(e) \in {"selected", "protected"}
        BY <1>1, <2>3, <3>1, StageFacts DEF Stage
      <4>. QED  BY <2>1, <4>1 DEF RoundMove
    <3>2. CASE ~e.pedcaMode
      <4>1. Stage(e) = "edca" /\ e.psrc = 0
        BY <1>1, <3>2, StageFacts DEF Consistent
      <4>. QED  BY <2>1, <4>1 DEF RoundMove
    <3>. QED  BY <3>1, <3>2
  <2>. QED  BY <2>2, <2>3
<1>. QED  BY <1>3, <1>4, SucceededMove

\* A failure and what ends the exchange after it, with the contention window
\* updated or not.
LEMMA FailedReleaseMove ==
  ASSUME NEW l \in Links, NEW a \in ACs, NEW e \in Consistent(l, a), NEW f, f = Failed(e), NEW q
  PROVE  LET r == Releases(l, a, f, TRUE, q)
             u == Releases(l, a, UpdateFailedCw(a, f), TRUE, q)
             s == BackoffInTxop(l, a, f)
             v == UpdateFailedCw(a, s)
         IN  \A g \in {f, r, u, s, v} :
               CleanMove(l, a, e, g) /\ (~e.pedcaCtsPending => RoundMove(e, g))
<1>1. e \in LinkEntity /\ f \in LinkEntity /\ f \in Consistent(l, a) /\ SamePedca(f, f)
  BY FailedEffect DEF Consistent, SamePedca
<1>2. SUFFICES \A g \in {f, Releases(l, a, f, TRUE, q),
                         Releases(l, a, UpdateFailedCw(a, f), TRUE, q),
                         BackoffInTxop(l, a, f), UpdateFailedCw(a, BackoffInTxop(l, a, f))} :
                  g \in LinkEntity /\ CleanMove(l, a, f, g) /\ RoundMove(f, g)
  BY FailedMove
<1>3. f \in LinkEntity /\ CleanMove(l, a, f, f) /\ RoundMove(f, f)
  BY <1>1, SameStage
<1>4. ASSUME NEW r, r = Releases(l, a, f, TRUE, q)
      PROVE  r \in LinkEntity /\ CleanMove(l, a, f, r) /\ RoundMove(f, r)
  BY <1>1, <1>4, ReleasesConsistent, ReleaseMove DEF Consistent
<1>5. ASSUME NEW u, u = Releases(l, a, UpdateFailedCw(a, f), TRUE, q)
      PROVE  u \in LinkEntity /\ CleanMove(l, a, f, u) /\ RoundMove(f, u)
  <2> DEFINE g == UpdateFailedCw(a, f)
  <2>1. g \in Consistent(l, a) /\ g \in LinkEntity /\ SamePedca(f, g)
    BY <1>1, UpdateFailedCwConsistent, OtherOperations DEF Consistent
  <2>2. u = Releases(l, a, g, TRUE, q)
    BY <1>5
  <2> HIDE DEF g
  <2>3. u \in LinkEntity /\ SamePedca(u, u)
    BY <2>1, <2>2, ReleasesConsistent DEF Consistent, SamePedca
  <2>4. RoundMove(g, u) /\ CleanMove(l, a, g, u)
    BY <2>1, <2>2, ReleaseMove
  <2>5. RoundMove(f, u) /\ CleanMove(l, a, f, u)
    BY <1>1, <2>1, <2>3, <2>4, MoveOfSame
  <2>. QED  BY <2>3, <2>5
<1>6. ASSUME NEW s, s = BackoffInTxop(l, a, f)
      PROVE  /\ s \in LinkEntity /\ CleanMove(l, a, f, s) /\ RoundMove(f, s)
             /\ \A v : v = UpdateFailedCw(a, s)
                         => v \in LinkEntity /\ CleanMove(l, a, f, v) /\ RoundMove(f, v)
  <2>1. s \in Consistent(l, a) /\ s \in LinkEntity
    BY <1>1, <1>6, BackoffInTxopConsistent DEF Consistent
  <2>2. CleanMove(l, a, f, s) /\ RoundMove(f, s)
    BY <1>1, <1>6, ReleaseMove
  <2>3. ASSUME NEW v, v = UpdateFailedCw(a, s)
        PROVE  v \in LinkEntity /\ CleanMove(l, a, f, v) /\ RoundMove(f, v)
    <3>1. v \in LinkEntity /\ SamePedca(s, v)
      BY <2>1, <2>3, UpdateFailedCwConsistent, OtherOperations DEF Consistent
    <3>2. CleanMove(l, a, f, v) /\ RoundMove(f, v)
      BY <1>1, <2>1, <2>2, <3>1, MoveOfSame
    <3>. QED  BY <3>1, <3>2
  <2>. QED  BY <2>1, <2>2, <2>3
<1>. QED  BY <1>3, <1>4, <1>5, <1>6

----------------------------------------------------------------------------
(***************************************************************************)
(* The actions.  Each one is, for every EDCAF of every link, a step of a   *)
(* round, provided that a CTS-to-self is not due for an EDCAF that holds   *)
(* the channel.                                                            *)
(***************************************************************************)
NoCtsDue == PifsRecoveryOn \/ ~ProactiveOn

EdcafMove(l, a) ==
  /\ CleanMove(l, a, ent[l][a], ent'[l][a])
  /\ NoCtsDue => RoundMove(ent[l][a], ent'[l][a])

Moves == \A l \in Links, a \in ACs : EdcafMove(l, a)

\* An EDCAF that is left alone ...
LEMMA StillMove ==
  ASSUME IInv, NEW l \in Links, NEW a \in ACs, ent'[l][a] = ent[l][a]
  PROVE  EdcafMove(l, a)
<1>1. ent[l][a] \in LinkEntity /\ SamePedca(ent[l][a], ent[l][a])
  BY DEF IInv, TypeOK, SamePedca
<1>. QED  BY <1>1, SameStage DEF EdcafMove

\* ... and a step that changes one.
LEMMA OneMove ==
  ASSUME IInv, NEW l \in Links, NEW a \in ACs, NEW f, SetEntity(l, a, f),
         CleanMove(l, a, ent[l][a], f), NoCtsDue => RoundMove(ent[l][a], f)
  PROVE  Moves
<1>1. /\ ent'[l][a] = f
      /\ \A b \in ACs \ {a} : ent'[l][b] = ent[l][b]
      /\ \A k \in Links \ {l}, b \in ACs : ent'[k][b] = ent[k][b]
  BY SetEntityEffect
<1>2. EdcafMove(l, a)
  BY <1>1 DEF EdcafMove
<1>3. ASSUME NEW k \in Links, NEW b \in ACs PROVE EdcafMove(k, b)
  BY <1>1, <1>2, StillMove
<1>. QED  BY <1>3 DEF Moves

\* The holder owes no CTS-to-self where the invariant says so.
LEMMA HolderMayEnd ==
  ASSUME HolderInv, NEW l \in Links, NEW a \in ACs, phase[l] = "frame", edca[l] = a
  PROVE  NoCtsDue => ~ent[l][a].pedcaCtsPending
BY DEF HolderInv, HolderOK, HolderOwesNoCts, Holds, NoCtsDue

\* Txop::StartAccessAfterEvent and Txop::RequestAccess.
LEMMA RequestMoves ==
  ASSUME IInv, NEW l \in Links, NEW a \in ACs,
         StartAccessAfterEvent(l, a) \/ RequestAccess(l, a)
  PROVE  Moves
<1> DEFINE e == ent[l][a]
<1>0. e \in Consistent(l, a) /\ e \in LinkEntity
  BY DEF IInv, EntitiesConsistent, TypeOK
<1>1. CASE UNCHANGED ent
  BY <1>1, StillMove DEF Moves
<1>2. CASE ~(UNCHANGED ent)
  <2>1. \E f \in {e, GenerateBackoff(l, a, e)} :
           SetEntity(l, a, [f EXCEPT !.access = "REQUESTED"])
    BY <1>2 DEF StartAccessAfterEvent, RequestAccess
  <2>2. PICK f \in {e, GenerateBackoff(l, a, e)} :
          SetEntity(l, a, [f EXCEPT !.access = "REQUESTED"])
    BY <2>1
  <2>3. SamePedca(e, e)
    BY DEF SamePedca
  <2>4. f \in LinkEntity /\ RoundMove(e, f) /\ CleanMove(l, a, e, f)
    BY <1>0, <2>3, SameStage, GenerateBackoffMove, GenerateBackoffConsistent DEF Consistent
  <2> DEFINE g == [f EXCEPT !.access = "REQUESTED"]
  <2>5. g \in LinkEntity
    BY <2>4 DEF LinkEntity, AccessStatus
  <2>6. SamePedca(f, g) /\ SetEntity(l, a, g)
    BY <2>2, <2>4, OtherOperations
  <2> HIDE DEF g
  <2>7. RoundMove(e, g) /\ CleanMove(l, a, e, g)
    BY <1>0, <2>3, <2>4, <2>5, <2>6, MoveOfSame
  <2>. QED  BY <2>6, <2>7, OneMove
<1>. QED  BY <1>1, <1>2

\* Txop::NotifyCcaBusy.
LEMMA CcaBusyMoves ==
  ASSUME IInv, NEW l \in Links, CcaBusy(l)
  PROVE  Moves
<1> DEFINE F(S, b) == IF b \in S THEN GenerateBackoff(l, b, ent[l][b]) ELSE ent[l][b]
<1>1. PICK S \in SUBSET {b \in ACs : ent[l][b].access # "GRANTED"} :
        ent' = [ent EXCEPT ![l] = [b \in ACs |-> F(S, b)]]
  BY DEF CcaBusy
<1>2. ent \in [Links -> [ACs -> LinkEntity]]
  BY DEF IInv, TypeOK
<1>3. ASSUME NEW b \in ACs
      PROVE  F(S, b) = ent[l][b] \/ F(S, b) = GenerateBackoff(l, b, ent[l][b])
  OBVIOUS
<1> HIDE DEF F
<1>4. /\ \A b \in ACs : ent'[l][b] = F(S, b)
      /\ \A k \in Links \ {l}, b \in ACs : ent'[k][b] = ent[k][b]
  BY <1>1, <1>2
<1>5. ASSUME NEW b \in ACs PROVE EdcafMove(l, b)
  <2>1. ent'[l][b] = ent[l][b] \/ ent'[l][b] = GenerateBackoff(l, b, ent[l][b])
    BY <1>3, <1>4
  <2>2. ent[l][b] \in Consistent(l, b)
    BY DEF IInv, EntitiesConsistent
  <2>. QED  BY <2>1, <2>2, StillMove, GenerateBackoffMove DEF EdcafMove
<1>. QED  BY <1>4, <1>5, StillMove DEF Moves

\* The release at the end of a CTS-to-self, of a CF-End frame or of a PIFS
\* recovery that failed.
LEMMA EndReleaseMoves ==
  ASSUME IInv, NEW l \in Links, PedcaCtsEnd(l) \/ CfEndDone(l) \/ PifsRecoveryFails(l)
  PROVE  Moves
<1> DEFINE a == edca[l]
           e == ent[l][a]
           f == Releases(l, a, e, TRUE, queue[a])
<1>1. phase[l] # "idle"
  BY DEF PedcaCtsEnd, CfEndDone, PifsRecoveryFails
<1>2. a \in ACs
  BY <1>1 DEF IInv, HolderIsEdcaf
<1>3. PICK g \in {f, UpdateFailedCw(a, f)} : SetEntity(l, a, g)
  BY DEF PedcaCtsEnd, CfEndDone, PifsRecoveryFails, EndRelease
<1> HIDE DEF a
<1>4. e \in Consistent(l, a) /\ e \in LinkEntity /\ SamePedca(e, e)
  BY <1>2 DEF IInv, EntitiesConsistent, TypeOK, SamePedca
<1>5. /\ f \in Consistent(l, a) /\ f \in LinkEntity
      /\ RoundMove(e, f) /\ CleanMove(l, a, e, f)
  BY <1>2, <1>4, ReleasesConsistent, ReleaseMove DEF Consistent
<1> HIDE DEF f
<1>6. g \in LinkEntity /\ SamePedca(f, g)
  <2>1. SamePedca(f, f)
    BY DEF SamePedca
  <2>. QED  BY <1>2, <1>5, <2>1, UpdateFailedCwConsistent, OtherOperations DEF Consistent
<1>7. RoundMove(e, g) /\ CleanMove(l, a, e, g)
  BY <1>2, <1>4, <1>5, <1>6, MoveOfSame
<1>. QED  BY <1>2, <1>3, <1>7, OneMove

\* QosFrameExchangeManager::TransmissionSucceeded.
LEMMA SucceededMoves ==
  ASSUME IInv, HolderInv, NEW l \in Links, TransmissionSucceeded(l)
  PROVE  Moves
<1>1. PICK a \in ACs, acked \in BOOLEAN : SucceedsAs(l, a, acked)
  BY SucceededCases
<1> DEFINE e == ent[l][a]
           h == Succeeded(a, e, acked)
           r == Releases(l, a, h, TRUE, queue[a] - 1)
<1>2. NoCtsDue => ~e.pedcaCtsPending
  BY <1>1, HolderMayEnd DEF SucceedsAs
<1>3. e \in Consistent(l, a)
  BY DEF IInv, EntitiesConsistent
<1>4. SetEntity(l, a, h) \/ SetEntity(l, a, r)
  BY <1>1 DEF SucceedsAs
<1>5. CleanMove(l, a, e, h) /\ (~e.pedcaCtsPending => RoundMove(e, h))
  BY <1>3, SucceededMove
<1>6. CleanMove(l, a, e, r) /\ (~e.pedcaCtsPending => RoundMove(e, r))
  BY <1>3, SucceededReleaseMove
<1> HIDE DEF h, r
<1>7. CASE SetEntity(l, a, h)
  BY <1>2, <1>5, <1>7, OneMove
<1>8. CASE SetEntity(l, a, r)
  BY <1>2, <1>6, <1>8, OneMove
<1>. QED  BY <1>4, <1>7, <1>8

\* TransmissionFailed, after a timeout or after a channel switch that reset the
\* backoffs: E are the entities of the link.
LEMMA FailMoves ==
  ASSUME IInv, HolderInv, NEW l \in Links, phase[l] = "frame",
         NEW E \in [ACs -> LinkEntity], \A b \in ACs : E[b] \in Consistent(l, b),
         \A b \in ACs : SamePedca(ent[l][b], E[b]),
         NEW recovery, Fail(l, E, recovery)
  PROVE  Moves
<1>1. PICK a \in ACs, force \in BOOLEAN, drop \in BOOLEAN :
        FailsAs(l, E, recovery, a, force, drop)
  BY FailCases
<1> DEFINE e == E[a]
           f == Failed(e)
           q == IF drop THEN queue[a] - 1 ELSE queue[a]
           Outcomes == {f, Releases(l, a, f, TRUE, q),
                        Releases(l, a, UpdateFailedCw(a, f), TRUE, q),
                        BackoffInTxop(l, a, f), UpdateFailedCw(a, BackoffInTxop(l, a, f))}
<1>2. PICK g \in Outcomes : ent' = [ent EXCEPT ![l] = [E EXCEPT ![a] = g]]
  <2>1. CASE force
    BY <1>1, <2>1 DEF FailsAs
  <2>2. CASE ~force
    BY <1>1, <2>2 DEF FailsAs
  <2>. QED  BY <2>1, <2>2
<1>3. e \in Consistent(l, a) /\ e \in LinkEntity
  OBVIOUS
<1>4. CleanMove(l, a, e, g) /\ (~e.pedcaCtsPending => RoundMove(e, g))
  BY <1>3, FailedReleaseMove
<1>5. g \in LinkEntity
  <2>1. f \in Consistent(l, a)
    BY <1>3, FailedEffect
  <2>2. UpdateFailedCw(a, f) \in Consistent(l, a) /\ BackoffInTxop(l, a, f) \in Consistent(l, a)
    BY <2>1, UpdateFailedCwConsistent, BackoffInTxopConsistent
  <2>3. UpdateFailedCw(a, BackoffInTxop(l, a, f)) \in Consistent(l, a)
    BY <2>2, UpdateFailedCwConsistent
  <2>4. /\ Releases(l, a, f, TRUE, q) \in Consistent(l, a)
        /\ Releases(l, a, UpdateFailedCw(a, f), TRUE, q) \in Consistent(l, a)
    BY <2>1, <2>2, ReleasesConsistent
  <2>. QED  BY <2>1, <2>2, <2>3, <2>4 DEF Consistent
<1>6. /\ ent'[l][a] = g
      /\ \A b \in ACs \ {a} : ent'[l][b] = E[b]
      /\ \A k \in Links \ {l}, b \in ACs : ent'[k][b] = ent[k][b]
  BY <1>2, UpdateOneEffect
<1>7. NoCtsDue => ~ent[l][a].pedcaCtsPending
  BY <1>1, HolderMayEnd DEF FailsAs
<1>8. \A b \in ACs : ent[l][b] \in LinkEntity
  BY DEF IInv, TypeOK
<1>9. EdcafMove(l, a)
  <2>1. SamePedca(ent[l][a], e) /\ SamePedca(g, g) /\ ent[l][a] \in LinkEntity
    BY <1>8 DEF SamePedca
  <2>2. NoCtsDue => ~e.pedcaCtsPending
    BY <1>7, <2>1 DEF SamePedca
  <2> HIDE DEF e
  <2>3. CleanMove(l, a, ent[l][a], g) /\ (NoCtsDue => RoundMove(ent[l][a], g))
    BY <1>3, <1>4, <1>5, <2>1, <2>2, MoveOfSame
  <2>. QED  BY <1>6, <2>3 DEF EdcafMove
<1>10. ASSUME NEW b \in ACs \ {a} PROVE EdcafMove(l, b)
  <2>1. RoundMove(ent[l][b], E[b]) /\ CleanMove(l, b, ent[l][b], E[b])
    BY <1>8, SameStage
  <2>. QED  BY <1>6, <2>1 DEF EdcafMove
<1>. QED  BY <1>6, <1>9, <1>10, StillMove DEF Moves

\* ChannelAccessManager::NotifySwitchingStartNow resets no P-EDCA counter.
LEMMA SwitchMoves ==
  ASSUME IInv, HolderInv, NEW l \in Links, ChannelSwitch(l)
  PROVE  Moves
<1> DEFINE E == AllReset(l)
<1>1. \A b \in ACs : ent[l][b] \in Consistent(l, b) /\ ent[l][b] \in LinkEntity
  BY DEF IInv, EntitiesConsistent, TypeOK
<1>2. /\ E = [b \in ACs |-> E[b]]
      /\ \A b \in ACs : E[b] = ResetBackoff(b, ent[l][b])
  BY DEF AllReset
<1> HIDE DEF E
<1>3. \A b \in ACs : E[b] \in Consistent(l, b) /\ SamePedca(ent[l][b], E[b])
  BY <1>1, <1>2, ResetBackoffConsistent, OtherOperations
<1>4. E \in [ACs -> LinkEntity]
  BY <1>2, <1>3 DEF Consistent
<1>5. CASE phase[l] = "frame" /\ Fail(l, AllReset(l), "lost")
  <2>1. Fail(l, E, "lost")
    BY <1>5 DEF E
  <2>. QED  BY <1>3, <1>4, <1>5, <2>1, FailMoves
<1>6. CASE ent' = [ent EXCEPT ![l] = AllReset(l)]
  <2>1. ent' = [ent EXCEPT ![l] = E]
    BY <1>6 DEF E
  <2>2. /\ \A b \in ACs : ent'[l][b] = E[b]
        /\ \A k \in Links \ {l}, b \in ACs : ent'[k][b] = ent[k][b]
    BY <2>1 DEF IInv, TypeOK
  <2>3. ASSUME NEW b \in ACs PROVE EdcafMove(l, b)
    <3>1. RoundMove(ent[l][b], E[b]) /\ CleanMove(l, b, ent[l][b], E[b])
      BY <1>1, <1>3, <1>4, SameStage
    <3>. QED  BY <2>2, <3>1 DEF EdcafMove
  <2>. QED  BY <2>2, <2>3, StillMove DEF Moves
<1>. QED  BY <1>5, <1>6 DEF ChannelSwitch

\* The internal collisions and the preempted recovery that go with a grant.
LEMMA SettleMoves ==
  ASSUME IInv, NEW l \in Links, NEW a \in ACs, NEW e, NEW L, Settle(l, a, e, L),
         RoundMove(ent[l][a], e), CleanMove(l, a, ent[l][a], e)
  PROVE  Moves
<1> DEFINE F(b) == CASE b = a -> e
                     [] b # a /\ b \in L -> Collided(l, b)
                     [] b # a /\ b \notin L /\ b \in Preempted(l, a) ->
                          Releases(l, b, ent[l][b], TRUE, queue[b])
                     [] OTHER -> ent[l][b]
<1>1. ent' = [ent EXCEPT ![l] = [b \in ACs |-> F(b)]]
  BY DEF Settle
<1>2. F(a) = e
  OBVIOUS
<1>3. ASSUME NEW b \in ACs \ {a}
      PROVE  \/ F(b) = Collided(l, b)
             \/ F(b) = Releases(l, b, ent[l][b], TRUE, queue[b])
             \/ F(b) = ent[l][b]
  OBVIOUS
<1> HIDE DEF F
<1>4. /\ \A b \in ACs : ent'[l][b] = F(b)
      /\ \A k \in Links \ {l}, b \in ACs : ent'[k][b] = ent[k][b]
  BY <1>1 DEF IInv, TypeOK
<1>5. EdcafMove(l, a)
  BY <1>2, <1>4 DEF EdcafMove
<1>6. ASSUME NEW b \in ACs \ {a} PROVE EdcafMove(l, b)
  <2>1. ent[l][b] \in Consistent(l, b)
    BY DEF IInv, EntitiesConsistent
  <2>2. CASE F(b) = Collided(l, b)
    BY <1>4, <2>2, CollidedMove DEF EdcafMove
  <2>3. CASE F(b) = Releases(l, b, ent[l][b], TRUE, queue[b])
    <3>1. PICK g : g = Releases(l, b, ent[l][b], TRUE, queue[b])
      OBVIOUS
    <3>2. RoundMove(ent[l][b], g) /\ CleanMove(l, b, ent[l][b], g)
      BY <2>1, <3>1, TRUE \in BOOLEAN, ReleaseMove, Zenon
    <3>3. ent'[l][b] = g
      BY <1>4, <2>3, <3>1
    <3>. QED  BY <3>2, <3>3 DEF EdcafMove
  <2>4. CASE F(b) = ent[l][b]
    BY <1>4, <2>4, StillMove
  <2>. QED  BY <1>3, <2>2, <2>3, <2>4
<1>. QED  BY <1>4, <1>5, <1>6, StillMove DEF Moves

\* QosFrameExchangeManager::StartTransmission.
LEMMA StartTransmissionMoves ==
  ASSUME IInv, NEW l \in Links, NEW a \in ACs, NEW L, NEW D, StartTransmission(l, a, L, D)
  PROVE  Moves
<1> DEFINE e == ent[l][a]
<1>0. e \in Consistent(l, a) /\ e \in LinkEntity
  BY DEF IInv, EntitiesConsistent, TypeOK
<1>1. ASSUME NEW f \in LinkEntity, SamePedca(e, f), Settle(l, a, f, L) PROVE Moves
  BY <1>0, <1>1, SameStage, SettleMoves
<1>2. CASE SendPedcaCts(l, a, L, D)
  <2> DEFINE f == [NotifyChannelAccessed(e, 0) EXCEPT !.pedcaCtsPending = FALSE,
                                                      !.psrc            = @ + 1,
                                                      !.pedcaAfterCts   = TRUE]
  <2>1. e.pedcaCtsPending /\ Settle(l, a, f, L)
    BY <1>2 DEF SendPedcaCts, Proceed
  <2>2. RoundMove(e, f) /\ CleanMove(l, a, e, f)
    BY <1>0, <2>1, SendPedcaCtsMove
  <2> HIDE DEF f
  <2>. QED  BY <2>1, <2>2, SettleMoves
<1>3. CASE StartTxop(l, a, L, D)
  <2> DEFINE f == NotifyChannelAccessed(e, TxopLimit[a])
  <2>1. Settle(l, a, f, L)
    BY <1>3 DEF StartTxop, Proceed
  <2>2. f \in LinkEntity
    BY <1>0, EdcaParameterAssumption DEF NotifyChannelAccessed, LinkEntity, AccessStatus, NoTxop
  <2>3. SamePedca(e, f)
    BY <1>0, OtherOperations
  <2>. QED  BY <1>1, <2>1, <2>2, <2>3
<1>4. CASE ContinueTxop(l, a, L, D) \/ SendCfEnd(l, a, L, D)
  <2>1. PICK left \in TimeLeft(e) : Settle(l, a, [e EXCEPT !.txop = left], L)
    BY <1>4 DEF ContinueTxop, SendCfEnd, Proceed
  <2>2. left \in Nat
    BY <1>0, <2>1 DEF TimeLeft, LinkEntity, NoTxop
  <2> DEFINE f == [e EXCEPT !.txop = left]
  <2>3. f \in LinkEntity
    BY <1>0, <2>2 DEF LinkEntity, NoTxop
  <2>4. SamePedca(e, f)
    BY <1>0, OtherOperations
  <2>. QED  BY <1>1, <2>1, <2>3, <2>4
<1>5. CASE NoFrameTransmitted(l, a) \/ EndTxop(l, a)
  <2>1. PICK elapsed \in BOOLEAN : Settle(l, a, Releases(l, a, e, elapsed, queue[a]), {})
    BY <1>5 DEF NoFrameTransmitted, EndTxop, GiveUp
  <2> DEFINE f == Releases(l, a, e, elapsed, queue[a])
  <2>2. RoundMove(e, f) /\ CleanMove(l, a, e, f)
    BY <1>0, ReleaseMove
  <2>3. Settle(l, a, f, {})
    BY <2>1
  <2> HIDE DEF f
  <2>. QED  BY <2>2, <2>3, SettleMoves
<1>. QED  BY <1>2, <1>3, <1>4, <1>5 DEF StartTransmission

\* Every event.
LEMMA NextMoves == IInv /\ HolderInv /\ [Next]_vars => Moves
<1> SUFFICES ASSUME IInv, HolderInv, [Next]_vars PROVE Moves
  OBVIOUS
<1>1. ASSUME UNCHANGED ent PROVE Moves
  BY <1>1, StillMove DEF Moves
<1>2. CASE UNCHANGED vars
  BY <1>1, <1>2 DEF vars
<1>3. ASSUME NEW a \in ACs, Enqueue(a) \/ Expire(a) PROVE Moves
  BY <1>1, <1>3 DEF Enqueue, Expire
<1>4. ASSUME NEW l \in Links, NEW a \in ACs,
             StartAccessAfterEvent(l, a) \/ RequestAccess(l, a)
      PROVE  Moves
  BY <1>4, RequestMoves
<1>5. ASSUME NEW l \in Links,
             (\E a \in ACs : GrantAccess(l, a)) \/ SifsElapsed(l) \/ PifsRecovery(l)
      PROVE  Moves
  <2>1. PICK a \in ACs : \E L \in SUBSET MayCollide(l, a) : \E D :
                            StartTransmission(l, a, L, D)
    BY <1>5, StartsTransmission
  <2>. QED  BY <2>1, StartTransmissionMoves
<1>6. ASSUME NEW l \in Links, Exchange(l) PROVE Moves
  <2>1. CASE SifsElapsed(l) \/ PifsRecovery(l)
    BY <1>5, <2>1
  <2>2. CASE PifsRecoveryFails(l) \/ PedcaCtsEnd(l) \/ CfEndDone(l)
    BY <2>2, EndReleaseMoves
  <2>3. CASE TransmissionSucceeded(l)
    BY <2>3, SucceededMoves
  <2>4. CASE TransmissionFailed(l)
    <3>1. phase[l] = "frame" /\ Fail(l, ent[l], "pifs")
      BY <2>4 DEF TransmissionFailed
    <3> DEFINE E == ent[l]
    <3>2. /\ E \in [ACs -> LinkEntity] /\ Fail(l, E, "pifs")
          /\ \A b \in ACs : E[b] \in Consistent(l, b) /\ SamePedca(ent[l][b], E[b])
      BY <3>1 DEF IInv, EntitiesConsistent, SamePedca
    <3> HIDE DEF E
    <3>. QED  BY <3>1, <3>2, FailMoves
  <2>. QED  BY <1>6, <2>1, <2>2, <2>3, <2>4 DEF Exchange
<1>7. ASSUME NEW l \in Links, CcaBusy(l) PROVE Moves
  BY <1>7, CcaBusyMoves
<1>8. ASSUME NEW l \in Links, ChannelSwitch(l) PROVE Moves
  BY <1>8, SwitchMoves
<1>. QED  BY <1>2, <1>3, <1>4, <1>5, <1>6, <1>7, <1>8 DEF Next

----------------------------------------------------------------------------
(***************************************************************************)
(* The theorems.                                                           *)
(***************************************************************************)
\* When an EDCAF leaves P-EDCA mode, after a success or at the threshold of
\* QosTxop::GenerateBackoff, the counters and flags of its round are all cleared.
THEOREM RoundsEndClean == Spec => RoundEndsClean
<1>1. IInv /\ HolderInv /\ [Next]_vars
      => [\A l \in Links, a \in ACs :
            PedcaCapable(l, a) /\ ent[l][a].pedcaMode /\ ~ent'[l][a].pedcaMode
            => /\ ent'[l][a].psrc = 0
               /\ ent'[l][a].pedcaTriggerCount = 0
               /\ ~ent'[l][a].pedcaCtsPending
               /\ ~ent'[l][a].pedcaAfterCts]_vars
  BY NextMoves DEF Moves, EdcafMove, CleanMove
<1>. QED  BY <1>1, Invariance, HolderInvariance, PTL DEF Spec, RoundEndsClean

\* The first backoffs of a device start a round only if QsrcThreshold is 0.
LEMMA InitRounds == Init => Rounds!Init
<1> SUFFICES ASSUME Init PROVE Rounds!Init
  OBVIOUS
<1>1. ASSUME NEW l \in Links, NEW a \in ACs
      PROVE  /\ ent[l][a].psrc = 0
             /\ \/ Stage(ent[l][a]) = "edca"
                \/ Stage(ent[l][a]) = "due" /\ QsrcThreshold = 0 /\ PsrcThreshold > 0
  <2> DEFINE n == NewEntity(a)
             e == GenerateBackoff(l, a, n)
  <2>1. ent[l][a] = e
    BY DEF Init
  <2>2. n \in LinkEntity
    BY EdcaParameterAssumption DEF NewEntity, LinkEntity, AccessStatus, NoTxop
  <2>3. /\ n.psrc = 0 /\ ~n.pedcaMode /\ ~n.pedcaCtsPending /\ ~n.pedcaAfterCts
        /\ n.pedcaTriggerCount = 0
    BY DEF NewEntity
  <2> HIDE DEF n
  <2>4. CASE ~PedcaCapable(l, a) \/ ~Selected(n) \/ PsrcThreshold = 0
    <3>1. e.psrc = 0 /\ ~e.pedcaMode /\ ~e.pedcaCtsPending /\ ~e.pedcaAfterCts
      BY <2>2, <2>3, <2>4 DEF GenerateBackoff, PedcaBackoff, PedcaCapable, ResetPedcaCounters,
                              LinkEntity
    <3>2. Stage(e) = "edca"
      BY <3>1 DEF Stage
    <3>. QED  BY <2>1, <3>1, <3>2
  <2>5. CASE PedcaCapable(l, a) /\ Selected(n) /\ PsrcThreshold # 0
    <3>1. e = [[n EXCEPT !.pedcaMode = TRUE] EXCEPT !.pedcaCtsPending = TRUE]
      BY <2>3, <2>5 DEF GenerateBackoff, PedcaBackoff, PedcaCapable, GenerateUhrVoBackoff
    <3>2. e.psrc = 0 /\ e.pedcaCtsPending
      BY <2>2, <2>3, <3>1 DEF LinkEntity
    <3>3. Stage(e) = "due"
      BY <3>2 DEF Stage
    <3>4. QsrcThreshold = 0 /\ PsrcThreshold > 0
      BY <2>3, <2>5, ThresholdAssumption DEF Selected
    <3>. QED  BY <2>1, <3>2, <3>3, <3>4
  <2>. QED  BY <2>4, <2>5
<1> DEFINE s == [x \in Links \X ACs |-> Stage(ent[x[1]][x[2]])]
           c == [x \in Links \X ACs |-> ent[x[1]][x[2]].psrc]
<1>2. \A x \in Links \X ACs : x[1] \in Links /\ x[2] \in ACs
  OBVIOUS
<1>3. c = [x \in Links \X ACs |-> 0]
  BY <1>1, <1>2
<1>4. s \in [Links \X ACs -> {"edca", "due"}]
  BY <1>1, <1>2
<1>5. \A x \in Links \X ACs : s[x] = "due" => QsrcThreshold = 0 /\ PsrcThreshold > 0
  BY <1>1, <1>2
<1>. QED  BY <1>3, <1>4, <1>5 DEF Rounds!Init

\* Every step of a device is a step of each of its rounds.
LEMMA NextRounds ==
  ASSUME NoCtsDue, IInv, HolderInv, [Next]_vars
  PROVE  Rounds!Next
<1>1. ASSUME NEW x \in Links \X ACs PROVE RoundMove(ent[x[1]][x[2]], ent'[x[1]][x[2]])
  BY NextMoves DEF Moves, EdcafMove
<1>2. ASSUME NEW x \in Links \X ACs
      PROVE  \/ Rounds!Fail(x) \/ Rounds!MakeDue(x) \/ Rounds!SendCts(x)
             \/ Rounds!EndRound(x) \/ Rounds!NextRound(x) \/ Rounds!Same(x)
  BY <1>1 DEF RoundMove, Rounds!Fail, Rounds!MakeDue, Rounds!SendCts, Rounds!EndRound,
              Rounds!NextRound, Rounds!Same
<1>. QED  BY <1>2 DEF Rounds!Next

\* If PifsRecovery is on or ProactiveBackoff is off, the P-EDCA procedure of every
\* EDCAF is a run of PedcaRounds: each CTS-to-self is due before it is sent, at
\* most PsrcThreshold are sent in a round, and no round ends while one is due.
THEOREM RoundsRefinement ==
  ASSUME PifsRecoveryOn \/ ~ProactiveOn
  PROVE  Spec => ImplementsRounds
<1>1. Init => Rounds!Init
  BY InitRounds
<1>2. IInv /\ HolderInv /\ [Next]_vars
      => [Rounds!Next]_<<[x \in Links \X ACs |-> Stage(ent[x[1]][x[2]])],
                         [x \in Links \X ACs |-> ent[x[1]][x[2]].psrc]>>
  BY NextRounds DEF NoCtsDue
<1>. QED  BY <1>1, <1>2, Invariance, HolderInvariance, PTL DEF Spec, ImplementsRounds, Rounds!Spec
=============================================================================
