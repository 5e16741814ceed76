------------------------- MODULE PedcaDevice_proofs -------------------------
(***************************************************************************)
(* Invariants of PedcaDevice, proved for every device: any numbers of      *)
(* links and access categories, any thresholds and EDCA parameters.        *)
(***************************************************************************)
EXTENDS PedcaDevice, FiniteSetTheorems, TLAPS

(***************************************************************************)
(* What holds of the entity of EDCAF a on link l at any time.  The set is  *)
(* closed under every operation of QosTxop.  The window w covers the retry *)
(* counter n; CTS-to-self frames are counted in P-EDCA mode only.          *)
(***************************************************************************)
CwCovers(a, n, w) ==
  n \in 0 .. FrameRetryLimit /\ w \in CwMin[a] .. CwMax[a] /\ CwAfter(a, n) <= w

Consistent(l, a) ==
  {e \in LinkEntity :
     /\ CwCovers(a, e.staRetryCount, e.cw)
     /\ e.psrc <= PsrcThreshold
     /\ ~PedcaCapable(l, a) \/ ~e.pedcaMode => e.psrc = 0
     /\ e.pedcaCtsPending => /\ PedcaCapable(l, a)
                             /\ e.pedcaMode
                             /\ ~e.pedcaAfterCts
                             /\ e.psrc < PsrcThreshold
     /\ e.pedcaAfterCts => e.pedcaMode /\ e.psrc > 0}

----------------------------------------------------------------------------
(***************************************************************************)
(* The operations of QosTxop on one entity.                                *)
(***************************************************************************)
\* The window of a retry counter covers it, and a window that covers a counter
\* covers 0.
LEMMA CwCoversFacts ==
  ASSUME NEW a \in ACs
  PROVE  /\ CwCovers(a, 0, CwMin[a])
         /\ \A n \in 0 .. FrameRetryLimit : CwCovers(a, n, CwAfter(a, n))
         /\ \A n, w : CwCovers(a, n, w) => CwCovers(a, 0, w) /\ n \in Nat /\ w \in Nat
<1>1. CwMin[a] \in Nat /\ CwMax[a] \in Nat /\ CwMin[a] <= CwMax[a] /\ FrameRetryLimit \in Nat
  BY EdcaParameterAssumption, ThresholdAssumption
<1>2. CwAfter(a, 0) = CwMin[a] /\ \A n \in 0 .. FrameRetryLimit : CwAfter(a, n) \in CwMin[a] .. CwMax[a]
  BY CwAssumption
<1>. QED  BY <1>1, <1>2 DEF CwCovers

\* The contention window and the retry counter are independent of the rest of an
\* entity.
LEMMA CwConsistent ==
  ASSUME NEW l \in Links, NEW a \in ACs, NEW e \in Consistent(l, a),
         NEW n, NEW w, CwCovers(a, n, w)
  PROVE  [e EXCEPT !.staRetryCount = n, !.cw = w] \in Consistent(l, a)
<1>1. n \in Nat /\ w \in Nat
  BY CwCoversFacts
<1>. QED  BY <1>1 DEF Consistent, LinkEntity

\* P-EDCA mode may be switched on with any count of failures.
LEMMA TriggerConsistent ==
  ASSUME NEW l \in Links, NEW a \in ACs, NEW e \in Consistent(l, a),
         NEW n \in Nat
  PROVE  /\ [e EXCEPT !.pedcaTriggerCount = n] \in Consistent(l, a)
         /\ [e EXCEPT !.pedcaTriggerCount = n, !.pedcaMode = TRUE] \in Consistent(l, a)
BY DEF Consistent, LinkEntity

\* Resetting the contention window (Txop::ResetCw) keeps an entity consistent.
LEMMA ResetCwConsistent ==
  ASSUME NEW l \in Links, NEW a \in ACs, NEW e \in Consistent(l, a)
  PROVE  ResetCw(a, e) \in Consistent(l, a)
<1> DEFINE w == CwMin[a]
<1>1. ResetCw(a, e) = [e EXCEPT !.staRetryCount = 0, !.cw = w]
  BY DEF Consistent, LinkEntity, ResetCw
<1>2. CwCovers(a, 0, w)
  BY CwCoversFacts
<1> HIDE DEF w
<1>3. [e EXCEPT !.staRetryCount = 0, !.cw = w] \in Consistent(l, a)
  BY <1>2, CwConsistent
<1>. QED  BY <1>1, <1>3

\* So does its update after a failure (Txop::UpdateFailedCw), because the retry
\* counter stays within the retry limit.
LEMMA UpdateFailedCwConsistent ==
  ASSUME NEW l \in Links, NEW a \in ACs, NEW e \in Consistent(l, a)
  PROVE  UpdateFailedCw(a, e) \in Consistent(l, a)
<1>1. CASE e.staRetryCount < FrameRetryLimit
  <2> DEFINE n == e.staRetryCount + 1
             w == CwAfter(a, n)
  <2>1. n \in 0 .. FrameRetryLimit
    BY <1>1, ThresholdAssumption DEF Consistent, LinkEntity
  <2>2. UpdateFailedCw(a, e) = [e EXCEPT !.staRetryCount = n, !.cw = w]
    BY <1>1 DEF UpdateFailedCw
  <2> HIDE DEF n
  <2>3. CwCovers(a, n, w)
    BY <2>1, CwCoversFacts
  <2> HIDE DEF w
  <2>4. [e EXCEPT !.staRetryCount = n, !.cw = w] \in Consistent(l, a)
    BY <2>3, CwConsistent
  <2>. QED  BY <2>2, <2>4
<1>2. CASE ~(e.staRetryCount < FrameRetryLimit)
  BY <1>2, ResetCwConsistent DEF UpdateFailedCw
<1>. QED  BY <1>1, <1>2

\* Counting a failure (QosTxop::IncrementPedcaTriggerCount) may switch P-EDCA
\* mode on, never off.
LEMMA IncrementConsistent ==
  ASSUME NEW l \in Links, NEW a \in ACs, NEW e \in Consistent(l, a)
  PROVE  IncrementPedcaTriggerCount(e) \in Consistent(l, a)
<1> DEFINE f == IncrementPedcaTriggerCount(e)
           n == e.pedcaTriggerCount + 1
           selects == n >= QsrcThreshold
<1>0. n \in Nat
  BY DEF Consistent, LinkEntity
<1>1. CASE selects
  <2>1. f = [e EXCEPT !.pedcaTriggerCount = n, !.pedcaMode = TRUE]
    BY <1>1 DEF IncrementPedcaTriggerCount
  <2> HIDE DEF n
  <2>2. [e EXCEPT !.pedcaTriggerCount = n, !.pedcaMode = TRUE] \in Consistent(l, a)
    BY <1>0, TriggerConsistent
  <2>. QED  BY <2>1, <2>2
<1>2. CASE ~selects
  <2>1. f = [e EXCEPT !.pedcaTriggerCount = n]
    BY <1>2 DEF IncrementPedcaTriggerCount, Consistent, LinkEntity
  <2> HIDE DEF n
  <2>2. [e EXCEPT !.pedcaTriggerCount = n] \in Consistent(l, a)
    BY <1>0, TriggerConsistent
  <2>. QED  BY <2>1, <2>2
<1>. QED  BY <1>1, <1>2

\* QosTxop::ResetPedcaCounters ends a round.
LEMMA ResetPedcaConsistent ==
  ASSUME NEW l \in Links, NEW a \in ACs, NEW e \in Consistent(l, a)
  PROVE  ResetPedcaCounters(e) \in Consistent(l, a)
<1> DEFINE f == ResetPedcaCounters(e)
<1>1. f \in LinkEntity
  BY DEF Consistent, LinkEntity, ResetPedcaCounters
<1>2. /\ f.psrc = 0 /\ ~f.pedcaCtsPending /\ ~f.pedcaAfterCts
      /\ f.staRetryCount = 0 /\ f.cw = e.cw
  BY DEF Consistent, LinkEntity, ResetPedcaCounters
<1>3. CwCovers(a, 0, e.cw)
  BY CwCoversFacts DEF Consistent
<1>. QED  BY <1>1, <1>2, <1>3, ThresholdAssumption DEF Consistent

\* The P-EDCA branch of QosTxop::GenerateBackoff makes a CTS-to-self due only
\* with budget left and outside the contention that follows a CTS-to-self.
LEMMA PedcaBackoffConsistent ==
  ASSUME NEW l \in Links, NEW a \in ACs, PedcaCapable(l, a),
         NEW e \in Consistent(l, a)
  PROVE  PedcaBackoff(e) \in Consistent(l, a)
<1>1. CASE ~Selected(e)
  <2>1. PedcaBackoff(e) = [e EXCEPT !.pedcaMode = FALSE, !.pedcaAfterCts = FALSE]
    BY <1>1 DEF PedcaBackoff
  <2>2. ~e.pedcaMode
    BY <1>1 DEF Selected
  <2>. QED  BY <2>1, <2>2 DEF Consistent, LinkEntity
<1>2. CASE Selected(e) /\ e.psrc = PsrcThreshold
  BY <1>2, ResetPedcaConsistent DEF PedcaBackoff
<1>3. CASE Selected(e) /\ e.psrc # PsrcThreshold /\ e.pedcaAfterCts
  <2>1. PedcaBackoff(e) = [e EXCEPT !.pedcaMode = TRUE]
    BY <1>3 DEF PedcaBackoff
  <2>. QED  BY <1>3, <2>1 DEF Consistent, LinkEntity
<1>4. CASE Selected(e) /\ e.psrc # PsrcThreshold /\ ~e.pedcaAfterCts
  <2>1. PedcaBackoff(e) = [[e EXCEPT !.pedcaMode = TRUE] EXCEPT !.pedcaCtsPending = TRUE]
    BY <1>4 DEF PedcaBackoff, GenerateUhrVoBackoff
  <2>2. e.psrc < PsrcThreshold
    BY <1>4, ThresholdAssumption DEF Consistent, LinkEntity
  <2>. QED  BY <1>4, <2>1, <2>2 DEF Consistent, LinkEntity
<1>. QED  BY <1>1, <1>2, <1>3, <1>4

\* QosTxop::GenerateBackoff.
LEMMA GenerateBackoffConsistent ==
  ASSUME NEW l \in Links, NEW a \in ACs, NEW e \in Consistent(l, a)
  PROVE  GenerateBackoff(l, a, e) \in Consistent(l, a)
<1>1. CASE ~IsUhrVo(l, a)
  BY <1>1 DEF GenerateBackoff, PedcaCapable
<1>2. CASE IsUhrVo(l, a) /\ NotPreferred(l)
  <2>1. GenerateBackoff(l, a, e) = [e EXCEPT !.pedcaMode       = FALSE,
                                             !.pedcaAfterCts   = FALSE,
                                             !.pedcaCtsPending = FALSE]
    BY <1>2 DEF GenerateBackoff, PedcaCapable
  <2>2. ~PedcaCapable(l, a)
    BY <1>2 DEF PedcaCapable
  <2>. QED  BY <2>1, <2>2 DEF Consistent, LinkEntity
<1>3. CASE PedcaCapable(l, a)
  BY <1>3, PedcaBackoffConsistent DEF GenerateBackoff, PedcaCapable
<1>. QED  BY <1>1, <1>2, <1>3 DEF PedcaCapable

\* The access status of an entity is independent of the rest of it.
LEMMA AccessConsistent ==
  ASSUME NEW l \in Links, NEW a \in ACs, NEW e \in Consistent(l, a),
         NEW s \in AccessStatus
  PROVE  [e EXCEPT !.access = s] \in Consistent(l, a)
BY DEF Consistent, LinkEntity

\* So is the time left in the TXOP.
LEMMA TxopConsistent ==
  ASSUME NEW l \in Links, NEW a \in ACs, NEW e \in Consistent(l, a),
         NEW t \in Nat \cup {NoTxop}
  PROVE  [e EXCEPT !.txop = t] \in Consistent(l, a)
BY DEF Consistent, LinkEntity

\* QosTxop::NotifyChannelAccessed.
LEMMA AccessedConsistent ==
  ASSUME NEW l \in Links, NEW a \in ACs, NEW e \in Consistent(l, a),
         NEW d \in Nat
  PROVE  NotifyChannelAccessed(e, d) \in Consistent(l, a)
BY DEF Consistent, LinkEntity, NotifyChannelAccessed, AccessStatus

\* QosTxop::NotifyChannelReleased.
LEMMA ReleasedConsistent ==
  ASSUME NEW l \in Links, NEW a \in ACs, NEW e \in Consistent(l, a),
         NEW backoff \in BOOLEAN
  PROVE  Released(l, a, e, backoff) \in Consistent(l, a)
<1> DEFINE f == IF backoff THEN GenerateBackoff(l, a, e) ELSE e
<1>1. f \in Consistent(l, a)
  BY GenerateBackoffConsistent
<1>2. [f EXCEPT !.txop = NoTxop, !.access = "NOT_REQUESTED"] \in Consistent(l, a)
  <2> HIDE DEF f
  <2>. QED  BY <1>1 DEF Consistent, LinkEntity, AccessStatus
<1>. QED  BY <1>2 DEF Released

\* Txop::NotifyChannelReleased, which leaves the TXOP open.
LEMMA BackoffInTxopConsistent ==
  ASSUME NEW l \in Links, NEW a \in ACs, NEW e \in Consistent(l, a)
  PROVE  BackoffInTxop(l, a, e) \in Consistent(l, a)
<1>1. [e EXCEPT !.access = "NOT_REQUESTED"] \in Consistent(l, a)
  BY AccessConsistent DEF AccessStatus
<1>. QED  BY <1>1, GenerateBackoffConsistent DEF BackoffInTxop

\* ChannelAccessManager::ResetBackoff.
LEMMA ResetBackoffConsistent ==
  ASSUME NEW l \in Links, NEW a \in ACs, NEW e \in Consistent(l, a)
  PROVE  ResetBackoff(a, e) \in Consistent(l, a)
<1>1. ResetCw(a, e) \in Consistent(l, a)
  BY ResetCwConsistent
<1>. QED  BY <1>1, AccessConsistent DEF ResetBackoff, AccessStatus

----------------------------------------------------------------------------
(***************************************************************************)
(* The MPDUs in flight.                                                    *)
(***************************************************************************)
\* The links of S that send a frame of a, when p and c are the phase and the
\* EDCAF of each link.
Sending(p, c, a, S) == {k \in S : p[k] = "frame" /\ c[k] = a}

\* Whether link l sends a frame of a adds one to those the other links send.
LEMMA CountSplits ==
  ASSUME NEW p, NEW c, NEW a, NEW l \in Links
  PROVE  /\ Cardinality(Sending(p, c, a, Links \ {l})) \in Nat
         /\ Cardinality(Sending(p, c, a, Links))
              = IF p[l] = "frame" /\ c[l] = a
                THEN Cardinality(Sending(p, c, a, Links \ {l})) + 1
                ELSE Cardinality(Sending(p, c, a, Links \ {l}))
<1> DEFINE S == Sending(p, c, a, Links)
           R == Sending(p, c, a, Links \ {l})
<1>1. IsFiniteSet(R)
  BY DeviceAssumption, FS_Subset, R \in SUBSET Links DEF Sending
<1>2. Cardinality(R) \in Nat
  BY <1>1, FS_CardinalityType
<1>3. CASE p[l] = "frame" /\ c[l] = a
  <2>1. S = R \cup {l} /\ l \notin R
    BY <1>3 DEF Sending
  <2>. QED  BY <1>1, <1>2, <1>3, <2>1, FS_AddElement
<1>4. CASE ~(p[l] = "frame" /\ c[l] = a)
  <2>1. S = R
    BY <1>4 DEF Sending
  <2>. QED  BY <1>2, <1>4, <2>1
<1>. QED  BY <1>3, <1>4

\* InFlight counts for every link; a step of link l changes the count of the
\* others in no way.
LEMMA InFlightSplits ==
  ASSUME NEW a, NEW l \in Links
  PROVE  /\ InFlight(a, Links \ {l}) \in Nat
         /\ InFlight(a, Links) = IF phase[l] = "frame" /\ edca[l] = a
                                 THEN InFlight(a, Links \ {l}) + 1
                                 ELSE InFlight(a, Links \ {l})
<1>1. \A S : InFlight(a, S) = Cardinality(Sending(phase, edca, a, S))
  BY DEF InFlight, Sending
<1>. QED  BY <1>1, CountSplits

\* The same in the state after a step of link l.
LEMMA InFlightSplitsNext ==
  ASSUME NEW a, NEW l \in Links,
         \A k \in Links \ {l} : phase'[k] = phase[k] /\ edca'[k] = edca[k]
  PROVE  InFlight(a, Links)' = IF phase'[l] = "frame" /\ edca'[l] = a
                               THEN InFlight(a, Links \ {l}) + 1
                               ELSE InFlight(a, Links \ {l})
<1>1. InFlight(a, Links \ {l})' = InFlight(a, Links \ {l})
  <2>1. Sending(phase', edca', a, Links \ {l}) = Sending(phase, edca, a, Links \ {l})
    BY DEF Sending
  <2>2. InFlight(a, Links \ {l}) = Cardinality(Sending(phase, edca, a, Links \ {l}))
    BY DEF InFlight, Sending
  <2>3. InFlight(a, Links \ {l})' = Cardinality(Sending(phase', edca', a, Links \ {l}))
    BY DEF InFlight, Sending
  <2>. QED  BY <2>1, <2>2, <2>3
<1>2. InFlight(a, Links)' = IF phase'[l] = "frame" /\ edca'[l] = a
                            THEN InFlight(a, Links \ {l})' + 1
                            ELSE InFlight(a, Links \ {l})'
  <2>1. InFlight(a, Links)' = Cardinality(Sending(phase', edca', a, Links))
    BY DEF InFlight, Sending
  <2>2. InFlight(a, Links \ {l})' = Cardinality(Sending(phase', edca', a, Links \ {l}))
    BY DEF InFlight, Sending
  <2>. QED  BY <2>1, <2>2, CountSplits
<1>. QED  BY <1>1, <1>2

----------------------------------------------------------------------------
(***************************************************************************)
(* The inductive invariant.  The queue never gets negative because every   *)
(* MPDU that is dequeued was in flight, or available to a link that had    *)
(* none in flight; the holder of the channel is an EDCAF, so that what     *)
(* happens at the end of an exchange happens to one.                       *)
(***************************************************************************)
EntitiesConsistent ==
  /\ ent \in [Links -> [ACs -> LinkEntity]]
  /\ \A l \in Links, a \in ACs : ent[l][a] \in Consistent(l, a)

HolderIsEdcaf == \A l \in Links : phase[l] # "idle" => edca[l] \in ACs

IInv ==
  /\ TypeOK
  /\ EntitiesConsistent
  /\ HolderIsEdcaf
  /\ InFlightIsQueued

----------------------------------------------------------------------------
(***************************************************************************)
(* Updates of the entities.                                                *)
(***************************************************************************)
\* A new entity for one EDCAF of one link ...
LEMMA SetEntityConsistent ==
  ASSUME EntitiesConsistent, NEW l \in Links, NEW a \in ACs,
         NEW e \in Consistent(l, a), SetEntity(l, a, e)
  PROVE  EntitiesConsistent'
<1>1. e \in LinkEntity
  BY DEF Consistent
<1>. QED  BY <1>1 DEF EntitiesConsistent, SetEntity

\* ... and for every EDCAF of one link.
LEMMA SetLinkConsistent ==
  ASSUME EntitiesConsistent, NEW l \in Links, NEW E,
         E = [b \in ACs |-> E[b]],
         \A b \in ACs : E[b] \in Consistent(l, b),
         ent' = [ent EXCEPT ![l] = E]
  PROVE  EntitiesConsistent'
<1>1. E \in [ACs -> LinkEntity]
  BY DEF Consistent
<1>. QED  BY <1>1 DEF EntitiesConsistent

\* FrameExchangeManager::NotifyChannelReleased.
LEMMA ReleasesConsistent ==
  ASSUME NEW l \in Links, NEW a \in ACs, NEW e \in Consistent(l, a),
         NEW elapsed \in BOOLEAN, NEW q
  PROVE  /\ Releases(l, a, e, elapsed, q) \in Consistent(l, a)
         /\ RequestsAgain(a, e, elapsed, q) \in SUBSET ACs
<1>1. BacksOffOnRelease(e, elapsed, q > 0 /\ BackoffOnNoTx) \in BOOLEAN
  BY DEF BacksOffOnRelease
<1>2. Releases(l, a, e, elapsed, q) \in Consistent(l, a)
  BY <1>1, ReleasedConsistent DEF Releases
<1>3. RequestsAgain(a, e, elapsed, q) \in SUBSET ACs
  BY DEF RequestsAgain
<1>. QED  BY <1>2, <1>3

\* FrameExchangeManager::NotifyInternalCollision.
LEMMA CollidedConsistent ==
  ASSUME EntitiesConsistent, NEW l \in Links, NEW b \in ACs
  PROVE  Collided(l, b) \in Consistent(l, b)
<1>1. UpdateFailedCw(b, ent[l][b]) \in Consistent(l, b)
  BY UpdateFailedCwConsistent DEF EntitiesConsistent
<1>. QED  BY <1>1, BackoffInTxopConsistent DEF Collided

\* A grant leaves every EDCAF of the link consistent: the winner, those that
\* collided with it and the one whose PIFS recovery it aborted.
LEMMA SettleConsistent ==
  ASSUME IInv, NEW l \in Links, NEW a \in ACs, NEW e \in Consistent(l, a),
         NEW L, Settle(l, a, e, L)
  PROVE  EntitiesConsistent'
<1> DEFINE E == [b \in ACs |->
                   CASE b = a -> e
                     [] b # a /\ b \in L -> Collided(l, b)
                     [] b # a /\ b \notin L /\ b \in Preempted(l, a) ->
                          Releases(l, b, ent[l][b], TRUE, queue[b])
                     [] OTHER -> ent[l][b]]
<1>1. ASSUME NEW b \in ACs PROVE E[b] \in Consistent(l, b)
  <2>1. CASE b = a
    BY <2>1
  <2>2. CASE b # a /\ b \in L
    <3>1. E[b] = Collided(l, b)
      BY <2>2
    <3>. QED  BY <3>1, CollidedConsistent DEF IInv
  <2>3. CASE b # a /\ b \notin L /\ b \in Preempted(l, a)
    <3>1. E[b] = Releases(l, b, ent[l][b], TRUE, queue[b])
      BY <2>3
    <3>2. ent[l][b] \in Consistent(l, b) /\ queue[b] \in Nat
      BY DEF IInv, EntitiesConsistent, TypeOK
    <3>. QED  BY <3>1, <3>2, ReleasesConsistent
  <2>4. CASE b # a /\ b \notin L /\ b \notin Preempted(l, a)
    <3>1. E[b] = ent[l][b]
      BY <2>4
    <3>. QED  BY <3>1 DEF IInv, EntitiesConsistent
  <2>. QED  BY <2>1, <2>2, <2>3, <2>4
<1>2. ent' = [ent EXCEPT ![l] = E]
  BY DEF Settle
<1>3. E = [b \in ACs |-> E[b]]
  OBVIOUS
<1> HIDE DEF E
<1>. QED  BY <1>1, <1>2, <1>3, SetLinkConsistent DEF IInv

----------------------------------------------------------------------------
(***************************************************************************)
(* Steps of one link.                                                      *)
(***************************************************************************)
\* The types of the variables that the rest of IInv does not speak about.
OthersOK ==
  /\ reqEvent \in [Links -> SUBSET ACs]
  /\ accEvent \in [Links -> [ACs -> AccEvents]]
  /\ backingOff \in [Links -> ACs \cup {None}]
  /\ initialFrame \in [Links -> BOOLEAN]

\* The MPDUs in flight on the other links are queued.
LEMMA OtherLinksQueued ==
  ASSUME IInv, NEW l \in Links, NEW a \in ACs
  PROVE  /\ InFlight(a, Links \ {l}) \in Nat
         /\ InFlight(a, Links \ {l}) <= queue[a]
         /\ phase[l] = "frame" /\ edca[l] = a => InFlight(a, Links \ {l}) < queue[a]
<1>1. InFlight(a, Links) <= queue[a] /\ queue[a] \in Nat
  BY DEF IInv, InFlightIsQueued, TypeOK
<1>. QED  BY <1>1, InFlightSplits

\* A step that leaves link l in phase ph with m_edca = c keeps the invariant if
\* it leaves enough MPDUs in the queues.
LEMMA LinkStep ==
  ASSUME IInv, NEW l \in Links, NEW ph \in Phases, NEW c \in ACs \cup {None},
         EntitiesConsistent', OthersOK', queue' \in [ACs -> Nat],
         phase' = [phase EXCEPT ![l] = ph],
         edca' = [edca EXCEPT ![l] = c],
         ph # "idle" => c \in ACs,
         \A b \in ACs : /\ InFlight(b, Links \ {l}) <= queue'[b]
                        /\ ph = "frame" /\ c = b => InFlight(b, Links \ {l}) < queue'[b]
  PROVE  IInv'
<1>1. /\ phase \in [Links -> Phases]
      /\ edca \in [Links -> ACs \cup {None}]
  BY DEF IInv, TypeOK
<1>2. /\ phase'[l] = ph /\ edca'[l] = c
      /\ \A k \in Links \ {l} : phase'[k] = phase[k] /\ edca'[k] = edca[k]
  BY <1>1
<1>3. TypeOK'
  BY <1>1 DEF TypeOK, EntitiesConsistent, OthersOK
<1>4. HolderIsEdcaf'
  BY <1>2 DEF IInv, HolderIsEdcaf
<1>5. ASSUME NEW b \in ACs PROVE InFlight(b, Links)' <= queue'[b]
  <2>1. InFlight(b, Links)' = IF ph = "frame" /\ c = b
                              THEN InFlight(b, Links \ {l}) + 1
                              ELSE InFlight(b, Links \ {l})
    BY <1>2, InFlightSplitsNext
  <2>2. InFlight(b, Links \ {l}) \in Nat /\ queue'[b] \in Nat
    BY InFlightSplits
  <2>. QED  BY <2>1, <2>2
<1>6. InFlightIsQueued'
  BY <1>5 DEF InFlightIsQueued
<1>. QED  BY <1>3, <1>4, <1>6 DEF IInv

\* A step that leaves the exchanges of all the links alone.
LEMMA QuietStep ==
  ASSUME IInv, EntitiesConsistent', OthersOK', queue' \in [ACs -> Nat],
         phase' = phase, edca' = edca,
         \A b \in ACs : InFlight(b, Links) <= queue'[b]
  PROVE  IInv'
<1>1. TypeOK'
  BY DEF IInv, TypeOK, EntitiesConsistent, OthersOK
<1>2. HolderIsEdcaf'
  BY DEF IInv, HolderIsEdcaf
<1>3. InFlightIsQueued'
  BY DEF InFlightIsQueued, InFlight
<1>. QED  BY <1>1, <1>2, <1>3 DEF IInv

\* Dropping MPDUs of collided EDCAFs leaves those in flight in the queue.
LEMMA CollideQueued ==
  ASSUME IInv, NEW l \in Links, NEW a \in ACs,
         NEW L \in SUBSET (ACs \ {a}), NEW D, NEW again \in SUBSET ACs,
         Collide(l, a, L, D, again)
  PROVE  /\ queue' \in [ACs -> Nat]
         /\ queue'[a] = queue[a]
         /\ reqEvent' \in [Links -> SUBSET ACs]
         /\ \A b \in ACs : InFlight(b, Links \ {l}) <= queue'[b]
<1>1. /\ queue \in [ACs -> Nat]
      /\ reqEvent \in [Links -> SUBSET ACs]
  BY DEF IInv, TypeOK
<1>2. queue' = [b \in ACs |-> IF b \in D THEN queue[b] - 1 ELSE queue[b]]
  BY DEF Collide
<1>3. ASSUME NEW b \in ACs
      PROVE  queue'[b] \in Nat /\ InFlight(b, Links \ {l}) <= queue'[b]
  <2>1. /\ InFlight(b, Links \ {l}) \in Nat
        /\ InFlight(b, Links \ {l}) <= queue[b]
    BY OtherLinksQueued
  <2>2. CASE b \in D
    <3>1. queue[b] > InFlight(b, Links \ {l})
      BY <2>2 DEF Collide, Available
    <3>2. queue'[b] = queue[b] - 1 /\ queue[b] \in Nat
      BY <1>1, <1>2, <2>2
    <3>. QED  BY <2>1, <3>1, <3>2
  <2>3. CASE b \notin D
    BY <1>1, <1>2, <2>1, <2>3
  <2>. QED  BY <2>2, <2>3
<1>4. queue' \in [ACs -> Nat]
  BY <1>2, <1>3
<1>5. a \notin D
  BY DEF Collide
<1>6. Preempted(l, a) \subseteq ACs
  BY DEF Preempted, IInv, HolderIsEdcaf
<1>7. reqEvent' \in [Links -> SUBSET ACs]
  <2> DEFINE R == reqEvent[l] \cup again
                    \cup {b \in L : HasFramesToTransmit(queue'[b])}
                    \cup {b \in Preempted(l, a) : queue[b] > 0}
  <2>1. R \in SUBSET ACs
    BY <1>1, <1>6
  <2>2. reqEvent' = [reqEvent EXCEPT ![l] = R]
    BY DEF Collide
  <2> HIDE DEF R
  <2>. QED  BY <1>1, <2>1, <2>2
<1>. QED  BY <1>1, <1>2, <1>3, <1>4, <1>5, <1>7

\* StartTransmission ends with a frame exchange under way ...
LEMMA ProceedStep ==
  ASSUME IInv, NEW l \in Links, NEW a \in ACs, NEW e \in Consistent(l, a),
         NEW L \in SUBSET (ACs \ {a}), NEW D, Proceed(l, a, e, L, D),
         NEW ph \in Phases, phase' = [phase EXCEPT ![l] = ph],
         ph = "frame" => Available(l, a, queue[a]),
         backingOff' \in [Links -> ACs \cup {None}],
         initialFrame' \in [Links -> BOOLEAN]
  PROVE  IInv'
<1>1. EntitiesConsistent'
  BY SettleConsistent DEF Proceed
<1>2. Collide(l, a, L, D, {}) /\ {} \in SUBSET ACs
  BY DEF Proceed
<1>3. /\ queue' \in [ACs -> Nat]
      /\ queue'[a] = queue[a]
      /\ reqEvent' \in [Links -> SUBSET ACs]
      /\ \A b \in ACs : InFlight(b, Links \ {l}) <= queue'[b]
  BY <1>2, CollideQueued
<1>4. OthersOK'
  BY <1>3 DEF OthersOK, Proceed, IInv, TypeOK
<1>5. ph = "frame" => InFlight(a, Links \ {l}) < queue'[a]
  <2>1. queue[a] \in Nat /\ InFlight(a, Links \ {l}) \in Nat
    BY InFlightSplits DEF IInv, TypeOK
  <2>. QED  BY <1>3, <2>1 DEF Available
<1>6. edca' = [edca EXCEPT ![l] = a]
  BY DEF Proceed
<1>. QED  BY <1>1, <1>3, <1>4, <1>5, <1>6, LinkStep

\* ... or gives the channel back.
LEMMA GiveUpStep ==
  ASSUME IInv, NEW l \in Links, NEW a \in ACs, NEW elapsed \in BOOLEAN,
         GiveUp(l, a, ent[l][a], elapsed),
         backingOff' \in [Links -> ACs \cup {None}],
         initialFrame' \in [Links -> BOOLEAN]
  PROVE  IInv'
<1> DEFINE e == Releases(l, a, ent[l][a], elapsed, queue[a])
           again == RequestsAgain(a, ent[l][a], elapsed, queue[a])
<1>1. ent[l][a] \in Consistent(l, a) /\ queue[a] \in Nat
  BY DEF IInv, EntitiesConsistent, TypeOK
<1>2. e \in Consistent(l, a) /\ again \in SUBSET ACs
  BY <1>1, ReleasesConsistent
<1>3. /\ Settle(l, a, e, {})
      /\ Collide(l, a, {}, {}, again)
      /\ phase' = [phase EXCEPT ![l] = "idle"]
      /\ edca' = [edca EXCEPT ![l] = None]
      /\ accEvent' = accEvent
  BY DEF GiveUp
<1> HIDE DEF e, again
<1>4. EntitiesConsistent'
  BY <1>2, <1>3, SettleConsistent
<1>5. /\ queue' \in [ACs -> Nat]
      /\ reqEvent' \in [Links -> SUBSET ACs]
      /\ \A b \in ACs : InFlight(b, Links \ {l}) <= queue'[b]
  BY <1>2, <1>3, CollideQueued
<1>6. OthersOK'
  BY <1>3, <1>5 DEF OthersOK, IInv, TypeOK
<1>. QED  BY <1>3, <1>4, <1>5, <1>6, LinkStep DEF Phases

\* m_edcaBackingOff is cleared or left as it is.
LEMMA ClearBackingOffTyped ==
  ASSUME IInv, NEW l \in Links, NEW a \in ACs, ClearBackingOff(l, a)
  PROVE  backingOff' \in [Links -> ACs \cup {None}]
BY DEF IInv, TypeOK, ClearBackingOff

\* The time left in a TXOP is a number of units.
LEMMA TimeLeftTyped ==
  ASSUME NEW l \in Links, NEW a \in ACs, NEW e \in Consistent(l, a),
         NEW left \in TimeLeft(e)
  PROVE  [e EXCEPT !.txop = left] \in Consistent(l, a)
<1>1. left \in Nat
  BY DEF TimeLeft, Consistent, LinkEntity, NoTxop
<1>. QED  BY <1>1, TxopConsistent

\* QosFrameExchangeManager::SendPedcaCtsAndRecontend: there is budget left for a
\* CTS-to-self that is due.
LEMMA SendPedcaCtsConsistent ==
  ASSUME NEW l \in Links, NEW a \in ACs, NEW e \in Consistent(l, a), e.pedcaCtsPending
  PROVE  [NotifyChannelAccessed(e, 0) EXCEPT !.pedcaCtsPending = FALSE,
                                             !.psrc            = @ + 1,
                                             !.pedcaAfterCts   = TRUE] \in Consistent(l, a)
<1> DEFINE f == NotifyChannelAccessed(e, 0)
           n == f.psrc + 1
           g == [f EXCEPT !.pedcaCtsPending = FALSE, !.psrc = n, !.pedcaAfterCts = TRUE]
<1>1. f \in Consistent(l, a)
  BY AccessedConsistent
<1>2. f.pedcaMode /\ f.psrc < PsrcThreshold
  BY DEF Consistent, LinkEntity, NotifyChannelAccessed
<1> HIDE DEF f
<1>3. n \in Nat /\ n <= PsrcThreshold /\ n > 0
  BY <1>1, <1>2, ThresholdAssumption DEF Consistent, LinkEntity
<1> HIDE DEF n
<1>4. g \in Consistent(l, a)
  BY <1>1, <1>2, <1>3 DEF Consistent, LinkEntity
<1>. QED  BY <1>4 DEF f, n

\* QosFrameExchangeManager::StartTransmission keeps the invariant.
LEMMA StartTransmissionStep ==
  ASSUME IInv, NEW l \in Links, NEW a \in ACs, NEW L \in SUBSET (ACs \ {a}), NEW D,
         StartTransmission(l, a, L, D)
  PROVE  IInv'
<1> DEFINE e == ent[l][a]
<1>1. /\ e \in Consistent(l, a)
      /\ TxopLimit[a] \in Nat
      /\ backingOff \in [Links -> ACs \cup {None}]
      /\ initialFrame \in [Links -> BOOLEAN]
  BY EdcaParameterAssumption DEF IInv, EntitiesConsistent, TypeOK
<1>2. CASE SendPedcaCts(l, a, L, D)
  <2> DEFINE f == [NotifyChannelAccessed(e, 0) EXCEPT !.pedcaCtsPending = FALSE,
                                                      !.psrc            = @ + 1,
                                                      !.pedcaAfterCts   = TRUE]
  <2>1. f \in Consistent(l, a)
    BY <1>1, <1>2, SendPedcaCtsConsistent DEF SendPedcaCts
  <2>2. /\ Proceed(l, a, f, L, D)
        /\ phase' = [phase EXCEPT ![l] = "cts"]
        /\ backingOff' = backingOff /\ initialFrame' = initialFrame
    BY <1>2 DEF SendPedcaCts
  <2> HIDE DEF f
  <2>. QED  BY <1>1, <2>1, <2>2, ProceedStep DEF Phases
<1>3. CASE StartTxop(l, a, L, D)
  <2> DEFINE f == NotifyChannelAccessed(e, TxopLimit[a])
  <2>1. f \in Consistent(l, a)
    BY <1>1, AccessedConsistent
  <2>2. /\ Available(l, a, queue[a])
        /\ Proceed(l, a, f, L, D)
        /\ phase' = [phase EXCEPT ![l] = "frame"]
        /\ initialFrame' = [initialFrame EXCEPT ![l] = TRUE]
        /\ ClearBackingOff(l, a)
    BY <1>3 DEF StartTxop
  <2>3. initialFrame' \in [Links -> BOOLEAN]
    BY <1>1, <2>2
  <2> HIDE DEF f
  <2>. QED  BY <2>1, <2>2, <2>3, ClearBackingOffTyped, ProceedStep DEF Phases
<1>4. CASE ContinueTxop(l, a, L, D)
  <2>1. PICK left \in TimeLeft(e) :
          /\ Available(l, a, queue[a])
          /\ Proceed(l, a, [e EXCEPT !.txop = left], L, D)
    BY <1>4 DEF ContinueTxop
  <2> DEFINE f == [e EXCEPT !.txop = left]
  <2>2. f \in Consistent(l, a)
    BY <1>1, TimeLeftTyped
  <2>3. /\ phase' = [phase EXCEPT ![l] = "frame"]
        /\ initialFrame' = initialFrame
        /\ ClearBackingOff(l, a)
    BY <1>4 DEF ContinueTxop
  <2> HIDE DEF f
  <2>4. Proceed(l, a, f, L, D)
    BY <2>1 DEF f
  <2>. QED  BY <1>1, <2>1, <2>2, <2>3, <2>4, ClearBackingOffTyped, ProceedStep DEF Phases
<1>5. CASE SendCfEnd(l, a, L, D)
  <2>1. PICK left \in TimeLeft(e) : Proceed(l, a, [e EXCEPT !.txop = left], L, D)
    BY <1>5 DEF SendCfEnd
  <2> DEFINE f == [e EXCEPT !.txop = left]
  <2>2. f \in Consistent(l, a)
    BY <1>1, TimeLeftTyped
  <2>3. /\ phase' = [phase EXCEPT ![l] = "cfend"]
        /\ initialFrame' = initialFrame
        /\ ClearBackingOff(l, a)
    BY <1>5 DEF SendCfEnd
  <2> HIDE DEF f
  <2>4. Proceed(l, a, f, L, D)
    BY <2>1 DEF f
  <2>. QED  BY <1>1, <2>2, <2>3, <2>4, ClearBackingOffTyped, ProceedStep DEF Phases
<1>6. CASE NoFrameTransmitted(l, a)
  <2>1. /\ GiveUp(l, a, e, FALSE)
        /\ initialFrame' = [initialFrame EXCEPT ![l] = @ \/ TxopLimit[a] = 0]
        /\ ClearBackingOff(l, a)
    BY <1>6 DEF NoFrameTransmitted
  <2>2. initialFrame' \in [Links -> BOOLEAN]
    BY <1>1, <2>1
  <2>. QED  BY <2>1, <2>2, ClearBackingOffTyped, GiveUpStep
<1>7. CASE EndTxop(l, a)
  <2>1. /\ GiveUp(l, a, e, TRUE)
        /\ initialFrame' = initialFrame
        /\ ClearBackingOff(l, a)
    BY <1>7 DEF EndTxop
  <2>. QED  BY <1>1, <2>1, ClearBackingOffTyped, GiveUpStep
<1>. QED  BY <1>2, <1>3, <1>4, <1>5, <1>6, <1>7 DEF StartTransmission

----------------------------------------------------------------------------
(***************************************************************************)
(* The actions.                                                            *)
(***************************************************************************)
\* ChannelAccessManager::DoGrantDcfAccess: an EDCAF does not collide with itself.
LEMMA GrantAccessStep ==
  ASSUME IInv, NEW l \in Links, NEW a \in ACs, GrantAccess(l, a)
  PROVE  IInv'
<1>1. PICK L \in SUBSET Losers(l, a) : \E D \in SUBSET L : StartTransmission(l, a, L, D)
  BY DEF GrantAccess
<1>2. Prio[a] \in Nat
  BY FemAssumption
<1>3. Losers(l, a) \subseteq ACs \ {a}
  BY <1>2 DEF Losers
<1>4. L \in SUBSET (ACs \ {a})
  BY <1>3
<1>. QED  BY <1>1, <1>4, StartTransmissionStep

\* The end of the SIFS and of the PIFS that precede another frame of the TXOP.
LEMMA ResumeStep ==
  ASSUME IInv, NEW l \in Links, SifsElapsed(l) \/ PifsRecovery(l)
  PROVE  IInv'
<1>1. StartTransmission(l, edca[l], {}, {}) /\ phase[l] # "idle"
  BY DEF SifsElapsed, PifsRecovery
<1>2. edca[l] \in ACs
  BY <1>1 DEF IInv, HolderIsEdcaf
<1> DEFINE a == edca[l]
           L == {}
<1>3. a \in ACs /\ L \in SUBSET (ACs \ {a}) /\ StartTransmission(l, a, L, {})
  BY <1>1, <1>2
<1> HIDE DEF a, L
<1>. QED  BY <1>3, StartTransmissionStep

\* The end of an exchange of EDCAF a: its queue is left with q MPDUs.
LEMMA ExchangeStep ==
  ASSUME IInv, NEW l \in Links, NEW a \in ACs, NEW c \in {a, None},
         NEW ph \in Phases \ {"frame"}, ph # "idle" => c = a,
         NEW q \in Nat, InFlight(a, Links \ {l}) <= q,
         EntitiesConsistent', OthersOK',
         queue' = [queue EXCEPT ![a] = q],
         phase' = [phase EXCEPT ![l] = ph],
         edca' = [edca EXCEPT ![l] = c]
  PROVE  IInv'
<1>1. queue \in [ACs -> Nat]
  BY DEF IInv, TypeOK
<1>2. queue' \in [ACs -> Nat]
  BY <1>1
<1>3. ASSUME NEW b \in ACs PROVE InFlight(b, Links \ {l}) <= queue'[b]
  <2>1. CASE b = a
    BY <1>1, <2>1
  <2>2. CASE b # a
    <3>1. queue'[b] = queue[b]
      BY <1>1, <2>2
    <3>. QED  BY <3>1, OtherLinksQueued
  <2>. QED  BY <2>1, <2>2
<1>. QED  BY <1>2, <1>3, LinkStep

\* A queue that is left alone.
LEMMA QueueUntouched ==
  ASSUME IInv, NEW a \in ACs, queue' = queue
  PROVE  queue[a] \in Nat /\ queue' = [queue EXCEPT ![a] = queue[a]]
BY DEF IInv, TypeOK

\* More RequestAccess events.
LEMMA RequestsTyped ==
  ASSUME IInv, NEW l \in Links, NEW R \in SUBSET ACs,
         reqEvent' = [reqEvent EXCEPT ![l] = @ \cup R]
  PROVE  reqEvent' \in [Links -> SUBSET ACs]
<1>1. reqEvent \in [Links -> SUBSET ACs]
  BY DEF IInv, TypeOK
<1>2. reqEvent[l] \cup R \in SUBSET ACs
  BY <1>1
<1>. QED  BY <1>1, <1>2

\* The channel is released when the CTS-to-self of P-EDCA or a CF-End ends.
LEMMA EndReleaseStep ==
  ASSUME IInv, NEW l \in Links, PedcaCtsEnd(l) \/ CfEndDone(l)
  PROVE  IInv'
<1> DEFINE a == edca[l]
           e == ent[l][a]
           g == Releases(l, a, e, TRUE, queue[a])
           R == RequestsAgain(a, e, TRUE, queue[a])
<1>1. phase[l] # "idle" /\ EndRelease(l)
  BY DEF PedcaCtsEnd, CfEndDone
<1>2. a \in ACs
  BY <1>1 DEF IInv, HolderIsEdcaf
<1>3. e \in Consistent(l, a) /\ queue[a] \in Nat
  BY <1>2 DEF IInv, EntitiesConsistent, TypeOK
<1>4. /\ SetEntity(l, a, g)
      /\ reqEvent' = [reqEvent EXCEPT ![l] = @ \cup R]
      /\ phase' = [phase EXCEPT ![l] = "idle"]
      /\ queue' = queue /\ accEvent' = accEvent
      /\ backingOff' = backingOff /\ initialFrame' = initialFrame
  BY <1>1 DEF EndRelease
<1>5. PICK c \in {a, None} : edca' = [edca EXCEPT ![l] = c]
  <2>1. CASE PedcaCtsEnd(l)
    BY <2>1 DEF PedcaCtsEnd
  <2>2. CASE CfEndDone(l)
    <3>1. edca' = edca /\ edca \in [Links -> ACs \cup {None}]
      BY <2>2 DEF CfEndDone, IInv, TypeOK
    <3>2. edca' = [edca EXCEPT ![l] = a]
      BY <3>1
    <3>. QED  BY <3>2
  <2>. QED  BY <2>1, <2>2
<1> HIDE DEF a, e
<1>6. g \in Consistent(l, a) /\ R \in SUBSET ACs
  BY <1>2, <1>3, ReleasesConsistent
<1> HIDE DEF g, R
<1>7. EntitiesConsistent'
  BY <1>2, <1>4, <1>6, SetEntityConsistent DEF IInv
<1>8. OthersOK'
  BY <1>4, <1>6, RequestsTyped DEF OthersOK, IInv, TypeOK
<1>9. InFlight(a, Links \ {l}) <= queue[a] /\ queue' = [queue EXCEPT ![a] = queue[a]]
  BY <1>2, <1>4, OtherLinksQueued, QueueUntouched
<1>10. "idle" \in Phases \ {"frame"}
  BY DEF Phases
<1>. QED  BY <1>2, <1>3, <1>4, <1>5, <1>7, <1>8, <1>9, <1>10, ExchangeStep

\* QosFrameExchangeManager::PifsRecovery finds the medium busy.
LEMMA PifsRecoveryFailsStep ==
  ASSUME IInv, NEW l \in Links, PifsRecoveryFails(l)
  PROVE  IInv'
<1> DEFINE a == edca[l]
           e == ent[l][a]
           f == Releases(l, a, e, TRUE, queue[a])
           R == RequestsAgain(a, e, TRUE, queue[a])
<1>1. /\ phase[l] # "idle"
      /\ reqEvent' = [reqEvent EXCEPT ![l] = @ \cup R]
      /\ phase' = [phase EXCEPT ![l] = "idle"]
      /\ edca' = [edca EXCEPT ![l] = None]
      /\ queue' = queue /\ accEvent' = accEvent
      /\ backingOff' = backingOff /\ initialFrame' = initialFrame
  BY DEF PifsRecoveryFails
<1>2. PICK force \in BOOLEAN :
        SetEntity(l, a, IF force THEN f ELSE UpdateFailedCw(a, f))
  BY DEF PifsRecoveryFails
<1>3. a \in ACs
  BY <1>1 DEF IInv, HolderIsEdcaf
<1>4. e \in Consistent(l, a) /\ queue[a] \in Nat
  BY <1>3 DEF IInv, EntitiesConsistent, TypeOK
<1> HIDE DEF a, e
<1>5. f \in Consistent(l, a) /\ R \in SUBSET ACs
  BY <1>3, <1>4, ReleasesConsistent
<1> DEFINE g == IF force THEN f ELSE UpdateFailedCw(a, f)
<1> HIDE DEF f, R
<1>6. g \in Consistent(l, a)
  BY <1>3, <1>5, UpdateFailedCwConsistent
<1>7. SetEntity(l, a, g)
  BY <1>2
<1> HIDE DEF g
<1>8. EntitiesConsistent'
  BY <1>3, <1>6, <1>7, SetEntityConsistent DEF IInv
<1>9. OthersOK'
  BY <1>1, <1>5, RequestsTyped DEF OthersOK, IInv, TypeOK
<1>10. InFlight(a, Links \ {l}) <= queue[a] /\ queue' = [queue EXCEPT ![a] = queue[a]]
  BY <1>1, <1>3, OtherLinksQueued, QueueUntouched
<1>11. "idle" \in Phases \ {"frame"}
  BY DEF Phases
<1>. QED  BY <1>1, <1>3, <1>4, <1>8, <1>9, <1>10, <1>11, ExchangeStep

\* The MPDU whose exchange ends is in the queue beside those in flight elsewhere.
LEMMA MpduDequeued ==
  ASSUME IInv, NEW l \in Links, phase[l] = "frame", NEW q \in {queue[edca[l]], queue[edca[l]] - 1}
  PROVE  q \in Nat /\ InFlight(edca[l], Links \ {l}) <= q
<1> DEFINE a == edca[l]
<1>1. a \in ACs
  BY DEF IInv, HolderIsEdcaf
<1>2. InFlight(a, Links \ {l}) \in Nat /\ InFlight(a, Links \ {l}) < queue[a]
  BY <1>1, OtherLinksQueued
<1>3. queue[a] \in Nat
  BY <1>1 DEF IInv, TypeOK
<1>. QED  BY <1>2, <1>3

\* The time a frame exchange takes is taken from the TXOP.
LEMMA SpendConsistent ==
  ASSUME NEW l \in Links, NEW a \in ACs, NEW e \in Consistent(l, a),
         NEW f \in Consistent(l, a)
  PROVE  [f EXCEPT !.txop = Spend(e)] \in Consistent(l, a)
<1>1. Spend(e) \in Nat
  BY DEF Spend, Consistent, LinkEntity, NoTxop
<1>. QED  BY <1>1, TxopConsistent

\* QosFrameExchangeManager::TransmissionSucceeded.
LEMMA TransmissionSucceededStep ==
  ASSUME IInv, NEW l \in Links, TransmissionSucceeded(l)
  PROVE  IInv'
<1> DEFINE a == edca[l]
           q == queue[a] - 1
           e(acked) == IF acked THEN ResetCw(a, ent[l][a]) ELSE ent[l][a]
           f(acked) == [(IF e(acked).pedcaMode THEN ResetPedcaCounters(e(acked)) ELSE e(acked))
                          EXCEPT !.txop = Spend(e(acked))]
<1>1. /\ phase[l] = "frame"
      /\ queue' = [queue EXCEPT ![a] = q]
      /\ initialFrame' = [initialFrame EXCEPT ![l] = FALSE]
      /\ accEvent' = accEvent /\ backingOff' = backingOff
  BY DEF TransmissionSucceeded
<1>2. PICK acked \in BOOLEAN :
        \/ /\ SetEntity(l, a, f(acked))
           /\ phase' = [phase EXCEPT ![l] = "sifs"]
           /\ edca' = edca /\ reqEvent' = reqEvent
        \/ /\ SetEntity(l, a, Releases(l, a, f(acked), TRUE, q))
           /\ phase' = [phase EXCEPT ![l] = "idle"]
           /\ edca' = [edca EXCEPT ![l] = None]
           /\ reqEvent' = [reqEvent EXCEPT ![l] = @ \cup RequestsAgain(a, f(acked), TRUE, q)]
  BY DEF TransmissionSucceeded
<1>3. a \in ACs
  BY <1>1 DEF IInv, HolderIsEdcaf
<1>4. q \in Nat /\ InFlight(a, Links \ {l}) <= q
  BY <1>1, MpduDequeued
<1>5. ent[l][a] \in Consistent(l, a)
  BY <1>3 DEF IInv, EntitiesConsistent
<1> DEFINE g == e(acked)
           h == f(acked)
<1>6. h \in Consistent(l, a)
  <2>1. g \in Consistent(l, a)
    BY <1>3, <1>5, ResetCwConsistent
  <2> DEFINE r == IF g.pedcaMode THEN ResetPedcaCounters(g) ELSE g
  <2>2. h = [r EXCEPT !.txop = Spend(g)]
    OBVIOUS
  <2> HIDE DEF a, g, h
  <2>3. r \in Consistent(l, a)
    BY <1>3, <2>1, ResetPedcaConsistent
  <2> HIDE DEF r
  <2>. QED  BY <1>3, <2>1, <2>2, <2>3, SpendConsistent
<1>7. \/ /\ SetEntity(l, a, h)
         /\ phase' = [phase EXCEPT ![l] = "sifs"]
         /\ edca' = edca /\ reqEvent' = reqEvent
      \/ /\ SetEntity(l, a, Releases(l, a, h, TRUE, q))
         /\ phase' = [phase EXCEPT ![l] = "idle"]
         /\ edca' = [edca EXCEPT ![l] = None]
         /\ reqEvent' = [reqEvent EXCEPT ![l] = @ \cup RequestsAgain(a, h, TRUE, q)]
  BY <1>2
<1>8. edca \in [Links -> ACs \cup {None}] /\ edca[l] = a
  BY DEF IInv, TypeOK
<1>9. initialFrame' \in [Links -> BOOLEAN] /\ backingOff' \in [Links -> ACs \cup {None}]
  BY <1>1 DEF IInv, TypeOK
<1>10. accEvent' \in [Links -> [ACs -> AccEvents]] /\ reqEvent \in [Links -> SUBSET ACs]
  BY <1>1 DEF IInv, TypeOK
<1>11. {"idle", "sifs"} \subseteq Phases \ {"frame"}
  BY DEF Phases
<1> HIDE DEF a, q, g, h
<1>12. CASE /\ SetEntity(l, a, h)
            /\ phase' = [phase EXCEPT ![l] = "sifs"]
            /\ edca' = edca /\ reqEvent' = reqEvent
  <2>1. EntitiesConsistent'
    BY <1>3, <1>6, <1>12, SetEntityConsistent DEF IInv
  <2>2. OthersOK'
    BY <1>9, <1>10, <1>12 DEF OthersOK
  <2>3. edca' = [edca EXCEPT ![l] = a]
    BY <1>8, <1>12
  <2>. QED  BY <1>1, <1>3, <1>4, <1>11, <1>12, <2>1, <2>2, <2>3, ExchangeStep
<1>13. CASE /\ SetEntity(l, a, Releases(l, a, h, TRUE, q))
            /\ phase' = [phase EXCEPT ![l] = "idle"]
            /\ edca' = [edca EXCEPT ![l] = None]
            /\ reqEvent' = [reqEvent EXCEPT ![l] = @ \cup RequestsAgain(a, h, TRUE, q)]
  <2>1. /\ Releases(l, a, h, TRUE, q) \in Consistent(l, a)
        /\ RequestsAgain(a, h, TRUE, q) \in SUBSET ACs
    BY <1>3, <1>4, <1>6, ReleasesConsistent
  <2>2. EntitiesConsistent'
    BY <1>3, <1>13, <2>1, SetEntityConsistent DEF IInv
  <2>3. OthersOK'
    BY <1>9, <1>10, <1>13, <2>1, RequestsTyped DEF OthersOK
  <2>. QED  BY <1>1, <1>3, <1>4, <1>11, <1>13, <2>2, <2>3, ExchangeStep
<1>. QED  BY <1>7, <1>12, <1>13

\* A failure ends the contention protected by a CTS-to-self, or is counted.
FailedEntity(e) == IF e.pedcaMode THEN [e EXCEPT !.pedcaAfterCts = FALSE]
                                  ELSE IncrementPedcaTriggerCount(e)

\* TransmissionFailed keeps an entity consistent whichever it does.
LEMMA FailedConsistent ==
  ASSUME NEW l \in Links, NEW a \in ACs, NEW e \in Consistent(l, a)
  PROVE  FailedEntity(e) \in Consistent(l, a)
<1>1. CASE e.pedcaMode
  <2>1. FailedEntity(e) = [e EXCEPT !.pedcaAfterCts = FALSE]
    BY <1>1 DEF FailedEntity
  <2>. QED  BY <2>1 DEF Consistent, LinkEntity
<1>2. CASE ~e.pedcaMode
  BY <1>2, IncrementConsistent DEF FailedEntity
<1>. QED  BY <1>1, <1>2

\* An update of one entity among those of a link.
LEMMA UpdateOneConsistent ==
  ASSUME EntitiesConsistent, NEW l \in Links, NEW a \in ACs,
         NEW E \in [ACs -> LinkEntity], \A b \in ACs : E[b] \in Consistent(l, b),
         NEW e \in Consistent(l, a),
         ent' = [ent EXCEPT ![l] = [E EXCEPT ![a] = e]]
  PROVE  EntitiesConsistent'
<1> DEFINE F == [E EXCEPT ![a] = e]
<1>1. /\ F = [b \in ACs |-> F[b]]
      /\ \A b \in ACs : F[b] \in Consistent(l, b)
      /\ ent' = [ent EXCEPT ![l] = F]
  OBVIOUS
<1> HIDE DEF F
<1>. QED  BY <1>1, SetLinkConsistent

\* QosFrameExchangeManager::TransmissionFailed, also when a channel switch has
\* reset the backoffs of the link before.
LEMMA FailStep ==
  ASSUME IInv, NEW l \in Links, phase[l] = "frame",
         NEW E \in [ACs -> LinkEntity], \A b \in ACs : E[b] \in Consistent(l, b),
         NEW recovery \in {"pifs", "lost"}, Fail(l, E, recovery)
  PROVE  IInv'
<1> DEFINE a == edca[l]
           e == FailedEntity(E[a])
           f == [e EXCEPT !.txop = Spend(e)]
           Update(force, g) == IF force THEN g ELSE UpdateFailedCw(a, g)
           again(q) == IF HasFramesToTransmit(q) THEN {a} ELSE {}
<1>1. PICK force \in BOOLEAN, drop \in BOOLEAN :
        LET q == IF drop THEN queue[a] - 1 ELSE queue[a] IN
        /\ queue' = [queue EXCEPT ![a] = q]
        /\ \/ /\ ent' = [ent EXCEPT ![l] =
                           [E EXCEPT ![a] = Releases(l, a, Update(force, f), TRUE, q)]]
              /\ reqEvent' = [reqEvent EXCEPT ![l] = @ \cup RequestsAgain(a, f, TRUE, q)]
              /\ phase' = [phase EXCEPT ![l] = "idle"]
              /\ edca' = [edca EXCEPT ![l] = None]
              /\ backingOff' = backingOff
           \/ /\ ent' = [ent EXCEPT ![l] = [E EXCEPT ![a] = f]]
              /\ phase' = [phase EXCEPT ![l] = recovery]
              /\ reqEvent' = reqEvent /\ edca' = edca /\ backingOff' = backingOff
           \/ /\ ent' = [ent EXCEPT ![l] =
                           [E EXCEPT ![a] = Update(force, BackoffInTxop(l, a, f))]]
              /\ reqEvent' = [reqEvent EXCEPT ![l] = @ \cup again(q)]
              /\ phase' = [phase EXCEPT ![l] = "idle"]
              /\ edca' = [edca EXCEPT ![l] = None]
              /\ backingOff' = [backingOff EXCEPT ![l] = a]
  BY DEF Fail, FailedEntity
<1>2. initialFrame' = [initialFrame EXCEPT ![l] = FALSE] /\ accEvent' = accEvent
  BY DEF Fail
<1>3. a \in ACs
  BY DEF IInv, HolderIsEdcaf
<1> DEFINE q == IF drop THEN queue[a] - 1 ELSE queue[a]
<1>4. q \in Nat /\ InFlight(a, Links \ {l}) <= q
  BY MpduDequeued
<1>5. f \in Consistent(l, a)
  <2>1. e \in Consistent(l, a)
    BY <1>3, FailedConsistent
  <2> HIDE DEF a, e
  <2>. QED  BY <1>3, <2>1, SpendConsistent
<1>6. edca \in [Links -> ACs \cup {None}] /\ edca[l] = a
  BY DEF IInv, TypeOK
<1>7. initialFrame' \in [Links -> BOOLEAN] /\ backingOff \in [Links -> ACs \cup {None}]
  BY <1>2 DEF IInv, TypeOK
<1>8. accEvent' \in [Links -> [ACs -> AccEvents]] /\ reqEvent \in [Links -> SUBSET ACs]
  BY <1>2 DEF IInv, TypeOK
<1>9. {"idle", recovery} \subseteq Phases \ {"frame"} /\ recovery # "idle"
  BY DEF Phases
<1>10. queue' = [queue EXCEPT ![a] = q]
  BY <1>1
<1>11. EntitiesConsistent
  BY DEF IInv
<1>12. \/ /\ ent' = [ent EXCEPT ![l] =
                       [E EXCEPT ![a] = Releases(l, a, Update(force, f), TRUE, q)]]
          /\ reqEvent' = [reqEvent EXCEPT ![l] = @ \cup RequestsAgain(a, f, TRUE, q)]
          /\ phase' = [phase EXCEPT ![l] = "idle"]
          /\ edca' = [edca EXCEPT ![l] = None]
          /\ backingOff' = backingOff
       \/ /\ ent' = [ent EXCEPT ![l] = [E EXCEPT ![a] = f]]
          /\ phase' = [phase EXCEPT ![l] = recovery]
          /\ reqEvent' = reqEvent /\ edca' = edca /\ backingOff' = backingOff
       \/ /\ ent' = [ent EXCEPT ![l] =
                       [E EXCEPT ![a] = Update(force, BackoffInTxop(l, a, f))]]
          /\ reqEvent' = [reqEvent EXCEPT ![l] = @ \cup again(q)]
          /\ phase' = [phase EXCEPT ![l] = "idle"]
          /\ edca' = [edca EXCEPT ![l] = None]
          /\ backingOff' = [backingOff EXCEPT ![l] = a]
  BY <1>1
<1>13. ASSUME NEW g \in Consistent(l, a) PROVE Update(force, g) \in Consistent(l, a)
  <2> HIDE DEF a
  <2>. QED  BY <1>3, <1>13, UpdateFailedCwConsistent
<1>14. again(q) \in SUBSET ACs
  BY <1>3
<1> HIDE DEF a, q, f, Update, again
<1>15. CASE /\ ent' = [ent EXCEPT ![l] =
                         [E EXCEPT ![a] = Releases(l, a, Update(force, f), TRUE, q)]]
            /\ reqEvent' = [reqEvent EXCEPT ![l] = @ \cup RequestsAgain(a, f, TRUE, q)]
            /\ phase' = [phase EXCEPT ![l] = "idle"]
            /\ edca' = [edca EXCEPT ![l] = None]
            /\ backingOff' = backingOff
  <2>1. RequestsAgain(a, f, TRUE, q) \in SUBSET ACs
    BY <1>3, <1>4, <1>5, ReleasesConsistent
  <2>2. Releases(l, a, Update(force, f), TRUE, q) \in Consistent(l, a)
    BY <1>3, <1>4, <1>5, <1>13, ReleasesConsistent
  <2>3. EntitiesConsistent'
    BY <1>3, <1>11, <1>15, <2>2, UpdateOneConsistent
  <2>4. OthersOK'
    BY <1>7, <1>8, <1>15, <2>1, RequestsTyped DEF OthersOK
  <2>. QED  BY <1>3, <1>4, <1>9, <1>10, <1>15, <2>3, <2>4, ExchangeStep
<1>16. CASE /\ ent' = [ent EXCEPT ![l] = [E EXCEPT ![a] = f]]
            /\ phase' = [phase EXCEPT ![l] = recovery]
            /\ reqEvent' = reqEvent /\ edca' = edca /\ backingOff' = backingOff
  <2>1. EntitiesConsistent'
    BY <1>3, <1>5, <1>11, <1>16, UpdateOneConsistent
  <2>2. OthersOK'
    BY <1>7, <1>8, <1>16 DEF OthersOK
  <2>3. edca' = [edca EXCEPT ![l] = a]
    BY <1>6, <1>16
  <2>. QED  BY <1>3, <1>4, <1>9, <1>10, <1>16, <2>1, <2>2, <2>3, ExchangeStep
<1>17. CASE /\ ent' = [ent EXCEPT ![l] =
                         [E EXCEPT ![a] = Update(force, BackoffInTxop(l, a, f))]]
            /\ reqEvent' = [reqEvent EXCEPT ![l] = @ \cup again(q)]
            /\ phase' = [phase EXCEPT ![l] = "idle"]
            /\ edca' = [edca EXCEPT ![l] = None]
            /\ backingOff' = [backingOff EXCEPT ![l] = a]
  <2>1. Update(force, BackoffInTxop(l, a, f)) \in Consistent(l, a)
    BY <1>3, <1>5, <1>13, BackoffInTxopConsistent
  <2>2. EntitiesConsistent'
    BY <1>3, <1>11, <1>17, <2>1, UpdateOneConsistent
  <2>3. backingOff' \in [Links -> ACs \cup {None}]
    BY <1>3, <1>7, <1>17
  <2>4. OthersOK'
    BY <1>7, <1>8, <1>14, <1>17, <2>3, RequestsTyped DEF OthersOK
  <2>. QED  BY <1>3, <1>4, <1>9, <1>10, <1>17, <2>2, <2>4, ExchangeStep
<1>. QED  BY <1>12, <1>15, <1>16, <1>17

\* ChannelAccessManager::NotifySwitchingStartNow.
LEMMA ChannelSwitchStep ==
  ASSUME IInv, NEW l \in Links, ChannelSwitch(l)
  PROVE  IInv'
<1> DEFINE E == AllReset(l)
<1>1. /\ E = [b \in ACs |-> E[b]]
      /\ \A b \in ACs : E[b] \in Consistent(l, b)
  BY ResetBackoffConsistent DEF IInv, EntitiesConsistent, AllReset
<1>2. E \in [ACs -> LinkEntity]
  BY <1>1 DEF Consistent
<1> HIDE DEF E
<1>3. CASE /\ ent' = [ent EXCEPT ![l] = AllReset(l)]
           /\ UNCHANGED <<queue, reqEvent, accEvent, phase, edca, backingOff, initialFrame>>
  <2>1. ent' = [ent EXCEPT ![l] = E]
    BY <1>3 DEF E
  <2>2. EntitiesConsistent'
    BY <1>1, <2>1, SetLinkConsistent DEF IInv
  <2>3. /\ OthersOK' /\ queue' \in [ACs -> Nat]
        /\ \A b \in ACs : InFlight(b, Links) <= queue'[b]
    BY <1>3 DEF OthersOK, IInv, TypeOK, InFlightIsQueued
  <2>. QED  BY <1>3, <2>2, <2>3, QuietStep
<1>4. CASE phase[l] = "frame" /\ Fail(l, AllReset(l), "lost")
  <2>1. Fail(l, E, "lost")
    BY <1>4 DEF E
  <2>. QED  BY <1>1, <1>2, <1>4, <2>1, FailStep
<1>. QED  BY <1>3, <1>4 DEF ChannelSwitch

\* Txop::NotifyCcaBusy with ProactiveBackoff.
LEMMA CcaBusyStep ==
  ASSUME IInv, NEW l \in Links, CcaBusy(l)
  PROVE  IInv'
<1>1. PICK S \in SUBSET ACs :
        ent' = [ent EXCEPT ![l] = [a \in ACs |->
                  IF a \in S THEN GenerateBackoff(l, a, ent[l][a]) ELSE ent[l][a]]]
  BY DEF CcaBusy
<1> DEFINE E == [a \in ACs |->
                   IF a \in S THEN GenerateBackoff(l, a, ent[l][a]) ELSE ent[l][a]]
<1>2. /\ E = [b \in ACs |-> E[b]]
      /\ \A b \in ACs : E[b] \in Consistent(l, b)
      /\ ent' = [ent EXCEPT ![l] = E]
  BY <1>1, GenerateBackoffConsistent DEF IInv, EntitiesConsistent
<1> HIDE DEF E
<1>3. EntitiesConsistent'
  BY <1>2, SetLinkConsistent DEF IInv
<1>4. UNCHANGED <<queue, reqEvent, accEvent, phase, edca, backingOff, initialFrame>>
  BY DEF CcaBusy
<1>5. /\ OthersOK' /\ queue' \in [ACs -> Nat]
      /\ \A b \in ACs : InFlight(b, Links) <= queue'[b]
  BY <1>4 DEF OthersOK, IInv, TypeOK, InFlightIsQueued
<1>. QED  BY <1>3, <1>4, <1>5, QuietStep

\* Txop::Queue, and the end of the lifetime of an MPDU that is not in flight.
LEMMA QueueStep ==
  ASSUME IInv, NEW a \in ACs, Enqueue(a) \/ Expire(a)
  PROVE  IInv'
<1>1. queue \in [ACs -> Nat] /\ \A b \in ACs : InFlight(b, Links) <= queue[b]
  BY DEF IInv, TypeOK, InFlightIsQueued
<1>2. InFlight(a, Links) \in Nat
  <2>1. PICK l \in Links : TRUE
    BY DeviceAssumption
  <2>2. InFlight(a, Links \ {l}) \in Nat
    BY InFlightSplits
  <2>3. InFlight(a, Links) \in {InFlight(a, Links \ {l}), InFlight(a, Links \ {l}) + 1}
    BY InFlightSplits
  <2>. QED  BY <2>2, <2>3
<1>3. PICK n \in Nat : queue' = [queue EXCEPT ![a] = n] /\ InFlight(a, Links) <= n
  <2>1. CASE Enqueue(a)
    <3>1. queue' = [queue EXCEPT ![a] = queue[a] + 1]
      BY <2>1 DEF Enqueue
    <3>2. queue[a] + 1 \in Nat /\ InFlight(a, Links) <= queue[a] + 1
      BY <1>1, <1>2
    <3>. QED  BY <3>1, <3>2
  <2>2. CASE Expire(a)
    <3>1. queue' = [queue EXCEPT ![a] = queue[a] - 1] /\ queue[a] > InFlight(a, Links)
      BY <2>2 DEF Expire
    <3>2. queue[a] - 1 \in Nat /\ InFlight(a, Links) <= queue[a] - 1
      BY <1>1, <1>2, <3>1
    <3>. QED  BY <3>1, <3>2
  <2>. QED  BY <2>1, <2>2
<1>4. /\ queue' \in [ACs -> Nat]
      /\ \A b \in ACs : InFlight(b, Links) <= queue'[b]
  BY <1>1, <1>3
<1>5. accEvent' \in [Links -> [ACs -> AccEvents]]
  <2>1. accEvent \in [Links -> [ACs -> AccEvents]]
    BY DEF IInv, TypeOK
  <2>2. CASE Enqueue(a)
    <3> DEFINE v(l) == CASE accEvent[l][a] # "none" -> accEvent[l][a]
                         [] accEvent[l][a] = "none" /\ HasFramesToTransmit(queue[a]) -> "had"
                         [] accEvent[l][a] = "none" /\ ~HasFramesToTransmit(queue[a]) -> "hadnot"
    <3>1. accEvent' = [l \in Links |-> [accEvent[l] EXCEPT ![a] = v(l)]]
      BY <2>2 DEF Enqueue
    <3>2. \A l \in Links : v(l) \in AccEvents
      BY <2>1 DEF AccEvents
    <3> HIDE DEF v
    <3>. QED  BY <2>1, <3>1, <3>2
  <2>3. CASE Expire(a)
    BY <2>1, <2>3 DEF Expire
  <2>. QED  BY <2>2, <2>3
<1>6. UNCHANGED <<ent, reqEvent, phase, edca, backingOff, initialFrame>>
  BY DEF Enqueue, Expire
<1>7. OthersOK'
  BY <1>5, <1>6 DEF OthersOK, IInv, TypeOK
<1>8. EntitiesConsistent'
  BY <1>6 DEF IInv, EntitiesConsistent
<1>. QED  BY <1>4, <1>6, <1>7, <1>8, QuietStep

\* Txop::StartAccessAfterEvent.
LEMMA StartAccessAfterEventStep ==
  ASSUME IInv, NEW l \in Links, NEW a \in ACs, StartAccessAfterEvent(l, a)
  PROVE  IInv'
<1>1. UNCHANGED <<queue, reqEvent, phase, edca, backingOff, initialFrame>>
  BY DEF StartAccessAfterEvent
<1>2. EntitiesConsistent'
  <2>1. CASE UNCHANGED ent
    BY <2>1 DEF IInv, EntitiesConsistent
  <2>2. CASE ~(UNCHANGED ent)
    <3>1. PICK needBackoff :
            SetEntity(l, a, [(IF needBackoff THEN GenerateBackoff(l, a, ent[l][a])
                                             ELSE ent[l][a])
                             EXCEPT !.access = "REQUESTED"])
      BY <2>2 DEF StartAccessAfterEvent
    <3> DEFINE e == IF needBackoff THEN GenerateBackoff(l, a, ent[l][a]) ELSE ent[l][a]
               f == [e EXCEPT !.access = "REQUESTED"]
    <3>2. e \in Consistent(l, a)
      BY GenerateBackoffConsistent DEF IInv, EntitiesConsistent
    <3>3. SetEntity(l, a, f)
      BY <3>1
    <3> HIDE DEF e
    <3>4. f \in Consistent(l, a)
      BY <3>2, AccessConsistent DEF AccessStatus
    <3> HIDE DEF f
    <3>. QED  BY <3>3, <3>4, SetEntityConsistent DEF IInv
  <2>. QED  BY <2>1, <2>2
<1>3. OthersOK'
  <2>1. accEvent' = [accEvent EXCEPT ![l][a] = "none"]
    BY DEF StartAccessAfterEvent
  <2>2. accEvent' \in [Links -> [ACs -> AccEvents]]
    BY <2>1 DEF IInv, TypeOK, AccEvents
  <2>. QED  BY <1>1, <2>2 DEF OthersOK, IInv, TypeOK
<1>4. queue' \in [ACs -> Nat] /\ \A b \in ACs : InFlight(b, Links) <= queue'[b]
  BY <1>1 DEF IInv, TypeOK, InFlightIsQueued
<1>. QED  BY <1>1, <1>2, <1>3, <1>4, QuietStep

\* Txop::RequestAccess.
LEMMA RequestAccessStep ==
  ASSUME IInv, NEW l \in Links, NEW a \in ACs, RequestAccess(l, a)
  PROVE  IInv'
<1>1. UNCHANGED <<queue, accEvent, phase, edca, backingOff, initialFrame>>
  BY DEF RequestAccess
<1>2. EntitiesConsistent'
  <2>1. CASE UNCHANGED ent
    BY <2>1 DEF IInv, EntitiesConsistent
  <2>2. CASE ~(UNCHANGED ent)
    <3> DEFINE f == [ent[l][a] EXCEPT !.access = "REQUESTED"]
    <3>1. SetEntity(l, a, f)
      BY <2>2 DEF RequestAccess
    <3>2. ent[l][a] \in Consistent(l, a)
      BY DEF IInv, EntitiesConsistent
    <3>3. f \in Consistent(l, a)
      BY <3>2, AccessConsistent DEF AccessStatus
    <3> HIDE DEF f
    <3>. QED  BY <3>1, <3>3, SetEntityConsistent DEF IInv
  <2>. QED  BY <2>1, <2>2
<1>3. OthersOK'
  <2>1. reqEvent' = [reqEvent EXCEPT ![l] = @ \ {a}]
    BY DEF RequestAccess
  <2>2. reqEvent' \in [Links -> SUBSET ACs]
    BY <2>1 DEF IInv, TypeOK
  <2>. QED  BY <1>1, <2>2 DEF OthersOK, IInv, TypeOK
<1>4. queue' \in [ACs -> Nat] /\ \A b \in ACs : InFlight(b, Links) <= queue'[b]
  BY <1>1 DEF IInv, TypeOK, InFlightIsQueued
<1>. QED  BY <1>1, <1>2, <1>3, <1>4, QuietStep

----------------------------------------------------------------------------
(***************************************************************************)
(* The theorems.                                                           *)
(***************************************************************************)
\* Txop::DoInitialize leaves a device that satisfies the invariant, even when
\* QsrcThreshold is 0 and P-EDCA is selected from the start.
LEMMA InitIInv == Init => IInv
<1> SUFFICES ASSUME Init PROVE IInv
  OBVIOUS
<1>1. ASSUME NEW l \in Links, NEW a \in ACs PROVE ent[l][a] \in Consistent(l, a)
  <2>1. CwMin[a] \in Nat /\ CwCovers(a, 0, CwMin[a])
    BY EdcaParameterAssumption, CwCoversFacts
  <2>2. NewEntity(a) \in Consistent(l, a)
    BY <2>1, ThresholdAssumption
       DEF NewEntity, Consistent, LinkEntity, AccessStatus, NoTxop
  <2>3. ent[l][a] = GenerateBackoff(l, a, NewEntity(a))
    BY DEF Init
  <2>. QED  BY <2>2, <2>3, GenerateBackoffConsistent
<1>2. ent \in [Links -> [ACs -> LinkEntity]]
  <2>1. ent = [l \in Links |-> [a \in ACs |-> ent[l][a]]]
    BY DEF Init
  <2>2. \A l \in Links, a \in ACs : ent[l][a] \in LinkEntity
    BY <1>1 DEF Consistent
  <2>. QED  BY <2>1, <2>2
<1>3. TypeOK
  BY <1>2 DEF Init, TypeOK, AccEvents, Phases
<1>4. EntitiesConsistent
  BY <1>1, <1>2 DEF EntitiesConsistent
<1>5. HolderIsEdcaf
  BY DEF Init, HolderIsEdcaf
<1>6. InFlightIsQueued
  <2>1. ASSUME NEW a \in ACs PROVE InFlight(a, Links) = 0
    <3>1. {k \in Links : phase[k] = "frame" /\ edca[k] = a} = {}
      BY DEF Init
    <3>. QED  BY <3>1, FS_EmptySet DEF InFlight
  <2>. QED  BY <2>1 DEF InFlightIsQueued, Init
<1>. QED  BY <1>3, <1>4, <1>5, <1>6 DEF IInv

\* Every event of the device keeps the invariant.
LEMMA NextIInv == IInv /\ [Next]_vars => IInv'
<1> SUFFICES ASSUME IInv, [Next]_vars PROVE IInv'
  OBVIOUS
<1>1. CASE UNCHANGED vars
  BY <1>1 DEF vars, IInv, TypeOK, EntitiesConsistent, HolderIsEdcaf, InFlightIsQueued,
              InFlight
<1>2. ASSUME NEW a \in ACs, Enqueue(a) \/ Expire(a) PROVE IInv'
  BY <1>2, QueueStep
<1>3. ASSUME NEW l \in Links, NEW a \in ACs, StartAccessAfterEvent(l, a) PROVE IInv'
  BY <1>3, StartAccessAfterEventStep
<1>4. ASSUME NEW l \in Links, NEW a \in ACs, RequestAccess(l, a) PROVE IInv'
  BY <1>4, RequestAccessStep
<1>5. ASSUME NEW l \in Links, NEW a \in ACs, GrantAccess(l, a) PROVE IInv'
  BY <1>5, GrantAccessStep
<1>6. ASSUME NEW l \in Links, Exchange(l) PROVE IInv'
  <2>1. CASE SifsElapsed(l) \/ PifsRecovery(l)
    BY <2>1, ResumeStep
  <2>2. CASE PifsRecoveryFails(l)
    BY <2>2, PifsRecoveryFailsStep
  <2>3. CASE PedcaCtsEnd(l) \/ CfEndDone(l)
    BY <2>3, EndReleaseStep
  <2>4. CASE TransmissionSucceeded(l)
    BY <2>4, TransmissionSucceededStep
  <2>5. CASE TransmissionFailed(l)
    <3>1. phase[l] = "frame" /\ Fail(l, ent[l], "pifs")
      BY <2>5 DEF TransmissionFailed
    <3>2. /\ ent[l] \in [ACs -> LinkEntity]
          /\ \A b \in ACs : ent[l][b] \in Consistent(l, b)
      BY DEF IInv, EntitiesConsistent
    <3>. QED  BY <3>1, <3>2, FailStep
  <2>. QED  BY <1>6, <2>1, <2>2, <2>3, <2>4, <2>5 DEF Exchange
<1>7. ASSUME NEW l \in Links, CcaBusy(l) PROVE IInv'
  BY <1>7, CcaBusyStep
<1>8. ASSUME NEW l \in Links, ChannelSwitch(l) PROVE IInv'
  BY <1>8, ChannelSwitchStep
<1>. QED  BY <1>1, <1>2, <1>3, <1>4, <1>5, <1>6, <1>7, <1>8 DEF Next

\* The inductive invariant holds of every reachable state of every device.
THEOREM Invariance == Spec => []IInv
BY InitIInv, NextIInv, PTL DEF Spec

\* Every variable keeps to its type: in particular the number of MPDUs in a
\* queue and the contention windows never leave the natural numbers.
THEOREM TypeCorrect == Spec => []TypeOK
<1>1. IInv => TypeOK
  BY DEF IInv
<1>. QED  BY <1>1, Invariance, PTL

\* A P-EDCA round never sends more CTS-to-self frames than PsrcThreshold,
\* whatever the links, the thresholds and the attributes of the device.
THEOREM BudgetIsKept == Spec => []PsrcBudget
<1>1. IInv => PsrcBudget
  BY DEF IInv, EntitiesConsistent, Consistent, PsrcBudget
<1>. QED  BY <1>1, Invariance, PTL

\* SendPedcaCtsAndRecontend is only ever due for an EDCAF that may run P-EDCA, is
\* in P-EDCA mode outside the contention after a CTS-to-self, and has budget left.
THEOREM PendingIsDue == Spec => []PendingCtsIsDue
<1>1. IInv => PendingCtsIsDue
  BY DEF IInv, EntitiesConsistent, Consistent, PendingCtsIsDue
<1>. QED  BY <1>1, Invariance, PTL

\* An EDCAF contends in the protection of a CTS-to-self only in a round that has
\* sent one.
THEOREM ProtectionIsEarned == Spec => []AfterCtsFollowsCts
<1>1. IInv => AfterCtsFollowsCts
  BY DEF IInv, EntitiesConsistent, Consistent, AfterCtsFollowsCts
<1>. QED  BY <1>1, Invariance, PTL

\* The contention window never lags behind QSRC nor leaves its bounds, although a
\* success in P-EDCA mode clears QSRC without the window (Txop::UpdateFailedCw,
\* QosTxop::ResetPedcaCounters).
THEOREM WindowCoversRetries == Spec => []CwCoversRetries
<1>1. IInv => CwCoversRetries
  <2> SUFFICES ASSUME IInv, NEW l \in Links, NEW a \in ACs
               PROVE  CwAfter(a, ent[l][a].staRetryCount) <= ent[l][a].cw /\ ent[l][a].cw <= CwMax[a]
    BY DEF CwCoversRetries
  <2>1. CwCovers(a, ent[l][a].staRetryCount, ent[l][a].cw)
    BY DEF IInv, EntitiesConsistent, Consistent
  <2>. QED  BY <2>1, EdcaParameterAssumption DEF CwCovers
<1>. QED  BY <1>1, Invariance, PTL

\* The links of a device send distinct queued MPDUs, whichever of them fail, are
\* dropped, expire or are dropped after an internal collision meanwhile.
THEOREM DistinctInFlight == Spec => []InFlightIsQueued
<1>1. IInv => InFlightIsQueued
  BY DEF IInv
<1>. QED  BY <1>1, Invariance, PTL
=============================================================================
