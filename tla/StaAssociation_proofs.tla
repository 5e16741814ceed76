------------------------ MODULE StaAssociation_proofs ------------------------
(***************************************************************************)
(* Type correctness of StaAssociation, that the station never sends a      *)
(* request without a BSSID, and that station and AP agree on association   *)
(* and AID, for any number of APs, of AIDs and of frames in the queues.    *)
(***************************************************************************)
EXTENDS StaAssociation, SequenceTheorems, WellFoundedInduction, TLAPS

Settled == {"SCANNING", "WAIT_ASSOC_RESP", "ASSOCIATED"}

\* A station that may be told to send a request at any time its timer runs or
\* while it is not scanning.
Ready == {s \in Station(Settled) :
            s.assocTimer \/ s.state # "SCANNING" => s.bssid # NoAp}

\* A station in the middle of a handler: its state is about to be set.
Passing == {s \in Station(Settled \cup {"UNASSOCIATED", "REFUSED"}) :
              s.assocTimer => s.bssid # NoAp}

IInv == sta \in Ready /\ ap \in [Aps -> ApRecord] /\ doubt \in {"none", "overlap", "ackLost"}

----------------------------------------------------------------------------
(***************************************************************************)
(* The methods of the station.                                             *)
(***************************************************************************)
\* The sets differ in the states only.
LEMMA ReadyIsPassing == Ready \subseteq Passing
BY DEF Ready, Passing, Station, Settled

\* A scan may be started in the middle of any handler.
LEMMA StartScanningReady ==
  ASSUME NEW s \in Passing
  PROVE  StartScanning(s) \in Ready
<1>1. [s EXCEPT !.state = "SCANNING", !.endNow = TRUE] \in Ready
  BY DEF Passing, Ready, Station, Settled
<1>2. [s EXCEPT !.state = "SCANNING", !.waiting = TRUE] \in Ready
  BY DEF Passing, Ready, Station, Settled
<1>3. ASSUME NEW t, t = [s EXCEPT !.state = "SCANNING"]
      PROVE  /\ t.apList = s.apList
             /\ [t EXCEPT !.endNow = TRUE] = [s EXCEPT !.state = "SCANNING", !.endNow = TRUE]
             /\ [t EXCEPT !.waiting = TRUE] = [s EXCEPT !.state = "SCANNING", !.waiting = TRUE]
  BY <1>3 DEF Passing, Station
<1>. QED  BY <1>1, <1>2, <1>3 DEF StartScanning, DoStartScanning

\* The watchdog is independent of the BSSID.
LEMMA RestartBeaconWatchdogReady ==
  ASSUME NEW s \in Ready
  PROVE  /\ RestartBeaconWatchdog(s) \in Ready
         /\ RestartBeaconWatchdog(s).bssid = s.bssid
BY DEF RestartBeaconWatchdog, Ready, Station, Settled

\* A request is sent to the AP with the BSSID of the station.
LEMMA SendAssociationRequestReady ==
  ASSUME NEW s \in Ready, s.bssid # NoAp
  PROVE  SendAssociationRequest(s) \in Ready
<1>. DEFINE q == IF Len(s.queue) < MaxQueue THEN Append(s.queue, s.bssid) ELSE s.queue
<1>1. s.queue \in Seq(Aps) /\ s.bssid \in Aps
  BY DEF Ready, Station
<1>2. q \in Seq(Aps)
  BY <1>1, AppendProperties
<1>. HIDE DEF q
<1>3. [s EXCEPT !.queue = q, !.assocTimer = TRUE] \in Ready
  BY <1>2 DEF Ready, Station, Settled
<1>. QED  BY <1>3 DEF SendAssociationRequest, q

\* The station repeats or renews its request.
LEMMA WaitAgainReady ==
  ASSUME NEW s \in Ready, s.bssid # NoAp
  PROVE  SendAssociationRequest([s EXCEPT !.state = "WAIT_ASSOC_RESP"]) \in Ready
<1>. DEFINE t == [s EXCEPT !.state = "WAIT_ASSOC_RESP"]
<1>1. t \in Ready /\ t.bssid # NoAp
  BY DEF Ready, Station, Settled
<1>. QED  BY <1>1, SendAssociationRequestReady

\* A scan ends with a request to a candidate, or is started again.
LEMMA ScanOutcomesReady ==
  ASSUME NEW s \in Ready, NEW t \in ScanOutcomes(s)
  PROVE  t \in Ready
<1>1. CASE s.apList = {}
  BY <1>1, ReadyIsPassing, StartScanningReady DEF ScanOutcomes
<1>2. CASE s.apList # {}
  <2>1. PICK a \in s.apList : t = ScanningTimeout(s, a)
    BY <1>2 DEF ScanOutcomes
  <2>. DEFINE u == [s EXCEPT !.apList = @ \ {a}, !.bssid = a, !.state = "WAIT_ASSOC_RESP"]
  <2>2. a \in Aps /\ a # NoAp
    BY StaAssociationAssumption DEF Ready, Station
  <2>3. u \in Ready /\ u.bssid # NoAp
    BY <2>2 DEF Ready, Station, Settled
  <2>. HIDE DEF u
  <2>4. SendAssociationRequest(RestartBeaconWatchdog(u)) \in Ready
    BY <2>3, RestartBeaconWatchdogReady, SendAssociationRequestReady
  <2>. QED  BY <2>1, <2>4 DEF ScanningTimeout, u
<1>. QED  BY <1>1, <1>2

\* The BSSID is given up together with the timer of the request (issue #862).
LEMMA DisassociatedReady ==
  ASSUME NEW s \in Ready
  PROVE  Disassociated(s) \in Ready
<1>. DEFINE t == [s EXCEPT !.state = "UNASSOCIATED", !.bssid = NoAp, !.aid = NoAid,
                           !.assocTimer = FALSE]
<1>1. t \in Passing /\ t.state = "UNASSOCIATED"
  BY DEF Ready, Passing, Station, Settled, Aids, NoAid
<1>. HIDE DEF t
<1>2. TryToEnsureAssociated(t) \in Ready
  BY <1>1, StartScanningReady DEF TryToEnsureAssociated
<1>. QED  BY <1>2 DEF Disassociated, t

\* A response is ignored, starts a scan or associates the station.
LEMMA ReceiveAssocRespReady ==
  ASSUME NEW s \in Ready, NEW a \in Aps, NEW aid \in Aids \cup {NoAid}
  PROVE  ReceiveAssocResp(s, a, aid) \in Ready
<1>1. [s EXCEPT !.state = "REFUSED", !.assocTimer = FALSE] \in Passing
  BY DEF Ready, Passing, Station, Settled
<1>2. [s EXCEPT !.state = "ASSOCIATED", !.assocTimer = FALSE, !.aid = aid, !.bssid = a] \in Ready
  BY StaAssociationAssumption DEF Ready, Station, Settled
<1>. QED  BY <1>1, <1>2, StartScanningReady DEF ReceiveAssocResp

\* Candidates are APs.
LEMMA NotifyApInfoReady ==
  ASSUME NEW s \in Ready, NEW a \in Aps
  PROVE  NotifyApInfo(s, a) \in Ready
BY DEF NotifyApInfo, Ready, Station, Settled

----------------------------------------------------------------------------
(***************************************************************************)
(* The book-keeping of an AP.                                              *)
(***************************************************************************)
\* A free AID is found if there is one.
LEMMA NextAidIsAid ==
  ASSUME NEW S \in SUBSET Aids, S # Aids
  PROVE  Min(Aids \ S) \in Aids \ S
<1>. DEFINE T == Aids \ S
<1>1. T # {} /\ T \subseteq Nat
  <2>1. T # {}
    OBVIOUS
  <2>2. Aids \subseteq Nat
    BY StaAssociationAssumption DEF Aids
  <2>. QED  BY <2>1, <2>2
<1>. HIDE DEF T
<1>2. PICK n \in T : \A k \in T : ~(<<k, n>> \in OpToRel(<, Nat))
  BY <1>1, NatLessThanWellFounded, WFMin, Zenon
<1>3. \A k \in T : ~(k < n)
  BY <1>1, <1>2 DEF OpToRel
<1>4. \A k \in T : n <= k
  BY <1>1, <1>3
<1>5. Min(T) \in T
  BY <1>4 DEF Min
<1>. QED  BY <1>5 DEF T

\* The record of an AP that accepts or refuses a request.
LEMMA AnswerOK ==
  ASSUME NEW r \in ApRecord
  PROVE  /\ r.staList # Aids => Answer(r, TRUE) \in ApRecord
         /\ Answer(r, FALSE) \in ApRecord
<1>1. ASSUME r.staList # Aids PROVE Answer(r, TRUE) \in ApRecord
  <2>. DEFINE u == [r EXCEPT !.state = "WAIT_ASSOC_TX_OK"]
              aid == GetNextAssociationId(u)
              q == Append(u.responses, aid)
  <2>1. /\ u \in ApRecord /\ u.state = "WAIT_ASSOC_TX_OK"
        /\ u.staList = r.staList /\ u.responses \in Seq(Aids \cup {NoAid})
    BY DEF ApRecord
  <2>2. aid \in Aids
    BY <1>1, NextAidIsAid DEF ApRecord, GetNextAssociationId
  <2>. HIDE DEF aid, u
  <2>3. q \in Seq(Aids \cup {NoAid})
    BY <2>1, <2>2, AppendProperties
  <2>. HIDE DEF q
  <2>4. [u EXCEPT !.aid = aid, !.staList = @ \cup {aid}, !.responses = q] \in ApRecord
    BY <2>1, <2>2, <2>3 DEF ApRecord
  <2>5. SetAid(u) \in ApRecord
    BY <2>1, <2>4 DEF SetAid, GetAssociationId, aid, q
  <2>6. Answer(r, TRUE) = SetAid(u)
    BY <2>1 DEF Answer, SendAssocResp, ReceiveAssocRequest, u
  <2>. QED  BY <2>5, <2>6
<1>2. Answer(r, FALSE) \in ApRecord
  <2>. DEFINE u == [r EXCEPT !.state = "ASSOC_REFUSED"]
              q == Append(r.responses, NoAid)
  <2>1. q \in Seq(Aids \cup {NoAid})
    BY AppendProperties DEF ApRecord
  <2>. HIDE DEF q
  <2>2. [r EXCEPT !.state = "DISASSOC", !.responses = q] \in ApRecord
    BY <2>1 DEF ApRecord
  <2>3. u.state = "ASSOC_REFUSED" /\ u.responses = r.responses
    BY DEF ApRecord
  <2>4. [u EXCEPT !.state = "DISASSOC", !.responses = q]
          = [r EXCEPT !.state = "DISASSOC", !.responses = q]
    BY DEF ApRecord
  <2>. QED  BY <2>2, <2>3, <2>4 DEF Answer, SendAssocResp, ReceiveAssocRequest, q
<1>. QED  BY <1>1, <1>2

\* The record of an AP whose response was sent, with or without success.
LEMMA SentOK ==
  ASSUME NEW r \in ApRecord, r.responses # <<>>
  PROVE  /\ Head(r.responses) \in Aids \cup {NoAid}
         /\ Sent(TxOk(r)) \in ApRecord
         /\ Sent(TxFailed(r)) \in ApRecord
<1>1. Head(r.responses) \in Aids \cup {NoAid} /\ Tail(r.responses) \in Seq(Aids \cup {NoAid})
  BY HeadTailProperties DEF ApRecord
<1>2. TxOk(r) \in ApRecord /\ TxOk(r).responses = r.responses
  BY DEF TxOk, ApRecord
<1>3. TxFailed(r) \in ApRecord /\ TxFailed(r).responses = r.responses
  BY DEF TxFailed, ApRecord
<1>4. ASSUME NEW u \in ApRecord, u.responses = r.responses PROVE Sent(u) \in ApRecord
  BY <1>1, <1>4 DEF Sent, ApRecord
<1>. QED  BY <1>1, <1>2, <1>3, <1>4

----------------------------------------------------------------------------
(***************************************************************************)
(* The steps.                                                              *)
(***************************************************************************)
\* A step of the station alone.
LEMMA StaStep ==
  ASSUME IInv, NEW s \in Ready, NEW sends, StaBecomes(s, sends)
  PROVE  IInv'
BY DEF IInv, StaBecomes

\* A scan ends, whichever of the events it was that ended it.
LEMMA EndScanStep ==
  ASSUME IInv, NEW s \in Ready, EndScan(s)
  PROVE  IInv'
<1>1. PICK t \in ScanOutcomes(s) : StaBecomes(t, t.state = "WAIT_ASSOC_RESP")
  BY DEF EndScan
<1>2. t \in Ready
  BY ScanOutcomesReady
<1>. QED  BY <1>1, <1>2, StaStep

\* A beacon is received in one of the settled states.
LEMMA BeaconStep ==
  ASSUME IInv, NEW a \in Aps, ReceiveBeacon(a)
  PROVE  IInv'
<1>. DEFINE s == CASE sta.state = "ASSOCIATED" ->
                        IF sta.bssid = a THEN RestartBeaconWatchdog(sta) ELSE sta
                   [] sta.state = "WAIT_ASSOC_RESP" ->
                        IF sta.bssid = a THEN NotifyApInfo(sta, a) ELSE sta
                   [] sta.state = "SCANNING" -> NotifyApInfo(sta, a)
<1>1. sta \in Ready /\ sta.state \in Settled
  BY DEF IInv, Ready, Station
<1>2. RestartBeaconWatchdog(sta) \in Ready /\ NotifyApInfo(sta, a) \in Ready
  BY <1>1, RestartBeaconWatchdogReady, NotifyApInfoReady
<1>3. s \in Ready
  BY <1>1, <1>2 DEF Settled
<1>4. StaBecomes(s, FALSE)
  BY DEF ReceiveBeacon
<1>. QED  BY <1>3, <1>4, StaStep

\* A request leaves the queue of the station.
LEMMA TransmitRequestStep ==
  ASSUME IInv, TransmitRequest
  PROVE  IInv'
<1>1. /\ sta \in Ready /\ ap \in [Aps -> ApRecord] /\ doubt \in {"none", "overlap", "ackLost"}
      /\ sta.queue # <<>> /\ sta.queue \in Seq(Aps)
      /\ sta' = [sta EXCEPT !.queue = Tail(@)] /\ UNCHANGED doubt
  BY DEF IInv, TransmitRequest, Ready, Station
<1>. DEFINE a == Head(sta.queue)
<1>2. a \in Aps /\ Tail(sta.queue) \in Seq(Aps)
  BY <1>1, HeadTailProperties
<1>3. sta' \in Ready
  BY <1>1, <1>2 DEF Ready, Station
<1>4. \/ ap[a].staList # Aids /\ ap' = [ap EXCEPT ![a] = Answer(@, TRUE)]
      \/ ap' = [ap EXCEPT ![a] = Answer(@, FALSE)]
      \/ UNCHANGED ap
  BY DEF TransmitRequest
<1>. HIDE DEF a
<1>5. ap[a] \in ApRecord
  BY <1>1, <1>2
<1>6. ap' \in [Aps -> ApRecord]
  BY <1>1, <1>2, <1>4, <1>5, AnswerOK
<1>. QED  BY <1>1, <1>3, <1>6 DEF IInv

\* A response leaves the queue of an AP.
LEMMA ResponseStep ==
  ASSUME IInv, NEW a \in Aps, ResponseAcked(a) \/ ResponseAckLost(a) \/ ResponseLost(a)
  PROVE  IInv'
<1>1. /\ sta \in Ready /\ ap \in [Aps -> ApRecord] /\ doubt \in {"none", "overlap", "ackLost"}
      /\ ap[a].responses # <<>> /\ ap[a] \in ApRecord
  BY DEF IInv, ResponseAcked, ResponseAckLost, ResponseLost
<1>2. /\ Head(ap[a].responses) \in Aids \cup {NoAid}
      /\ Sent(TxOk(ap[a])) \in ApRecord /\ Sent(TxFailed(ap[a])) \in ApRecord
  BY <1>1, SentOK
<1>3. ReceiveAssocResp(sta, a, Head(ap[a].responses)) \in Ready
  BY <1>1, <1>2, ReceiveAssocRespReady
<1>4. sta' \in Ready /\ doubt' \in {"none", "overlap", "ackLost"}
  BY <1>1, <1>3 DEF ResponseAcked, ResponseAckLost, ResponseLost
<1>5. ap' \in [Aps -> ApRecord]
  BY <1>1, <1>2 DEF ResponseAcked, ResponseAckLost, ResponseLost
<1>. QED  BY <1>4, <1>5 DEF IInv

\* Initially the station scans.
LEMMA InitIInv == Init => IInv
<1>. SUFFICES ASSUME Init PROVE IInv
  OBVIOUS
<1>1. <<>> \in Seq(Aps) /\ <<>> \in Seq(Aids \cup {NoAid}) /\ {} \in SUBSET Aps /\ {} \in SUBSET Aids
  BY EmptySeq
<1>2. sta \in Ready
  BY <1>1 DEF Init, Ready, Station, Settled
<1>3. ap \in [Aps -> ApRecord]
  BY <1>1 DEF Init, ApRecord
<1>. QED  BY <1>2, <1>3 DEF Init, IInv

\* Every event of the station and of the APs preserves the invariant.
LEMMA NextIInv == IInv /\ [Next]_vars => IInv'
<1>. SUFFICES ASSUME IInv, [Next]_vars PROVE IInv'
  OBVIOUS
<1>1. sta \in Ready
  BY DEF IInv
<1>2. CASE WaitBeaconTimeout
  <2>1. [sta EXCEPT !.waiting = FALSE] \in Ready
    BY <1>1 DEF Ready, Station
  <2>. QED  BY <1>2, <2>1, EndScanStep DEF WaitBeaconTimeout
<1>3. CASE EndScanningNow
  <2>1. [sta EXCEPT !.endNow = FALSE] \in Ready
    BY <1>1 DEF Ready, Station
  <2>. QED  BY <1>3, <2>1, EndScanStep DEF EndScanningNow
<1>4. CASE AssocRequestTimeout \/ PhyCapabilitiesChanged
  <2>1. sta.bssid # NoAp
    BY <1>1, <1>4 DEF AssocRequestTimeout, PhyCapabilitiesChanged, Ready
  <2>2. SendAssociationRequest([sta EXCEPT !.state = "WAIT_ASSOC_RESP"]) \in Ready
    BY <1>1, <2>1, WaitAgainReady
  <2>. QED  BY <1>4, <2>2, StaStep DEF AssocRequestTimeout, PhyCapabilitiesChanged
<1>5. CASE MissedBeacons
  <2>1. /\ [sta EXCEPT !.fresh = FALSE] \in Ready
        /\ [sta EXCEPT !.watchdog = FALSE, !.dropping = TRUE] \in Ready
    BY <1>1 DEF Ready, Station
  <2>. QED  BY <1>5, <2>1, StaStep DEF MissedBeacons
<1>6. CASE Disassociate
  <2>1. [sta EXCEPT !.dropping = FALSE] \in Ready
    BY <1>1 DEF Ready, Station
  <2>2. Disassociated([sta EXCEPT !.dropping = FALSE]) \in Ready
    BY <2>1, DisassociatedReady
  <2>. QED  BY <1>6, <2>2, StaStep DEF Disassociate
<1>7. CASE NotifyChannelSwitching
  BY <1>1, <1>7, DisassociatedReady, StaStep DEF NotifyChannelSwitching
<1>8. CASE SetActiveProbing
  BY <1>1, <1>8, ReadyIsPassing, StartScanningReady, StaStep DEF SetActiveProbing
<1>9. CASE Beacon
  BY <1>9, BeaconStep DEF Beacon
<1>10. CASE TransmitRequest
  BY <1>10, TransmitRequestStep
<1>11. ASSUME NEW a \in Aps, ReceiveProbeResp(a) PROVE IInv'
  BY <1>1, <1>11, NotifyApInfoReady, StaStep DEF ReceiveProbeResp
<1>12. ASSUME NEW a \in Aps, ResponseAcked(a) \/ ResponseAckLost(a) \/ ResponseLost(a) PROVE IInv'
  BY <1>12, ResponseStep
<1>13. CASE UNCHANGED vars
  BY <1>13 DEF IInv, vars
<1>. QED
  BY <1>2, <1>3, <1>4, <1>5, <1>6, <1>7, <1>8, <1>9, <1>10, <1>11, <1>12, <1>13 DEF Next

\* The inductive invariant holds of every reachable state.
THEOREM Invariance == Spec => []IInv
BY InitIInv, NextIInv, PTL DEF Spec

\* Every variable keeps to its type: no event leaves the station in a passing
\* state, and AIDs are only given out while there are free ones.
THEOREM TypeCorrect == Spec => []TypeOK
<1>1. IInv => TypeOK
  BY DEF IInv, Ready, Settled, TypeOK
<1>. QED  BY <1>1, Invariance, PTL

\* Whatever scans, timers and events of earlier attempts are still running, the
\* station has a BSSID whenever it may have to send a request.
THEOREM RequestsHaveBssid == Spec => []RequestHasBssid
<1>1. IInv => RequestHasBssid
  BY DEF IInv, Ready, RequestHasBssid
<1>. QED  BY <1>1, Invariance, PTL
----------------------------------------------------------------------------
(***************************************************************************)
(* Station and AP agree.  The AIDs of the responses an AP has queued are   *)
(* distinct and reserved, so that a response that fails gives back no AID  *)
(* but its own; the AID of an associated station is reserved and in none   *)
(* of them.  As long as requests do not overlap there is only one request  *)
(* or response between the station and each AP, and a response is about    *)
(* the AID the AP has recorded.                                            *)
(***************************************************************************)
InSeq(x, q) == \E i \in 1 .. Len(q) : q[i] = x

\* No value, but those in N, occurs twice.
Distinct(q, N) == \A i, j \in 1 .. Len(q) : i # j /\ q[i] = q[j] => q[i] \in N

AidsReserved(r) ==
  /\ Distinct(r.responses, {NoAid})
  /\ \A x \in Aids : InSeq(x, r.responses) => x \in r.staList

AidKept ==
  sta.state = "ASSOCIATED" => /\ sta.aid \in ap[sta.bssid].staList
                              /\ ~InSeq(sta.aid, ap[sta.bssid].responses)

\* What is under way between a station s and an AP a with record r.
OneAttempt(s, a, r) ==
  /\ InSeq(a, s.queue) => r.responses = <<>>
  /\ Len(r.responses) <= 1
  /\ \A x \in Aids : InSeq(x, r.responses) => r.state = "WAIT_ASSOC_TX_OK" /\ r.aid = x
  /\ s.state = "ASSOCIATED" /\ s.bssid = a =>
       /\ ~InSeq(a, s.queue) /\ r.responses = <<>>
       /\ r.state = "GOT_ASSOC_TX_OK" /\ r.aid = s.aid

Attempts == Distinct(sta.queue, {}) /\ \A a \in Aps : OneAttempt(sta, a, ap[a])

AgreeInv ==
  /\ \A a \in Aps : AidsReserved(ap[a])
  /\ doubt # "ackLost" => AidKept
  /\ doubt = "none" => Attempts

\* The frame at the head of a queue leaves it.
LEMMA TailFacts ==
  ASSUME NEW S, NEW q \in Seq(S), q # <<>>, NEW N
  PROVE  /\ InSeq(Head(q), q)
         /\ \A x : InSeq(x, Tail(q)) => InSeq(x, q)
         /\ Distinct(q, N) => Distinct(Tail(q), N)
         /\ Distinct(q, N) /\ Head(q) \notin N => ~InSeq(Head(q), Tail(q))
         /\ Len(q) <= 1 => Tail(q) = <<>>
<1>1. /\ Len(q) \in Nat /\ Len(q) >= 1 /\ Tail(q) \in Seq(S) /\ Len(Tail(q)) = Len(q) - 1
      /\ Head(q) = q[1] /\ \A i \in 1 .. Len(q) - 1 : Tail(q)[i] = q[i + 1]
  BY HeadTailProperties, EmptySeq, LenProperties
<1>2. InSeq(Head(q), q)
  BY <1>1 DEF InSeq
<1>3. \A x : InSeq(x, Tail(q)) => InSeq(x, q)
  <2>. SUFFICES ASSUME NEW x, NEW i \in 1 .. Len(Tail(q)), Tail(q)[i] = x
                PROVE  InSeq(x, q)
    BY DEF InSeq
  <2>1. i + 1 \in 1 .. Len(q) /\ q[i + 1] = x
    BY <1>1
  <2>. QED  BY <2>1 DEF InSeq
<1>4. ASSUME Distinct(q, N) PROVE Distinct(Tail(q), N)
  <2>. SUFFICES ASSUME NEW i \in 1 .. Len(Tail(q)), NEW j \in 1 .. Len(Tail(q)), i # j,
                       Tail(q)[i] = Tail(q)[j]
                PROVE  Tail(q)[i] \in N
    BY DEF Distinct
  <2>1. /\ i + 1 \in 1 .. Len(q) /\ j + 1 \in 1 .. Len(q) /\ i + 1 # j + 1
        /\ q[i + 1] = Tail(q)[i] /\ q[j + 1] = Tail(q)[j]
    BY <1>1
  <2>. QED  BY <1>4, <2>1 DEF Distinct
<1>5. ASSUME Distinct(q, N), Head(q) \notin N, InSeq(Head(q), Tail(q)) PROVE FALSE
  <2>1. PICK i \in 1 .. Len(Tail(q)) : Tail(q)[i] = Head(q)
    BY <1>5 DEF InSeq
  <2>2. 1 \in 1 .. Len(q) /\ i + 1 \in 1 .. Len(q) /\ 1 # i + 1 /\ q[i + 1] = q[1]
    BY <1>1, <2>1
  <2>. QED  BY <1>1, <1>5, <2>2 DEF Distinct
<1>6. ASSUME Len(q) <= 1 PROVE Tail(q) = <<>>
  BY <1>1, <1>6, EmptySeq, LenProperties
<1>. QED  BY <1>2, <1>3, <1>4, <1>5, <1>6

\* A frame is queued.
LEMMA AppendFacts ==
  ASSUME NEW S, NEW q \in Seq(S), NEW y \in S, NEW N
  PROVE  /\ \A x : InSeq(x, Append(q, y)) <=> InSeq(x, q) \/ x = y
         /\ Distinct(q, N) /\ (y \in N \/ ~InSeq(y, q)) => Distinct(Append(q, y), N)
<1>1. /\ Len(q) \in Nat /\ Append(q, y) \in Seq(S) /\ Len(Append(q, y)) = Len(q) + 1
      /\ \A i \in 1 .. Len(q) : Append(q, y)[i] = q[i]
      /\ Append(q, y)[Len(q) + 1] = y
  BY AppendProperties, LenProperties
<1>2. \A i \in 1 .. Len(q) + 1 : i \in 1 .. Len(q) \/ i = Len(q) + 1
  BY <1>1
<1>3. ASSUME NEW x PROVE InSeq(x, Append(q, y)) <=> InSeq(x, q) \/ x = y
  <2>1. ASSUME InSeq(x, Append(q, y)) PROVE InSeq(x, q) \/ x = y
    BY <1>1, <1>2, <2>1 DEF InSeq
  <2>2. ASSUME InSeq(x, q) PROVE InSeq(x, Append(q, y))
    <3>1. PICK i \in 1 .. Len(q) : q[i] = x
      BY <2>2 DEF InSeq
    <3>2. i \in 1 .. Len(q) + 1 /\ Append(q, y)[i] = x
      BY <1>1, <3>1
    <3>. QED  BY <1>1, <3>2 DEF InSeq
  <2>3. InSeq(y, Append(q, y))
    <3>1. Len(q) + 1 \in 1 .. Len(q) + 1
      BY <1>1
    <3>. QED  BY <1>1, <3>1 DEF InSeq
  <2>. QED  BY <2>1, <2>2, <2>3
<1>4. ASSUME Distinct(q, N), y \in N \/ ~InSeq(y, q) PROVE Distinct(Append(q, y), N)
  <2>. SUFFICES ASSUME NEW i \in 1 .. Len(q) + 1, NEW j \in 1 .. Len(q) + 1, i # j,
                       Append(q, y)[i] = Append(q, y)[j]
                PROVE  Append(q, y)[i] \in N
    BY <1>1 DEF Distinct
  <2>1. CASE i \in 1 .. Len(q) /\ j \in 1 .. Len(q)
    BY <1>1, <1>4, <2>1 DEF Distinct
  <2>2. CASE ~(i \in 1 .. Len(q) /\ j \in 1 .. Len(q))
    <3>1. \/ i \in 1 .. Len(q) /\ j = Len(q) + 1
          \/ j \in 1 .. Len(q) /\ i = Len(q) + 1
      BY <1>2, <2>2
    <3>2. InSeq(y, q) /\ Append(q, y)[i] = y
      BY <1>1, <3>1 DEF InSeq
    <3>. QED  BY <1>4, <3>2
  <2>. QED  BY <2>1, <2>2
<1>. QED  BY <1>3, <1>4

\* The empty queue.
LEMMA EmptyFacts ==
  /\ \A x : ~InSeq(x, <<>>)
  /\ \A N : Distinct(<<>>, N)
BY DEF InSeq, Distinct

----------------------------------------------------------------------------
(***************************************************************************)
(* Steps of the station: it sends no request, or one to its BSSID.         *)
(***************************************************************************)
Quiet(s, t) ==
  /\ t.queue = s.queue
  /\ t.state = "ASSOCIATED" => /\ s.state = "ASSOCIATED"
                               /\ t.bssid = s.bssid /\ t.aid = s.aid

Requests(s, t) ==
  /\ t.state = "WAIT_ASSOC_RESP" /\ t.bssid \in Aps
  /\ t.queue = s.queue \/ t.queue = Append(s.queue, t.bssid)

\* Scanning, and the watchdog and the candidates.
LEMMA QuietMethods ==
  ASSUME NEW s \in Passing
  PROVE  /\ Quiet(s, StartScanning(s)) /\ StartScanning(s).state = "SCANNING"
         /\ Quiet(s, RestartBeaconWatchdog(s))
         /\ RestartBeaconWatchdog(s).state = s.state
         /\ RestartBeaconWatchdog(s).bssid = s.bssid
         /\ \A a \in Aps : Quiet(s, NotifyApInfo(s, a))
<1>2. /\ Quiet(s, RestartBeaconWatchdog(s)) /\ RestartBeaconWatchdog(s).state = s.state
      /\ RestartBeaconWatchdog(s).bssid = s.bssid
  BY DEF RestartBeaconWatchdog, Passing, Station, Quiet
<1>3. \A a \in Aps : Quiet(s, NotifyApInfo(s, a))
  BY DEF NotifyApInfo, Passing, Station, Quiet
<1>4. Quiet(s, StartScanning(s)) /\ StartScanning(s).state = "SCANNING"
  <2>. DEFINE t == [s EXCEPT !.state = "SCANNING"]
  <2>1. /\ t \in Passing /\ t.state = "SCANNING" /\ t.queue = s.queue
    BY DEF Passing, Station, Settled
  <2>. HIDE DEF t
  <2>2. DoStartScanning(t).state = "SCANNING" /\ DoStartScanning(t).queue = t.queue
    BY <2>1 DEF DoStartScanning, Passing, Station
  <2>3. StartScanning(s) = DoStartScanning(t)
    BY DEF StartScanning, t
  <2>. QED  BY <2>1, <2>2, <2>3 DEF Quiet
<1>. QED  BY <1>2, <1>3, <1>4

\* A request is queued for the AP with the BSSID.
LEMMA SendAssociationRequestRequests ==
  ASSUME NEW s \in Ready, s.bssid # NoAp, s.state = "WAIT_ASSOC_RESP"
  PROVE  Requests(s, SendAssociationRequest(s))
<1>. DEFINE q == IF Len(s.queue) < MaxQueue THEN Append(s.queue, s.bssid) ELSE s.queue
<1>1. SendAssociationRequest(s) = [s EXCEPT !.queue = q, !.assocTimer = TRUE]
  BY DEF SendAssociationRequest
<1>2. q = s.queue \/ q = Append(s.queue, s.bssid)
  OBVIOUS
<1>. HIDE DEF q
<1>. QED  BY <1>1, <1>2 DEF Requests, Ready, Station

\* The request is repeated or renewed.
LEMMA WaitAgainRequests ==
  ASSUME NEW s \in Ready, s.bssid # NoAp
  PROVE  Requests(s, SendAssociationRequest([s EXCEPT !.state = "WAIT_ASSOC_RESP"]))
<1>. DEFINE t == [s EXCEPT !.state = "WAIT_ASSOC_RESP"]
<1>1. t \in Ready /\ t.bssid # NoAp /\ t.state = "WAIT_ASSOC_RESP" /\ t.queue = s.queue
  BY DEF Ready, Station, Settled
<1>. HIDE DEF t
<1>2. Requests(t, SendAssociationRequest(t))
  BY <1>1, SendAssociationRequestRequests
<1>3. Requests(s, SendAssociationRequest(t))
  BY <1>1, <1>2 DEF Requests
<1>. QED  BY <1>3 DEF t

\* A scan ends with a request or with another scan.
LEMMA ScanOutcomesEffect ==
  ASSUME NEW s \in Ready, NEW t \in ScanOutcomes(s)
  PROVE  Requests(s, t) \/ (Quiet(s, t) /\ t.state = "SCANNING")
<1>1. CASE s.apList = {}
  <2>1. t = StartScanning(s)
    BY <1>1 DEF ScanOutcomes
  <2>. QED  BY <2>1, ReadyIsPassing, QuietMethods
<1>2. CASE s.apList # {}
  <2>1. PICK a \in s.apList : t = ScanningTimeout(s, a)
    BY <1>2 DEF ScanOutcomes
  <2>. DEFINE u == [s EXCEPT !.apList = @ \ {a}, !.bssid = a, !.state = "WAIT_ASSOC_RESP"]
              w == RestartBeaconWatchdog(u)
  <2>2. a \in Aps /\ a # NoAp
    BY StaAssociationAssumption DEF Ready, Station
  <2>3. u \in Ready /\ u.bssid # NoAp /\ u.state = "WAIT_ASSOC_RESP" /\ u.queue = s.queue
    BY <2>2 DEF Ready, Station, Settled
  <2>. HIDE DEF u
  <2>4. w \in Ready /\ w.bssid = u.bssid /\ w.state = u.state /\ w.queue = u.queue
    BY <2>3, ReadyIsPassing, RestartBeaconWatchdogReady, QuietMethods DEF Quiet
  <2>5. t = SendAssociationRequest(w)
    BY <2>1 DEF ScanningTimeout, u
  <2>. HIDE DEF w
  <2>6. Requests(w, t)
    BY <2>3, <2>4, <2>5, SendAssociationRequestRequests
  <2>7. Requests(s, t)
    BY <2>3, <2>4, <2>6 DEF Requests
  <2>. QED  BY <2>7
<1>. QED  BY <1>1, <1>2

\* A station that gives up its association scans.
LEMMA DisassociatedQuiet ==
  ASSUME NEW s \in Ready
  PROVE  Quiet(s, Disassociated(s))
<1>. DEFINE t == [s EXCEPT !.state = "UNASSOCIATED", !.bssid = NoAp, !.aid = NoAid,
                           !.assocTimer = FALSE]
<1>1. t \in Passing /\ t.state = "UNASSOCIATED" /\ t.queue = s.queue
  BY DEF Ready, Passing, Station, Settled, Aids, NoAid
<1>. HIDE DEF t
<1>2. Disassociated(s) = StartScanning(t)
  BY <1>1 DEF Disassociated, TryToEnsureAssociated, t
<1>3. Quiet(t, StartScanning(t)) /\ StartScanning(t).state = "SCANNING"
  BY <1>1, QuietMethods
<1>. QED  BY <1>1, <1>2, <1>3 DEF Quiet

\* A response associates the station if it waits for one.
LEMMA ReceiveAssocRespEffect ==
  ASSUME NEW s \in Ready, NEW a \in Aps, NEW aid \in Aids \cup {NoAid},
         NEW t, t = ReceiveAssocResp(s, a, aid)
  PROVE  /\ t.queue = s.queue
         /\ \/ Quiet(s, t)
            \/ aid # NoAid /\ t.state = "ASSOCIATED" /\ t.bssid = a /\ t.aid = aid
<1>1. CASE s.state # "WAIT_ASSOC_RESP"
  BY <1>1 DEF ReceiveAssocResp, Quiet
<1>2. CASE s.state = "WAIT_ASSOC_RESP" /\ aid = NoAid
  <2>. DEFINE u == [s EXCEPT !.state = "REFUSED", !.assocTimer = FALSE]
  <2>1. u \in Passing /\ u.queue = s.queue
    BY DEF Ready, Passing, Station, Settled
  <2>2. t = StartScanning(u)
    BY <1>2 DEF ReceiveAssocResp
  <2>. HIDE DEF u
  <2>3. Quiet(u, t) /\ t.state = "SCANNING"
    BY <2>1, <2>2, QuietMethods
  <2>. QED  BY <2>1, <2>3 DEF Quiet
<1>3. CASE s.state = "WAIT_ASSOC_RESP" /\ aid # NoAid
  <2>1. t = [s EXCEPT !.state = "ASSOCIATED", !.assocTimer = FALSE, !.aid = aid, !.bssid = a]
    BY <1>3 DEF ReceiveAssocResp
  <2>2. t.queue = s.queue /\ t.state = "ASSOCIATED" /\ t.bssid = a /\ t.aid = aid
    BY <2>1 DEF Ready, Station
  <2>. QED  BY <1>3, <2>2
<1>. QED  BY <1>1, <1>2, <1>3

\* A step of the station that sends no request.
LEMMA QuietAgree ==
  ASSUME IInv, AgreeInv, NEW t, Quiet(sta, t), StaBecomes(t, FALSE)
  PROVE  AgreeInv'
<1>1. sta' = t /\ UNCHANGED <<ap, doubt>>
  BY DEF StaBecomes
<1>2. doubt # "ackLost" => AidKept'
  BY <1>1 DEF AgreeInv, AidKept, Quiet
<1>3. ASSUME Attempts PROVE Attempts'
  BY <1>1, <1>3 DEF Attempts, OneAttempt, Quiet
<1>. QED  BY <1>1, <1>2, <1>3 DEF AgreeInv

\* A step that sends one.  If an earlier one to the same AP is unanswered, no
\* more than the reservation of AIDs is claimed.
LEMMA RequestAgree ==
  ASSUME IInv, AgreeInv, NEW t, Requests(sta, t), StaBecomes(t, TRUE)
  PROVE  AgreeInv'
<1>1. sta' = t /\ UNCHANGED ap
  BY DEF StaBecomes
<1>2. t.state # "ASSOCIATED"
  BY DEF Requests
<1>3. AidKept'
  BY <1>1, <1>2 DEF AidKept
<1>4. ASSUME doubt' = "none" PROVE Attempts'
  <2>1. doubt = "none" /\ ~Unanswered(t.bssid)
    BY <1>4 DEF StaBecomes, IInv
  <2>2. ~InSeq(t.bssid, sta.queue) /\ ap[t.bssid].responses = <<>>
    <3>1. sta.queue \in Seq(Aps)
      BY DEF IInv, Ready, Station
    <3>2. DOMAIN sta.queue = 1 .. Len(sta.queue)
      BY <3>1, LenProperties
    <3>. QED  BY <2>1, <3>2 DEF Unanswered, InSeq
  <2>3. Attempts /\ t.bssid \in Aps /\ sta.queue \in Seq(Aps)
    BY <2>1 DEF AgreeInv, Requests, IInv, Ready, Station
  <2>4. /\ Distinct(t.queue, {})
        /\ \A a \in Aps : InSeq(a, t.queue) => InSeq(a, sta.queue) \/ a = t.bssid
    <3>1. CASE t.queue = sta.queue
      BY <2>3, <3>1 DEF Attempts
    <3>2. CASE t.queue = Append(sta.queue, t.bssid)
      <4>1. /\ \A a : InSeq(a, Append(sta.queue, t.bssid)) => InSeq(a, sta.queue) \/ a = t.bssid
            /\ Distinct(Append(sta.queue, t.bssid), {})
        BY <2>2, <2>3, AppendFacts DEF Attempts
      <4>. QED  BY <3>2, <4>1
    <3>. QED  BY <3>1, <3>2 DEF Requests
  <2>5. ASSUME NEW a \in Aps PROVE OneAttempt(t, a, ap[a])
    <3>1. OneAttempt(sta, a, ap[a])
      BY <2>3 DEF Attempts
    <3>2. InSeq(a, t.queue) => ap[a].responses = <<>>
      BY <2>2, <2>4, <3>1 DEF OneAttempt
    <3>. QED  BY <1>2, <3>1, <3>2 DEF OneAttempt
  <2>. QED  BY <1>1, <2>4, <2>5 DEF Attempts
<1>. QED  BY <1>1, <1>3, <1>4 DEF AgreeInv

\* The end of a scan.
LEMMA EndScanAgree ==
  ASSUME IInv, AgreeInv, NEW s \in Ready, Quiet(sta, s), EndScan(s)
  PROVE  AgreeInv'
<1>1. PICK t \in ScanOutcomes(s) : StaBecomes(t, t.state = "WAIT_ASSOC_RESP")
  BY DEF EndScan
<1>2. CASE Requests(s, t)
  <2>1. Requests(sta, t) /\ t.state = "WAIT_ASSOC_RESP"
    BY <1>2 DEF Requests, Quiet
  <2>2. StaBecomes(t, TRUE)
    BY <1>1, <2>1 DEF StaBecomes
  <2>. QED  BY <2>1, <2>2, RequestAgree
<1>3. CASE Quiet(s, t) /\ t.state = "SCANNING"
  <2>1. Quiet(sta, t)
    BY <1>3 DEF Quiet
  <2>2. StaBecomes(t, FALSE)
    BY <1>1, <1>3 DEF StaBecomes
  <2>. QED  BY <2>1, <2>2, QuietAgree
<1>. QED  BY <1>2, <1>3, ScanOutcomesEffect

----------------------------------------------------------------------------
(***************************************************************************)
(* Steps of the APs.                                                       *)
(***************************************************************************)
\* A free AID is not in use.
LEMMA NextAidIsFree ==
  ASSUME NEW r \in ApRecord, r.staList # Aids
  PROVE  GetNextAssociationId(r) \in Aids \ r.staList
BY NextAidIsAid DEF ApRecord, GetNextAssociationId

\* ApWifiMac::SetAid gives a station that is associating a new AID and queues a
\* response with it; a refusal has none.
LEMMA AnswerEffect ==
  ASSUME NEW r \in ApRecord
  PROVE  /\ r.staList # Aids =>
              \E aid \in Aids \ r.staList :
                /\ Answer(r, TRUE).state = "WAIT_ASSOC_TX_OK" /\ Answer(r, TRUE).aid = aid
                /\ Answer(r, TRUE).staList = r.staList \cup {aid}
                /\ Answer(r, TRUE).responses = Append(r.responses, aid)
         /\ Answer(r, FALSE).staList = r.staList
         /\ Answer(r, FALSE).responses = Append(r.responses, NoAid)
<1>1. ASSUME r.staList # Aids
      PROVE  \E aid \in Aids \ r.staList :
                /\ Answer(r, TRUE).state = "WAIT_ASSOC_TX_OK" /\ Answer(r, TRUE).aid = aid
                /\ Answer(r, TRUE).staList = r.staList \cup {aid}
                /\ Answer(r, TRUE).responses = Append(r.responses, aid)
  <2>. DEFINE u == [r EXCEPT !.state = "WAIT_ASSOC_TX_OK"]
              aid == GetNextAssociationId(u)
  <2>1. /\ u \in ApRecord /\ u.state = "WAIT_ASSOC_TX_OK"
        /\ u.staList = r.staList /\ u.responses = r.responses
    BY DEF ApRecord
  <2>. HIDE DEF u
  <2>2. aid \in Aids \ r.staList
    BY <1>1, <2>1, NextAidIsFree
  <2>. HIDE DEF aid
  <2>3. SetAid(u) = [u EXCEPT !.aid = aid, !.staList = @ \cup {aid},
                              !.responses = Append(u.responses, aid)]
    BY <2>1 DEF SetAid, GetAssociationId, aid
  <2>4. Answer(r, TRUE) = SetAid(u)
    BY <2>1 DEF Answer, SendAssocResp, ReceiveAssocRequest, u
  <2>5. /\ SetAid(u).state = "WAIT_ASSOC_TX_OK" /\ SetAid(u).aid = aid
        /\ SetAid(u).staList = r.staList \cup {aid}
        /\ SetAid(u).responses = Append(r.responses, aid)
    BY <2>1, <2>3 DEF ApRecord
  <2>. QED  BY <2>2, <2>4, <2>5
<1>2. /\ Answer(r, FALSE).staList = r.staList
      /\ Answer(r, FALSE).responses = Append(r.responses, NoAid)
  <2>. DEFINE u == [r EXCEPT !.state = "ASSOC_REFUSED"]
  <2>1. u.state = "ASSOC_REFUSED" /\ u.responses = r.responses /\ u.staList = r.staList
    BY DEF ApRecord
  <2>2. u = [state |-> "ASSOC_REFUSED", aid |-> r.aid, staList |-> r.staList,
             responses |-> r.responses]
    BY DEF ApRecord
  <2>3. Answer(r, FALSE) = [u EXCEPT !.state = "DISASSOC", !.responses = Append(@, NoAid)]
    BY <2>1 DEF Answer, SendAssocResp, ReceiveAssocRequest
  <2>. HIDE DEF u
  <2>. QED  BY <2>1, <2>2, <2>3
<1>. QED  BY <1>1, <1>2

\* A request is lost or answered.
LEMMA TransmitRequestAgree ==
  ASSUME IInv, AgreeInv, TransmitRequest
  PROVE  AgreeInv'
<1>. DEFINE b == Head(sta.queue)
<1>1. /\ sta \in Station(Settled) /\ sta.queue # <<>> /\ sta.queue \in Seq(Aps)
      /\ ap \in [Aps -> ApRecord]
      /\ sta' = [sta EXCEPT !.queue = Tail(@)] /\ UNCHANGED doubt
  BY DEF IInv, TransmitRequest, Ready, Station
<1>2. /\ sta'.queue = Tail(sta.queue) /\ sta'.state = sta.state /\ sta'.bssid = sta.bssid
      /\ sta'.aid = sta.aid
  BY <1>1 DEF Station
<1>3. b \in Aps
  BY <1>1, HeadTailProperties
<1>4. \/ ap[b].staList # Aids /\ ap' = [ap EXCEPT ![b] = Answer(ap[b], TRUE)]
      \/ ap' = [ap EXCEPT ![b] = Answer(ap[b], FALSE)]
      \/ UNCHANGED ap
  BY DEF TransmitRequest
<1>5. /\ InSeq(b, sta.queue)
      /\ \A a : InSeq(a, Tail(sta.queue)) => InSeq(a, sta.queue)
      /\ Distinct(sta.queue, {}) => Distinct(Tail(sta.queue), {}) /\ ~InSeq(b, Tail(sta.queue))
  BY <1>1, TailFacts
<1>. HIDE DEF b
<1>. DEFINE r == ap[b]
            t == ap'[b]
<1>6. r \in ApRecord /\ r.responses \in Seq(Aids \cup {NoAid}) /\ r.staList \subseteq Aids
  BY <1>1, <1>3 DEF ApRecord
<1>7. \A a \in Aps \ {b} : ap'[a] = ap[a]
  BY <1>1, <1>4
<1>8. \/ t = r
      \/ t.staList = r.staList /\ t.responses = Append(r.responses, NoAid)
      \/ \E aid \in Aids \ r.staList :
           /\ t.state = "WAIT_ASSOC_TX_OK" /\ t.aid = aid
           /\ t.staList = r.staList \cup {aid}
           /\ t.responses = Append(r.responses, aid)
  <2>1. CASE ap' = [ap EXCEPT ![b] = Answer(ap[b], FALSE)]
    BY <1>1, <1>3, <1>6, <2>1, AnswerEffect
  <2>2. CASE ap[b].staList # Aids /\ ap' = [ap EXCEPT ![b] = Answer(ap[b], TRUE)]
    BY <1>1, <1>3, <1>6, <2>2, AnswerEffect
  <2>. QED  BY <1>4, <2>1, <2>2
<1>9. NoAid \notin Aids
  BY StaAssociationAssumption DEF Aids, NoAid
<1>10. ASSUME NEW x \in Aids \cup {NoAid}, t.responses = Append(r.responses, x)
       PROVE  /\ \A y : InSeq(y, t.responses) <=> InSeq(y, r.responses) \/ y = x
              /\ Distinct(r.responses, {NoAid}) /\ (x = NoAid \/ ~InSeq(x, r.responses))
                   => Distinct(t.responses, {NoAid})
              /\ r.responses = <<>> => Len(t.responses) <= 1
  <2>1. Len(t.responses) = Len(r.responses) + 1
    BY <1>6, <1>10, AppendProperties
  <2>2. r.responses = <<>> => Len(r.responses) = 0
    BY EmptySeq
  <2>3. r.responses = <<>> => Len(t.responses) <= 1
    BY <2>1, <2>2
  <2>4. /\ \A y : InSeq(y, t.responses) <=> InSeq(y, r.responses) \/ y = x
        /\ Distinct(r.responses, {NoAid}) /\ (x \in {NoAid} \/ ~InSeq(x, r.responses))
                   => Distinct(t.responses, {NoAid})
    BY <1>6, <1>10, AppendFacts
  <2>. QED  BY <2>3, <2>4
<1>. HIDE DEF r, t
<1>11. AidsReserved(r)
  BY <1>3 DEF AgreeInv, r
<1>12. AidsReserved(t)
  <2>1. CASE t = r
    BY <1>11, <2>1
  <2>2. CASE t.staList = r.staList /\ t.responses = Append(r.responses, NoAid)
    <3>1. NoAid \in Aids \cup {NoAid}
      OBVIOUS
    <3>2. /\ \A y : InSeq(y, t.responses) <=> InSeq(y, r.responses) \/ y = NoAid
          /\ Distinct(r.responses, {NoAid}) => Distinct(t.responses, {NoAid})
      BY <1>10, <2>2, <3>1
    <3>. QED  BY <1>9, <1>11, <2>2, <3>2 DEF AidsReserved
  <2>3. ASSUME NEW aid \in Aids \ r.staList, t.staList = r.staList \cup {aid},
               t.responses = Append(r.responses, aid)
        PROVE  AidsReserved(t)
    BY <1>10, <1>11, <2>3 DEF AidsReserved
  <2>. QED  BY <1>8, <2>1, <2>2, <2>3
<1>13. \A a \in Aps : AidsReserved(ap'[a])
  BY <1>7, <1>12 DEF AgreeInv, t
<1>14. ASSUME doubt # "ackLost" PROVE AidKept'
  <2>1. AidKept
    BY <1>14 DEF AgreeInv
  <2>. SUFFICES ASSUME sta.state = "ASSOCIATED"
                PROVE  sta.aid \in ap'[sta.bssid].staList /\ ~InSeq(sta.aid, ap'[sta.bssid].responses)
    BY <1>2 DEF AidKept
  <2>2. sta.aid \in ap[sta.bssid].staList /\ ~InSeq(sta.aid, ap[sta.bssid].responses)
    BY <2>1 DEF AidKept
  <2>3. sta.bssid \in Aps
    BY DEF IInv, Ready, Station
  <2>4. CASE sta.bssid # b
    BY <1>7, <2>2, <2>3, <2>4
  <2>5. CASE sta.bssid = b
    <3>1. sta.aid \in r.staList /\ ~InSeq(sta.aid, r.responses)
      BY <2>2, <2>5 DEF r
    <3>2. sta.aid \in t.staList /\ ~InSeq(sta.aid, t.responses)
      BY <1>6, <1>8, <1>9, <1>10, <3>1
    <3>. QED  BY <2>5, <3>2 DEF t
  <2>. QED  BY <2>4, <2>5
<1>15. ASSUME doubt = "none" PROVE Attempts'
  <2>1. Attempts
    BY <1>15 DEF AgreeInv
  <2>2. ASSUME NEW a \in Aps \ {b} PROVE OneAttempt(sta', a, ap'[a])
    <3>1. OneAttempt(sta, a, ap[a]) /\ ap'[a] = ap[a]
      BY <1>7, <2>1 DEF Attempts
    <3>. QED  BY <1>2, <1>5, <3>1 DEF OneAttempt
  <2>3. OneAttempt(sta', b, t)
    <3>1. OneAttempt(sta, b, r)
      BY <1>3, <2>1 DEF Attempts, r
    <3>2. ~InSeq(b, sta'.queue)
      BY <1>2, <1>5, <2>1 DEF Attempts
    <3>3. r.responses = <<>> /\ ~(sta.state = "ASSOCIATED" /\ sta.bssid = b)
      BY <1>5, <3>1 DEF OneAttempt
    <3>4. \A x : ~InSeq(x, r.responses)
      BY <3>3, EmptyFacts
    <3>5. Len(r.responses) <= 1
      BY <3>1 DEF OneAttempt
    <3>6. /\ Len(t.responses) <= 1
          /\ \A x \in Aids : InSeq(x, t.responses) => t.state = "WAIT_ASSOC_TX_OK" /\ t.aid = x
      <4>1. CASE t = r
        BY <3>4, <3>5, <4>1
      <4>2. CASE t.responses = Append(r.responses, NoAid)
        BY <1>9, <1>10, <3>3, <3>4, <4>2
      <4>3. ASSUME NEW aid \in Aids \ r.staList, t.state = "WAIT_ASSOC_TX_OK", t.aid = aid,
                   t.responses = Append(r.responses, aid)
            PROVE  /\ Len(t.responses) <= 1
                   /\ \A x \in Aids : InSeq(x, t.responses)
                                        => t.state = "WAIT_ASSOC_TX_OK" /\ t.aid = x
        BY <1>10, <3>3, <3>4, <4>3
      <4>. QED  BY <1>8, <4>1, <4>2, <4>3
    <3>. QED  BY <1>2, <3>2, <3>3, <3>6 DEF OneAttempt
  <2>4. Distinct(sta'.queue, {})
    BY <1>2, <1>5, <2>1 DEF Attempts
  <2>. QED  BY <2>2, <2>3, <2>4 DEF Attempts, t
<1>. QED  BY <1>1, <1>13, <1>14, <1>15 DEF AgreeInv

\* A response that was sent leaves the queue; if it counts as failed, its AID is
\* given back.
LEMMA SentEffect ==
  ASSUME NEW r \in ApRecord, r.responses # <<>>
  PROVE  /\ Sent(TxOk(r)).responses = Tail(r.responses)
         /\ Sent(TxOk(r)).staList = r.staList /\ Sent(TxOk(r)).aid = r.aid
         /\ r.state = "WAIT_ASSOC_TX_OK" => Sent(TxOk(r)).state = "GOT_ASSOC_TX_OK"
         /\ Sent(TxFailed(r)).responses = Tail(r.responses)
         /\ Sent(TxFailed(r)).staList = r.staList \ {Head(r.responses)}
<1>1. /\ TxOk(r).responses = r.responses /\ TxOk(r).staList = r.staList /\ TxOk(r).aid = r.aid
      /\ r.state = "WAIT_ASSOC_TX_OK" => TxOk(r).state = "GOT_ASSOC_TX_OK"
      /\ TxOk(r) \in ApRecord
  BY DEF TxOk, ApRecord
<1>2. /\ TxFailed(r).responses = r.responses
      /\ TxFailed(r).staList = r.staList \ {Head(r.responses)} /\ TxFailed(r) \in ApRecord
  BY DEF TxFailed, ApRecord
<1>3. ASSUME NEW u \in ApRecord
      PROVE  /\ Sent(u).responses = Tail(u.responses) /\ Sent(u).staList = u.staList
             /\ Sent(u).aid = u.aid /\ Sent(u).state = u.state
  BY DEF Sent, ApRecord
<1>. QED  BY <1>1, <1>2, <1>3

\* A response is received or lost, and its Ack too.
LEMMA ResponseAgree ==
  ASSUME IInv, AgreeInv, NEW b \in Aps, ResponseAcked(b) \/ ResponseAckLost(b) \/ ResponseLost(b)
  PROVE  AgreeInv'
<1>. DEFINE r == ap[b]
            h == Head(r.responses)
            t == ap'[b]
            s == ReceiveAssocResp(sta, b, h)
<1>1. /\ sta \in Ready /\ ap \in [Aps -> ApRecord] /\ r \in ApRecord /\ r.responses # <<>>
      /\ r.responses \in Seq(Aids \cup {NoAid}) /\ r.staList \subseteq Aids
  BY DEF IInv, ResponseAcked, ResponseAckLost, ResponseLost, ApRecord
<1>2. h \in Aids \cup {NoAid}
  BY <1>1, HeadTailProperties
<1>3. \A a \in Aps \ {b} : ap'[a] = ap[a]
  BY <1>1 DEF ResponseAcked, ResponseAckLost, ResponseLost
<1>4. \/ t = Sent(TxOk(r)) /\ sta' = s /\ doubt' = doubt
      \/ t = Sent(TxFailed(r)) /\ sta' = sta /\ doubt' = doubt
      \/ t = Sent(TxFailed(r)) /\ doubt' = "ackLost"
  BY <1>1 DEF ResponseAcked, ResponseAckLost, ResponseLost
<1>5. /\ t.responses = Tail(r.responses)
      /\ t.staList = r.staList \/ t.staList = r.staList \ {h}
  BY <1>1, <1>4, SentEffect
<1>6. /\ InSeq(h, r.responses)
      /\ \A x : InSeq(x, t.responses) => InSeq(x, r.responses)
      /\ Distinct(r.responses, {NoAid}) => Distinct(t.responses, {NoAid})
      /\ Distinct(r.responses, {NoAid}) /\ h # NoAid => ~InSeq(h, t.responses)
      /\ Len(r.responses) <= 1 => t.responses = <<>>
  <2>1. h \in {NoAid} <=> h = NoAid
    OBVIOUS
  <2>. QED  BY <1>1, <1>5, <2>1, TailFacts
<1>7. AidsReserved(r)
  BY DEF AgreeInv
<1>8. NoAid \notin Aids
  BY StaAssociationAssumption DEF Aids, NoAid
<1>9. /\ s.queue = sta.queue
      /\ \/ Quiet(sta, s)
         \/ h # NoAid /\ s.state = "ASSOCIATED" /\ s.bssid = b /\ s.aid = h
  BY <1>1, <1>2, ReceiveAssocRespEffect
<1>10. t = Sent(TxOk(r)) => /\ t.staList = r.staList /\ t.aid = r.aid
                            /\ r.state = "WAIT_ASSOC_TX_OK" => t.state = "GOT_ASSOC_TX_OK"
  BY <1>1, SentEffect
<1>11. Quiet(sta, sta)
  BY DEF Quiet
<1>12. \/ doubt' = "ackLost"
       \/ /\ doubt' = doubt /\ sta'.queue = sta.queue
          /\ \/ Quiet(sta, sta')
             \/ /\ h # NoAid /\ sta'.state = "ASSOCIATED" /\ sta'.bssid = b /\ sta'.aid = h
                /\ t.staList = r.staList /\ t.aid = r.aid
                /\ r.state = "WAIT_ASSOC_TX_OK" => t.state = "GOT_ASSOC_TX_OK"
  BY <1>4, <1>9, <1>10, <1>11 DEF Quiet
<1>. HIDE DEF s, h
<1>13. AidsReserved(t)
  <2>1. ASSUME NEW x \in Aids, InSeq(x, t.responses) PROVE x \in t.staList
    <3>1. x \in r.staList
      BY <1>6, <1>7, <2>1 DEF AidsReserved
    <3>2. x # h
      BY <1>2, <1>6, <1>7, <1>8, <2>1 DEF AidsReserved
    <3>. QED  BY <1>5, <3>1, <3>2
  <2>. QED  BY <1>6, <1>7, <2>1 DEF AidsReserved
<1>. DEFINE Associates == /\ h # NoAid /\ sta'.state = "ASSOCIATED"
                          /\ sta'.bssid = b /\ sta'.aid = h
                          /\ t.staList = r.staList /\ t.aid = r.aid
                          /\ r.state = "WAIT_ASSOC_TX_OK" => t.state = "GOT_ASSOC_TX_OK"
<1>14. ASSUME doubt' # "ackLost" PROVE AidKept'
  <2>1. CASE Associates
    <3>1. h \in t.staList /\ ~InSeq(h, t.responses)
      BY <1>2, <1>6, <1>7, <2>1 DEF AidsReserved
    <3>. QED  BY <2>1, <3>1 DEF AidKept
  <2>2. CASE Quiet(sta, sta') /\ doubt' = doubt
    <3>. SUFFICES ASSUME sta'.state = "ASSOCIATED"
                  PROVE  /\ sta'.aid \in ap'[sta'.bssid].staList
                         /\ ~InSeq(sta'.aid, ap'[sta'.bssid].responses)
      BY DEF AidKept
    <3>1. sta.state = "ASSOCIATED" /\ sta'.bssid = sta.bssid /\ sta'.aid = sta.aid
      BY <2>2 DEF Quiet
    <3>2. sta.aid \in ap[sta.bssid].staList /\ ~InSeq(sta.aid, ap[sta.bssid].responses)
      BY <1>14, <2>2, <3>1 DEF AgreeInv, AidKept
    <3>3. sta.bssid \in Aps
      BY <1>1, <3>1 DEF Ready, Station
    <3>4. CASE sta.bssid = b
      <4>1. sta.aid # h
        BY <1>6, <3>2, <3>4
      <4>2. sta.aid \in t.staList /\ ~InSeq(sta.aid, t.responses)
        BY <1>5, <1>6, <3>2, <3>4, <4>1
      <4>. QED  BY <3>1, <3>4, <4>2
    <3>5. CASE sta.bssid # b
      BY <1>3, <3>1, <3>2, <3>3, <3>5
    <3>. QED  BY <3>4, <3>5
  <2>. QED  BY <1>12, <1>14, <2>1, <2>2
<1>15. ASSUME doubt' = "none" PROVE Attempts'
  <2>1. /\ doubt = "none" /\ sta'.queue = sta.queue /\ (Quiet(sta, sta') \/ Associates)
    BY <1>12, <1>15
  <2>2. Distinct(sta.queue, {}) /\ \A a \in Aps : OneAttempt(sta, a, ap[a])
    BY <2>1 DEF AgreeInv, Attempts
  <2>3. /\ OneAttempt(sta, b, r) /\ t.responses = <<>> /\ ~InSeq(b, sta.queue)
        /\ ~(sta.state = "ASSOCIATED" /\ sta.bssid = b)
    BY <1>1, <1>6, <2>2 DEF OneAttempt
  <2>4. h # NoAid => r.state = "WAIT_ASSOC_TX_OK" /\ r.aid = h
    BY <1>2, <1>6, <2>3 DEF OneAttempt
  <2>5. OneAttempt(sta', b, t)
    <3>1. ~InSeq(b, sta'.queue) /\ t.responses = <<>> /\ \A x : ~InSeq(x, t.responses)
      BY <2>1, <2>3, EmptyFacts
    <3>2. Len(t.responses) <= 1
      BY <3>1, EmptySeq
    <3>3. sta'.state = "ASSOCIATED" /\ sta'.bssid = b
            => t.state = "GOT_ASSOC_TX_OK" /\ t.aid = sta'.aid
      BY <2>1, <2>3, <2>4 DEF Quiet
    <3>. QED  BY <3>1, <3>2, <3>3 DEF OneAttempt
  <2>6. ASSUME NEW a \in Aps \ {b} PROVE OneAttempt(sta', a, ap'[a])
    <3>1. OneAttempt(sta, a, ap[a]) /\ ap'[a] = ap[a]
      BY <1>3, <2>2
    <3>2. sta'.state = "ASSOCIATED" /\ sta'.bssid = a
            => sta.state = "ASSOCIATED" /\ sta.bssid = a /\ sta'.aid = sta.aid
      BY <2>1 DEF Quiet
    <3>. QED  BY <2>1, <3>1, <3>2 DEF OneAttempt
  <2>. QED  BY <2>1, <2>2, <2>5, <2>6 DEF Attempts
<1>16. \A a \in Aps : AidsReserved(ap'[a])
  BY <1>3, <1>13 DEF AgreeInv
<1>. QED  BY <1>14, <1>15, <1>16 DEF AgreeInv

\* Initially nothing is reserved and nothing is under way.
LEMMA InitAgree == Init => AgreeInv
<1>. SUFFICES ASSUME Init PROVE AgreeInv
  OBVIOUS
<1>1. /\ sta.queue = <<>> /\ sta.state = "SCANNING"
      /\ \A a \in Aps : ap[a].responses = <<>>
  BY DEF Init
<1>2. AidKept
  BY <1>1 DEF AidKept
<1>3. \A a \in Aps : AidsReserved(ap[a])
  BY <1>1, EmptyFacts DEF AidsReserved
<1>4. Len(<<>>) <= 1
  BY EmptySeq
<1>5. Attempts
  BY <1>1, <1>4, EmptyFacts DEF Attempts, OneAttempt
<1>. QED  BY <1>2, <1>3, <1>5 DEF AgreeInv

\* Every event of the station and of the APs keeps the sides in agreement.
LEMMA NextAgree == IInv /\ AgreeInv /\ [Next]_vars => AgreeInv'
<1>. SUFFICES ASSUME IInv, AgreeInv, [Next]_vars PROVE AgreeInv'
  OBVIOUS
<1>1. sta \in Ready /\ sta \in Passing /\ sta.state \in Settled
  BY ReadyIsPassing DEF IInv, Ready, Station
<1>2. CASE WaitBeaconTimeout
  <2>1. [sta EXCEPT !.waiting = FALSE] \in Ready /\ Quiet(sta, [sta EXCEPT !.waiting = FALSE])
    BY <1>1 DEF Ready, Station, Quiet
  <2>. QED  BY <1>2, <2>1, EndScanAgree DEF WaitBeaconTimeout
<1>3. CASE EndScanningNow
  <2>1. [sta EXCEPT !.endNow = FALSE] \in Ready /\ Quiet(sta, [sta EXCEPT !.endNow = FALSE])
    BY <1>1 DEF Ready, Station, Quiet
  <2>. QED  BY <1>3, <2>1, EndScanAgree DEF EndScanningNow
<1>4. CASE AssocRequestTimeout \/ PhyCapabilitiesChanged
  <2>1. sta.bssid # NoAp
    BY <1>1, <1>4 DEF AssocRequestTimeout, PhyCapabilitiesChanged, Ready
  <2>2. Requests(sta, SendAssociationRequest([sta EXCEPT !.state = "WAIT_ASSOC_RESP"]))
    BY <1>1, <2>1, WaitAgainRequests
  <2>. QED  BY <1>4, <2>2, RequestAgree DEF AssocRequestTimeout, PhyCapabilitiesChanged
<1>5. CASE MissedBeacons
  <2>1. /\ Quiet(sta, [sta EXCEPT !.fresh = FALSE])
        /\ Quiet(sta, [sta EXCEPT !.watchdog = FALSE, !.dropping = TRUE])
    BY <1>1 DEF Ready, Station, Quiet
  <2>. QED  BY <1>5, <2>1, QuietAgree DEF MissedBeacons
<1>6. CASE Disassociate
  <2>. DEFINE s == [sta EXCEPT !.dropping = FALSE]
  <2>1. s \in Ready /\ Quiet(sta, s)
    BY <1>1 DEF Ready, Station, Quiet
  <2>2. StaBecomes(Disassociated(s), FALSE)
    BY <1>6 DEF Disassociate
  <2>. HIDE DEF s
  <2>3. Quiet(sta, Disassociated(s))
    BY <2>1, DisassociatedQuiet DEF Quiet
  <2>. QED  BY <2>2, <2>3, QuietAgree
<1>7. CASE NotifyChannelSwitching
  BY <1>1, <1>7, DisassociatedQuiet, QuietAgree DEF NotifyChannelSwitching
<1>8. CASE SetActiveProbing
  BY <1>1, <1>8, QuietMethods, QuietAgree DEF SetActiveProbing
<1>9. ASSUME NEW a \in Aps, ReceiveBeacon(a) PROVE AgreeInv'
  <2>. DEFINE s == CASE sta.state = "ASSOCIATED" ->
                          IF sta.bssid = a THEN RestartBeaconWatchdog(sta) ELSE sta
                     [] sta.state = "WAIT_ASSOC_RESP" ->
                          IF sta.bssid = a THEN NotifyApInfo(sta, a) ELSE sta
                     [] sta.state = "SCANNING" -> NotifyApInfo(sta, a)
  <2>1. /\ Quiet(sta, RestartBeaconWatchdog(sta)) /\ Quiet(sta, NotifyApInfo(sta, a))
        /\ Quiet(sta, sta)
    BY <1>1, QuietMethods DEF Quiet
  <2>2. Quiet(sta, s)
    BY <1>1, <2>1 DEF Settled
  <2>3. StaBecomes(s, FALSE)
    BY <1>9 DEF ReceiveBeacon
  <2>. HIDE DEF s
  <2>. QED  BY <2>2, <2>3, QuietAgree
<1>10. CASE TransmitRequest
  BY <1>10, TransmitRequestAgree
<1>11. ASSUME NEW a \in Aps, ReceiveProbeResp(a) PROVE AgreeInv'
  BY <1>1, <1>11, QuietMethods, QuietAgree DEF ReceiveProbeResp
<1>12. ASSUME NEW a \in Aps, ResponseAcked(a) \/ ResponseAckLost(a) \/ ResponseLost(a)
       PROVE  AgreeInv'
  BY <1>12, ResponseAgree
<1>13. CASE UNCHANGED vars
  BY <1>13 DEF AgreeInv, AidKept, Attempts, OneAttempt, vars
<1>. QED
  BY <1>2, <1>3, <1>4, <1>5, <1>6, <1>7, <1>8, <1>9, <1>10, <1>11, <1>12, <1>13 DEF Next, Beacon

\* The AID of an associated station is reserved at its AP unless the Ack of a
\* response was lost, and without overlapping requests the AP has the station as
\* associated with that AID, for any number of APs and of AIDs.
THEOREM StationAndApAgree == Spec => []SidesAgree
<1>1. IInv /\ AgreeInv => SidesAgree
  <2>. SUFFICES ASSUME IInv, AgreeInv PROVE SidesAgree
    OBVIOUS
  <2>1. sta.state = "ASSOCIATED" => sta.bssid \in Aps
    BY DEF IInv, Ready, Station
  <2>. QED  BY <2>1 DEF AgreeInv, AidKept, Attempts, OneAttempt, SidesAgree
<1>. QED  BY <1>1, InitAgree, NextAgree, Invariance, PTL DEF Spec
=============================================================================
