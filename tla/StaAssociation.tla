--------------------------- MODULE StaAssociation ---------------------------
(***************************************************************************)
(* Association of a single-link station with the access points around it:  *)
(* the state machine of StaWifiMac with its timers, the candidate list of  *)
(* the association manager, and the book-keeping of the APs about this     *)
(* station.  Beacons, requests and responses may be lost; a response may   *)
(* be received although the AP gets no Ack for it.                         *)
(*                                                                         *)
(* Timers may expire at any time, except that events scheduled for the     *)
(* current instant come first.  All APs have the same SSID and beacon      *)
(* interval.  Assertions are not taken: the code runs on after them, as in *)
(* an optimized build.                                                     *)
(***************************************************************************)
EXTENDS Integers, Sequences, FiniteSets, FiniteSetsExt

CONSTANTS
  Aps,        \* access points
  NoAp,       \* no BSSID
  MaxAid,     \* association IDs an AP gives to this station (bound)
  MaxQueue    \* association requests and responses in a queue (bound)

Aids == 1 .. MaxAid
NoAid == 0

ASSUME StaAssociationAssumption ==
  /\ NoAp \notin Aps /\ MaxAid \in Nat /\ MaxQueue \in Nat

VARIABLES
  sta,       \* the station
  ap,        \* what every AP knows of the station, and its responses to it
  doubt      \* history: "overlap" once a request was sent while an earlier one
             \* to the same AP was unanswered, "ackLost" once an AP counted a
             \* response as failed that was received, else "none"

vars == <<sta, ap, doubt>>

(***************************************************************************)
(* The station: state, bssid, aid; apList, the candidate APs; waiting, the *)
(* end of the scan is scheduled; endNow, EndScanning is scheduled for this *)
(* instant; assocTimer; watchdog, MissedBeacons is scheduled, and fresh,   *)
(* for a time before m_beaconWatchdogEnd; dropping, Disassociated is       *)
(* scheduled; queue, the APs the queued association requests are for.      *)
(***************************************************************************)
Init ==
  /\ sta = [state |-> "SCANNING", bssid |-> NoAp, aid |-> NoAid, apList |-> {},
            waiting |-> TRUE, endNow |-> FALSE, assocTimer |-> FALSE,
            watchdog |-> FALSE, fresh |-> FALSE, dropping |-> FALSE, queue |-> <<>>]
  /\ ap = [a \in Aps |-> [state |-> "DISASSOC", aid |-> NoAid, staList |-> {}, responses |-> <<>>]]
  /\ doubt = "none"

----------------------------------------------------------------------------
(***************************************************************************)
(* Methods of the station.                                                 *)
(***************************************************************************)
\* A list that is not empty is used at once; a scan that is still running is
\* not cancelled then.
DoStartScanning(s) ==
  IF s.apList # {} THEN [s EXCEPT !.endNow = TRUE] ELSE [s EXCEPT !.waiting = TRUE]

StartScanning(s) == DoStartScanning([s EXCEPT !.state = "SCANNING"])

RestartBeaconWatchdog(s) ==
  IF s.watchdog THEN [s EXCEPT !.fresh = TRUE]
  ELSE [s EXCEPT !.watchdog = TRUE, !.fresh = FALSE]

\* A request that finds the queue full is lost (bound).
SendAssociationRequest(s) ==
  [s EXCEPT !.queue = IF Len(@) < MaxQueue THEN Append(@, s.bssid) ELSE @, !.assocTimer = TRUE]

ScanningTimeout(s, best) ==
  SendAssociationRequest(RestartBeaconWatchdog(
    [s EXCEPT !.apList = @ \ {best}, !.bssid = best, !.state = "WAIT_ASSOC_RESP"]))

\* EndScanning and WifiAssocManager::ScanningTimeout; the order of the list,
\* by SNR, is open.
ScanOutcomes(s) ==
  IF s.apList = {} THEN {StartScanning(s)} ELSE {ScanningTimeout(s, a) : a \in s.apList}

TryToEnsureAssociated(s) == IF s.state = "UNASSOCIATED" THEN StartScanning(s) ELSE s

\* Fault: the association request timer is not cancelled.
DisassociatedKeepsTimer(s) ==
  TryToEnsureAssociated([s EXCEPT !.state = "UNASSOCIATED", !.bssid = NoAp, !.aid = NoAid])

Disassociated(s) ==
  TryToEnsureAssociated([s EXCEPT !.state = "UNASSOCIATED", !.bssid = NoAp, !.aid = NoAid,
                                  !.assocTimer = FALSE])

\* Fault: a refusal is taken note of, and no scan started.
ReceiveAssocRespRefusedForGood(s, a, aid) ==
  IF s.state # "WAIT_ASSOC_RESP" THEN s
  ELSE IF aid = NoAid THEN [s EXCEPT !.state = "REFUSED", !.assocTimer = FALSE]
  ELSE [s EXCEPT !.state = "ASSOCIATED", !.assocTimer = FALSE, !.aid = aid, !.bssid = a]

ReceiveAssocResp(s, a, aid) ==
  IF s.state # "WAIT_ASSOC_RESP" THEN s
  ELSE IF aid = NoAid THEN StartScanning([s EXCEPT !.state = "REFUSED", !.assocTimer = FALSE])
  ELSE [s EXCEPT !.state = "ASSOCIATED", !.assocTimer = FALSE, !.aid = aid, !.bssid = a]

\* A request to the AP has not been answered.
Unanswered(a) == a \in {sta.queue[i] : i \in DOMAIN sta.queue} \/ ap[a].responses # <<>>

----------------------------------------------------------------------------
(***************************************************************************)
(* Events of the station.                                                  *)
(***************************************************************************)
\* The station sends a request if its timer is (re)started by the step.
StaBecomes(s, sends) ==
  /\ sta' = s
  /\ doubt' = IF doubt = "none" /\ sends /\ Unanswered(s.bssid) THEN "overlap" ELSE doubt
  /\ UNCHANGED ap

EndScan(s) == \E t \in ScanOutcomes(s) : StaBecomes(t, t.state = "WAIT_ASSOC_RESP")

\* The scan ends, in whatever state the station is now.
WaitBeaconTimeout ==
  /\ ~sta.endNow /\ sta.waiting
  /\ EndScan([sta EXCEPT !.waiting = FALSE])

EndScanningNow ==
  /\ sta.endNow
  /\ EndScan([sta EXCEPT !.endNow = FALSE])

AssocRequestTimeout ==
  /\ ~sta.endNow /\ sta.assocTimer
  /\ StaBecomes(SendAssociationRequest([sta EXCEPT !.state = "WAIT_ASSOC_RESP"]), TRUE)

\* Disassociated is scheduled for the end of a reception, which comes before
\* the next missed beacon.
MissedBeacons ==
  /\ ~sta.endNow /\ sta.watchdog /\ ~sta.dropping
  /\ StaBecomes(IF sta.fresh THEN [sta EXCEPT !.fresh = FALSE]
                ELSE [sta EXCEPT !.watchdog = FALSE, !.dropping = TRUE], FALSE)

Disassociate ==
  /\ ~sta.endNow /\ sta.dropping
  /\ StaBecomes(Disassociated([sta EXCEPT !.dropping = FALSE]), FALSE)

NotifyChannelSwitching ==
  /\ ~sta.endNow /\ sta.state = "ASSOCIATED"
  /\ StaBecomes(Disassociated(sta), FALSE)

PhyCapabilitiesChanged ==
  /\ ~sta.endNow /\ sta.state = "ASSOCIATED"
  /\ StaBecomes(SendAssociationRequest([sta EXCEPT !.state = "WAIT_ASSOC_RESP"]), TRUE)

SetActiveProbing ==
  /\ ~sta.endNow /\ sta.state = "SCANNING"
  /\ StaBecomes(StartScanning(sta), FALSE)

\* NotifyApInfo: candidates are taken while a scan is running.
NotifyApInfo(s, a) == IF s.waiting THEN [s EXCEPT !.apList = @ \cup {a}] ELSE s

\* Fault: beacons keep the station waiting for the response, too.
ReceiveBeaconWhileWaiting(a) ==
  /\ ~sta.endNow
  /\ StaBecomes(IF sta.state \in {"WAIT_ASSOC_RESP", "ASSOCIATED"}
                THEN IF sta.bssid = a THEN RestartBeaconWatchdog(NotifyApInfo(sta, a)) ELSE sta
                ELSE NotifyApInfo(sta, a), FALSE)

ReceiveBeacon(a) ==
  /\ ~sta.endNow
  /\ StaBecomes(CASE sta.state = "ASSOCIATED" ->
                       IF sta.bssid = a THEN RestartBeaconWatchdog(sta) ELSE sta
                  [] sta.state = "WAIT_ASSOC_RESP" ->
                       IF sta.bssid = a THEN NotifyApInfo(sta, a) ELSE sta
                  [] sta.state = "SCANNING" -> NotifyApInfo(sta, a), FALSE)

\* A probe response is not filtered by the state of the station.
ReceiveProbeResp(a) ==
  /\ ~sta.endNow
  /\ StaBecomes(NotifyApInfo(sta, a), FALSE)

----------------------------------------------------------------------------
(***************************************************************************)
(* The APs.                                                                *)
(***************************************************************************)
\* The AID of an associated station; a station that is associating has none.
GetAssociationId(r) == IF r.state = "GOT_ASSOC_TX_OK" THEN r.aid ELSE NoAid
GetNextAssociationId(r) == Min(Aids \ r.staList)

\* Fault: the AID is not recorded with the station.
AssignAidOnly(r) ==
  LET aid == GetNextAssociationId(r)
  IN [r EXCEPT !.staList = @ \cup {aid}, !.responses = Append(@, aid)]

SetAid(r) ==
  LET aid == IF GetAssociationId(r) # NoAid THEN GetAssociationId(r) ELSE GetNextAssociationId(r)
  IN [r EXCEPT !.aid = aid, !.staList = @ \cup {aid}, !.responses = Append(@, aid)]

\* Whether the AP can accept the station is open.
ReceiveAssocRequest(r, accept) ==
  [r EXCEPT !.state = IF accept THEN "WAIT_ASSOC_TX_OK" ELSE "ASSOC_REFUSED"]

\* A response with an AID, or a refusal.
SendAssocResp(r) ==
  IF r.state = "WAIT_ASSOC_TX_OK" THEN SetAid(r)
  ELSE [r EXCEPT !.state = "DISASSOC", !.responses = Append(@, NoAid)]

Answer(r, accept) == SendAssocResp(ReceiveAssocRequest(r, accept))

\* The request at the head of the station's queue reaches its AP or is lost.
TransmitRequest ==
  /\ ~sta.endNow /\ sta.queue # <<>>
  /\ sta' = [sta EXCEPT !.queue = Tail(@)]
  /\ LET a == Head(sta.queue) IN
     \/ /\ Len(ap[a].responses) < MaxQueue /\ ap[a].staList # Aids
        /\ ap' = [ap EXCEPT ![a] = Answer(@, TRUE)]
     \/ /\ Len(ap[a].responses) < MaxQueue
        /\ ap' = [ap EXCEPT ![a] = Answer(@, FALSE)]
     \/ UNCHANGED ap
  /\ UNCHANGED doubt

TxOk(r) == [r EXCEPT !.state = IF @ = "WAIT_ASSOC_TX_OK" THEN "GOT_ASSOC_TX_OK" ELSE @]
TxFailed(r) ==
  [r EXCEPT !.state = IF @ = "WAIT_ASSOC_TX_OK" THEN "DISASSOC" ELSE @,
            !.staList = @ \ {Head(r.responses)}]

Sent(r) == [r EXCEPT !.responses = Tail(@)]

ResponseAcked(a) ==
  /\ ~sta.endNow /\ ap[a].responses # <<>>
  /\ sta' = ReceiveAssocResp(sta, a, Head(ap[a].responses))
  /\ ap' = [ap EXCEPT ![a] = Sent(TxOk(@))]
  /\ UNCHANGED doubt

ResponseAckLost(a) ==
  /\ ~sta.endNow /\ ap[a].responses # <<>>
  /\ sta' = ReceiveAssocResp(sta, a, Head(ap[a].responses))
  /\ ap' = [ap EXCEPT ![a] = Sent(TxFailed(@))]
  /\ doubt' = "ackLost"

ResponseLost(a) ==
  /\ ~sta.endNow /\ ap[a].responses # <<>>
  /\ ap' = [ap EXCEPT ![a] = Sent(TxFailed(@))]
  /\ UNCHANGED <<sta, doubt>>

Beacon == \E a \in Aps : ReceiveBeacon(a)

Next ==
  \/ WaitBeaconTimeout \/ EndScanningNow \/ AssocRequestTimeout
  \/ MissedBeacons \/ Disassociate
  \/ NotifyChannelSwitching \/ PhyCapabilitiesChanged \/ SetActiveProbing
  \/ Beacon \/ TransmitRequest
  \/ \E a \in Aps :
       ReceiveProbeResp(a) \/ ResponseAcked(a) \/ ResponseAckLost(a) \/ ResponseLost(a)

Spec == Init /\ [][Next]_vars

\* Timers expire.  APs send beacons for ever, and some are received.
FairSpec ==
  /\ Spec
  /\ WF_vars(WaitBeaconTimeout) /\ WF_vars(EndScanningNow)
  /\ WF_vars(MissedBeacons) /\ WF_vars(Disassociate)
  /\ SF_vars(Beacon)

----------------------------------------------------------------------------
Station(states) ==
  [state : states, bssid : Aps \cup {NoAp}, aid : Aids \cup {NoAid}, apList : SUBSET Aps,
   waiting : BOOLEAN, endNow : BOOLEAN, assocTimer : BOOLEAN, watchdog : BOOLEAN,
   fresh : BOOLEAN, dropping : BOOLEAN, queue : Seq(Aps)]

ApRecord ==
  [state : {"DISASSOC", "WAIT_ASSOC_TX_OK", "GOT_ASSOC_TX_OK"}, aid : Aids \cup {NoAid},
   staList : SUBSET Aids, responses : Seq(Aids \cup {NoAid})]

\* Type invariant.  In particular the station is never left in the passing states
\* UNASSOCIATED and REFUSED: the handlers that set them start a scan.
TypeOK ==
  /\ sta \in Station({"SCANNING", "WAIT_ASSOC_RESP", "ASSOCIATED"})
  /\ ap \in [Aps -> ApRecord]
  /\ doubt \in {"none", "overlap", "ackLost"}

\* A request, data frame or reassociation always finds a BSSID: the aborts of
\* SendAssociationRequest and the assertion of Enqueue are not reached, whatever
\* scans, timers and events of earlier attempts are still running.
RequestHasBssid ==
  sta.assocTimer \/ sta.state # "SCANNING" => sta.bssid # NoAp

\* Unless the Ack of a response was lost, the AID of an associated station is
\* reserved at its AP, and if requests did not overlap either, the AP has the
\* station as associated, with that AID (SetAid, TxOk, ReceiveAssocResp): after
\* any number of attempts, refusals and losses with several APs.
SidesAgree ==
  sta.state = "ASSOCIATED" /\ doubt # "ackLost" =>
    /\ sta.aid \in ap[sta.bssid].staList
    /\ doubt = "none" => /\ ap[sta.bssid].state = "GOT_ASSOC_TX_OK"
                         /\ ap[sta.bssid].aid = sta.aid

\* A station that is not associated tries again and again: scans end with a
\* request, and it does not wait for ever for an AP that sends beacons and does not
\* answer (note 5 on the state machine in sta-wifi-mac.h).
KeepsTrying ==
  /\ sta.state = "SCANNING" ~> sta.state # "SCANNING"
  /\ sta.state = "WAIT_ASSOC_RESP" ~> sta.state # "WAIT_ASSOC_RESP"

\* "AID of the remote station" (WifiRemoteStationState::m_aid): the AP that has
\* the station as associated knows its AID.
AidsAgree ==
  sta.state = "ASSOCIATED" /\ ap[sta.bssid].state = "GOT_ASSOC_TX_OK"
    => ap[sta.bssid].aid = sta.aid
=============================================================================
