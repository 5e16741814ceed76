---------------------------- MODULE PedcaDevice ----------------------------
(***************************************************************************)
(* A QoS device: its EDCAFs (QosTxop), and on each link the                *)
(* ChannelAccessManager that grants them the channel and the               *)
(* QosFrameExchangeManager that runs the frame exchanges, with the P-EDCA  *)
(* procedure of AC_VO.  The links share the queue of each access category. *)
(***************************************************************************)
EXTENDS QosTxop

CONSTANTS
  None,            \* a null EDCAF pointer
  Prio,            \* position of each EDCAF in ChannelAccessManager::m_txops
  PifsRecoveryOn,  \* attribute PifsRecovery of QosFrameExchangeManager
  BackoffOnNoTx,   \* attribute GenerateBackoffIfTxopWithoutTx
  ProactiveOn,     \* attribute ProactiveBackoff
  SwitchOn,        \* whether the PHY may switch channel
  MaxQueue,        \* bound: MPDUs stored per access category
  MaxTrigger       \* bound: failures counted by pedcaTriggerCount

ASSUME FemAssumption ==
  /\ None \notin ACs
  /\ Prio \in [ACs -> Nat]
  /\ PifsRecoveryOn \in BOOLEAN /\ BackoffOnNoTx \in BOOLEAN
  /\ ProactiveOn \in BOOLEAN /\ SwitchOn \in BOOLEAN
  /\ MaxQueue \in Nat /\ MaxTrigger \in Nat

VARIABLES
  ent,           \* QosLinkEntity of each EDCAF on each link
  queue,         \* number of MPDUs in the queue of each access category
  reqEvent,      \* EDCAFs with a RequestAccess event scheduled, on each link
  accEvent,      \* the StartAccessAfterEvent event of each EDCAF on each link
  phase,         \* what the frame exchange manager of the link is waiting for
  edca,          \* m_edca
  backingOff,    \* m_edcaBackingOff
  initialFrame   \* m_initialFrame

vars == <<ent, queue, reqEvent, accEvent, phase, edca, backingOff, initialFrame>>

(***************************************************************************)
(* idle  - nothing: EDCAFs contend for the channel                         *)
(* cts   - the end of a P-EDCA CTS-to-self, and then the scheduled lambda  *)
(* frame - the outcome of the frame exchange (m_txTimer)                   *)
(* sifs  - StartTransmission scheduled in a SIFS                           *)
(* pifs  - m_pifsRecoveryEvent                                             *)
(* lost  - m_pifsRecoveryEvent, after which the medium will not be idle    *)
(* cfend - the end of a CF-End frame, and then NotifyChannelReleased       *)
(***************************************************************************)
Phases == {"idle", "cts", "frame", "sifs", "pifs", "lost", "cfend"}

\* The argument hadFramesToTransmit of a StartAccessAfterEvent, if scheduled.
AccEvents == {"none", "had", "hadnot"}

TypeOK ==
  /\ ent \in [Links -> [ACs -> LinkEntity]]
  /\ queue \in [ACs -> Nat]
  /\ reqEvent \in [Links -> SUBSET ACs]
  /\ accEvent \in [Links -> [ACs -> AccEvents]]
  /\ phase \in [Links -> Phases]
  /\ edca \in [Links -> ACs \cup {None}]
  /\ backingOff \in [Links -> ACs \cup {None}]
  /\ initialFrame \in [Links -> BOOLEAN]

(***************************************************************************)
(* DoInitialize generates a first backoff for every EDCAF on every link.   *)
(***************************************************************************)
Init ==
  /\ ent = [l \in Links |-> [a \in ACs |-> GenerateBackoff(l, a, NewEntity(a))]]
  /\ queue = [a \in ACs |-> 0]
  /\ reqEvent = [l \in Links |-> {}]
  /\ accEvent = [l \in Links |-> [a \in ACs |-> "none"]]
  /\ phase = [l \in Links |-> "idle"]
  /\ edca = [l \in Links |-> None]
  /\ backingOff = [l \in Links |-> None]
  /\ initialFrame = [l \in Links |-> FALSE]

----------------------------------------------------------------------------
(***************************************************************************)
(* The queue.  An MPDU that is being sent on a link stays in the queue: it *)
(* counts for HasFramesToTransmit, but PeekNextMpdu skips it on any other  *)
(* link (NMaxInflights is 1).                                              *)
(***************************************************************************)
InFlight(a, S) == Cardinality({k \in S : phase[k] = "frame" /\ edca[k] = a})

\* Fault: MPDUs in flight on other links are not skipped.
AvailableAnywhere(l, a, q) == q > 0

HasFramesToTransmit(q) == q > 0

\* PeekNextMpdu: an MPDU is available to link l, on which no frame of a is being sent (any
\* more), when the queue of a holds q MPDUs.
Available(l, a, q) == q > InFlight(a, Links \ {l})

Releases(l, a, e, elapsed, q) ==
  Released(l, a, e, BacksOffOnRelease(e, elapsed, q > 0 /\ BackoffOnNoTx))

\* Fault: no RequestAccess event is scheduled.
RequestsNever(a, e, elapsed, q) == {}

\* The EDCAF that NotifyChannelReleased makes request the channel again.
RequestsAgain(a, e, elapsed, q) ==
  IF BacksOffOnRelease(e, elapsed, q > 0 /\ BackoffOnNoTx) /\ q > 0
  THEN {a} ELSE {}

SetEntity(l, a, e) == ent' = [ent EXCEPT ![l][a] = e]

----------------------------------------------------------------------------
(***************************************************************************)
(* Channel access requests (Txop).                                         *)
(***************************************************************************)
\* Queue: on every link whose access event is not yet scheduled, schedule one
\* that remembers whether there were frames to transmit before this one.
Enqueue(a) ==
  /\ queue[a] < MaxQueue
  /\ queue' = [queue EXCEPT ![a] = @ + 1]
  /\ accEvent' = [l \in Links |->
                    [accEvent[l] EXCEPT ![a] =
                       CASE @ # "none" -> @
                         [] @ = "none" /\ HasFramesToTransmit(queue[a]) -> "had"
                         [] @ = "none" /\ ~HasFramesToTransmit(queue[a]) -> "hadnot"]]
  /\ UNCHANGED <<ent, reqEvent, phase, edca, backingOff, initialFrame>>

\* Fault: MPDUs in flight expire, too.
ExpireAny(a) ==
  /\ queue[a] > 0
  /\ queue' = [queue EXCEPT ![a] = @ - 1]
  /\ UNCHANGED <<ent, reqEvent, accEvent, phase, edca, backingOff, initialFrame>>

\* The lifetime of an MPDU that is not in flight expires.
Expire(a) ==
  /\ queue[a] > InFlight(a, Links)
  /\ queue' = [queue EXCEPT ![a] = @ - 1]
  /\ UNCHANGED <<ent, reqEvent, accEvent, phase, edca, backingOff, initialFrame>>

\* StartAccessAfterEvent: a backoff may be needed if the queue was empty, which
\* depends on the state of the medium and of the previous backoff.
StartAccessAfterEvent(l, a) ==
  /\ accEvent[l][a] # "none"
  /\ accEvent' = [accEvent EXCEPT ![l][a] = "none"]
  /\ \/ /\ \/ ent[l][a].access # "NOT_REQUESTED"
           \/ ~HasFramesToTransmit(queue[a])
        /\ UNCHANGED ent
     \/ /\ ent[l][a].access = "NOT_REQUESTED"
        /\ HasFramesToTransmit(queue[a])
        /\ \E needBackoff \in {FALSE, accEvent[l][a] = "hadnot"} :
             SetEntity(l, a, [(IF needBackoff THEN GenerateBackoff(l, a, ent[l][a])
                                              ELSE ent[l][a])
                              EXCEPT !.access = "REQUESTED"])
  /\ UNCHANGED <<queue, reqEvent, phase, edca, backingOff, initialFrame>>

RequestAccess(l, a) ==
  /\ a \in reqEvent[l]
  /\ reqEvent' = [reqEvent EXCEPT ![l] = @ \ {a}]
  /\ IF ent[l][a].access = "NOT_REQUESTED"
     THEN SetEntity(l, a, [ent[l][a] EXCEPT !.access = "REQUESTED"])
     ELSE UNCHANGED ent
  /\ UNCHANGED <<queue, accEvent, phase, edca, backingOff, initialFrame>>

----------------------------------------------------------------------------
(***************************************************************************)
(* Access is granted to EDCAF a of link l, and the EDCAFs in L collide     *)
(* internally with it (DoGrantDcfAccess).  While a PIFS recovery is        *)
(* running only EDCAFs that wait for one slot at most can be that fast.    *)
(***************************************************************************)
Contends(l, a) ==
  /\ ent[l][a].access = "REQUESTED"
  /\ \/ phase[l] = "idle"
     \/ /\ phase[l] = "pifs"
        /\ edca[l] # a
        /\ GetAifsn(a, ent[l][a]) <= 1

Losers(l, a) == {b \in ACs : Prio[b] > Prio[a] /\ Contends(l, b)}

\* NotifyInternalCollision
Collided(l, b) == BackoffInTxop(l, b, UpdateFailedCw(b, ent[l][b]))

\* CancelPifsRecovery: another EDCAF takes the channel during a PIFS recovery.
Preempted(l, a) == IF phase[l] = "pifs" THEN {edca[l]} \ {a} ELSE {}

\* The state of the EDCAFs of link l when StartTransmission leaves a with entity
\* e and the EDCAFs in L collided with it.
Settle(l, a, e, L) ==
  ent' = [ent EXCEPT ![l] =
            [b \in ACs |->
               CASE b = a -> e
                 [] b # a /\ b \in L -> Collided(l, b)
                 [] b # a /\ b \notin L /\ b \in Preempted(l, a) ->
                      Releases(l, b, ent[l][b], TRUE, queue[b])
                 [] OTHER -> ent[l][b]]]

\* Fault: an EDCAF that collided does not request the channel again.
CollideWithoutRequest(l, a, L, D, again) ==
  /\ D \subseteq {b \in L : Available(l, b, queue[b])}
  /\ queue' = [b \in ACs |-> IF b \in D THEN queue[b] - 1 ELSE queue[b]]
  /\ reqEvent' = [reqEvent EXCEPT ![l] =
       @ \cup again \cup {b \in Preempted(l, a) : queue[b] > 0}]

\* Each collided EDCAF counts a failure for its first MPDU, which may be dropped
\* (those in D), and requests the channel again if it has frames.
Collide(l, a, L, D, again) ==
  /\ D \subseteq {b \in L : Available(l, b, queue[b])}
  /\ queue' = [b \in ACs |-> IF b \in D THEN queue[b] - 1 ELSE queue[b]]
  /\ reqEvent' = [reqEvent EXCEPT ![l] =
       @ \cup again
         \cup {b \in L : HasFramesToTransmit(queue'[b])}
         \cup {b \in Preempted(l, a) : queue[b] > 0}]

----------------------------------------------------------------------------
(***************************************************************************)
(* QosFrameExchangeManager::StartTransmission of EDCAF a on link l.  Some  *)
(* time may have passed since the TXOP was last looked at: left is what    *)
(* GetRemainingTxop returns now.                                           *)
(***************************************************************************)
TimeLeft(e) == IF e.txop = NoTxop THEN {0} ELSE 0 .. e.txop

StartsNewTxop(l, a, left) ==
  \/ TxopLimit[a] = 0
  \/ ent[l][a].txop = NoTxop
  \/ backingOff[l] = a /\ left = 0

\* backingOff is cleared by the EDCAF it names once it gets past the CTS path.
ClearBackingOff(l, a) ==
  backingOff' = [backingOff EXCEPT ![l] = IF @ = a THEN None ELSE @]

\* The end of StartTransmission with a frame exchange under way, or without.
Proceed(l, a, e, L, D) ==
  /\ Settle(l, a, e, L)
  /\ Collide(l, a, L, D, {})
  /\ edca' = [edca EXCEPT ![l] = a]
  /\ UNCHANGED accEvent

GiveUp(l, a, e, elapsed) ==
  /\ Settle(l, a, Releases(l, a, e, elapsed, queue[a]), {})
  /\ Collide(l, a, {}, {}, RequestsAgain(a, e, elapsed, queue[a]))
  /\ phase' = [phase EXCEPT ![l] = "idle"]
  /\ edca' = [edca EXCEPT ![l] = None]
  /\ UNCHANGED accEvent

\* Fault: pedcaAfterCts is not set.
SendPedcaCtsUnmarked(l, a, L, D) ==
  /\ ent[l][a].pedcaCtsPending
  /\ Proceed(l, a, [NotifyChannelAccessed(ent[l][a], 0)
                      EXCEPT !.pedcaCtsPending = FALSE, !.psrc = @ + 1], L, D)
  /\ phase' = [phase EXCEPT ![l] = "cts"]
  /\ UNCHANGED <<backingOff, initialFrame>>

\* Fault: the CTS-to-self is not counted in psrc.
SendPedcaCtsUncounted(l, a, L, D) ==
  /\ ent[l][a].pedcaCtsPending
  /\ Proceed(l, a, [NotifyChannelAccessed(ent[l][a], 0)
                      EXCEPT !.pedcaCtsPending = FALSE, !.pedcaAfterCts = TRUE], L, D)
  /\ phase' = [phase EXCEPT ![l] = "cts"]
  /\ UNCHANGED <<backingOff, initialFrame>>

\* SendPedcaCtsAndRecontend, which precedes every other check.
SendPedcaCts(l, a, L, D) ==
  /\ ent[l][a].pedcaCtsPending
  /\ Proceed(l, a, [NotifyChannelAccessed(ent[l][a], 0)
                      EXCEPT !.pedcaCtsPending = FALSE,
                             !.psrc            = @ + 1,
                             !.pedcaAfterCts   = TRUE], L, D)
  /\ phase' = [phase EXCEPT ![l] = "cts"]
  /\ UNCHANGED <<backingOff, initialFrame>>

\* A new TXOP starts with an initial frame.
StartTxop(l, a, L, D) ==
  /\ ~ent[l][a].pedcaCtsPending
  /\ \E left \in TimeLeft(ent[l][a]) : StartsNewTxop(l, a, left)
  /\ Available(l, a, queue[a])
  /\ Proceed(l, a, NotifyChannelAccessed(ent[l][a], TxopLimit[a]), L, D)
  /\ phase' = [phase EXCEPT ![l] = "frame"]
  /\ initialFrame' = [initialFrame EXCEPT ![l] = TRUE]
  /\ ClearBackingOff(l, a)

\* There is no frame to start a TXOP with.
NoFrameTransmitted(l, a) ==
  /\ ~ent[l][a].pedcaCtsPending
  /\ \E left \in TimeLeft(ent[l][a]) : StartsNewTxop(l, a, left)
  /\ ~Available(l, a, queue[a])
  /\ GiveUp(l, a, ent[l][a], FALSE)
  /\ initialFrame' = [initialFrame EXCEPT ![l] = @ \/ TxopLimit[a] = 0]
  /\ ClearBackingOff(l, a)

\* The TXOP goes on with another frame.  The access status is left alone.
ContinueTxop(l, a, L, D) ==
  /\ ~ent[l][a].pedcaCtsPending
  /\ \E left \in TimeLeft(ent[l][a]) :
       /\ ~StartsNewTxop(l, a, left)
       /\ left > 0
       /\ Available(l, a, queue[a])
       /\ Proceed(l, a, [ent[l][a] EXCEPT !.txop = left], L, D)
  /\ phase' = [phase EXCEPT ![l] = "frame"]
  /\ ClearBackingOff(l, a)
  /\ UNCHANGED initialFrame

\* No frame, or no time for one: SendCfEndIfNeeded, with a CF-End frame if the
\* TXNAV (not modelled) is long enough for it ...
SendCfEnd(l, a, L, D) ==
  /\ ~ent[l][a].pedcaCtsPending
  /\ \E left \in TimeLeft(ent[l][a]) :
       /\ ~StartsNewTxop(l, a, left)
       /\ left = 0 \/ ~Available(l, a, queue[a])
       /\ Proceed(l, a, [ent[l][a] EXCEPT !.txop = left], L, D)
  /\ phase' = [phase EXCEPT ![l] = "cfend"]
  /\ ClearBackingOff(l, a)
  /\ UNCHANGED initialFrame

\* ... or without one.
EndTxop(l, a) ==
  /\ ~ent[l][a].pedcaCtsPending
  /\ \E left \in TimeLeft(ent[l][a]) :
       /\ ~StartsNewTxop(l, a, left)
       /\ left = 0 \/ ~Available(l, a, queue[a])
  /\ GiveUp(l, a, ent[l][a], TRUE)
  /\ ClearBackingOff(l, a)
  /\ UNCHANGED initialFrame

StartTransmission(l, a, L, D) ==
  \/ SendPedcaCts(l, a, L, D)
  \/ StartTxop(l, a, L, D)
  \/ ContinueTxop(l, a, L, D)
  \/ SendCfEnd(l, a, L, D)
  \/ L = {} /\ D = {} /\ (NoFrameTransmitted(l, a) \/ EndTxop(l, a))

\* Who calls StartTransmission: the channel access manager, ...
GrantAccess(l, a) ==
  /\ Contends(l, a)
  /\ \E L \in SUBSET Losers(l, a) : \E D \in SUBSET L :
       StartTransmission(l, a, L, D)

\* ... the event scheduled a SIFS after a success, ...
SifsElapsed(l) ==
  /\ phase[l] = "sifs"
  /\ StartTransmission(l, edca[l], {}, {})

\* ... and PifsRecovery when the medium stayed idle.  Otherwise it terminates
\* the TXOP; forceCurrentCw was bound when the event was scheduled.
PifsRecovery(l) ==
  /\ phase[l] = "pifs"
  /\ StartTransmission(l, edca[l], {}, {})

PifsRecoveryFails(l) ==
  LET a == edca[l] e == ent[l][a] IN
  /\ phase[l] \in {"pifs", "lost"}
  /\ \E force \in BOOLEAN :
       LET f == Releases(l, a, e, TRUE, queue[a])
       IN  SetEntity(l, a, IF force THEN f ELSE UpdateFailedCw(a, f))
  /\ reqEvent' = [reqEvent EXCEPT ![l] = @ \cup RequestsAgain(a, e, TRUE, queue[a])]
  /\ phase' = [phase EXCEPT ![l] = "idle"]
  /\ edca' = [edca EXCEPT ![l] = None]
  /\ UNCHANGED <<queue, accEvent, backingOff, initialFrame>>

----------------------------------------------------------------------------
(***************************************************************************)
(* The end of what is on the air.                                          *)
(***************************************************************************)
EndRelease(l) ==
  LET a == edca[l] e == ent[l][a] IN
  /\ SetEntity(l, a, Releases(l, a, e, TRUE, queue[a]))
  /\ reqEvent' = [reqEvent EXCEPT ![l] = @ \cup RequestsAgain(a, e, TRUE, queue[a])]
  /\ phase' = [phase EXCEPT ![l] = "idle"]
  /\ UNCHANGED <<queue, accEvent, backingOff, initialFrame>>

\* The lambda scheduled by SendPedcaCtsAndRecontend.
PedcaCtsEnd(l) ==
  /\ phase[l] = "cts"
  /\ EndRelease(l)
  /\ edca' = [edca EXCEPT ![l] = None]

\* The release scheduled by SendCfEndIfNeeded leaves m_edca as it is.
CfEndDone(l) ==
  /\ phase[l] = "cfend"
  /\ EndRelease(l)
  /\ UNCHANGED edca

\* Fault: no time passes in a frame exchange.
SpendNothing(e) == IF e.txop > 0 THEN e.txop ELSE 0

\* Time left in the TXOP after a frame exchange.
Spend(e) == IF e.txop > 0 THEN e.txop - 1 ELSE 0

\* The response to the frame arrives, or none was needed and the CW is not reset,
\* and the MPDU is dequeued; then TransmissionSucceeded.
TransmissionSucceeded(l) ==
  LET a == edca[l]
      q == queue[a] - 1
  IN
  /\ phase[l] = "frame"
  /\ \E acked \in BOOLEAN :
       LET e == IF acked THEN ResetCw(a, ent[l][a]) ELSE ent[l][a]
           f == [(IF e.pedcaMode THEN ResetPedcaCounters(e) ELSE e)
                 EXCEPT !.txop = Spend(e)]
       IN  \/ /\ TxopLimit[a] > 0 /\ f.txop > 0
              /\ SetEntity(l, a, f)
              /\ phase' = [phase EXCEPT ![l] = "sifs"]
              /\ UNCHANGED <<edca, reqEvent>>
           \/ /\ ~(TxopLimit[a] > 0 /\ f.txop > 0)
              /\ SetEntity(l, a, Releases(l, a, f, TRUE, q))
              /\ phase' = [phase EXCEPT ![l] = "idle"]
              /\ edca' = [edca EXCEPT ![l] = None]
              /\ reqEvent' = [reqEvent EXCEPT ![l] =
                                @ \cup RequestsAgain(a, f, TRUE, q)]
  /\ queue' = [queue EXCEPT ![a] = q]
  /\ initialFrame' = [initialFrame EXCEPT ![l] = FALSE]
  /\ UNCHANGED <<accEvent, backingOff>>

\* TransmissionFailed when the entities of link l are E: the MPDU is dropped or
\* stays in the queue.  recovery is the phase a PIFS recovery starts in.
Fail(l, E, recovery) ==
  LET a == edca[l]
      e == IF E[a].pedcaMode THEN [E[a] EXCEPT !.pedcaAfterCts = FALSE]
                             ELSE IncrementPedcaTriggerCount(E[a])
      f == [e EXCEPT !.txop = Spend(e)]
      Update(force, g) == IF force THEN g ELSE UpdateFailedCw(a, g)
  IN
  /\ e.pedcaTriggerCount <= MaxTrigger
  /\ \E force, drop \in BOOLEAN :
       LET q == IF drop THEN queue[a] - 1 ELSE queue[a] IN
       /\ queue' = [queue EXCEPT ![a] = q]
       /\ \/ /\ initialFrame[l]
             /\ ent' = [ent EXCEPT ![l] =
                          [E EXCEPT ![a] = Releases(l, a, Update(force, f), TRUE, q)]]
             /\ reqEvent' = [reqEvent EXCEPT ![l] =
                               @ \cup RequestsAgain(a, f, TRUE, q)]
             /\ phase' = [phase EXCEPT ![l] = "idle"]
             /\ edca' = [edca EXCEPT ![l] = None]
             /\ UNCHANGED backingOff
          \/ /\ ~initialFrame[l] /\ PifsRecoveryOn
             /\ ent' = [ent EXCEPT ![l] = [E EXCEPT ![a] = f]]
             /\ phase' = [phase EXCEPT ![l] = recovery]
             /\ UNCHANGED <<reqEvent, edca, backingOff>>
          \/ /\ ~initialFrame[l] /\ ~PifsRecoveryOn
             /\ ent' = [ent EXCEPT ![l] =
                          [E EXCEPT ![a] = Update(force, BackoffInTxop(l, a, f))]]
             /\ reqEvent' = [reqEvent EXCEPT ![l] =
                               @ \cup (IF HasFramesToTransmit(q) THEN {a} ELSE {})]
             /\ phase' = [phase EXCEPT ![l] = "idle"]
             /\ edca' = [edca EXCEPT ![l] = None]
             /\ backingOff' = [backingOff EXCEPT ![l] = a]
  /\ initialFrame' = [initialFrame EXCEPT ![l] = FALSE]
  /\ UNCHANGED accEvent

\* The response is missing: NormalAckTimeout, CtsTimeout or BlockAckTimeout.
TransmissionFailed(l) ==
  /\ phase[l] = "frame"
  /\ Fail(l, ent[l], "pifs")

----------------------------------------------------------------------------
(***************************************************************************)
(* Events of the PHY.                                                      *)
(***************************************************************************)
\* Fault: every EDCAF without backoff slots generates one.
CcaBusyForAll(l) ==
  /\ ProactiveOn
  /\ phase[l] \notin {"cts", "cfend"}
  /\ \E S \in SUBSET ACs :
       ent' = [ent EXCEPT ![l] = [a \in ACs |->
                 IF a \in S THEN GenerateBackoff(l, a, ent[l][a]) ELSE ent[l][a]]]
  /\ UNCHANGED <<queue, reqEvent, accEvent, phase, edca, backingOff, initialFrame>>

\* NotifyCcaBusyStartNow with ProactiveBackoff: the EDCAFs in S, that are not
\* granted access and have no backoff slots left, generate a new backoff.
CcaBusy(l) ==
  /\ ProactiveOn
  /\ phase[l] \notin {"cts", "cfend"}
  /\ \E S \in SUBSET {a \in ACs : ent[l][a].access # "GRANTED"} :
       ent' = [ent EXCEPT ![l] = [a \in ACs |->
                 IF a \in S THEN GenerateBackoff(l, a, ent[l][a]) ELSE ent[l][a]]]
  /\ UNCHANGED <<queue, reqEvent, accEvent, phase, edca, backingOff, initialFrame>>

AllReset(l) == [a \in ACs |-> ResetBackoff(a, ent[l][a])]

\* NotifySwitchingStartNow: all the backoffs are reset, and the response that a
\* frame exchange waits for times out at once.  A PIFS recovery started while the
\* PHY switches finds the medium busy.  Switching while another event of the TXOP
\* is scheduled is not modelled.
ChannelSwitch(l) ==
  /\ SwitchOn
  /\ \/ /\ phase[l] = "idle"
        /\ ent' = [ent EXCEPT ![l] = AllReset(l)]
        /\ UNCHANGED <<queue, reqEvent, accEvent, phase, edca, backingOff, initialFrame>>
     \/ /\ phase[l] = "frame"
        /\ Fail(l, AllReset(l), "lost")

----------------------------------------------------------------------------
Exchange(l) ==
  \/ SifsElapsed(l)
  \/ PifsRecovery(l)
  \/ PifsRecoveryFails(l)
  \/ PedcaCtsEnd(l)
  \/ CfEndDone(l)
  \/ TransmissionSucceeded(l)
  \/ TransmissionFailed(l)

Next ==
  \/ \E a \in ACs : Enqueue(a) \/ Expire(a)
  \/ \E l \in Links, a \in ACs :
       StartAccessAfterEvent(l, a) \/ RequestAccess(l, a) \/ GrantAccess(l, a)
  \/ \E l \in Links : Exchange(l) \/ CcaBusy(l) \/ ChannelSwitch(l)

Spec == Init /\ [][Next]_vars

----------------------------------------------------------------------------
(***************************************************************************)
(* Safety.                                                                 *)
(***************************************************************************)
\* The TXOP holder of link l, unless its TXOP is about to be terminated because
\* the PHY switches channel.
Holds(l, a) == phase[l] \notin {"idle", "lost"} /\ edca[l] = a

\* A P-EDCA round never sends more CTS-to-self frames than PsrcThreshold: every
\* way back to the CTS path goes through the test of GenerateBackoff.
PsrcBudget ==
  \A l \in Links, a \in ACs : ent[l][a].psrc <= PsrcThreshold

\* A CTS-to-self is only ever due for an EDCAF that may run P-EDCA, is in P-EDCA
\* mode, has not sent one since its last data failure and has budget left.
PendingCtsIsDue ==
  \A l \in Links, a \in ACs :
    LET e == ent[l][a] IN
    e.pedcaCtsPending => /\ PedcaCapable(l, a)
                         /\ e.pedcaMode
                         /\ ~e.pedcaAfterCts
                         /\ e.psrc < PsrcThreshold

\* StartTransmission consumes pedcaCtsPending before it looks at the TXOP, so an
\* EDCAF that holds the channel must never have a CTS-to-self pending: it would
\* be sent in the middle of the TXOP and reset the TXOP start time.
NoCtsInTxop ==
  \A l \in Links, a \in ACs : Holds(l, a) => ~ent[l][a].pedcaCtsPending

\* The EDCAF whose exchange the frame exchange manager runs is the one, and the
\* only one, that the channel access manager regards as granted.
GrantedIffHolder ==
  \A l \in Links, a \in ACs : ent[l][a].access = "GRANTED" <=> Holds(l, a)

\* startTxop has a value only while the EDCAF is using the channel or backs off
\* within its TXOP; otherwise its next grant is taken for a continuation.
OpenTxopIsKnown ==
  \A l \in Links, a \in ACs :
    ent[l][a].txop # NoTxop => \/ phase[l] # "idle" /\ edca[l] = a
                               \/ backingOff[l] = a

\* The post-CTS contention belongs to a round that has sent a CTS-to-self.
AfterCtsFollowsCts ==
  \A l \in Links, a \in ACs :
    ent[l][a].pedcaAfterCts => ent[l][a].pedcaMode /\ ent[l][a].psrc > 0

\* The window of an EDCAF never lags behind its retry counter, although
\* ResetPedcaCounters clears the counter without the window.
CwCoversRetries ==
  \A l \in Links, a \in ACs :
    LET e == ent[l][a] IN
    CwAfter(a, e.staRetryCount) <= e.cw /\ e.cw <= CwMax[a]

\* No MPDU is in flight on two links: the links send distinct queued MPDUs.
InFlightIsQueued ==
  \A a \in ACs : InFlight(a, Links) <= queue[a]

\* A device with an MPDU to send always has somebody working on it: some link
\* contends for it, sends or is about to request the channel.
NoLostWakeup ==
  \A a \in ACs :
    queue[a] > 0 => \E l \in Links : \/ ent[l][a].access # "NOT_REQUESTED"
                                     \/ a \in reqEvent[l]
                                     \/ accEvent[l][a] # "none"

(***************************************************************************)
(* What the assertions and comments of the code say, and the code does not *)
(* ensure for every setting of its attributes.                             *)
(***************************************************************************)
\* The next call of StartTransmission by a finds it backing off in its TXOP.
ResumesTxop(l, a) ==
  backingOff[l] = a /\ Contends(l, a) /\ ~ent[l][a].pedcaCtsPending

\* NS_ASSERT(m_edca->GetTxopStartTime(m_linkId)) in StartTransmission.
BackingOffHasTxop ==
  \A l \in Links, a \in ACs : ResumesTxop(l, a) => ent[l][a].txop # NoTxop

(***************************************************************************)
(* What a step may never do.                                               *)
(***************************************************************************)
\* Leaving P-EDCA mode clears the whole round, on success and at the threshold.
RoundEndsClean ==
  [][\A l \in Links, a \in ACs :
       PedcaCapable(l, a) /\ ent[l][a].pedcaMode /\ ~ent'[l][a].pedcaMode
       => /\ ent'[l][a].psrc = 0
          /\ ent'[l][a].pedcaTriggerCount = 0
          /\ ~ent'[l][a].pedcaCtsPending
          /\ ~ent'[l][a].pedcaAfterCts]_vars

\* The comments of SendPedcaCtsAndRecontend: after the CTS-to-self the EDCAF
\* contends once for its data, and falls back to plain EDCA if that fails.  The
\* round is thus still open when the CTS-to-self ends.
CtsKeepsRoundOpen ==
  [][\A l \in Links : phase[l] = "cts" /\ phase'[l] = "idle"
                       => ent'[l][edca[l]].pedcaMode]_vars

(***************************************************************************)
(* The procedure of each EDCAF implements PedcaRounds.                     *)
(***************************************************************************)
Stage(e) == CASE e.pedcaCtsPending -> "due"
              [] ~e.pedcaCtsPending /\ e.pedcaAfterCts -> "protected"
              [] ~e.pedcaCtsPending /\ ~e.pedcaAfterCts /\ e.pedcaMode -> "selected"
              [] OTHER -> "edca"

Rounds == INSTANCE PedcaRounds
            WITH Edcafs <- Links \X ACs,
                 Budget <- PsrcThreshold,
                 AtOnce <- QsrcThreshold = 0,
                 stage  <- [x \in Links \X ACs |-> Stage(ent[x[1]][x[2]])],
                 sent   <- [x \in Links \X ACs |-> ent[x[1]][x[2]].psrc]

\* Every EDCAF goes through P-EDCA rounds as PedcaRounds allows.
ImplementsRounds == Rounds!Spec

(***************************************************************************)
(* Liveness.  Scheduled events happen, every exchange has an outcome, and  *)
(* an EDCAF that contends again and again wins at last: the medium is idle *)
(* for an AIFS and the remaining backoff slots often enough.               *)
(***************************************************************************)
Fairness ==
  /\ \A l \in Links :
       /\ WF_vars(SifsElapsed(l))
       /\ WF_vars(PifsRecovery(l) \/ PifsRecoveryFails(l))
       /\ WF_vars(PedcaCtsEnd(l))
       /\ WF_vars(CfEndDone(l))
       /\ WF_vars(TransmissionSucceeded(l) \/ TransmissionFailed(l))
  /\ \A l \in Links, a \in ACs :
       /\ WF_vars(StartAccessAfterEvent(l, a))
       /\ WF_vars(RequestAccess(l, a))
       /\ SF_vars(GrantAccess(l, a))

LiveSpec == Spec /\ Fairness

\* However the exchanges go, a P-EDCA round comes to its end unless the EDCAF
\* runs out of frames: the budget is spent or an exchange succeeds.
RoundTerminates ==
  \A l \in Links, a \in ACs :
    PedcaCapable(l, a) =>
      (ent[l][a].pedcaMode ~> (~ent[l][a].pedcaMode \/ queue[a] = 0))

\* Every use of the channel ends: recoveries and continuations of a TXOP are
\* limited by the time left in it.
ChannelIsReleased ==
  \A l \in Links : phase[l] # "idle" ~> phase[l] = "idle"

\* A queued MPDU is worked off: CTS-to-self frames delay the data exchange but
\* do not replace it.
BacklogIsServed ==
  \A a \in ACs :
    queue[a] > 0 ~> \/ queue[a] = 0
                    \/ \E l \in Links : phase[l] = "frame" /\ edca[l] = a
=============================================================================
