---------------------------- MODULE ChannelAccess ----------------------------
(***************************************************************************)
(* The channel access manager of one link with its EDCAFs: the lazy        *)
(* countdown of the backoff counters over slots, AIFS and EIFS, the access *)
(* timer, and the grant of access with internal collisions, while the PHY  *)
(* reports receptions, transmissions and CCA busy periods and the NAV is   *)
(* set and reset.                                                          *)
(*                                                                         *)
(* Time is in units and relative to the current instant: now is 0, the     *)
(* past is negative and time passes by subtracting one from every time.    *)
(* The events of one instant may happen in any order; time passes when no  *)
(* event is due.  A TXOP is one transmission of TxTime, with a wait for an *)
(* Ack or without a response (a group addressed or No Ack frame, a         *)
(* CTS-to-self, a CF-End).  The size of the contention window is not kept: *)
(* a backoff is any number of slots up to MaxBackoff.                      *)
(***************************************************************************)
EXTENDS Integers, FiniteSets, FiniteSetsExt

CONSTANTS
  NumEdcafs,     \* EDCAFs, 1 has the highest priority
  Aifsn,         \* AIFSN of each EDCAF
  Sifs, Slot,    \* SIFS and slot time
  EifsNoDifs,    \* what a failed reception adds to the wait
  TxTime,        \* duration of a transmission
  AckDelay,      \* SIFS, slot and PHY header: the Ack timeout after it
  MaxBackoff,    \* slots a backoff is drawn from (bound)
  MaxFrames,     \* frames an EDCAF has queued, at most (bound)
  BusyTimes      \* durations of receptions, CCA busy periods and NAV (bound)

Edcafs == 1 .. NumEdcafs

ASSUME ChannelAccessAssumption ==
  /\ NumEdcafs \in Nat \ {0} /\ Aifsn \in [Edcafs -> Nat \ {0}]
  /\ {Sifs, Slot, TxTime, AckDelay} \subseteq Nat \ {0}
  /\ {EifsNoDifs, MaxBackoff, MaxFrames} \subseteq Nat
  /\ BusyTimes \subseteq Nat \ {0}

VARIABLES
  edcaf,      \* the EDCAFs: access status, backoff slots and start, frames
  medium,     \* ends of the last busy, RX, TX, NAV and Ack timeout periods,
              \* whether the last reception was good, the response timer runs
  timer,      \* time of the pending access timeout, or NoTimer
  receiving,  \* whether the PHY is in RX
  counter     \* history: backoff counters decremented at every slot boundary

vars == <<edcaf, medium, timer, receiving, counter>>

NoTimer == -1
Draws == 0 .. MaxBackoff

\* What a call of the manager changes, as a record.
Manager == [edcaf |-> edcaf, medium |-> medium, timer |-> timer, counter |-> counter]

Becomes(m) ==
  /\ edcaf' = m.edcaf /\ medium' = m.medium /\ timer' = m.timer /\ counter' = m.counter

\* Every EDCAF draws a backoff when it is initialized.
Init ==
  /\ timer = NoTimer /\ receiving = FALSE
  /\ counter \in [Edcafs -> Draws]
  /\ edcaf = [a \in Edcafs |-> [access |-> "NOT_REQUESTED", slots |-> counter[a],
                               start |-> 0, frames |-> 0]]
  /\ medium = [busyEnd |-> 0, rxEnd |-> 0, rxOk |-> TRUE, txEnd |-> 0, navEnd |-> 0,
               ackEnd |-> 0, waiting |-> FALSE]

----------------------------------------------------------------------------
(***************************************************************************)
(* When access may be granted and when backoffs start and end.             *)
(***************************************************************************)
\* Fault: the wait for the Ack does not keep others from access.
AccessGrantStartWithoutAck(m) ==
  LET rx == IF m.medium.rxEnd <= 0 /\ ~m.medium.rxOk THEN m.medium.rxEnd + EifsNoDifs
            ELSE m.medium.rxEnd
  IN Sifs + Max({m.medium.busyEnd, rx, m.medium.txEnd, m.medium.navEnd})

AccessGrantStart(m) ==
  LET rx == IF m.medium.rxEnd <= 0 /\ ~m.medium.rxOk THEN m.medium.rxEnd + EifsNoDifs
            ELSE m.medium.rxEnd
  IN Sifs + Max({m.medium.busyEnd, rx, m.medium.txEnd, m.medium.navEnd, m.medium.ackEnd})

AifsEnd(m, a) == AccessGrantStart(m) + Aifsn[a] * Slot
BackoffStart(m, a) == Max({m.edcaf[a].start, AifsEnd(m, a)})
BackoffEnd(m, a) == BackoffStart(m, a) + m.edcaf[a].slots * Slot

IsBusy == Max({medium.rxEnd, medium.txEnd, medium.navEnd, medium.busyEnd}) > 0

\* Fault: the slots that passed are subtracted although fewer were left.
UpdateBackoffUnderflows(m) ==
  [m EXCEPT !.edcaf = [a \in Edcafs |->
     LET start == BackoffStart(m, a)
         n == (-start) \div Slot + 1
     IN IF start <= 0 THEN [@[a] EXCEPT !.slots = @ - n, !.start = start + n * Slot] ELSE @[a]]]

\* One slot more than those that passed since the backoff start: an EDCAF
\* decrements at the end of the AIFS, too.
UpdateBackoff(m) ==
  [m EXCEPT !.edcaf = [a \in Edcafs |->
     LET start == BackoffStart(m, a)
         n == Min({(-start) \div Slot + 1, m.edcaf[a].slots})
     IN IF start <= 0 THEN [m.edcaf[a] EXCEPT !.slots = m.edcaf[a].slots - n, !.start = start + n * Slot]
        ELSE m.edcaf[a]]]

\* Fault: no timer is set while the medium is busy.
RestartOnlyWhenIdle(m) ==
  LET ends == {BackoffEnd(m, a) : a \in {b \in Edcafs : m.edcaf[b].access = "REQUESTED"}}
      future == {t \in ends : t > 0}
  IN IF future = {} \/ m.timer \in 0 .. Min(future) \/ AccessGrantStart(m) > 0 THEN m
     ELSE [m EXCEPT !.timer = Min(future)]

\* DoRestartAccessTimeoutIfNeeded.
RestartAccessTimeout(m) ==
  LET ends == {BackoffEnd(m, a) : a \in {b \in Edcafs : m.edcaf[b].access = "REQUESTED"}}
      future == {t \in ends : t > 0}
  IN IF future = {} \/ m.timer \in 0 .. Min(future) THEN m
     ELSE [m EXCEPT !.timer = Min(future)]

GenerateBackoff(m, a, n) ==
  [m EXCEPT !.edcaf[a].slots = n, !.edcaf[a].start = 0, !.counter[a] = n]

----------------------------------------------------------------------------
(***************************************************************************)
(* Requesting and granting access.                                         *)
(***************************************************************************)
Ready(m, a) == m.edcaf[a].access = "REQUESTED" /\ BackoffEnd(m, a) <= 0

\* If the frame needs a response its timer is started first.  A failed reception
\* is forgotten, and a running one ended, before the slots are brought up to date:
\* where that ends an EIFS with its AIFS early, slots are counted that never passed,
\* and the reference countdown goes on from what they leave.
NotifyTxStartNow(m, response) ==
  LET c == [m EXCEPT !.medium.rxOk = TRUE, !.medium.rxEnd = IF @ > 0 THEN 0 ELSE @,
                     !.medium.ackEnd = IF response THEN TxTime + AckDelay ELSE @,
                     !.medium.waiting = response]
      u == UpdateBackoff(c)
  IN [u EXCEPT !.medium.txEnd = TxTime,
               !.counter = [a \in Edcafs |-> IF AifsEnd(m, a) > 0 /\ AifsEnd(c, a) <= 0
                                             THEN u.edcaf[a].slots ELSE @[a]]]

\* NotifyChannelReleased: an EDCAF draws a backoff and, if it has frames, requests
\* access in an event of the same instant; the medium is not free before a SIFS.
Release(m, a, n) ==
  [GenerateBackoff(m, a, n) EXCEPT
     !.edcaf[a].access = IF m.edcaf[a].frames > 0 THEN "REQUESTED" ELSE "NOT_REQUESTED"]

Able(m) == {a \in Edcafs : Ready(m, a) /\ m.edcaf[a].frames > 0}
Granting(m) == AccessGrantStart(m) <= 0 /\ Able(m) # {}

\* Those that are ready after the EDCAF that transmits.
Colliding(m) == IF Granting(m) THEN {a \in Edcafs : Ready(m, a) /\ a > Min(Able(m))} ELSE {}

\* EDCAFs found without frames stop requesting, the first one that has frames
\* transmits, and those of lower priority collide with it and draw a backoff.
DoGrantDcfAccess(m, draw, response) ==
  LET winner == Min(Able(m))
      idle == {a \in Edcafs : AccessGrantStart(m) <= 0 /\ Ready(m, a)
                                /\ (Able(m) = {} \/ a < winner)}
      after == [m EXCEPT !.edcaf = [a \in Edcafs |->
                  IF a \in idle THEN [m.edcaf[a] EXCEPT !.access = "NOT_REQUESTED", !.start = 0]
                  ELSE m.edcaf[a]]]
      sent == NotifyTxStartNow([after EXCEPT !.edcaf[winner].access = "GRANTED"], response)
  IN IF Granting(m)
       THEN [sent EXCEPT
               !.edcaf = [a \in Edcafs |->
                            IF a \in Colliding(m) THEN Release(sent, a, draw[a]).edcaf[a]
                            ELSE sent.edcaf[a]],
               !.counter = [a \in Edcafs |->
                              IF a \in Colliding(m) THEN draw[a] ELSE sent.counter[a]]]
       ELSE after

\* DoGrantDcfAccess and DoRestartAccessTimeoutIfNeeded.
GrantAndRestart(m) ==
  \E draw \in [Colliding(m) -> Draws], response \in BOOLEAN :
    Becomes(RestartAccessTimeout(DoGrantDcfAccess(m, draw, response)))

\* A backoff start after the end of the AIFS is moved to the next slot boundary.
Align(m, a) ==
  LET diff == m.edcaf[a].start - AifsEnd(m, a)
  IN IF diff <= 0 THEN m
     ELSE [m EXCEPT !.edcaf[a].start = AifsEnd(m, a) + ((diff + Slot - 1) \div Slot) * Slot]

RequestAccess(m, a) ==
  GrantAndRestart([UpdateBackoff(Align(m, a)) EXCEPT !.edcaf[a].access = "REQUESTED"])

\* An EDCAF that had no frames uses immediate access if the medium is idle.
NeedBackoffUponAccess(m, a, had, n) ==
  LET u == UpdateBackoff(m)
  IN IF had \/ u.edcaf[a].slots > 0 THEN u
     ELSE IF IsBusy THEN GenerateBackoff(u, a, n)
     ELSE [u EXCEPT !.edcaf[a].start = 0]

\* An MPDU is queued: Queue and StartAccessAfterEvent.
Queue(a, n) ==
  /\ edcaf[a].frames < MaxFrames
  /\ LET q == [Manager EXCEPT !.edcaf[a].frames = @ + 1]
     IN IF edcaf[a].access # "NOT_REQUESTED" THEN Becomes(q)
        ELSE RequestAccess(NeedBackoffUponAccess(q, a, edcaf[a].frames > 0, n), a)
  /\ UNCHANGED receiving

\* The queued frames of an EDCAF that holds no TXOP exceed their lifetime.
Expire(a) ==
  /\ edcaf[a].frames > 0 /\ edcaf[a].access # "GRANTED"
  /\ edcaf' = [edcaf EXCEPT ![a].frames = 0]
  /\ UNCHANGED <<medium, timer, receiving, counter>>

AccessTimeout ==
  /\ timer = 0
  /\ GrantAndRestart(UpdateBackoff([Manager EXCEPT !.timer = NoTimer]))
  /\ UNCHANGED receiving

----------------------------------------------------------------------------
(***************************************************************************)
(* The PHY and the NAV.                                                    *)
(***************************************************************************)
Holders == {a \in Edcafs : edcaf[a].access = "GRANTED"}
Transmitting == medium.txEnd > 0

\* The response timer runs.
Waiting == Holders # {} /\ medium.waiting

\* A holder that waits for a response restarts its timer for the reception.
NotifyRxStartNow(d) ==
  /\ ~receiving /\ ~Transmitting
  /\ LET m == UpdateBackoff(Manager)
         r == [m EXCEPT !.medium.rxEnd = d, !.medium.rxOk = TRUE]
     IN Becomes(IF ~Waiting THEN r
                ELSE RestartAccessTimeout([r EXCEPT !.medium.ackEnd = 0]))
  /\ receiving' = TRUE

\* The EDCAF that holds the TXOP releases it; sent, its frame is dequeued.
EndTxop(m, a, sent, n) ==
  LET d == IF sent THEN [m EXCEPT !.edcaf[a].frames = @ - 1] ELSE m
  IN RestartAccessTimeout(Release([d EXCEPT !.medium.waiting = FALSE], a, n))

\* The reception ends at the announced time.  A holder got its Ack, or its
\* timer expires.
RxEnd(ok, isAck, n) ==
  /\ receiving /\ medium.rxEnd = 0
  /\ isAck => ok /\ Waiting
  /\ LET m == [Manager EXCEPT !.medium.rxOk = ok]
     IN Becomes(IF ~Waiting THEN m
                ELSE EndTxop([m EXCEPT !.medium.ackEnd = IF isAck THEN 0 ELSE @],
                             Min(Holders), isAck, n))
  /\ receiving' = FALSE

NotifyRxEndOkNow(isAck, n) == RxEnd(TRUE, isAck, n)
NotifyRxEndErrorNow(n) == RxEnd(FALSE, FALSE, n)

\* The response timer expires: nothing was received.
ResponseTimeout(n) ==
  /\ Waiting /\ ~receiving /\ medium.ackEnd = 0
  /\ Becomes(EndTxop(Manager, Min(Holders), FALSE, n))
  /\ UNCHANGED receiving

\* A transmission without a response ends: a frame that was sent leaves the queue
\* (a No Ack frame left it when it was handed down, which nothing depends on), a
\* CTS-to-self or a CF-End is not in it.
TransmissionDone(sent, n) ==
  /\ Holders # {} /\ ~medium.waiting /\ medium.txEnd = 0
  /\ Becomes(EndTxop(Manager, Min(Holders), sent, n))
  /\ UNCHANGED receiving

\* Fault: the slots that passed are not counted before the busy period.
CcaBusyWithoutUpdate(d) ==
  /\ d > medium.busyEnd
  /\ Becomes([Manager EXCEPT !.medium.busyEnd = d])
  /\ UNCHANGED receiving

NotifyCcaBusyStartNow(d) ==
  /\ d > medium.busyEnd
  /\ Becomes([UpdateBackoff(Manager) EXCEPT !.medium.busyEnd = d])
  /\ UNCHANGED receiving

\* An OBSS PD reset ends a CCA busy period before its time (SwitchFromRxAbort).
CcaReset ==
  /\ medium.busyEnd > 0 /\ ~receiving /\ ~Transmitting
  /\ LET r == [Manager EXCEPT !.medium.rxEnd = 0, !.medium.rxOk = TRUE]
     IN Becomes([UpdateBackoff(r) EXCEPT !.medium.busyEnd = 0])
  /\ UNCHANGED receiving

NotifyNavStartNow(d) ==
  /\ Becomes([UpdateBackoff(Manager) EXCEPT !.medium.navEnd = Max({@, d})])
  /\ UNCHANGED receiving

NotifyNavResetNow ==
  /\ medium.navEnd > 0
  /\ Becomes(RestartAccessTimeout([UpdateBackoff(Manager) EXCEPT !.medium.navEnd = 0]))
  /\ UNCHANGED receiving

----------------------------------------------------------------------------
AtBoundary(m, a, t) == t >= AifsEnd(m, a) /\ (t - AifsEnd(m, a)) % Slot = 0

(***************************************************************************)
(* Times in the past are kept as far as they matter: of the periods that   *)
(* are over only the one that ended last does, and a backoff start only    *)
(* after the AIFS; when that was so long ago that every backoff is over,   *)
(* times age by whole slots.                                               *)
(***************************************************************************)
Oldest == -(Sifs + EifsNoDifs + Slot * (2 + MaxBackoff + Max({Aifsn[a] : a \in Edcafs})))
LatestEnd == AccessGrantStart(Manager) - Sifs
Aged(t) ==
  LET step == IF LatestEnd - 1 < Oldest + EifsNoDifs THEN Slot - 1 ELSE -1
  IN Max({t + step, Oldest})
AgedEnd(t) == IF t <= 0 /\ t < LatestEnd THEN Oldest ELSE Aged(t)
AgedRxEnd ==
  IF medium.rxOk \/ medium.rxEnd + EifsNoDifs < LatestEnd THEN AgedEnd(medium.rxEnd)
  ELSE Aged(medium.rxEnd)

AgedStart(a) ==
  IF edcaf[a].start <= 0 /\ edcaf[a].start <= AifsEnd(Manager, a) THEN Oldest
  ELSE Aged(edcaf[a].start)

\* Time passes, and in the reference countdown every EDCAF whose slot boundary
\* is reached decrements its counter.
Tick ==
  /\ timer # 0
  /\ receiving => medium.rxEnd > 0
  /\ Waiting /\ ~receiving => medium.ackEnd > 0
  /\ Holders # {} /\ ~medium.waiting => medium.txEnd > 0
  /\ edcaf' = [a \in Edcafs |-> [edcaf[a] EXCEPT !.start = AgedStart(a)]]
  /\ medium' = [busyEnd |-> AgedEnd(medium.busyEnd), txEnd |-> AgedEnd(medium.txEnd),
                navEnd |-> AgedEnd(medium.navEnd), ackEnd |-> AgedEnd(medium.ackEnd),
                rxEnd |-> AgedRxEnd, rxOk |-> medium.rxOk, waiting |-> medium.waiting]
  /\ timer' = IF timer = NoTimer THEN NoTimer ELSE timer - 1
  /\ counter' = [a \in Edcafs |->
       IF counter[a] > 0 /\ AtBoundary(Manager, a, 1) THEN counter[a] - 1 ELSE counter[a]]
  /\ UNCHANGED receiving

Next ==
  \/ Tick
  \/ \E d \in BusyTimes :
       NotifyRxStartNow(d) \/ NotifyCcaBusyStartNow(d) \/ NotifyNavStartNow(d)
  \/ CcaReset \/ NotifyNavResetNow \/ AccessTimeout
  \/ \E a \in Edcafs : Expire(a)
  \/ \E n \in Draws :
       \/ ResponseTimeout(n) \/ NotifyRxEndErrorNow(n)
       \/ \E isAck \in BOOLEAN : NotifyRxEndOkNow(isAck, n)
       \/ \E sent \in BOOLEAN : TransmissionDone(sent, n)
       \/ \E a \in Edcafs : Queue(a, n)

Spec == Init /\ [][Next]_vars

----------------------------------------------------------------------------
\* Type invariant.
TypeOK ==
  /\ timer \in Nat \cup {NoTimer} /\ receiving \in BOOLEAN
  /\ counter \in [Edcafs -> Draws]
  /\ edcaf \in [Edcafs -> [access : {"NOT_REQUESTED", "REQUESTED", "GRANTED"},
                           slots : Draws, start : Int, frames : 0 .. MaxFrames]]

\* The lazy countdown is exact: bringing the slots up to date at any time gives the
\* counter that is decremented at every slot boundary of the idle medium, whatever
\* busy periods, resets, failed receptions and earlier updates there were; only a
\* transmission of this station that cuts an EIFS short makes both skip slots
\* (UpdateBackoff).
CountdownIsExact == \A a \in Edcafs : UpdateBackoff(Manager).edcaf[a].slots = counter[a]

\* At most one EDCAF of the link holds a TXOP: the gaps of a frame exchange do
\* not let the backoff of another EDCAF end (NotifyAckTimeoutStartNow).
OneHolder == Cardinality(Holders) <= 1

\* An EDCAF that requested access and does not have it has an access timeout
\* ahead (DoRestartAccessTimeoutIfNeeded).
NoLostRequest == \A a \in Edcafs : edcaf[a].access = "REQUESTED" => timer # NoTimer
=============================================================================
