# A TLA+ model of the Wi-Fi MAC of ns-3 with P-EDCA

The repository is ns-3 with an implementation of *Prioritized EDCA* (P-EDCA) of
IEEE 802.11bn (UHR) added to its Wi-Fi module: an AC_VO EDCAF whose exchanges
keep failing sends a CTS-to-self with a shortened AIFS (DSAIFS) and then contends
for its data exchange under the protection of that frame.  This directory holds
TLA+ modules for P-EDCA and for the protocols of the MAC around it -- channel
access, block ack, its set-up, and association --, TLC configurations that check
them on small instances, and proofs that TLAPS checks for every size.

Paths below are relative to `src/src/wifi/model/` of this repository unless they
start with `src/`.

## 1. Inventory

### Components, their state and operations

| component | state | operations | what makes it correct |
|---|---|---|---|
| EDCAF: `Txop`, `QosTxop` | per link: `access`, `cw`, `staRetryCount`, `backoffSlots`, `startTxop`/`txopDuration`, P-EDCA: `pedcaTriggerCount`, `psrc`, `pedcaMode`, `pedcaCtsPending`, `pedcaAfterCts` | `Queue`, `StartAccessAfterEvent`, `RequestAccess`, `GenerateBackoff`, `NotifyChannelAccessed`, `NotifyChannelReleased`, `UpdateFailedCw`, `ResetCw`, `IncrementPedcaTriggerCount`, `ResetPedcaCounters` | CW follows QSRC; a backlog always has a request or an exchange; P-EDCA rounds are bounded and end clean |
| QoS frame exchange manager (per link) | `m_edca`, `m_edcaBackingOff`, `m_initialFrame`, `m_pifsRecoveryEvent`, TXNAV | `StartTransmission`, `StartFrameExchange`, `SendPedcaCtsAndRecontend`, `TransmissionSucceeded`, `TransmissionFailed`, `PifsRecovery`, `CancelPifsRecovery`, `SendCfEndIfNeeded` | one TXOP holder per link; the TXOP ends and the channel is released; nothing interrupts a TXOP |
| Frame exchange manager | `m_txTimer`, `m_mpdu`, NAV | send with protection, ack and timeout, `NotifyInternalCollision`, `NotifySwitchingStartNow` | each exchange has one outcome; an MPDU is dequeued once |
| Channel access manager (per link) | last busy/NAV/timeout ends, `m_txops`, `m_accessTimeout` | `RequestAccess`, `DoGrantDcfAccess`, `NeedBackoffUponAccess`, `NotifyCcaBusyStartNow`, `NotifySwitchingStartNow` | a requested EDCAF is granted at most once per backoff; the highest priority wins |
| MAC queue and scheduler | queued MPDUs, in-flight links, lifetimes, blocked queues | enqueue, peek, dequeue, expire, block/unblock | no MPDU is sent on two links; expiry spares MPDUs in flight; every MPDU leaves |
| Block ack (originator, recipient) | transmit window, queue of in flight MPDUs, BAR queues; scoreboard, reordering buffer | store, ack, missed ack, block ack, BAR, discard; receive, pass up | in-order delivery without duplicates, modulo 4096; what is acknowledged was received; nothing is stranded on either side |
| Block ack set-up | agreement state, response, reset and inactivity timers, blocked destination | ADDBA request/response, DELBA, no reply, reset | the handshake ends; both sides agree; the destination is unblocked |
| Station association | `m_state`, BSSID, AID, candidate list, scan, request and beacon timers | scan, associate, timeouts, missed beacons, channel switch | a request has a BSSID; association is retried for ever |
| AP MAC, remote station manager | AIDs and association state of a station, queued responses | association request, response, TxOk, TxFailed | both sides agree on association and AID |
| HE/EHT frame exchange managers, EMLSR | multi-user and multi-link state | trigger frames, EMLSR switching | -- |
| PHY, rate control, frame formats | signal and format processing | -- | -- |
| Simulator core and the other ns-3 models | event queue; LTE, LR-WPAN, mesh, TCP/IP ... | -- | upstream code |

`PROJECT.json` lists every component with what is modelled of it and why the rest
is not, and the hazards of the code at the lines where they bite.

### How they interact

`Txop::Queue` schedules one `StartAccessAfterEvent` per link; that, or a
`RequestAccess` event scheduled by a release, calls the channel access manager,
which grants access in `DoGrantDcfAccess` and calls
`QosFrameExchangeManager::StartTransmission`.  EDCAFs that were ready at the same
slot are notified of an internal collision if the winner transmitted.  The frame
exchange manager reports back through `TransmissionSucceeded`/`Failed`, releases
the EDCAF (`NotifyChannelReleased`), which generates a backoff -- where the P-EDCA
decisions are taken -- and schedules the next request.  All links of a
multi-link device share the queue of each access category.

### What is hard

ns-3 runs one event at a time, so the difficulty is the *order* of events:
releases, scheduled requests, SIFS and PIFS continuations, the lambda at the end
of a CTS-to-self, CCA-busy notifications and channel switches interleave freely,
and the P-EDCA state of an EDCAF is written in five methods of two classes and
read in three others.  `pedcaCtsPending` is consumed before anything else is
looked at, `m_initialFrame` and `m_edcaBackingOff` are per link while TXOPs are
per EDCAF, and the access status doubles as "is the TXOP holder".

Block ack adds the unreliable medium: every MPDU, Ack, block ack and request may
be lost while MPDUs expire, reach their retry limit or are in flight on another
link, and one MPDU is tracked in four places (EDCA queue, in-flight links, queue
of in flight MPDUs, transmit window).  The set-up and the association are
handshakes with timers that are not cancelled when the attempt they belong to is
over.  The backoff countdown is lazy: it is brought up to date by whoever changes
what the medium looks like.

## 2. Modules

| module | models | form |
|---|---|---|
| `QosTxop` | `Txop::LinkEntity` + `QosTxop::QosLinkEntity` and the methods that change one entity | operators from entity to entity, no variables |
| `PedcaDevice` | a device: EDCAFs, channel access managers, frame exchange managers and the shared queues | the state machine, its properties, fairness |
| `PedcaRounds` | what the P-EDCA procedure promises | abstract specification implemented by `PedcaDevice` |
| `ChannelAccess` | the channel access manager of a link over slots | state machine with relative time |
| `SeqWindow` | `BlockAckWindow`, sequence number arithmetic, transmit window of `OriginatorBlockAckAgreement`; the order and filtering of containers | operators on windows |
| `BlockAckOriginator` | `BlockAckManager` as originator and the EDCA queue of the agreement | operators on a record |
| `BlockAckRecipient` | `RecipientBlockAckAgreement` and `MacRxMiddle` | operators on a record |
| `BlockAck` | frame exchanges of `HtFrameExchangeManager` over one or more links | composes the three modules above |
| `OrderedDelivery` | what a block ack agreement promises | abstract specification implemented by `BlockAck` |
| `AddBa` | set-up and tear-down of an agreement, both sides | state machine |
| `StaAssociation` | `StaWifiMac`, its association manager, and what APs keep about the station | state machine |
| `MCPedcaDevice`, `MCChannelAccess` | small instances | constants for TLC |
| `PedcaDevice_proofs` | theorems about one EDCAF: types, budget, P-EDCA flags, window, frames in flight | lemmas per operator and per action, theorems |
| `PedcaHolder_proofs` | theorems about a link and the device: who holds the channel, who is awake; `PedcaDevice` implements `PedcaRounds` | extends `PedcaDevice_proofs` |
| `BlockAck_proofs` | theorems about `BlockAck`: types, windows | lemmas per operator and per action, theorems |
| `BlockAckDelivery_proofs` | `BlockAck` implements `OrderedDelivery`; block acks report only what was received | extends `BlockAck_proofs` |
| `ChannelAccess_proofs`, `ChannelAccessCountdown_proofs` | theorems about `ChannelAccess`; the second, which extends the first, about the lazy countdown | lemmas about minima and slots, per operator and per action, theorems |
| `AddBa_proofs`, `StaAssociation_proofs` | theorems about `AddBa` and `StaAssociation` | lemmas per operator and per action, theorems |

### `PedcaDevice`: state

| TLA+ | code |
|---|---|
| `ent[l][a]` | `QosTxop::GetLink(l)` of the EDCAF of access category `a` |
| `ent[l][a].txop` | `startTxop` and what `GetRemainingTxop` returns, in abstract units; `NoTxop` while `startTxop` is empty |
| `queue[a]` | number of MPDUs in the queue of `a`, those in flight included |
| `reqEvent[l]` | EDCAFs with a scheduled `QosTxop::RequestAccess` |
| `accEvent[l][a]` | `accessRequest.event` with its argument `hadFramesToTransmit` |
| `phase[l]` | what the frame exchange manager waits for: `m_txTimer` (`frame`), the SIFS continuation (`sifs`), `m_pifsRecoveryEvent` (`pifs`, or `lost` if the PHY is switching), the lambda after a CTS-to-self (`cts`), the release after a CF-End (`cfend`), or nothing (`idle`) |
| `edca`, `backingOff`, `initialFrame` | `m_edca`, `m_edcaBackingOff`, `m_initialFrame` |

### `PedcaDevice`: actions

`Enqueue` = `Txop::Queue`; `Expire` = removal of expired MPDUs;
`StartAccessAfterEvent`, `RequestAccess` = the methods of those names;
`GrantAccess` = `DoGrantDcfAccess`, with the internal collisions it notifies
(`Collide`, `Settle`) and the PIFS recovery it may abort (`Preempted`); the
disjuncts of `StartTransmission` are the ways through the method of that name:
`SendPedcaCts`, `StartTxop`, `ContinueTxop`, `SendCfEnd`, `EndTxop`,
`NoFrameTransmitted`; `SifsElapsed`, `PifsRecovery`, `PifsRecoveryFails`,
`PedcaCtsEnd`, `CfEndDone` are the scheduled events; `TransmissionSucceeded` and
`TransmissionFailed` are the outcomes of an exchange together with the dequeue or
drop that precedes them; `CcaBusy` = `NotifyCcaBusyStartNow` with
`ProactiveBackoff`; `ChannelSwitch` = `NotifySwitchingStartNow`.

### `PedcaDevice`: abstractions

* Slots and times are not kept.  An EDCAF that requested the channel may be
  granted it at any time the link is idle (an over-approximation of every
  backoff value); the AIFS matters only for who can be fast enough to preempt a
  PIFS recovery.
* `txop` counts the units of time left in a TXOP; a failure or success takes a
  unit, and any more time may pass before the TXOP is continued.
* An exchange carries one MPDU; whether a failure drops it, and whether the
  contention window is updated (`forceCurrentCw`), is open.
* Statistics (`Record...`), logs, random TXOP limits, MU EDCA, RTS, fragments,
  BAR follow-ups, sleep/off and a channel switch in the middle of a SIFS, PIFS or
  CTS-to-self are left out.

### `ChannelAccess`

`medium` holds the ends of the last busy, RX, TX, NAV and Ack timeout periods
(`m_lastBusyEnd`, `m_lastRx`, `m_lastTx`, `m_lastNavEnd`, `m_lastAckTimeoutEnd`) and
whether the response timer runs (`m_txTimer`),
`edcaf` the access status, `backoffSlots`, `backoffStart` and the queued frames of
every EDCAF, `timer` the pending `m_accessTimeout`.  Times are relative to now, and
`Tick` subtracts one from all of them; past times that can no longer matter are
forgotten (`Oldest`, `AgedEnd`), which keeps the state space finite.  `Oldest` is far
enough back for an EIFS, the longest AIFS and every backoff slot to have passed since;
that nothing is lost by forgetting is part of what `CountdownIsExact` shows.  Actions are
the notifications of the PHY (`NotifyRxStartNow`, `NotifyRxEndOkNow`, ...), the NAV,
`Queue`, `AccessTimeout`, the response timeout and the end of a transmission without a
response; each is the whole handler with its `UpdateBackoff`, grant, internal
collisions and restart of the access timer.

A TXOP is one transmission, with a wait for its Ack (`NotifyAckTimeoutStartNow`
precedes the transmission) or without a response: a group addressed or No Ack frame, a
CTS-to-self, a CF-End.  `NotifyTxStartNow` forgets a failed reception and only then
brings the backoffs up to date, as the code does.  With a response nobody can count
slots then, because the end of the Ack timeout lies ahead; without one, an EDCAF whose
AIFS after an EIFS is still running counts the slots since its AIFS without the EIFS.

The history variable `counter` is the reference the lazy countdown is compared
with: it is decremented at every slot boundary of the idle medium, and goes on from what
is left of a backoff where `NotifyTxStartNow` cut its EIFS short.  This exception is part
of what `CountdownIsExact` says (see *Observations*).

A backoff is any number of slots: contention windows, longer TXOPs and P-EDCA are
`PedcaDevice`'s subject.  What the station sends a SIFS after something else (later
frames of a TXOP, the Acks and CTSs with which it responds) is left out; at such a moment
the AIFS of every EDCAF lies ahead, with an EIFS or without.  PIFS recovery, which
transmits at the end of an AIFS of one slot, is left out as well.  A No Ack frame leaves the
queue when it is handed down, in the model when it ends.  Sleep and off, channel widths,
EDCAFs disabled by MU EDCA and `m_nSlotsLeft` are left out.

### `BlockAck`

`orig` and `recip` are the records described in `BlockAckOriginator` and
`BlockAckRecipient`; `exch[l]` is the frame exchange of link `l`: an RTS answered by
`GotCts` or `CtsTimeout`; MPDUs on the air, each received or lost; a response that is
received (`GotResponse`) or not (`ResponseTimeout`).  `StartFrameExchange` is
`SendBar`, `StartData` or `StartNothing`, that is `GetBar`, `PeekNextMpdu` and the
aggregation with all they do to the queues on the way.  Expiry has two steps as in
the code: the MPDU leaves the queue (`WipeAllExpiredMpdus`, from every place that
calls it) and the `Expired` trace follows in an event of the same instant
(`FireExpired`).  A sequence number that has been assigned stays with its MPDU unless
`ReleaseSequenceNumbers` takes it back; even then the header keeps the number
(`WifiMpdu::UnassignSeqNo` clears a flag), so the model has both `seq` and `numbered`,
and an MPDU still on the air on another link arrives with the released number.  Left out: A-MSDUs, GCR, `BaThreshold`, RTS
before a BAR, the BAR that `TransmissionSucceeded` may append to a TXOP.

### `AddBa`

Management frames wait in `origQueue` and `recipQueue`; a transmission with its Ack
is one step with three outcomes (lost, received without Ack, acknowledged).  Timers
are counted (`responseTimers`, `resetTimers`) because none is ever cancelled.
Inactivity events are *known* while the agreement refers to them and *lost* once it
has overwritten the reference.  The responder accepts, as the code always does.

### `StaAssociation`

`sta` is the station and `ap[a]` what AP `a` keeps about it; see the comment at
`Init` for the fields.  `EndScanningNow` is the event scheduled for the current
instant and precedes everything else.  Assertions are not taken: the code runs on
after them as in an optimized build.  The order of the candidate list (SNR), the
moment a timer expires and the answer of the AP are open.  Left out: multi-link
set-up, power management, `EnableScanning` = false, other stations.

A definition preceded by a comment that starts with *Fault* is not used by the
specification: it is a plausible mistake in the definition below it, and the
properties are known to be violated when it takes that definition's place.

## 3. Runs

| run | instance | shows |
|---|---|---|
| `PedcaLink` | 1 link, AC_VO + AC_BE with AIFSN 1, PIFS recovery (which AC_BE may preempt), proactive backoff, channel switches | type correctness; the CTS budget; no CTS-to-self inside a TXOP; access status = TXOP holder; no forgotten TXOP; CW not behind QSRC; rounds end clean; `PedcaDevice` implements `PedcaRounds` |
| `PedcaMld` | 2 links, AC_VO, `DistributePedcaAcrossLinks` | a pending CTS-to-self is due, on the preferred link only; post-CTS contention follows a CTS-to-self; links send distinct MPDUs; no lost wakeup |
| `PedcaNoPifs` | 1 link, AC_VO + AC_VI, no PIFS recovery, `GenerateBackoffIfTxopWithoutTx` | no lost wakeup; rounds, with TXOPs paused by backoff |
| `PedcaLiveness` | 1 link, AC_VO + AC_BE, fair | rounds terminate, the channel is released, a backlog reaches a data exchange |
| `ChannelAccess` | 2 EDCAFs, AIFSN 1 and 2, transmissions with a response and without | the lazy countdown equals a countdown per slot, except where a transmission cuts an EIFS short (`CountdownIsExact`); one TXOP holder; every request has an access timeout ahead |
| `BlockAckLink` | 1 link, 4 MPDUs, window 2, sequence numbers modulo 10 from 8, RTS, explicit BARs, fair | acknowledged MPDUs were received, whatever numbers a CTS timeout gives back; the buffer stays in its window; no MPDU is stranded at the recipient; a PSDU protected by RTS/CTS is still queued when it is sent; every MPDU leaves the queue |
| `BlockAckMld` | 2 links, 3 MPDUs, window 2, modulo 8 from 6, retry limit 2, implicit retransmission, one repeated ADDBA response | the queue of in flight MPDUs is sorted and within the window; every MPDU in flight is tracked; a block ack reports only MPDUs that were received; `BlockAck` implements `OrderedDelivery` |
| `AddBa` | retry limit 2, 2 requests, inactivity timeouts, fair | the handshake has an event ahead and ends; the destination is unblocked; both sides agree until an agreement is torn down |
| `StaAssociation` | 2 APs, 2 AIDs, queues of 1, fair | types, hence no passing state is left behind; a request has a BSSID; station and AP agree; the station never stops trying |

Bounds of the P-EDCA runs: `MaxQueue` 1 or 2 MPDUs (2 is what it takes for two links
to be in flight at once and for a TXOP of a single link to continue; an MPDU may
arrive at any time, so a queue bound of 1 still gives TXOPs of several frames),
`MaxTrigger` 2 or 3 failures (above `QsrcThreshold`, so that the threshold is crossed
and passed), thresholds and retry limit 2 (or `QsrcThreshold` 1), TXOP limits of 3
units (an initial frame, a retry and a continuation), CW 1..3 so that the window
saturates before QSRC reaches its limit.  In `PedcaLink` AC_BE waits for one slot, the
changed setting that the comment at `qos-frame-exchange-manager.cc:191` speaks of, so
that it takes the channel during PIFS recoveries (`Preempted`); that the preempted EDCAF
requests the channel again is shown by the proof of `NoLostWakeup` only.
`TransmissionFailed` is guarded by
`MaxTrigger`: the counter grows only outside P-EDCA mode, that is only until it
reaches `QsrcThreshold`, except where P-EDCA is not allowed, and in those cases the
count no longer has any effect.

Block ack: the windows start two short of the end of the sequence number space, so
that they wrap within a run.  MPDUs are fewer than half of the space
(`OriginatorAssumption`): with more, an MPDU far ahead of a recipient that received
nothing would look old, with 4096 numbers and windows of at most 1024 as well as with
10 and 2.  A window of 2 is the smallest with a gap in it, and 4 MPDUs move it past
itself.

`ChannelAccess`: slots of 2 and a SIFS of 1 unit put events on and off slot
boundaries; backoffs of up to 2 slots with AIFSN 1 and 2 let the EDCAFs end together
(internal collision) or one after the other; busy periods of 2 units end within and
at slot boundaries, depending on when they start; `EifsNoDifs` is the
difference of the two AIFSs, so that what an early end of the EIFS does to the second
EDCAF is seen.

`AddBa`: two requests are what it takes for a stale timer or a late response of the
first to meet the second.  `StaAssociation`: two APs for responses of the AP given up;
two AIDs for a second allocation; queues of one request and one response still let
a request overlap with a response.

Deadlock is checked except in the `BlockAck` and `AddBa` runs, which end when the
bounded MPDUs or requests are used up.

Fairness.  *Pedca* (`LiveSpec`): weak for every scheduled event and for the outcome of
a frame exchange, because the simulator executes every event; strong for the grant
of an EDCAF, because a requested EDCAF counts its backoff down whenever the medium is
idle and so wins in the end.  MPDU arrivals, expiry, collisions, outcomes of
exchanges and PHY events are not fair.  *BlockAck*: scheduled events run, lifetimes
end, an exchange goes on to its end, and a link that has something to send gets
channel access; what is lost is open, so `QueueDrains` rests on lifetimes, not on
luck.  The enabling conditions of the steps are written out (`CanStart`, the phase of
an exchange).  *AddBa*: timers run and a station with frames gets to send them.
*StaAssociation*: timers expire, and an AP that sends beacons for ever is heard again
and again (strong fairness of `Beacon`); requests and responses may all be lost.

### Disagreements between code and comments

Each is a run that checks one property and finds it violated; `PROJECT.json`
quotes the lines.

* `BackingOffHasTxop`: with `PifsRecovery` disabled, an assertion of
  `StartTransmission` fails after a CTS-to-self of an EDCAF that backs off within its
  TXOP.
* `CtsKeepsRoundOpen`: the last CTS-to-self of the budget ends the round when its
  release generates the next backoff, before the data attempt it was sent for; the data
  is then sent as that of plain EDCA.
* `AidsAgree`: an association request repeated while the first response is still
  queued makes the AP allocate a second AID; the station keeps the first one.

### Observations without a run

Found while modelling, most of them with variants of the configurations.

P-EDCA and TXOPs.
* A grant to an EDCAF without TXOP limit and without frames leaves `m_initialFrame`
  set (`qos-frame-exchange-manager.cc:292`); without PIFS recovery the assertion at
  line 246 can then fail.
* Only the last EDCAF of a link that paused its TXOP is remembered (line 814); the
  TXOP of the other one continues without the check the comment at 254-258 describes.
* `ResetPedcaCounters` clears QSRC and keeps CW (`qos-txop.cc:522`), against the
  comment at `txop.cc:346`.
* Failures of any EDCAF of any standard switch P-EDCA mode on (`qos-txop.cc:425`).
* A TXOP resumed after a backoff keeps the access status `REQUESTED`, so that a
  proactive backoff may hit its holder; a success in a PIFS recovery counts as a
  P-EDCA success although no CTS-to-self was sent; a channel switch cancels the
  requests of EDCAFs that have frames, and nobody requests the channel for them until
  the next MPDU is queued (`NoLostWakeup` is checked without switches).

Channel access.
* `NotifyTxStartNow` forgets a failed reception (`channel-access-manager.cc:1109`) before
  it brings the backoffs up to date (line 1123).  A transmission without a response that
  an EDCAF starts after a failed reception so ends the EIFS of the other EDCAFs: one with
  a longer AIFS counts slots at once although its slot boundary, "EIFS - DIFS + AIFSN *
  slotTime + SIFS" after the reception (`src/src/wifi/doc/source/wifi-design.rst:956`),
  lies ahead.  The instance of `ChannelAccess` shows it: that backoffs go down in `Tick`
  only is false there, after ten steps, and holds with `EifsNoDifs` = 1, where the
  EIFS adds less than the difference of the two AIFSs.
* An OBSS PD reset (`SwitchFromRxAbort`) ends a busy period early without restarting the
  access timer: a grant may then be off the slot boundary, against the comment in
  `RequestAccess` (`channel-access-manager.cc:586`).
* A PHY put to sleep while an Ack is awaited leaves the EDCAF `GRANTED`
  (`FrameExchangeManager::Reset` cancels the timer and releases nothing).

Block ack.
* On several links `AckedIsDelivered` fails: the discard of a later MPDU on one link
  moves the window, a BAR moves the recipient's, and an earlier MPDU sent alone on the
  other link is then ignored as old but answered with a normal Ack.  It is checked on
  one link.  What a block ack reports is true on any number of links (`BlockAckIsTrue`).
* On several links with RTS/CTS, `PsduStillQueued` fails (the discard of a later MPDU on
  one link makes the protected one old, and the next `PeekNextMpdu` removes it), and an
  expired MPDU that was never transmitted but had a sequence number leaves a gap no BAR
  closes.  If the protected MPDUs are sent when they are old already, they never become
  outstanding, and a repeated ADDBA response may then move the window back to them: they
  stay in flight with nothing that brings them back.  `InFlightIsTracked` is therefore
  checked without RTS/CTS (there, random behaviours of instances with five MPDUs and a
  window of three show no violation either).
* With `NMaxInflights` 2, negative block acks on both links leave an MPDU in flight on
  both: each link expects the other to bring it back (the comment at
  `block-ack-manager.h:215` speaks of the other case only).
* With `NMaxInflights` 2, RTS/CTS and a retry limit, an MPDU can wait for a CTS on two
  links.  A CTS timeout that reaches the retry limit dequeues it, so that it is no longer
  in flight, and releases its number while the other exchange goes on.  If a repeated
  ADDBA response restarts the window, so that the number is in the window again and the
  next MPDU gets it, the second CTS timeout releases it once more and a third MPDU gets
  the same number.  The runs have `NMaxInflights` 1.
* A repeated ADDBA response restarts the transmit window and clears the bits of MPDUs
  acknowledged out of order, which are never acknowledged again: the window stays
  behind until an MPDU is discarded.
* `HandleInFlightMpdu` resumes at `std::next(prevIt)` after `NotifyDiscardedMpdu`
  (lines 482-496), which may have erased the MPDU `prevIt` refers to.

Set-up.
* An ADDBA request that does not fit the remaining TXOP (`SendAddBaRequest` returns
  false) or expires in the queue leaves the agreement pending and the destination
  blocked, with no timer; `qos-txop.cc:1049-1052` describes the timer as the way out.
  The properties of `AddBa` exclude this case with `vanished`.
* A stale `ResetBa` resets an agreement that is pending again, without unblocking the
  destination; a DELBA that crosses a new request destroys the agreement and leaves the
  destination blocked until the response arrives, if it does.
* An inactivity event that is overwritten is not cancelled, and the one of the
  recipient is not re-armed by data; a re-created recipient agreement drops its buffer.
* The assertions around `ht-frame-exchange-manager.cc:838-846` and 2067 are reachable
  after such crossings.

Association.
* A scan that is still running when a reused candidate list ends it is not cancelled;
  its end moves an associated station back to scanning.
* The late response of an AP given up fails the assertion on the BSSID in
  `ReceiveAssocResp`, and a failed older response makes `TxFailed` mark a station as
  disassociated that just got a newer one.
* A lost Ack of the response frees the AID at the AP while the station is associated;
  AIDs of overlapping requests and re-associations are never freed.
* The handler of a disassociation frame uses an iterator after `erase`
  (`ap-wifi-mac.cc:2114-2115`); no station in the repository sends one.

## 4. Proofs

Every theorem holds for all values of the constants that satisfy the named
assumptions of the modules, which state types and what the code's formulas yield.
Theorems with a hypothesis about the attributes say so.

### `PedcaDevice_proofs`: one EDCAF

For every device (any number of links and access categories, any thresholds, EDCA
parameters and attributes) every state reachable by `Spec` satisfies

| theorem | invariant |
|---|---|
| `TypeCorrect` | `TypeOK` |
| `BudgetIsKept` | `PsrcBudget` |
| `PendingIsDue` | `PendingCtsIsDue` |
| `ProtectionIsEarned` | `AfterCtsFollowsCts` |
| `WindowCoversRetries` | `CwCoversRetries` |
| `DistinctInFlight` | `InFlightIsQueued` |

Assumptions: the types of the constants (`DeviceAssumption`,
`ThresholdAssumption`, `EdcaParameterAssumption`, `FemAssumption`) and
`CwAssumption`, which states what the formula of `Txop::UpdateFailedCw` yields for
the values QSRC takes (the provers have no powers of two; TLC evaluates it for the
constants of each run).  Links are finitely many; nothing is assumed of the number
of access categories, of QsrcThreshold or of PsrcThreshold, which may be 0.

The invariants are not inductive one by one.  `PsrcBudget` needs that a pending
CTS-to-self has budget left and implies P-EDCA mode, and that in turn needs that
no CTS-to-self is pending in the contention after one.  `TypeOK` needs that a
dequeued MPDU was in the queue, that is `InFlightIsQueued`, and that the EDCAF whose
exchange ends is one (`HolderIsEdcaf`).  The inductive invariant `IInv` is the
conjunction of `TypeOK`, `EntitiesConsistent`, `HolderIsEdcaf` and
`InFlightIsQueued`.  The argument has three layers:

1. *One entity.*  The set `Consistent(l, a)` collects what holds of the entity of
   an EDCAF.  A lemma per operator of `QosTxop` shows the set closed under it
   (`PedcaBackoffConsistent`, `ReleasedConsistent`, ...).
2. *The frames in flight.*  Whether a link sends a frame of `a` adds one to what
   the other links send (`CountSplits`, by the cardinality theorems), so a step of
   one link needs to show only that it leaves enough MPDUs for the *other* links
   (`LinkStep`, `ExchangeStep`).
3. *The actions.*  One lemma per action, and one for the ways through
   `StartTransmission`, combine the two (`StartTransmissionStep`, `FailStep`, ...).

### `PedcaHolder_proofs`: one link, and the device

| theorem | invariant | hypothesis |
|---|---|---|
| `HolderIsGranted` | `GrantedIffHolder` | PIFS recovery |
| `TxopIsHolders` | `OpenTxopIsKnown` | PIFS recovery |
| `HolderSendsNoCts` | `NoCtsInTxop` | PIFS recovery, or no proactive backoff |
| `NobodySleeps` | `NoLostWakeup` | no channel switches |

The hypotheses are attributes of the code and not artefacts: without PIFS recovery a
TXOP is paused by a backoff and resumed with the status `REQUESTED`, and the TXOP of
one of two EDCAFs that paused theirs is forgotten; a proactive backoff then reaches the
holder; a channel switch cancels requests (see *Observations*).  PIFS recovery is on by
default in the model's runs except in `PedcaNoPifs`.

`HolderInv` is what is inductive besides `IInv`, link by link: a holder has requested
the channel and its TXOP has started, whatever the attributes; with PIFS recovery
nobody backs off within its TXOP, and access status, TXOP and `m_edca` name the same
EDCAF; where the hypothesis of `HolderSendsNoCts` holds, the holder owes no
CTS-to-self.  The theorems read their invariant off it.  `NoLostWakeup` needs no
strengthening but `IInv`: a step that takes away the last reason to be awake leaves
another one behind (`WakeStep`, `SentElsewhere`: an MPDU that one link does not send
because the others do is theirs to look after, and an EDCAF that sends is granted).

### `PedcaHolder_proofs`: the refinement of `PedcaRounds`

`RoundsRefinement`: under the hypothesis of `HolderSendsNoCts` every step of
`PedcaDevice` is, for each EDCAF on each link, a step of `PedcaRounds` or leaves its
round alone.  `RoundsEndClean` (`RoundEndsClean`) needs no hypothesis.  A lemma per
operator of `QosTxop` says which round step it is (`RoundMove`); an action that calls
two of them composes the moves, which is a single move only because of the invariants
(a holder without pending CTS-to-self for a success, budget left for a CTS-to-self).
The proof is what `NextRound` of `PedcaRounds` comes from: with `QsrcThreshold` = 0 the
success that ends a round selects P-EDCA again at once, so that one call both resets
the counters and makes the next CTS-to-self due.  The runs have positive thresholds.

### `ChannelAccess_proofs`: requests and grants

For any number of EDCAFs and every AIFSN, SIFS, slot time, EIFS and duration of busy
periods: `TypeCorrect` (`TypeOK`), `AtMostOneHolder` (`OneHolder`), `RequestsKeepTimer`
(`NoLostRequest`).  `OneHolder` rests on time: while an EDCAF is granted, its
transmission without a response is on the air, the reception that answers it is running,
or the end of the Ack timeout lies ahead (`Held`), so that the start of the next AIFS does
too and no backoff can end (`AheadWhenBusy`).  The inductive invariant `IInv` states that (`Sound`) together with the types and the
timer (`HasTimer`).  Types need that `UpdateBackoff` does not decrement below zero.

### `ChannelAccessCountdown_proofs`: the lazy countdown

`LazyCountdownIsExact`: `CountdownIsExact`, again for all constants.  The code subtracts
whole slots from a backoff whenever something happens and restarts the count at the
end of the next busy period; the reference counter is decremented at every slot
boundary.  The claim has the exception that the code has: where a transmission of this
station without a response cuts an EIFS short, slots are skipped, and the theorem says
that the countdown is exact again from what is left then.  `NotifyTxStartCounted` shows
that nothing else about the start of a transmission loses or adds slots: an EDCAF
whose AIFS was over is up to date when access is granted, and one whose AIFS is
ahead counts nothing (`UpdateBackoffAgain`).  The inductive invariant `Countdown` says for each EDCAF that

* a backoff under way started within a slot from now, and, unless busy time has moved
  the AIFS past it, at a whole number of slots after the AIFS, a number that with the
  slots left does not exceed the longest backoff (`OnSlot`);
* the slots left, minus those that passed since the start or the end of the AIFS,
  whichever is later, are the reference counter (`Exact`);

and of the receiver that a reception under way has not failed yet, that only such a
reception ends in the future, and how old its end may be (`RxKnown`).  The bound on
`OnSlot` is what makes forgetting sound: a start so old that it is cut to `Oldest` has
counted all its slots.  The proof has the arithmetic of slots first (`Passed`, `Left`,
`SlotsMonotone`, `PassedIs`), then that an update is exact and that nobody counts while
the medium is busy (`ExactIsCounted`), then one lemma per notification, and `Tick` with
two cases: time passes by one unit, or all old times move by whole slots.  `EIFS - DIFS`
in `Oldest` is a result of the proof: without it the end of a failed reception was
forgotten while its EIFS still mattered.

### `AddBa_proofs`

For every retry limit and number of requests.

`HandshakeWatched` (`HandshakeIsWatched`): the recipient may do anything, the proof uses
only the originator's part of each step.  The inductive invariant adds what the
originator's steps need, the type of its queue and that its timers are counted in
natural numbers.  A transmission keeps the request in the queue, turns it into a
response timer (Ack) or, at the retry limit, gives the agreement up with a reset timer;
only `OrigExpire` can remove it silently, and sets `vanished`.

`TypeCorrect` (`TypeOK`) covers both sides, the recipient's queue with the response
that is taken out of its middle included (`WithoutPendingResponse`).

`SidesEstablished` (`EstablishedOnBothSides`): the property is about behaviours without
tear-down, so its proof is too: `SidesInv` -- a recipient that has queued a response
has an agreement -- is preserved by steps from and to states without tear-down
(`NoTearDownStep`), and temporal logic does the rest.

### `StaAssociation_proofs`

`TypeCorrect` (`TypeOK`), `RequestsHaveBssid` (`RequestHasBssid`) and `StationAndApAgree`
(`SidesAgree`) for any set of APs, AIDs and queue bounds.  Two sets of station records
carry the argument of the first two: `Ready`, what holds between events, and `Passing`,
what holds inside handlers between setting `UNASSOCIATED` or `REFUSED` and the scan that
follows; each method maps one to the other or stays in it.  `RequestHasBssid` is part of
`Ready`, because a request timer outlives the state it was started in: it is inductive
only together with the cancellation of the timer in `Disassociated`.  That the next AID
is an AID rests on the least element of a set of naturals.

`SidesAgree` speaks of an associated station; what makes it inductive is what is true
while the response is still on its way (`AgreeInv`): every AID in a queued response is
reserved; without overlapping requests there is at most one request or response between
the station and an AP, and the response carries the AID the AP last wrote down
(`OneAttempt`).

### `BlockAck_proofs`

For any number of links and MPDUs, every window size and sequence number space (even,
at least two windows, and more than twice the MPDUs sent under the agreement, as
`OriginatorAssumption` and `SeqWindowAssumption` say), and all attributes:

* `TypeCorrect` (`TypeOK`): the originator's record, the recipient's and every frame
  exchange keep their type, also where numbers and windows wrap around;
* `BufferStaysInWindow` (`BufferInWindow`): the reordering buffer holds nothing old and
  nothing beyond its window, and the scoreboard starts at most a window before it.

Neither is inductive.  Distances are taken modulo the sequence number space, and whether
a number is old or new depends on how many numbers are in use.  The inductive invariant
`IInv` counts positions from the starting sequence number (`Pos`): numbers of MPDUs have
positions below `NumMpdus`, starts of windows at most that (`SentSeqs`, `StartSeqs`), and
between such numbers `GetDistance` is the difference of positions (`PosDistance`).  To
stay there, the next number must not run ahead: its position is at most the number of
MPDUs that have one, which a release lowers by one together with the number (`Take`,
`ReleaseSequenceNumbers`).  Bits of the transmit window stop at the last number
(`TxWindows`); what is outstanding, in flight, to be retried or on the air has had a
number (`Known`); the recipient's window, scoreboard and buffer are ordered by position
(`Recipients`).

The proof is layered like the model: window operators, recipient, originator, selection,
frame exchanges; one lemma per operator shows a set of records closed under it, and one
lemma per action composes them.  Many operators are folds over the queue of in flight
MPDUs.  The library defines `FoldLeft` by a recursive function that is chosen, so the
proof first shows that such a function exists (`FoldExists`) and that what every step
keeps the result has (`FoldStays`), by induction over indices in the form of a least
counterexample (`IndexInduction`).  This is done once per operation folded
(`DoStoreFold`, `HandleFold`, ...), since a lemma cannot take the operation as parameter.

`IInv` found an error of the model: with two links it allowed an MPDU on the air whose
number had been released to have none, which the code does not (see `seq` and `numbered`
above).

### `BlockAckDelivery_proofs`: the refinement of `OrderedDelivery`, truthful block acks

`OrderedDeliveryRefinement` (`DeliveryInOrder`): every step of the agreement is a step
`Deliver` of `OrderedDelivery` or leaves alone what the recipient stored and passed up.
It holds for all the values above, with losses, discarded and expired MPDUs, repeated
ADDBA responses and CTS timeouts, under the hypothesis `MaxInflights = 1 \/ ~UseRts`.
The first is the default of the code (`NMaxInflights`, `qos-txop.cc:98`) and what both
runs have.  Without the hypothesis the property is false: with RTS/CTS and two links
for an MPDU, two CTS timeouts give one number to two MPDUs (see *Observations*).

What makes it hold is spread over both sides.  The recipient orders MPDUs by sequence
number, and cannot tell two MPDUs with one number apart; the originator numbers MPDUs
when it selects them, in the order of its queue, and after a CTS timeout takes back the
numbers of those that were never sent, so that the next selection gives them to other
MPDUs.  The inductive invariant `InOrderOf` has a part for each:

* `Numbered`, of the originator and the exchanges: numbers rise with the place in the
  queue, and what has no number yet comes after all that have one (`NumbersInOrder`).
  An MPDU the recipient holds, passed up or may still get is *live*; a live MPDU has a
  number and, while it is queued, is in flight or has the Retry bit (`LiveKept`), which
  is what `ReleaseSequenceNumbers` looks at.  The MPDUs an RTS protects are in flight
  on its link and no other (`Reserved`), and no two RTS protect the same (`Apart`), so
  that a CTS timeout releases exactly the last numbers assigned (`ReleaseAllNumbered`).
* `Ordered`, of the recipient: it stores each MPDU under the number it has at the
  originator, and what it passed up comes before what it waits for.

The handlers of the originator are many and the order needs little of them: each keeps
numbers, and takes an MPDU off a link only by giving it the Retry bit or removing it
from the queue (`Handled`).  One lemma per handler says so, composed along folds
(`After`).  Selection is where order is made: what is taken is a prefix of what can be
sent (`PsduIsPrefix`) and `TakeNumbers` shows that it gets the next numbers in order.
At the recipient, `PassUp` enumerates the entries it releases by position, and two runs
released one after the other are one enumeration (`EnumeratedTwice`, `MovedTwice`);
`MovedDelivers` turns order by position into order by place, and a step of the
recipient into `Deliver`.  Then follows one lemma per action.

The least obvious part of the invariant is that a number may be taken back at all: what
keeps it safe is that the Retry bit is set for every MPDU that was on the air, also
when the MPDU waits for a CTS again.

`BlockAckTruthful` (`BlockAckIsTrue`), under the same hypothesis: what a block ack on its
way reports as received, the recipient passed up or holds.  This is not a matter of the
recipient alone.  A bitmap speaks of numbers (`Reports`), a number speaks of an MPDU only
as long as no other MPDU has it (`NumbersInOrder`), and a number that was received must
not be given to another MPDU (`LiveKept`): `InOrderOf` is what turns numbers into MPDUs
(`GotSeqs`).  The invariant `TruthfulOf` adds that the scoreboard and each response on
its way report numbers of MPDUs that were received, and one thing more: all numbers from
the start of the scoreboard (`WinStartR`) up to the start of the buffer (`WinStartB`)
were received.  The two windows move apart, as only `WinStartB` follows the MPDUs passed
up; a retransmission in between is ignored by the buffer as old and still marked in the
scoreboard (`NotifyReceivedMpdu`), which is true only because it is a duplicate.  What
moves `WinStartB` over a gap (a BAR, an MPDU beyond the window) moves `WinStartR` as well.
A response is copied from the scoreboard when it is sent (`Responses`) and
stays true, since what was received stays received.

### Model-checked only

* `OutstandingInWindow`, `InFlightIsTracked`, `PsduStillQueued`, `AckedIsDelivered` and
  `NoStrandedMpdu` of `BlockAck`.  `InFlightIsTracked` and `PsduStillQueued` hold only
  for the configurations of their runs (see *Observations*), and what tells those apart
  is the order in which window moves of two exchanges meet, which an inductive
  invariant would have to describe.  `OutstandingInWindow` needs the queue of in flight
  MPDUs sorted through folds that insert and erase in one pass.  `AckedIsDelivered`
  differs from `BlockAckIsTrue` by the MPDUs answered with a normal Ack: that such an
  MPDU is not old at the recipient relates the transmit window to the recipient's, which
  holds on one link and without a repeated ADDBA response only.  `NoStrandedMpdu` needs
  the BARs under way in addition to `InOrderOf`.
* All liveness (`RoundTerminates`, `ChannelIsReleased`, `BacklogIsServed`, `QueueDrains`,
  `HandshakeEnds`, `BlockedIsUnblocked`, `KeepsTrying`), which TLAPS cannot prove.

## 5. Plan

1. *(done)* `QosTxop`, `PedcaDevice`, `PedcaRounds`: channel access and TXOPs with
   P-EDCA, on one device.
2. *(done)* `ChannelAccess`, `BlockAck` with `OrderedDelivery`, `AddBa`,
   `StaAssociation`.
3. *(done)* Proofs of every safety property of the P-EDCA, `ChannelAccess`, `AddBa` and
   `StaAssociation` runs and of the refinement of `PedcaRounds`.
4. Proofs about `BlockAck`: *(done)* the window arithmetic of `SeqWindow`, types, the
   recipient's window, the refinement of `OrderedDelivery` and truthful block acks;
   *(next)* `AckedIsDelivered` on one link, from `TruthfulOf` and the order of the two
   windows, `OutstandingInWindow` with the list sorted by position, and
   `PsduStillQueued` for one link.
5. `PedcaMedium`: several stations on a medium, the Duration/ID of a CTS-to-self and
   the NAV it sets.
6. `EventScheduler`: the simulator core (time order, cancel, same-time FIFO).

## 6. Not modelled

* Duration/ID and NAV of P-EDCA frames, several contending stations: planned.
* HE/EHT multi-user exchanges, EMLSR, power management, multi-link set-up, GCR: large
  protocols of their own on top of what is modelled here.
* PHY, error models, rate control, frame formats: numerical or serialization code whose
  correctness is not a matter of interleaving.
* The other modules of ns-3 (LTE, LR-WPAN, Internet stack, routing, ...), which make up
  most of the repository's lines: upstream code the P-EDCA work does not touch.
* Scenarios, plots and scripts.
