------------------------------ MODULE QosTxop ------------------------------
(***************************************************************************)
(* The per-link state of an EDCAF (QosTxop::QosLinkEntity) and what the    *)
(* methods of QosTxop and Txop do to it: contention window and retry       *)
(* counter, access status, TXOP bookkeeping and the Prioritized EDCA       *)
(* (P-EDCA) flags and counters of an 802.11bn (UHR) station.               *)
(*                                                                         *)
(* Every operator takes the entity of one EDCAF on one link and returns    *)
(* the entity the method leaves behind.  The number of backoff slots that  *)
(* GenerateBackoff draws is not kept: a module built on this one lets an   *)
(* EDCAF that requested the channel win it at any later time.              *)
(***************************************************************************)
EXTENDS Integers, FiniteSets

CONSTANTS
  Links,            \* the links of the device (more than one for an MLD)
  ACs,              \* the EDCAFs (access categories) of the device
  VO,               \* the access category P-EDCA is defined for (AC_VO)
  UhrLinks,         \* links where EnableUhrPedca is set and the PHY is 802.11bn
  IsSta,            \* whether the device is a non-AP station
  DistributePedca,  \* attribute DistributePedcaAcrossLinks
  PreferredLink,    \* PreferredPedcaLinkId modulo the number of links
  QsrcThreshold,    \* failures after which P-EDCA is selected
  PsrcThreshold,    \* CTS-to-self frames a P-EDCA round may send
  FrameRetryLimit,  \* limit of the retry counter of the contention window
  CwMin, CwMax,     \* contention window bounds of each access category
  Aifsn,            \* AIFSN of each access category
  TxopLimit         \* TXOP limit of each access category in time units, 0 = none

(***************************************************************************)
(* The thresholds are unsigned attributes whose checkers admit 0.          *)
(***************************************************************************)
ASSUME DeviceAssumption ==
  /\ IsFiniteSet(Links) /\ Links # {}
  /\ VO \in ACs
  /\ UhrLinks \subseteq Links
  /\ PreferredLink \in Links
  /\ IsSta \in BOOLEAN /\ DistributePedca \in BOOLEAN

ASSUME ThresholdAssumption ==
  /\ QsrcThreshold \in Nat
  /\ PsrcThreshold \in Nat
  /\ FrameRetryLimit \in Nat

ASSUME EdcaParameterAssumption ==
  /\ CwMin \in [ACs -> Nat] /\ CwMax \in [ACs -> Nat]
  /\ Aifsn \in [ACs -> Nat] /\ TxopLimit \in [ACs -> Nat]
  /\ \A a \in ACs : CwMin[a] <= CwMax[a]

----------------------------------------------------------------------------
(***************************************************************************)
(* The entity.  txop is the optional startTxop together with what          *)
(* GetRemainingTxop would return: NoTxop while startTxop has no value, the *)
(* units of time left in the TXOP otherwise.                               *)
(***************************************************************************)
NoTxop == -1

AccessStatus == {"NOT_REQUESTED", "REQUESTED", "GRANTED"}

LinkEntity == [access            : AccessStatus,
               cw                : Nat,
               staRetryCount     : Nat,
               txop              : Nat \cup {NoTxop},
               pedcaTriggerCount : Nat,
               psrc              : Nat,
               pedcaMode         : BOOLEAN,
               pedcaCtsPending   : BOOLEAN,
               pedcaAfterCts     : BOOLEAN]

NewEntity(a) == [access            |-> "NOT_REQUESTED",
                 cw                |-> CwMin[a],
                 staRetryCount     |-> 0,
                 txop              |-> NoTxop,
                 pedcaTriggerCount |-> 0,
                 psrc              |-> 0,
                 pedcaMode         |-> FALSE,
                 pedcaCtsPending   |-> FALSE,
                 pedcaAfterCts     |-> FALSE]

----------------------------------------------------------------------------
(***************************************************************************)
(* Contention window (Txop).                                               *)
(***************************************************************************)
\* min(CWmax, 2^QSRC * (CWmin + 1) - 1)
CwAfter(a, n) == LET w == 2^n * (CwMin[a] + 1) - 1
                 IN  IF w < CwMax[a] THEN w ELSE CwMax[a]

\* What the arithmetic of CwAfter yields over the values QSRC takes.
ASSUME CwAssumption ==
  \A a \in ACs : /\ CwAfter(a, 0) = CwMin[a]
                 /\ \A n \in 0..FrameRetryLimit :
                       CwAfter(a, n) \in CwMin[a] .. CwMax[a]

ResetCw(a, e) == [e EXCEPT !.cw = CwMin[a], !.staRetryCount = 0]

\* Fault: the window is computed from QSRC before it is incremented.
UpdateFailedCwFromOldQsrc(a, e) ==
  IF e.staRetryCount < FrameRetryLimit
  THEN [e EXCEPT !.staRetryCount = @ + 1, !.cw = CwAfter(a, e.staRetryCount)]
  ELSE ResetCw(a, e)

UpdateFailedCw(a, e) ==
  IF e.staRetryCount < FrameRetryLimit
  THEN [e EXCEPT !.staRetryCount = @ + 1,
                 !.cw = CwAfter(a, e.staRetryCount + 1)]
  ELSE ResetCw(a, e)

----------------------------------------------------------------------------
(***************************************************************************)
(* P-EDCA counters and flags (QosTxop).                                    *)
(***************************************************************************)
IncrementPedcaTriggerCount(e) ==
  [e EXCEPT !.pedcaTriggerCount = @ + 1,
            !.pedcaMode = @ \/ e.pedcaTriggerCount + 1 >= QsrcThreshold]

\* Fault: the budget of CTS-to-self frames is not restored.
ResetPedcaCountersKeepingPsrc(e) ==
  [e EXCEPT !.staRetryCount = 0, !.pedcaTriggerCount = 0, !.pedcaCtsPending = FALSE,
            !.pedcaMode = FALSE, !.pedcaAfterCts = FALSE]

\* Fault: the EDCAF stays in the contention that follows a CTS-to-self.
ResetPedcaCountersKeepingAfterCts(e) ==
  [e EXCEPT !.staRetryCount = 0, !.psrc = 0, !.pedcaTriggerCount = 0,
            !.pedcaCtsPending = FALSE, !.pedcaMode = FALSE]

ResetPedcaCounters(e) ==
  [e EXCEPT !.staRetryCount     = 0,
            !.psrc              = 0,
            !.pedcaTriggerCount = 0,
            !.pedcaCtsPending   = FALSE,
            !.pedcaMode         = FALSE,
            !.pedcaAfterCts     = FALSE]

GenerateUhrVoBackoff(e) == [e EXCEPT !.pedcaCtsPending = TRUE]

IsUhrVo(l, a) == a = VO /\ l \in UhrLinks

\* P-EDCA is kept off this link by DistributePedcaAcrossLinks.
NotPreferred(l) ==
  DistributePedca /\ IsSta /\ Cardinality(Links) > 1 /\ l # PreferredLink

\* The EDCAFs that may run the P-EDCA procedure.
PedcaCapable(l, a) == IsUhrVo(l, a) /\ ~NotPreferred(l)

Selected(e) == e.pedcaTriggerCount >= QsrcThreshold \/ e.pedcaMode

\* Fault: the budget is tested with > instead of =.
PedcaBackoffOverBudget(e) ==
  CASE ~Selected(e) -> [e EXCEPT !.pedcaMode = FALSE, !.pedcaAfterCts = FALSE]
    [] Selected(e) /\ e.psrc > PsrcThreshold -> ResetPedcaCounters(e)
    [] OTHER -> [e EXCEPT !.pedcaMode = TRUE,
                          !.pedcaCtsPending = @ \/ ~e.pedcaAfterCts]

\* The P-EDCA branch of GenerateBackoff, on a link where P-EDCA is allowed.
PedcaBackoff(e) ==
  CASE ~Selected(e) ->
         [e EXCEPT !.pedcaMode = FALSE, !.pedcaAfterCts = FALSE]
    [] Selected(e) /\ e.psrc = PsrcThreshold ->
         ResetPedcaCounters(e)
    [] Selected(e) /\ e.psrc # PsrcThreshold /\ e.pedcaAfterCts ->
         [e EXCEPT !.pedcaMode = TRUE]
    [] Selected(e) /\ e.psrc # PsrcThreshold /\ ~e.pedcaAfterCts ->
         GenerateUhrVoBackoff([e EXCEPT !.pedcaMode = TRUE])

\* Fault: DistributePedcaAcrossLinks is not looked at.
GenerateBackoffOnAnyLink(l, a, e) == IF IsUhrVo(l, a) THEN PedcaBackoff(e) ELSE e

GenerateBackoff(l, a, e) ==
  CASE ~IsUhrVo(l, a) -> e
    [] IsUhrVo(l, a) /\ NotPreferred(l) ->
         [e EXCEPT !.pedcaMode       = FALSE,
                   !.pedcaAfterCts   = FALSE,
                   !.pedcaCtsPending = FALSE]
    [] PedcaCapable(l, a) -> PedcaBackoff(e)

\* The AIFSN in use: one slot less (DSAIFS) while contending for the CTS-to-self.
GetAifsn(a, e) ==
  IF e.pedcaCtsPending /\ ~e.pedcaAfterCts /\ Aifsn[a] > 1
  THEN Aifsn[a] - 1
  ELSE Aifsn[a]

----------------------------------------------------------------------------
(***************************************************************************)
(* TXOP bookkeeping.                                                       *)
(***************************************************************************)
\* Fault: the base class is not called.
NotifyChannelAccessedInQosTxop(e, duration) == [e EXCEPT !.txop = duration]

NotifyChannelAccessed(e, duration) ==
  [e EXCEPT !.access = "GRANTED", !.txop = duration]

\* QosTxop::NotifyChannelReleased invokes the backoff procedure if frames were
\* sent, i.e. time has elapsed since the start of the TXOP, or if it was told to.
BacksOffOnRelease(e, elapsed, always) == (e.txop # NoTxop /\ elapsed) \/ always

\* Fault: startTxop is not reset.
ReleasedWithoutReset(l, a, e, backoff) ==
  [(IF backoff THEN GenerateBackoff(l, a, e) ELSE e) EXCEPT !.access = "NOT_REQUESTED"]

Released(l, a, e, backoff) ==
  LET f == IF backoff THEN GenerateBackoff(l, a, e) ELSE e
  IN  [f EXCEPT !.txop = NoTxop, !.access = "NOT_REQUESTED"]

\* Txop::NotifyChannelReleased: a new backoff that leaves the TXOP open.
BackoffInTxop(l, a, e) ==
  GenerateBackoff(l, a, [e EXCEPT !.access = "NOT_REQUESTED"])

\* ChannelAccessManager::ResetBackoff
ResetBackoff(a, e) == [ResetCw(a, e) EXCEPT !.access = "NOT_REQUESTED"]
=============================================================================
