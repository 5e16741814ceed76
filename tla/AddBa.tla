-------------------------------- MODULE AddBa --------------------------------
(***************************************************************************)
(* Set-up and tear-down of a block ack agreement between one originator    *)
(* and one recipient for one TID: ADDBA requests and responses, DELBA      *)
(* frames, and the timers of both sides.  Every frame and every Ack may be *)
(* lost; a frame is sent again until it is acknowledged or its retry limit *)
(* is reached.  None of the frames is filtered for duplicates.             *)
(*                                                                         *)
(* A transmission with its Ack is one step: what the receiver schedules    *)
(* for the end of the Ack happens in it.  The originator always has data   *)
(* that calls for an agreement.  The responder always accepts.             *)
(***************************************************************************)
EXTENDS Integers, SequencesExt

CONSTANTS
  RetryLimit,    \* transmissions of a management frame, at most
  MaxRequests,   \* agreements the originator asks for, at most (bound)
  Inactivity     \* whether BlockAckInactivityTimeout is not zero

ASSUME AddBaAssumption ==
  /\ RetryLimit \in Nat \ {0} /\ MaxRequests \in Nat
  /\ Inactivity \in BOOLEAN

VARIABLES
  agreement,       \* state of the originator agreement, NONE if there is none
  blocked,         \* whether the data queue waits for an ADDBA response
  origQueue,       \* management frames of the originator
  responseTimers,  \* pending AddBaResponseTimeout events
  resetTimers,     \* pending ResetBa events
  origIdle,        \* inactivity events of the originator
  recipAgreement,  \* whether the recipient has an agreement
  recipQueue,      \* management frames of the recipient
  recipIdle,       \* inactivity events of the recipient
  requests,        \* ADDBA requests created so far
  vanished         \* history: a request did not fit the TXOP or expired

origVars == <<agreement, blocked, origQueue, responseTimers, resetTimers, origIdle, requests, vanished>>
recipVars == <<recipAgreement, recipQueue, recipIdle>>
vars == <<origVars, recipVars>>

States == {"NONE", "PENDING", "ESTABLISHED", "NO_REPLY", "RESET"}
Frames(kinds) == [kind : kinds, tries : 0 .. RetryLimit - 1]

\* Inactivity events: known is the one the agreement refers to and cancels
\* when it is destroyed, lost are those it no longer refers to.
IdleEvents == [known : BOOLEAN, lost : Nat]
NoIdleEvents == [known |-> FALSE, lost |-> 0]

Init ==
  /\ agreement = "NONE" /\ blocked = FALSE /\ requests = 0
  /\ origQueue = <<>> /\ recipQueue = <<>>
  /\ responseTimers = 0 /\ resetTimers = 0
  /\ origIdle = NoIdleEvents /\ recipIdle = NoIdleEvents
  /\ recipAgreement = FALSE /\ vanished = FALSE

----------------------------------------------------------------------------
Frame(kind) == [kind |-> kind, tries |-> 0]
Has(queue, kind) == \E i \in DOMAIN queue : queue[i].kind = kind

\* Scheduling a new inactivity event overwrites the reference to a pending one.
Arm(idle) ==
  IF Inactivity THEN [known |-> TRUE, lost |-> idle.lost + (IF idle.known THEN 1 ELSE 0)]
  ELSE idle
Cancel(idle) == [idle EXCEPT !.known = FALSE]

----------------------------------------------------------------------------
(***************************************************************************)
(* The originator.                                                         *)
(***************************************************************************)
\* StartFrameExchange reaches NeedSetupBlockAck when the first frame of the
\* queues that are not blocked is a data frame; management frames come first.
NeedSetupBlockAck == ~blocked /\ origQueue = <<>> /\ agreement \in {"NONE", "RESET"}

\* The agreement is created and the destination blocked before it is known
\* whether the request fits the remaining TXOP.
SendAddBaRequest ==
  /\ NeedSetupBlockAck /\ requests < MaxRequests
  /\ requests' = requests + 1
  /\ agreement' = "PENDING" /\ blocked' = TRUE
  /\ \/ origQueue' = Append(origQueue, Frame("ADDBA_REQUEST")) /\ UNCHANGED vanished
     \/ vanished' = TRUE /\ UNCHANGED origQueue
  /\ UNCHANGED <<responseTimers, resetTimers, origIdle, recipVars>>

DestroyOriginatorAgreement ==
  /\ agreement' = "NONE" /\ origIdle' = Cancel(origIdle)
  /\ UNCHANGED blocked

OrigReceivedNormalAck(kind) ==
  \/ /\ kind = "ADDBA_REQUEST"
     /\ responseTimers' = responseTimers + 1
     /\ UNCHANGED <<agreement, blocked, origIdle>>
  \/ kind = "DELBA" /\ DestroyOriginatorAgreement /\ UNCHANGED responseTimers

\* Fault: the agreement is given up but the destination stays blocked.
NoReplyKeepsBlocked ==
  /\ agreement' = "NO_REPLY"
  /\ resetTimers' = resetTimers + 1
  /\ UNCHANGED blocked

\* NotifyOriginatorAgreementNoReply and the event that resets the agreement.
NoReply ==
  /\ agreement' = "NO_REPLY" /\ blocked' = FALSE
  /\ resetTimers' = resetTimers + 1

\* Fault: a request that is dropped leaves the agreement without a timer.
OrigDiscardedWithoutReset(kind) ==
  IF kind = "ADDBA_REQUEST" /\ agreement = "PENDING"
  THEN agreement' = "NO_REPLY" /\ blocked' = FALSE /\ UNCHANGED resetTimers
  ELSE UNCHANGED <<agreement, blocked, resetTimers>>

OrigPacketDiscarded(kind) ==
  IF kind = "ADDBA_REQUEST" /\ agreement = "PENDING"
  THEN NoReply
  ELSE UNCHANGED <<agreement, blocked, resetTimers>>

\* The response is taken in every state of the agreement; the destination is
\* unblocked even if there is no agreement.
GotAddBaResponse ==
  /\ agreement' = IF agreement = "NONE" THEN "NONE" ELSE "ESTABLISHED"
  /\ origIdle' = IF agreement = "NONE" THEN origIdle ELSE Arm(origIdle)
  /\ blocked' = FALSE

OrigReceiveMgtAction(kind) ==
  \/ kind = "ADDBA_RESPONSE" /\ GotAddBaResponse
  \/ kind = "DELBA" /\ DestroyOriginatorAgreement

AddBaResponseTimeout ==
  /\ responseTimers > 0 /\ responseTimers' = responseTimers - 1
  /\ IF agreement = "PENDING" THEN NoReply
     ELSE UNCHANGED <<agreement, blocked, resetTimers>>
  /\ UNCHANGED <<origQueue, origIdle, requests, vanished, recipVars>>

\* Fault: an agreement that got no reply is kept.
ResetBaOnlyPending ==
  /\ resetTimers > 0 /\ resetTimers' = resetTimers - 1
  /\ agreement' = IF agreement = "PENDING" THEN "RESET" ELSE agreement
  /\ UNCHANGED <<blocked, origQueue, responseTimers, origIdle, requests, vanished, recipVars>>

ResetBa ==
  /\ resetTimers > 0 /\ resetTimers' = resetTimers - 1
  /\ agreement' = IF agreement \in {"NONE", "ESTABLISHED"} THEN agreement ELSE "RESET"
  /\ UNCHANGED <<blocked, origQueue, responseTimers, origIdle, requests, vanished, recipVars>>

\* An inactivity event runs, and a DELBA frame is queued.
Fires(idle, idle2) ==
  \/ idle.known /\ idle2 = Cancel(idle)
  \/ idle.lost > 0 /\ idle2 = [idle EXCEPT !.lost = @ - 1]

InactivityTimeout ==
  /\ Fires(origIdle, origIdle')
  /\ origQueue' = Append(origQueue, Frame("DELBA"))
  /\ UNCHANGED <<agreement, blocked, responseTimers, resetTimers, requests, vanished, recipVars>>

\* An expired frame leaves the queue; only the expiry of a data frame is
\* reported to the block ack manager.
OrigExpire ==
  /\ origQueue # <<>> /\ origQueue' = Tail(origQueue)
  /\ vanished' = (vanished \/ Head(origQueue).kind = "ADDBA_REQUEST")
  /\ UNCHANGED <<agreement, blocked, responseTimers, resetTimers, origIdle, requests, recipVars>>

----------------------------------------------------------------------------
(***************************************************************************)
(* The recipient.                                                          *)
(***************************************************************************)
\* m_pendingAddBaResp, the response still in the queue, is taken out of it: a
\* new one replaces it, so that there never are two.
WithoutPendingResponse(queue) ==
  LET Pending == {i \in DOMAIN queue : queue[i].kind = "ADDBA_RESPONSE"}
  IN  IF Pending = {} THEN queue ELSE RemoveAt(queue, CHOOSE i \in Pending : TRUE)

\* Fault: the response is sent but the agreement is not created.
RespondWithoutAgreement ==
  /\ recipQueue' = Append(WithoutPendingResponse(recipQueue), Frame("ADDBA_RESPONSE"))
  /\ UNCHANGED <<recipAgreement, recipIdle>>

\* An existing agreement is replaced, and so is a response still in the queue.
SendAddBaResponse ==
  /\ recipAgreement' = TRUE /\ recipIdle' = Arm(recipIdle)
  /\ recipQueue' = Append(WithoutPendingResponse(recipQueue), Frame("ADDBA_RESPONSE"))

DestroyRecipientAgreement ==
  recipAgreement' = FALSE /\ recipIdle' = Cancel(recipIdle)

RecipReceiveMgtAction(kind) ==
  \/ kind = "ADDBA_REQUEST" /\ SendAddBaResponse
  \/ kind = "DELBA" /\ DestroyRecipientAgreement /\ UNCHANGED recipQueue

RecipReceivedNormalAck(kind) ==
  \/ kind = "ADDBA_RESPONSE" /\ UNCHANGED <<recipAgreement, recipIdle>>
  \/ kind = "DELBA" /\ DestroyRecipientAgreement

RecipInactivity ==
  /\ Fires(recipIdle, recipIdle')
  /\ recipQueue' = Append(recipQueue, Frame("DELBA"))
  /\ UNCHANGED <<recipAgreement, origVars>>

RecipExpire ==
  /\ recipQueue # <<>> /\ recipQueue' = Tail(recipQueue)
  /\ UNCHANGED <<recipAgreement, recipIdle, origVars>>

----------------------------------------------------------------------------
(***************************************************************************)
(* Transmissions.  The sender has its Ack, or it retries or drops.         *)
(***************************************************************************)
\* Fault: one transmission too many.
LastTryTooLate(queue) == Head(queue).tries = RetryLimit

LastTry(queue) == Head(queue).tries + 1 = RetryLimit
AfterMissedAck(queue) ==
  IF LastTry(queue) THEN Tail(queue) ELSE [queue EXCEPT ![1].tries = @ + 1]

OrigMissedAck ==
  /\ origQueue' = AfterMissedAck(origQueue)
  /\ IF LastTry(origQueue) THEN OrigPacketDiscarded(Head(origQueue).kind)
     ELSE UNCHANGED <<agreement, blocked, resetTimers>>
  /\ UNCHANGED <<responseTimers, origIdle, requests, vanished>>

OrigSendLost == origQueue # <<>> /\ OrigMissedAck /\ UNCHANGED recipVars
OrigAckLost ==
  /\ origQueue # <<>> /\ OrigMissedAck
  /\ RecipReceiveMgtAction(Head(origQueue).kind)
OrigSendAcked ==
  /\ origQueue # <<>> /\ origQueue' = Tail(origQueue)
  /\ OrigReceivedNormalAck(Head(origQueue).kind)
  /\ RecipReceiveMgtAction(Head(origQueue).kind)
  /\ UNCHANGED <<resetTimers, requests, vanished>>
OrigSend == OrigSendLost \/ OrigAckLost \/ OrigSendAcked

OrigReceives(kind) ==
  /\ OrigReceiveMgtAction(kind)
  /\ UNCHANGED <<origQueue, responseTimers, resetTimers, requests, vanished>>

RecipSendLost ==
  /\ recipQueue # <<>> /\ recipQueue' = AfterMissedAck(recipQueue)
  /\ UNCHANGED <<recipAgreement, recipIdle, origVars>>
RecipAckLost ==
  /\ recipQueue # <<>> /\ recipQueue' = AfterMissedAck(recipQueue)
  /\ OrigReceives(Head(recipQueue).kind)
  /\ UNCHANGED <<recipAgreement, recipIdle>>
RecipSendAcked ==
  /\ recipQueue # <<>> /\ recipQueue' = Tail(recipQueue)
  /\ OrigReceives(Head(recipQueue).kind)
  /\ RecipReceivedNormalAck(Head(recipQueue).kind)
RecipSend == RecipSendLost \/ RecipAckLost \/ RecipSendAcked

Next ==
  \/ SendAddBaRequest \/ AddBaResponseTimeout \/ ResetBa \/ InactivityTimeout \/ OrigExpire
  \/ RecipInactivity \/ RecipExpire
  \/ OrigSend \/ RecipSend

Spec == Init /\ [][Next]_vars

\* Timers run, and a station that has frames gets to send them.
FairSpec ==
  /\ Spec
  /\ WF_vars(AddBaResponseTimeout) /\ WF_vars(ResetBa)
  /\ WF_vars(OrigSend) /\ WF_vars(RecipSend)

----------------------------------------------------------------------------
\* Type invariant.
TypeOK ==
  /\ agreement \in States /\ blocked \in BOOLEAN /\ requests \in Nat
  /\ origQueue \in Seq(Frames({"ADDBA_REQUEST", "DELBA"}))
  /\ recipQueue \in Seq(Frames({"ADDBA_RESPONSE", "DELBA"}))
  /\ responseTimers \in Nat /\ resetTimers \in Nat
  /\ origIdle \in IdleEvents /\ recipIdle \in IdleEvents
  /\ recipAgreement \in BOOLEAN /\ vanished \in BOOLEAN

\* Unless a request vanished, a pending agreement is being asked for or has a
\* response timer, and one that got no reply has a reset timer: whatever frames
\* and timers of earlier requests are still around, the agreement does not stay
\* in these states for lack of an event (AddBaResponseTimeout,
\* NotifyPacketDiscarded, ResetBa).
HandshakeIsWatched ==
  /\ agreement = "PENDING" =>
       Has(origQueue, "ADDBA_REQUEST") \/ responseTimers > 0 \/ vanished
  /\ agreement = "NO_REPLY" => resetTimers > 0

\* Unless a request vanishes the handshake ends: a pending or unanswered
\* agreement becomes established, reset or destroyed.
HandshakeEnds ==
  \/ <>vanished
  \/ agreement \in {"PENDING", "NO_REPLY"} ~> agreement \in {"NONE", "ESTABLISHED", "RESET"}

TearDown == Has(origQueue, "DELBA") \/ Has(recipQueue, "DELBA")

\* Unless an agreement is ever torn down or a request vanishes, a destination
\* blocked by an ADDBA request is unblocked, by the response, its timer or the
\* drop of the request.
BlockedIsUnblocked == <>(TearDown \/ vanished) \/ (blocked ~> ~blocked)

\* Until an agreement is torn down the two sides agree: the originator uses
\* block acks only if the recipient has the agreement, although late and
\* repeated responses and stale timers change the originator's state.
EstablishedOnBothSides ==
  <>TearDown \/ [](agreement = "ESTABLISHED" => recipAgreement /\ ~blocked)
=============================================================================
