---------------------------- MODULE AddBa_proofs ----------------------------
(***************************************************************************)
(* AddBa for every retry limit and any number of requests, with and        *)
(* without inactivity timeouts: the handshake is watched, every variable   *)
(* keeps its type, and the sides agree until an agreement is torn down.    *)
(***************************************************************************)
EXTENDS AddBa, SequenceTheorems, TLAPS

Requests == Frames({"ADDBA_REQUEST", "DELBA"})

(***************************************************************************)
(* The handshake concerns the originator; all it needs of the types is     *)
(* that its queue is one of management frames and its timers are counted.  *)
(* The recipient may send anything at any time.                            *)
(***************************************************************************)
OrigOK ==
  /\ origQueue \in Seq(Requests)
  /\ responseTimers \in Nat /\ resetTimers \in Nat

IInv == OrigOK /\ HandshakeIsWatched

----------------------------------------------------------------------------
(***************************************************************************)
(* What happens to the queue of the originator.                            *)
(***************************************************************************)
\* A new frame is appended.
LEMMA AppendFrame ==
  ASSUME NEW queue \in Seq(Requests), NEW kind \in {"ADDBA_REQUEST", "DELBA"}
  PROVE  /\ Append(queue, Frame(kind)) \in Seq(Requests)
         /\ Has(Append(queue, Frame(kind)), kind)
         /\ Has(queue, "ADDBA_REQUEST") => Has(Append(queue, Frame(kind)), "ADDBA_REQUEST")
<1>1. Frame(kind) \in Requests
  BY AddBaAssumption DEF Frame, Requests, Frames
<1>. HIDE DEF Requests
<1>. DEFINE q == Append(queue, Frame(kind))
<1>2. /\ q \in Seq(Requests) /\ Len(q) = Len(queue) + 1 /\ q[Len(queue) + 1] = Frame(kind)
      /\ \A i \in 1 .. Len(queue) : q[i] = queue[i]
      /\ DOMAIN q = 1 .. Len(queue) + 1 /\ DOMAIN queue = 1 .. Len(queue) /\ Len(queue) \in Nat
  BY <1>1, AppendProperties, LenProperties
<1>3. Len(queue) + 1 \in DOMAIN q /\ q[Len(queue) + 1].kind = kind
  BY <1>2 DEF Frame
<1>. HIDE DEF q
<1>4. Has(q, kind)
  BY <1>3 DEF Has
<1>5. ASSUME Has(queue, "ADDBA_REQUEST") PROVE Has(q, "ADDBA_REQUEST")
  <2>1. PICK i \in DOMAIN queue : queue[i].kind = "ADDBA_REQUEST"
    BY <1>5 DEF Has
  <2>2. i \in DOMAIN q /\ q[i].kind = "ADDBA_REQUEST"
    BY <1>2, <2>1
  <2>. QED  BY <2>2 DEF Has
<1>. QED  BY <1>2, <1>4, <1>5 DEF q

\* The first frame leaves the queue; a request is not lost with another frame.
LEMMA TailFrames ==
  ASSUME NEW queue \in Seq(Requests), queue # <<>>
  PROVE  /\ Tail(queue) \in Seq(Requests)
         /\ Has(queue, "ADDBA_REQUEST") /\ Head(queue).kind # "ADDBA_REQUEST"
              => Has(Tail(queue), "ADDBA_REQUEST")
<1>1. /\ Tail(queue) \in Seq(Requests) /\ Len(Tail(queue)) = Len(queue) - 1
      /\ \A i \in 1 .. Len(Tail(queue)) : Tail(queue)[i] = queue[i + 1]
      /\ Head(queue) = queue[1]
      /\ DOMAIN queue = 1 .. Len(queue) /\ Len(queue) \in Nat
      /\ DOMAIN Tail(queue) = 1 .. Len(Tail(queue))
  BY HeadTailProperties, LenProperties
<1>2. ASSUME Has(queue, "ADDBA_REQUEST"), Head(queue).kind # "ADDBA_REQUEST"
      PROVE  Has(Tail(queue), "ADDBA_REQUEST")
  <2>1. PICK i \in DOMAIN queue : queue[i].kind = "ADDBA_REQUEST"
    BY <1>2 DEF Has
  <2>2. i # 1
    BY <1>1, <1>2, <2>1
  <2>3. i - 1 \in DOMAIN Tail(queue) /\ Tail(queue)[i - 1] = queue[i]
    BY <1>1, <2>1, <2>2
  <2>. QED  BY <2>1, <2>3 DEF Has
<1>. QED  BY <1>1, <1>2

\* A missed Ack: the frame stays with its kind, or it is dropped.
LEMMA MissedAckFrames ==
  ASSUME NEW queue \in Seq(Requests), queue # <<>>
  PROVE  /\ AfterMissedAck(queue) \in Seq(Requests)
         /\ Has(queue, "ADDBA_REQUEST")
              => \/ Has(AfterMissedAck(queue), "ADDBA_REQUEST")
                 \/ LastTry(queue) /\ Head(queue).kind = "ADDBA_REQUEST"
<1>1. CASE LastTry(queue)
  BY <1>1, TailFrames DEF AfterMissedAck
<1>2. CASE ~LastTry(queue)
  <2>. DEFINE f == [queue[1] EXCEPT !.tries = @ + 1]
              q == [queue EXCEPT ![1] = f]
  <2>1. AfterMissedAck(queue) = q
    BY <1>2 DEF AfterMissedAck
  <2>2. /\ DOMAIN queue = 1 .. Len(queue) /\ Len(queue) \in Nat /\ 1 \in DOMAIN queue
        /\ queue[1] \in Requests /\ Head(queue) = queue[1]
    BY LenProperties, HeadTailProperties, ElementOfSeq, EmptySeq
  <2>3. f \in Requests /\ f.kind = queue[1].kind
    BY <1>2, <2>2, AddBaAssumption DEF LastTry, Requests, Frames
  <2>4. q \in Seq(Requests)
    BY <2>2, <2>3, ExceptSeq
  <2>5. \A i \in DOMAIN queue : i \in DOMAIN q /\ q[i].kind = queue[i].kind
    BY <2>2, <2>3
  <2>6. Has(queue, "ADDBA_REQUEST") => Has(q, "ADDBA_REQUEST")
    BY <2>5 DEF Has
  <2>. QED  BY <2>1, <2>4, <2>6
<1>. QED  BY <1>1, <1>2

----------------------------------------------------------------------------
(***************************************************************************)
(* The steps.                                                              *)
(***************************************************************************)
\* Steps of the recipient that the originator does not notice.
LEMMA UnnoticedStep == IInv /\ UNCHANGED origVars => IInv'
BY DEF IInv, OrigOK, HandshakeIsWatched, origVars, Has

\* The originator gives a pending agreement up, or nothing changes but a frame
\* that leaves the queue or a timer that ends without being needed.
LEMMA GiveUpStep ==
  ASSUME IInv, NoReply, origQueue' \in Seq(Requests), responseTimers' \in Nat
  PROVE  IInv'
BY DEF IInv, OrigOK, HandshakeIsWatched, NoReply

\* A frame of the recipient arrives, whatever it is.
LEMMA OrigReceivesStep ==
  ASSUME IInv, NEW kind, OrigReceives(kind)
  PROVE  IInv'
<1>1. UNCHANGED <<origQueue, responseTimers, resetTimers, vanished>>
  BY DEF OrigReceives
<1>2. agreement' \in {"NONE", "ESTABLISHED"}
  BY DEF OrigReceives, OrigReceiveMgtAction, GotAddBaResponse, DestroyOriginatorAgreement
<1>. QED  BY <1>1, <1>2 DEF IInv, OrigOK, HandshakeIsWatched

\* A transmission of the originator that is not acknowledged.
LEMMA OrigMissedAckStep ==
  ASSUME IInv, origQueue # <<>>, OrigMissedAck
  PROVE  IInv'
<1>. DEFINE kind == Head(origQueue).kind
<1>1. /\ origQueue \in Seq(Requests) /\ responseTimers \in Nat /\ resetTimers \in Nat
      /\ origQueue' = AfterMissedAck(origQueue)
      /\ UNCHANGED <<responseTimers, vanished>>
  BY DEF IInv, OrigOK, OrigMissedAck
<1>2. /\ origQueue' \in Seq(Requests)
      /\ Has(origQueue, "ADDBA_REQUEST") =>
           \/ Has(origQueue', "ADDBA_REQUEST")
           \/ LastTry(origQueue) /\ kind = "ADDBA_REQUEST"
  BY <1>1, MissedAckFrames
<1>3. CASE LastTry(origQueue) /\ kind = "ADDBA_REQUEST" /\ agreement = "PENDING"
  <2>1. NoReply
    BY <1>3 DEF OrigMissedAck, OrigPacketDiscarded
  <2>. QED  BY <1>1, <1>2, <2>1, GiveUpStep
<1>4. CASE ~(LastTry(origQueue) /\ kind = "ADDBA_REQUEST" /\ agreement = "PENDING")
  <2>1. UNCHANGED <<agreement, resetTimers>>
    BY <1>4 DEF OrigMissedAck, OrigPacketDiscarded
  <2>. QED  BY <1>1, <1>2, <1>4, <2>1 DEF IInv, OrigOK, HandshakeIsWatched
<1>. QED  BY <1>3, <1>4

\* A transmission of the originator that is acknowledged: a request leaves its
\* response timer behind, a DELBA frame ends the agreement.
LEMMA OrigSendAckedStep ==
  ASSUME IInv, OrigSendAcked
  PROVE  IInv'
<1>1. /\ origQueue \in Seq(Requests) /\ responseTimers \in Nat /\ resetTimers \in Nat
      /\ origQueue # <<>> /\ origQueue' = Tail(origQueue)
      /\ UNCHANGED <<resetTimers, vanished>>
  BY DEF IInv, OrigOK, OrigSendAcked
<1>2. origQueue' \in Seq(Requests)
  BY <1>1, TailFrames
<1>3. \/ responseTimers' = responseTimers + 1 /\ UNCHANGED agreement
      \/ agreement' = "NONE" /\ UNCHANGED responseTimers
  BY DEF OrigSendAcked, OrigReceivedNormalAck, DestroyOriginatorAgreement
<1>. QED  BY <1>1, <1>2, <1>3 DEF IInv, OrigOK, HandshakeIsWatched

\* Initially there is no agreement.
LEMMA InitIInv == Init => IInv
BY EmptySeq DEF Init, IInv, OrigOK, HandshakeIsWatched, Has

\* Every step keeps the handshake watched.
LEMMA NextIInv == IInv /\ [Next]_vars => IInv'
<1>. SUFFICES ASSUME IInv, [Next]_vars PROVE IInv'
  OBVIOUS
<1>. USE DEF IInv
<1>1. /\ origQueue \in Seq(Requests) /\ responseTimers \in Nat /\ resetTimers \in Nat
      /\ HandshakeIsWatched
  BY DEF OrigOK
<1>2. CASE SendAddBaRequest
  <2>1. /\ agreement' = "PENDING" /\ UNCHANGED <<responseTimers, resetTimers>>
        /\ \/ origQueue' = Append(origQueue, Frame("ADDBA_REQUEST"))
           \/ vanished' = TRUE /\ UNCHANGED origQueue
    BY <1>2 DEF SendAddBaRequest
  <2>2. CASE origQueue' = Append(origQueue, Frame("ADDBA_REQUEST"))
    <3>1. origQueue' \in Seq(Requests) /\ Has(origQueue', "ADDBA_REQUEST")
      BY <1>1, <2>2, AppendFrame
    <3>. QED  BY <1>1, <2>1, <3>1 DEF OrigOK, HandshakeIsWatched
  <2>3. CASE vanished' = TRUE /\ UNCHANGED origQueue
    BY <1>1, <2>1, <2>3 DEF OrigOK, HandshakeIsWatched
  <2>. QED  BY <2>1, <2>2, <2>3
<1>3. CASE AddBaResponseTimeout
  <2>1. UNCHANGED <<origQueue, vanished>> /\ responseTimers' \in Nat
    BY <1>1, <1>3 DEF AddBaResponseTimeout
  <2>2. CASE agreement = "PENDING"
    BY <1>1, <1>3, <2>1, <2>2, GiveUpStep DEF AddBaResponseTimeout
  <2>3. CASE agreement # "PENDING"
    BY <1>1, <1>3, <2>1, <2>3 DEF AddBaResponseTimeout, OrigOK, HandshakeIsWatched
  <2>. QED  BY <2>2, <2>3
<1>4. CASE ResetBa
  <2>1. /\ UNCHANGED <<origQueue, responseTimers, vanished>> /\ resetTimers' \in Nat
        /\ agreement' \in {"NONE", "ESTABLISHED", "RESET"}
    BY <1>1, <1>4 DEF ResetBa
  <2>. QED  BY <1>1, <2>1 DEF OrigOK, HandshakeIsWatched
<1>5. CASE InactivityTimeout
  <2>1. /\ origQueue' = Append(origQueue, Frame("DELBA"))
        /\ UNCHANGED <<agreement, responseTimers, resetTimers, vanished>>
    BY <1>5 DEF InactivityTimeout
  <2>2. /\ origQueue' \in Seq(Requests)
        /\ Has(origQueue, "ADDBA_REQUEST") => Has(origQueue', "ADDBA_REQUEST")
    BY <1>1, <2>1, AppendFrame
  <2>. QED  BY <1>1, <2>1, <2>2 DEF OrigOK, HandshakeIsWatched
<1>6. CASE OrigExpire
  <2>1. /\ origQueue # <<>> /\ origQueue' = Tail(origQueue)
        /\ vanished' = (vanished \/ Head(origQueue).kind = "ADDBA_REQUEST")
        /\ UNCHANGED <<agreement, responseTimers, resetTimers>>
    BY <1>6 DEF OrigExpire
  <2>2. /\ origQueue' \in Seq(Requests)
        /\ Has(origQueue, "ADDBA_REQUEST") =>
             Has(origQueue', "ADDBA_REQUEST") \/ Head(origQueue).kind = "ADDBA_REQUEST"
    BY <1>1, <2>1, TailFrames
  <2>. QED  BY <1>1, <2>1, <2>2 DEF OrigOK, HandshakeIsWatched
<1>7. CASE RecipInactivity \/ RecipExpire \/ RecipSendLost
  BY <1>7, UnnoticedStep DEF RecipInactivity, RecipExpire, RecipSendLost
<1>8. CASE OrigSendLost \/ OrigAckLost
  BY <1>8, OrigMissedAckStep DEF OrigSendLost, OrigAckLost
<1>9. CASE OrigSendAcked
  BY <1>9, OrigSendAckedStep
<1>10. CASE RecipAckLost \/ RecipSendAcked
  BY <1>10, OrigReceivesStep DEF RecipAckLost, RecipSendAcked
<1>11. CASE UNCHANGED vars
  BY <1>11, UnnoticedStep DEF vars
<1>. QED
  BY <1>2, <1>3, <1>4, <1>5, <1>6, <1>7, <1>8, <1>9, <1>10, <1>11
  DEF Next, OrigSend, RecipSend

\* A pending agreement is being asked for or has a response timer, and one that
\* got no reply has a reset timer (AddBaResponseTimeout, NotifyPacketDiscarded,
\* ResetBa): for any retry limit, any number of requests, and frames of the
\* recipient that are lost, repeated and late.
THEOREM HandshakeWatched == Spec => []HandshakeIsWatched
<1>1. IInv => HandshakeIsWatched
  BY DEF IInv
<1>. QED  BY <1>1, InitIInv, NextIInv, PTL DEF Spec
----------------------------------------------------------------------------
(***************************************************************************)
(* Types.                                                                  *)
(***************************************************************************)
\* The first frame of a queue.
LEMMA HeadFrame ==
  ASSUME NEW kinds, NEW queue \in Seq(Frames(kinds)), queue # <<>>
  PROVE  /\ Head(queue) \in Frames(kinds) /\ Head(queue).kind \in kinds
         /\ Tail(queue) \in Seq(Frames(kinds))
         /\ Has(queue, Head(queue).kind)
<1>1. /\ DOMAIN queue = 1 .. Len(queue) /\ Len(queue) \in Nat /\ 1 \in DOMAIN queue
      /\ queue[1] \in Frames(kinds) /\ Head(queue) = queue[1]
      /\ Tail(queue) \in Seq(Frames(kinds))
  BY LenProperties, HeadTailProperties, ElementOfSeq, EmptySeq
<1>2. Has(queue, Head(queue).kind)
  BY <1>1 DEF Has
<1>3. queue[1].kind \in kinds
  BY <1>1 DEF Frames
<1>. QED  BY <1>1, <1>2, <1>3

\* A frame whose Ack is missing counts a try or leaves the queue.
LEMMA AfterMissedAckType ==
  ASSUME NEW kinds, NEW queue \in Seq(Frames(kinds)), queue # <<>>
  PROVE  AfterMissedAck(queue) \in Seq(Frames(kinds))
<1>1. CASE LastTry(queue)
  BY <1>1, HeadFrame DEF AfterMissedAck
<1>2. CASE ~LastTry(queue)
  <2>. DEFINE f == [queue[1] EXCEPT !.tries = @ + 1]
  <2>1. AfterMissedAck(queue) = [queue EXCEPT ![1] = f]
    BY <1>2 DEF AfterMissedAck
  <2>2. /\ DOMAIN queue = 1 .. Len(queue) /\ Len(queue) \in Nat /\ 1 \in DOMAIN queue
        /\ queue[1] \in Frames(kinds) /\ Head(queue) = queue[1]
    BY LenProperties, HeadTailProperties, ElementOfSeq, EmptySeq
  <2>3. f \in Frames(kinds)
    BY <1>2, <2>2, AddBaAssumption DEF LastTry, Frames
  <2>4. [queue EXCEPT ![1] = f] \in Seq(Frames(kinds))
    BY <2>2, <2>3, ExceptSeq
  <2>. QED  BY <2>1, <2>4
<1>. QED  BY <1>1, <1>2

\* A frame is appended.
LEMMA AppendFrameType ==
  ASSUME NEW kinds, NEW queue \in Seq(Frames(kinds)), NEW kind \in kinds
  PROVE  Append(queue, Frame(kind)) \in Seq(Frames(kinds))
<1>1. Frame(kind) \in Frames(kinds)
  BY AddBaAssumption DEF Frame, Frames
<1>. QED  BY <1>1, AppendProperties

\* The queue without the pending response is a queue.
LEMMA WithoutPendingResponseType ==
  ASSUME NEW kinds, NEW queue \in Seq(Frames(kinds))
  PROVE  WithoutPendingResponse(queue) \in Seq(Frames(kinds))
<1>. DEFINE Pending == {i \in DOMAIN queue : queue[i].kind = "ADDBA_RESPONSE"}
            n == CHOOSE i \in Pending : TRUE
<1>1. DOMAIN queue = 1 .. Len(queue) /\ Len(queue) \in Nat
  BY LenProperties
<1>2. \A i \in 1 .. Len(queue) : queue[i] \in Frames(kinds)
  BY ElementOfSeq
<1>3. CASE Pending = {}
  BY <1>3 DEF WithoutPendingResponse
<1>4. CASE Pending # {}
  <2>1. n \in 1 .. Len(queue)
    BY <1>1, <1>4
  <2>2. WithoutPendingResponse(queue) = RemoveAt(queue, n)
    BY <1>4 DEF WithoutPendingResponse
  <2>. HIDE DEF n, Pending
  <2>3. SubSeq(queue, 1, n - 1) \in Seq(Frames(kinds))
    <3>1. /\ 1 \in Int /\ n - 1 \in Int
          /\ \A i \in 1 .. n - 1 : queue[i] \in Frames(kinds)
      BY <1>1, <1>2, <2>1
    <3>. QED  BY <3>1, SubSeqProperties
  <2>4. SubSeq(queue, n + 1, Len(queue)) \in Seq(Frames(kinds))
    <3>1. /\ n + 1 \in Int /\ Len(queue) \in Int
          /\ \A i \in n + 1 .. Len(queue) : queue[i] \in Frames(kinds)
      BY <1>1, <1>2, <2>1
    <3>. QED  BY <3>1, SubSeqProperties
  <2>. QED  BY <2>2, <2>3, <2>4, ConcatProperties DEF RemoveAt
<1>. QED  BY <1>3, <1>4

\* Inactivity events are armed, cancelled and run.
LEMMA IdleTypes ==
  ASSUME NEW idle \in IdleEvents
  PROVE  /\ Arm(idle) \in IdleEvents /\ Cancel(idle) \in IdleEvents
         /\ \A idle2 : Fires(idle, idle2) => idle2 \in IdleEvents
<1>0. /\ idle = [known |-> idle.known, lost |-> idle.lost]
      /\ idle.known \in BOOLEAN /\ idle.lost \in Nat
  BY DEF IdleEvents
<1>1. \A b \in BOOLEAN, n \in Nat : [known |-> b, lost |-> n] \in IdleEvents
  BY DEF IdleEvents
<1>2. FALSE \in BOOLEAN
  OBVIOUS
<1>3. Cancel(idle) \in IdleEvents
  BY <1>2 DEF Cancel, IdleEvents
<1>4. Arm(idle) \in IdleEvents
  <2>1. idle.lost + (IF idle.known THEN 1 ELSE 0) \in Nat
    BY <1>0
  <2>2. [known |-> TRUE, lost |-> idle.lost + (IF idle.known THEN 1 ELSE 0)] \in IdleEvents
    BY <1>1, <2>1
  <2>. QED  BY <2>2 DEF Arm
<1>5. ASSUME NEW idle2, Fires(idle, idle2) PROVE idle2 \in IdleEvents
  <2>1. CASE idle2 = Cancel(idle)
    BY <1>3, <2>1
  <2>2. CASE idle.lost > 0 /\ idle2 = [idle EXCEPT !.lost = @ - 1]
    <3>1. idle.lost - 1 \in Nat
      BY <1>0, <2>2
    <3>2. [idle EXCEPT !.lost = @ - 1] = [known |-> idle.known, lost |-> idle.lost - 1]
      BY <1>0
    <3>. QED  BY <1>0, <1>1, <2>2, <3>1, <3>2
  <2>. QED  BY <1>5, <2>1, <2>2 DEF Fires
<1>. QED  BY <1>3, <1>4, <1>5

\* Types of the recipient's side, and of what the originator tells it.
RecipOK ==
  /\ recipQueue \in Seq(Frames({"ADDBA_RESPONSE", "DELBA"}))
  /\ recipIdle \in IdleEvents /\ recipAgreement \in BOOLEAN

\* The recipient receives a management frame.
LEMMA RecipReceivesType ==
  ASSUME RecipOK, NEW kind, RecipReceiveMgtAction(kind)
  PROVE  RecipOK'
<1>1. CASE SendAddBaResponse
  <2>1. recipQueue' \in Seq(Frames({"ADDBA_RESPONSE", "DELBA"}))
    BY <1>1, WithoutPendingResponseType, AppendFrameType DEF SendAddBaResponse, RecipOK
  <2>. QED  BY <1>1, <2>1, IdleTypes DEF SendAddBaResponse, RecipOK
<1>2. CASE DestroyRecipientAgreement /\ UNCHANGED recipQueue
  BY <1>2, IdleTypes DEF DestroyRecipientAgreement, RecipOK
<1>. QED  BY <1>1, <1>2 DEF RecipReceiveMgtAction

\* Each step of the originator keeps the types of both sides.
LEMMA OrigStepType ==
  ASSUME TypeOK,
         \/ SendAddBaRequest \/ AddBaResponseTimeout \/ ResetBa \/ InactivityTimeout
         \/ OrigExpire \/ OrigSend
  PROVE  TypeOK'
<1>. DEFINE K == {"ADDBA_REQUEST", "DELBA"}
<1>0. /\ origQueue \in Seq(Frames(K)) /\ origIdle \in IdleEvents /\ RecipOK
      /\ responseTimers \in Nat /\ resetTimers \in Nat /\ requests \in Nat
      /\ agreement \in States /\ blocked \in BOOLEAN /\ vanished \in BOOLEAN
  BY DEF TypeOK, RecipOK
<1>1. ASSUME UNCHANGED recipVars PROVE RecipOK'
  BY <1>0, <1>1 DEF RecipOK, recipVars
<1>2. ASSUME RecipOK', origQueue' \in Seq(Frames(K)), origIdle' \in IdleEvents,
             responseTimers' \in Nat, resetTimers' \in Nat, requests' \in Nat,
             agreement' \in States, blocked' \in BOOLEAN, vanished' \in BOOLEAN
      PROVE  TypeOK'
  BY <1>2 DEF TypeOK, RecipOK
<1>. DEFINE f == Frame("ADDBA_REQUEST")
            d == Frame("DELBA")
<1>3. Append(origQueue, f) \in Seq(Frames(K)) /\ Append(origQueue, d) \in Seq(Frames(K))
  BY <1>0, AppendFrameType
<1>. HIDE DEF K
<1>4. CASE SendAddBaRequest
  <2>1. origQueue' \in Seq(Frames(K))
    BY <1>0, <1>3, <1>4 DEF SendAddBaRequest
  <2>2. /\ requests' = requests + 1 /\ agreement' = "PENDING" /\ blocked' = TRUE
        /\ vanished' = TRUE \/ vanished' = vanished
        /\ UNCHANGED <<responseTimers, resetTimers, origIdle, recipVars>>
    BY <1>4 DEF SendAddBaRequest
  <2>3. requests' \in Nat
    BY <1>0, <2>2
  <2>4. /\ responseTimers' \in Nat /\ resetTimers' \in Nat /\ origIdle' \in IdleEvents
        /\ agreement' \in States
    BY <1>0, <2>2 DEF States
  <2>5. blocked' \in BOOLEAN
    BY <2>2, Zenon
  <2>6. vanished' \in BOOLEAN
    BY <1>0, <2>2, Zenon
  <2>7. RecipOK'
    BY <1>1, <2>2
  <2>. QED  BY <1>2, <2>1, <2>3, <2>4, <2>5, <2>6, <2>7
<1>5. CASE AddBaResponseTimeout
  <2>1. /\ responseTimers > 0 /\ responseTimers' = responseTimers - 1
        /\ NoReply \/ UNCHANGED <<agreement, blocked, resetTimers>>
        /\ UNCHANGED <<origQueue, origIdle, requests, vanished, recipVars>>
    BY <1>5 DEF AddBaResponseTimeout
  <2>2. responseTimers' \in Nat
    BY <1>0, <2>1
  <2>3. resetTimers' \in Nat /\ agreement' \in States
    BY <1>0, <2>1 DEF NoReply, States
  <2>4. blocked' \in BOOLEAN
    BY <1>0, <2>1, Zenon DEF NoReply
  <2>5. /\ origQueue' \in Seq(Frames(K)) /\ origIdle' \in IdleEvents /\ requests' \in Nat
        /\ vanished' \in BOOLEAN
    BY <1>0, <2>1
  <2>6. RecipOK'
    BY <1>1, <2>1
  <2>. QED  BY <1>2, <2>2, <2>3, <2>4, <2>5, <2>6
<1>6. CASE ResetBa
  BY <1>0, <1>1, <1>2, <1>6 DEF ResetBa, States
<1>7. CASE InactivityTimeout
  <2>1. origIdle' \in IdleEvents
    BY <1>0, <1>7, IdleTypes DEF InactivityTimeout
  <2>. QED  BY <1>0, <1>1, <1>2, <1>3, <1>7, <2>1 DEF InactivityTimeout
<1>8. CASE OrigExpire
  <2>1. origQueue' \in Seq(Frames(K))
    BY <1>0, <1>8, HeadFrame DEF OrigExpire
  <2>. QED  BY <1>0, <1>1, <1>2, <1>8, <2>1 DEF OrigExpire
<1>9. CASE OrigSendLost \/ OrigAckLost
  <2>1. RecipOK'
    BY <1>0, <1>1, <1>9, RecipReceivesType DEF OrigSendLost, OrigAckLost
  <2>2. origQueue # <<>> /\ OrigMissedAck
    BY <1>9 DEF OrigSendLost, OrigAckLost
  <2>3. origQueue' \in Seq(Frames(K))
    BY <1>0, <2>2, AfterMissedAckType DEF OrigMissedAck
  <2>4. /\ UNCHANGED <<responseTimers, origIdle, requests, vanished>>
        /\ NoReply \/ UNCHANGED <<agreement, blocked, resetTimers>>
    BY <2>2 DEF OrigMissedAck, OrigPacketDiscarded
  <2>5. resetTimers' \in Nat /\ agreement' \in States
    BY <1>0, <2>4 DEF NoReply, States
  <2>6. blocked' \in BOOLEAN
    BY <1>0, <2>4, Zenon DEF NoReply
  <2>7. /\ responseTimers' \in Nat /\ origIdle' \in IdleEvents /\ requests' \in Nat
        /\ vanished' \in BOOLEAN
    BY <1>0, <2>4
  <2>. QED  BY <1>2, <2>1, <2>3, <2>5, <2>6, <2>7
<1>10. CASE OrigSendAcked
  <2>1. RecipOK'
    BY <1>0, <1>10, RecipReceivesType DEF OrigSendAcked
  <2>2. origQueue' \in Seq(Frames(K))
    BY <1>0, <1>10, HeadFrame DEF OrigSendAcked
  <2>3. /\ UNCHANGED <<resetTimers, requests, vanished>>
        /\ \/ responseTimers' = responseTimers + 1 /\ UNCHANGED <<agreement, blocked, origIdle>>
           \/ /\ agreement' = "NONE" /\ origIdle' = Cancel(origIdle)
              /\ UNCHANGED <<blocked, responseTimers>>
    BY <1>10 DEF OrigSendAcked, OrigReceivedNormalAck, DestroyOriginatorAgreement
  <2>4. Cancel(origIdle) \in IdleEvents
    BY <1>0, IdleTypes
  <2>. QED  BY <1>0, <1>2, <2>1, <2>2, <2>3, <2>4 DEF States
<1>. QED  BY <1>4, <1>5, <1>6, <1>7, <1>8, <1>9, <1>10 DEF OrigSend

\* Each step of the recipient keeps the types of both sides.
LEMMA RecipStepType ==
  ASSUME TypeOK, RecipInactivity \/ RecipExpire \/ RecipSend
  PROVE  TypeOK'
<1>. DEFINE K == {"ADDBA_RESPONSE", "DELBA"}
            OrigOK2 == /\ origQueue \in Seq(Frames({"ADDBA_REQUEST", "DELBA"}))
                       /\ origIdle \in IdleEvents
                       /\ responseTimers \in Nat /\ resetTimers \in Nat /\ requests \in Nat
                       /\ agreement \in States /\ blocked \in BOOLEAN /\ vanished \in BOOLEAN
<1>0. OrigOK2 /\ recipQueue \in Seq(Frames(K)) /\ recipIdle \in IdleEvents /\ recipAgreement \in BOOLEAN
  BY DEF TypeOK
<1>1. ASSUME OrigOK2', recipQueue' \in Seq(Frames(K)), recipIdle' \in IdleEvents,
             recipAgreement' \in BOOLEAN
      PROVE  TypeOK'
  BY <1>1 DEF TypeOK
<1>2. ASSUME UNCHANGED origVars PROVE OrigOK2'
  BY <1>0, <1>2 DEF origVars
<1>3. ASSUME NEW kind, OrigReceives(kind) PROVE OrigOK2'
  <2>1. Arm(origIdle) \in IdleEvents /\ Cancel(origIdle) \in IdleEvents
    BY <1>0, IdleTypes
  <2>2. /\ UNCHANGED <<origQueue, responseTimers, resetTimers, requests, vanished>>
        /\ agreement' \in {"NONE", "ESTABLISHED"} /\ blocked' \in {blocked, FALSE}
        /\ origIdle' \in {origIdle, Arm(origIdle), Cancel(origIdle)}
    BY <1>3 DEF OrigReceives, OrigReceiveMgtAction, GotAddBaResponse, DestroyOriginatorAgreement
  <2>. QED  BY <1>0, <2>1, <2>2 DEF States
<1>. HIDE DEF OrigOK2
<1>4. CASE RecipInactivity
  <2>1. recipQueue' \in Seq(Frames(K))
    BY <1>0, <1>4, AppendFrameType DEF RecipInactivity
  <2>2. recipIdle' \in IdleEvents
    BY <1>0, <1>4, IdleTypes DEF RecipInactivity
  <2>. QED  BY <1>0, <1>1, <1>2, <1>4, <2>1, <2>2 DEF RecipInactivity
<1>5. CASE RecipExpire
  <2>1. recipQueue' \in Seq(Frames(K))
    BY <1>0, <1>5, HeadFrame DEF RecipExpire
  <2>. QED  BY <1>0, <1>1, <1>2, <1>5, <2>1 DEF RecipExpire
<1>6. CASE RecipSendLost \/ RecipAckLost
  <2>1. recipQueue' \in Seq(Frames(K))
    BY <1>0, <1>6, AfterMissedAckType DEF RecipSendLost, RecipAckLost
  <2>2. OrigOK2' /\ UNCHANGED <<recipAgreement, recipIdle>>
    BY <1>2, <1>3, <1>6 DEF RecipSendLost, RecipAckLost
  <2>. QED  BY <1>0, <1>1, <2>1, <2>2
<1>7. CASE RecipSendAcked
  <2>1. recipQueue' \in Seq(Frames(K))
    BY <1>0, <1>7, HeadFrame DEF RecipSendAcked
  <2>2. OrigOK2'
    BY <1>3, <1>7 DEF RecipSendAcked
  <2>3. Cancel(recipIdle) \in IdleEvents
    BY <1>0, IdleTypes
  <2>4. recipIdle' \in IdleEvents /\ recipAgreement' \in BOOLEAN
    BY <1>0, <1>7, <2>3 DEF RecipSendAcked, RecipReceivedNormalAck, DestroyRecipientAgreement
  <2>. QED  BY <1>1, <2>1, <2>2, <2>4
<1>. QED  BY <1>4, <1>5, <1>6, <1>7 DEF RecipSend

\* Every variable keeps to its type; in particular no frame counts more tries than
\* the retry limit allows, although Acks are lost and responses replaced.
THEOREM TypeCorrect == Spec => []TypeOK
<1>1. Init => TypeOK
  <2>. SUFFICES ASSUME Init PROVE TypeOK
    OBVIOUS
  <2>1. NoIdleEvents \in IdleEvents
    BY DEF NoIdleEvents, IdleEvents
  <2>2. \A S : <<>> \in Seq(S)
    BY EmptySeq
  <2>3. agreement \in States /\ responseTimers \in Nat /\ resetTimers \in Nat /\ requests \in Nat
    BY DEF Init, States
  <2>4. blocked \in BOOLEAN /\ recipAgreement \in BOOLEAN /\ vanished \in BOOLEAN
    BY Zenon DEF Init
  <2>5. origIdle \in IdleEvents /\ recipIdle \in IdleEvents
    BY <2>1 DEF Init
  <2>6. /\ origQueue \in Seq(Frames({"ADDBA_REQUEST", "DELBA"}))
        /\ recipQueue \in Seq(Frames({"ADDBA_RESPONSE", "DELBA"}))
    BY <2>2 DEF Init
  <2>. QED  BY <2>3, <2>4, <2>5, <2>6 DEF TypeOK
<1>2. TypeOK /\ [Next]_vars => TypeOK'
  <2>. SUFFICES ASSUME TypeOK, [Next]_vars PROVE TypeOK'
    OBVIOUS
  <2>1. CASE UNCHANGED vars
    BY <2>1 DEF TypeOK, vars, origVars, recipVars
  <2>. QED  BY <2>1, OrigStepType, RecipStepType DEF Next
<1>. QED  BY <1>1, <1>2, PTL DEF Spec

----------------------------------------------------------------------------
(***************************************************************************)
(* Until an agreement is torn down the recipient has had an agreement ever *)
(* since it queued its first response.                                     *)
(***************************************************************************)
SidesInv ==
  /\ recipQueue = <<>> \/ recipAgreement
  /\ agreement = "ESTABLISHED" => recipAgreement /\ ~blocked

\* Without a DELBA frame in the queues no frame destroys an agreement.
LEMMA NoTearDownStep ==
  ASSUME TypeOK, SidesInv, ~TearDown, ~TearDown', [Next]_vars
  PROVE  SidesInv'
<1>0. /\ origQueue \in Seq(Frames({"ADDBA_REQUEST", "DELBA"}))
      /\ recipQueue \in Seq(Frames({"ADDBA_RESPONSE", "DELBA"}))
  BY DEF TypeOK
<1>1. origQueue # <<>> => Head(origQueue).kind = "ADDBA_REQUEST"
  BY <1>0, HeadFrame DEF TearDown
<1>2. recipQueue # <<>> => Head(recipQueue).kind = "ADDBA_RESPONSE"
  BY <1>0, HeadFrame DEF TearDown
<1>3. CASE SendAddBaRequest \/ AddBaResponseTimeout \/ ResetBa \/ InactivityTimeout \/ OrigExpire
  <2>1. UNCHANGED recipVars
    BY <1>3 DEF SendAddBaRequest, AddBaResponseTimeout, ResetBa, InactivityTimeout, OrigExpire
  <2>2. agreement' = "ESTABLISHED" => agreement = "ESTABLISHED" /\ blocked' = blocked
    BY <1>3 DEF SendAddBaRequest, AddBaResponseTimeout, ResetBa, InactivityTimeout, OrigExpire,
                NoReply
  <2>. QED  BY <2>1, <2>2 DEF SidesInv, recipVars
<1>4. CASE RecipInactivity
  <2>. DEFINE q == Append(recipQueue, Frame("DELBA"))
  <2>1. recipQueue' = q
    BY <1>4 DEF RecipInactivity
  <2>2. Len(recipQueue) + 1 \in DOMAIN q /\ q[Len(recipQueue) + 1].kind = "DELBA"
    <3>1. Frame("DELBA") \in Frames({"ADDBA_RESPONSE", "DELBA"})
      BY AddBaAssumption DEF Frame, Frames
    <3>2. /\ q \in Seq(Frames({"ADDBA_RESPONSE", "DELBA"})) /\ Len(q) = Len(recipQueue) + 1
          /\ q[Len(recipQueue) + 1] = Frame("DELBA") /\ Len(recipQueue) \in Nat
      BY <1>0, <3>1, AppendProperties, LenProperties
    <3>3. DOMAIN q = 1 .. Len(recipQueue) + 1
      BY <3>2, LenProperties
    <3>. QED  BY <3>2, <3>3 DEF Frame
  <2>3. Has(recipQueue', "DELBA")
    BY <2>1, <2>2 DEF Has
  <2>. QED  BY <2>3 DEF TearDown
<1>5. CASE RecipExpire \/ RecipSendLost
  BY <1>5 DEF RecipExpire, RecipSendLost, SidesInv, origVars
<1>6. CASE OrigSendLost \/ OrigAckLost \/ OrigSendAcked
  <2>1. Head(origQueue).kind = "ADDBA_REQUEST"
    BY <1>1, <1>6 DEF OrigSendLost, OrigAckLost, OrigSendAcked
  <2>2. agreement' = "ESTABLISHED" => agreement = "ESTABLISHED" /\ blocked' = blocked
    BY <1>6, <2>1 DEF OrigSendLost, OrigAckLost, OrigSendAcked, OrigMissedAck, OrigPacketDiscarded,
                      OrigReceivedNormalAck, NoReply
  <2>3. recipAgreement' = TRUE \/ UNCHANGED recipVars
    BY <1>6, <2>1 DEF OrigSendLost, OrigAckLost, OrigSendAcked, RecipReceiveMgtAction,
                      SendAddBaResponse
  <2>. QED  BY <2>2, <2>3 DEF SidesInv, recipVars
<1>7. CASE RecipAckLost \/ RecipSendAcked
  <2>1. Head(recipQueue).kind = "ADDBA_RESPONSE" /\ recipAgreement
    BY <1>2, <1>7 DEF RecipAckLost, RecipSendAcked, SidesInv
  <2>2. recipAgreement' = recipAgreement /\ ~blocked'
    BY <1>7, <2>1 DEF RecipAckLost, RecipSendAcked, RecipReceivedNormalAck, OrigReceives,
                      OrigReceiveMgtAction, GotAddBaResponse
  <2>. QED  BY <2>1, <2>2 DEF SidesInv
<1>8. CASE UNCHANGED vars
  BY <1>8 DEF SidesInv, vars, origVars, recipVars
<1>. QED  BY <1>3, <1>4, <1>5, <1>6, <1>7, <1>8 DEF Next, OrigSend, RecipSend

\* Unless an agreement is ever torn down, the originator uses block acks only
\* while the recipient has the agreement, and then the queue is not blocked:
\* late, repeated and replaced responses and stale timers do no harm.
THEOREM SidesEstablished == Spec => EstablishedOnBothSides
<1>1. Init => SidesInv
  BY DEF Init, SidesInv
<1>2. TypeOK /\ SidesInv /\ ~TearDown /\ ~TearDown' /\ [Next]_vars => SidesInv'
  BY NoTearDownStep
<1>3. SidesInv => (agreement = "ESTABLISHED" => recipAgreement /\ ~blocked)
  BY DEF SidesInv
<1>. QED  BY <1>1, <1>2, <1>3, TypeCorrect, PTL DEF Spec, EstablishedOnBothSides
=============================================================================
