---- MODULE WalkerCdcProofs ----
(* The handshake of the walker bridge, for every set of payloads: the       *)
(* inductive invariant IInv of WalkerCdc and what follows from it.           *)
EXTENDS WalkerCdc, TLAPS

USE DEF SyncLow, Sync, Shift, Seen

(* Reset leaves both sides without a token.                                  *)
LEMMA InitIInv == Init => IInv
<1> SUFFICES ASSUME Init PROVE IInv
  OBVIOUS
<1> USE PayloadAssumption DEF Init
<1>1. TypeOK
  <2>1. NoResp \in Response
    BY DEF NoResp, Response
  <2>2. served \in 0..2
    OBVIOUS
  <2> QED
    BY <2>1, <2>2 DEF TypeOK
<1>2. OneToken /\ Handshake /\ Progress
  BY DEF OneToken, Handshake, Progress, InFlight, Asked, Replied,
         Req0, Req1, Req2, Ack0, Ack1, Ack2
<1>3. ControllerIdle
  BY DEF ControllerIdle, Req1, Req2
<1>4. Resets
  BY DEF Resets, m_rst_n
<1> QED
  BY <1>1, <1>2, <1>3, <1>4 DEF IInv

(* A clock of the MMU's side alone: it raises the request token, takes the   *)
(* answer token in, or re-arms.                                              *)
LEMMA SEdgeIInv == IInv /\ SEdge => IInv'
<1> SUFFICES ASSUME IInv, SEdge PROVE IInv'
  OBVIOUS
<1> USE PayloadAssumption
    DEF SEdge, SStep, Client, Issue, Consume, client, SClock, AckNext, Accept, Answered,
        Release, CountServed, mRegs, controller, IInv
<1>1. TypeOK'
  <2>1. s_resp' \in Response
    BY DEF TypeOK, Response
  <2>2. served' \in 0..2
    BY DEF TypeOK
  <2>3. s_ack_sync' \in Sync
    BY DEF TypeOK
  <2>4. w_issued' \in BOOLEAN /\ w_pay' \in Payload
    BY DEF TypeOK
  <2>5. s_hold' \in Payload \cup {Garbage}
    BY DEF TypeOK
  <2>6. /\ s_busy' \in BOOLEAN /\ s_req_toggle' \in BOOLEAN
        /\ s_ack_seen' \in BOOLEAN /\ s_ack' \in BOOLEAN
    BY DEF TypeOK
  <2>7. UNCHANGED <<mRegs, m_srst_sync, s_rst, m_rst, controller>>
    OBVIOUS
  <2> HIDE DEF SEdge, SStep
  <2> QED
    BY <2>1, <2>2, <2>3, <2>4, <2>5, <2>6, <2>7 DEF TypeOK
<1>2. OneToken'
  BY DEF TypeOK, OneToken, Handshake, InFlight, Asked, Replied, Req0, Req1, Req2, Ack0, Ack1, Ack2
<1>3. Handshake'
  BY DEF TypeOK, OneToken, Handshake, InFlight, Asked, Replied, Req0, Req1, Req2, Ack0, Ack1, Ack2
<1>4. Progress'
  BY DEF TypeOK, OneToken, Handshake, Progress, RightAnswer, Response,
         InFlight, Asked, Replied, Req0, Req1, Req2, Ack0, Ack1, Ack2
<1>5. ControllerIdle'
  BY DEF ControllerIdle, Req1, Req2
<1>6. Resets'
  BY DEF Resets, m_rst_n
<1> QED
  BY <1>1, <1>2, <1>3, <1>4, <1>5, <1>6

(* A clock of the RAM side alone: the request token becomes a RAM request,   *)
(* or an answer at once for a bad one, and the RAM's answer a reply token.   *)
LEMMA MEdgeIInv ==
    ASSUME IInv, NEW done \in BOOLEAN, NEW err \in BOOLEAN, MEdge(done, err)
    PROVE  IInv'
<1> USE PayloadAssumption
    DEF MEdge, MStep, MClock, Completes, Controller, Takes, Arrived, CountServed,
        client, sRegs, mRegs, m_req, m_rst_n, IInv
<1>1. TypeOK'
  <2>1. m_resp' \in Response
    <3>1. CASE m_resp' = [pay |-> s_hold, berr |-> TRUE]
      BY <3>1 DEF TypeOK, Response
    <3>2. CASE m_resp' = [pay |-> ctl_pay, berr |-> err]
      BY <3>2 DEF TypeOK, Response
    <3>3. CASE m_resp' = m_resp
      BY <3>3 DEF TypeOK
    <3> QED
      BY <3>1, <3>2, <3>3
  <2>2. served' \in 0..2
    BY DEF TypeOK
  <2>3. m_req_sync' \in Sync /\ m_srst_sync' \in Sync
    BY DEF TypeOK
  <2>4. ctl_busy' \in BOOLEAN /\ ctl_armed' \in BOOLEAN
    BY DEF TypeOK
  <2>5. m_pay' \in Payload \cup {Garbage} /\ ctl_pay' \in Payload \cup {Garbage}
    BY DEF TypeOK
  <2> QED
    BY <2>1, <2>2, <2>3, <2>4, <2>5 DEF TypeOK
<1>2. OneToken'
  BY DEF TypeOK, OneToken, Handshake, InFlight, Asked, Replied, Req0, Req1, Req2, Ack0, Ack1, Ack2
<1>3. Handshake'
  BY DEF TypeOK, OneToken, Handshake, ControllerIdle, InFlight, Asked, Replied,
         Req0, Req1, Req2, Ack0, Ack1, Ack2
<1>4. Progress'
  <2>1. CASE ~m_rst_n
    BY <2>1 DEF TypeOK, OneToken, Handshake, Progress, ControllerIdle, RightAnswer, Response,
           InFlight, Asked, Replied, Req0, Req1, Req2, Ack0, Ack1, Ack2, Resets
  <2>2. CASE m_rst_n /\ Arrived
    <3>1. /\ Req2 /\ ~Req0 /\ ~Req1 /\ ~Replied /\ ~m_active
          /\ w_issued /\ s_busy /\ ~s_ack /\ s_hold = w_pay /\ served = 0
      BY <2>2 DEF OneToken, Handshake, Progress, InFlight, Asked, Req2
    <3>2. ~ctl_busy /\ ctl_armed /\ ~s_rst
      BY <2>2, <3>1 DEF ControllerIdle, TypeOK, Resets
    <3>3. CASE s_hold \in BadPayload
      <4>1. m_resp' = [pay |-> w_pay, berr |-> TRUE] /\ ~m_active' /\ served' = 0 /\ w_pay' = w_pay
        BY <2>2, <3>1, <3>2, <3>3
      <4>2. RightAnswer(m_resp)'
        BY <4>1, <3>3, <3>1 DEF RightAnswer
      <4>3. ~s_ack'
        BY <3>1
      <4> HIDE DEF MEdge, MStep
      <4> QED
        BY <4>1, <4>2, <4>3 DEF Progress
    <3>4. CASE s_hold \notin BadPayload
      <4>1. m_active' /\ m_pay' = w_pay /\ UNCHANGED <<w_pay, m_ack_toggle, s_ack_sync, s_ack_seen>>
        BY <2>2, <3>1, <3>4
      <4>2. ~Takes
        BY <3>1
      <4>3. ~ctl_busy' /\ ctl_armed'
        BY <4>2, <3>2
      <4>4. served' = 0
        BY <4>2, <3>1 DEF TypeOK
      <4> QED
        BY <4>1, <4>3, <4>4, <3>1, <3>4, <2>2 DEF Progress, Replied, Ack0, Ack1, Ack2, TypeOK
    <3> QED
      BY <3>3, <3>4
  <2>3. CASE m_rst_n /\ m_active
    BY <2>3 DEF TypeOK, OneToken, Handshake, Progress, ControllerIdle, RightAnswer, Response,
           InFlight, Asked, Replied, Req0, Req1, Req2, Ack0, Ack1, Ack2
  <2>4. CASE m_rst_n /\ ~Arrived /\ ~m_active
    BY <2>4 DEF TypeOK, OneToken, Handshake, Progress, ControllerIdle, RightAnswer, Response,
           InFlight, Asked, Replied, Req0, Req1, Req2, Ack0, Ack1, Ack2
  <2> QED
    BY <2>1, <2>2, <2>3, <2>4 DEF TypeOK, Arrived
<1>5. ControllerIdle'
  BY DEF TypeOK, OneToken, ControllerIdle, Progress, Handshake, InFlight, Asked, Replied, Req0, Req1, Req2
<1>6. Resets'
  BY DEF TypeOK, Resets
<1> QED
  BY <1>1, <1>2, <1>3, <1>4, <1>5, <1>6

(* Both clocks at once: whatever the flops make of a toggle in motion, the   *)
(* payload or response a side reads at that edge is not in motion.           *)
LEMMA BothIInv ==
    ASSUME IInv, NEW done \in BOOLEAN, NEW err \in BOOLEAN, BothEdges(done, err)
    PROVE  IInv'
<1>1. PICK ackTog \in BOOLEAN,
           respIn \in {m_resp} \cup [pay : {Garbage}, berr : BOOLEAN],
           reqTog \in {s_req_toggle, s_req_toggle'},
           payIn \in Seen(s_hold, s_hold', {Garbage}) :
        /\ SStep(ackTog, respIn)
        /\ MStep(reqTog, payIn, done, err)
        /\ ackTog \in {m_ack_toggle, m_ack_toggle'}
        /\ respIn \in Seen(m_resp, m_resp', [pay : {Garbage}, berr : BOOLEAN])
        /\ CountServed(Takes)
        /\ UNCHANGED <<s_rst, m_rst>>
  BY DEF BothEdges
<1> USE PayloadAssumption, <1>1
    DEF SStep, Client, Issue, Consume, client, SClock, AckNext, Accept, Answered,
        Release, CountServed, sRegs, mRegs, controller, IInv, m_req, m_rst_n,
        MStep, MClock, Completes, Controller, Takes, Arrived
<1>2. OneToken'
  BY DEF TypeOK, OneToken, Handshake, InFlight, Asked, Replied, Req0, Req1, Req2, Ack0, Ack1, Ack2
<1>3. Handshake'
  BY DEF TypeOK, OneToken, Handshake, ControllerIdle, InFlight, Asked, Replied,
         Req0, Req1, Req2, Ack0, Ack1, Ack2
<1>4. Progress'
  <2>1. Asked' => served' = 0
    BY DEF TypeOK, OneToken, Handshake, Progress, ControllerIdle,
           InFlight, Asked, Replied, Req0, Req1, Req2, Ack0, Ack1, Ack2
  <2>2. m_active' =>
          /\ m_pay' = w_pay' /\ w_pay' \notin BadPayload
          /\ \/ ~ctl_busy' /\ ctl_armed' /\ served' = 0
             \/ ctl_busy' /\ ctl_pay' = w_pay' /\ ~ctl_armed' /\ served' = 1
    <3>1. CASE m_rst_n /\ Arrived
      <4>1. /\ Req2 /\ ~Replied /\ ~m_active /\ w_issued /\ s_busy /\ ~s_ack
            /\ s_hold = w_pay /\ served = 0
        BY <3>1 DEF OneToken, Handshake, Progress, InFlight, Asked, Req2
      <4>2. ~ctl_busy /\ ctl_armed /\ ~s_rst
        BY <3>1, <4>1 DEF ControllerIdle, TypeOK, Resets
      <4>3. ~Takes
        BY <4>1
      <4>4. w_pay' = w_pay /\ payIn = w_pay
        BY <4>1
      <4>5. m_active' => m_pay' = w_pay /\ w_pay \notin BadPayload
        BY <3>1, <4>1, <4>4
      <4>6. ~ctl_busy' /\ ctl_armed'
        BY <4>2, <4>3
      <4>7. served' = 0
        BY <4>1, <4>3 DEF TypeOK
      <4> QED
        BY <4>4, <4>5, <4>6, <4>7
    <3>2. CASE m_rst_n /\ m_active
      <4>1. /\ w_issued /\ s_busy /\ m_pay = w_pay /\ w_pay \notin BadPayload
            /\ \/ ~ctl_busy /\ ctl_armed /\ served = 0
               \/ ctl_busy /\ ctl_pay = w_pay /\ ~ctl_armed /\ served = 1
        BY <3>2 DEF Handshake, Progress, InFlight
      <4>2. w_pay' = w_pay /\ m_pay' = w_pay
        BY <3>2, <4>1 DEF Handshake, InFlight
      <4>3. CASE ctl_busy
        <5>1. m_active' => ~done
          BY <3>2
        <5>2. ~Takes
          BY <4>3
        <5>3. ~done => ctl_busy'
          BY <4>3
        <5>4. ctl_pay' = w_pay
          BY <4>1, <4>3, <5>2
        <5>5. ~ctl_armed'
          BY <3>2, <4>1, <4>3
        <5>6. served' = 1
          BY <4>1, <4>3, <5>2
        <5> QED
          BY <4>1, <4>2, <5>1, <5>3, <5>4, <5>5, <5>6
      <4>4. CASE ~ctl_busy
        <5>1. Takes
          BY <3>2, <4>1, <4>4
        <5>2. ctl_busy' /\ ctl_pay' = w_pay /\ ~ctl_armed'
          BY <4>1, <5>1
        <5>3. served' = 1
          BY <4>1, <4>4, <5>1 DEF TypeOK
        <5> QED
          BY <4>1, <4>2, <5>2, <5>3
      <4> QED
        BY <4>3, <4>4 DEF TypeOK
    <3>3. CASE ~m_rst_n \/ (~Arrived /\ ~m_active)
      BY <3>3 DEF TypeOK, Resets
    <3> QED
      BY <3>1, <3>2, <3>3
  <2>3. Replied' => RightAnswer(m_resp)'
    BY DEF TypeOK, OneToken, Handshake, Progress, ControllerIdle, Resets, RightAnswer,
           InFlight, Asked, Replied, Req0, Req1, Req2, Ack0, Ack1, Ack2
  <2>4. s_ack' /\ w_issued' => RightAnswer(s_resp)'
    BY DEF TypeOK, OneToken, Handshake, Progress, ControllerIdle, Resets, RightAnswer,
           InFlight, Asked, Replied, Req0, Req1, Req2, Ack0, Ack1, Ack2
  <2> QED
    BY <2>1, <2>2, <2>3, <2>4 DEF Progress
<1>5. ControllerIdle'
  BY DEF TypeOK, OneToken, ControllerIdle, Progress, Handshake, InFlight, Asked, Replied, Req0, Req1, Req2
<1>6. Resets'
  BY DEF TypeOK, Resets
<1>7. TypeOK'
  <2>1. m_resp' \in Response
    <3>1. CASE m_resp' = [pay |-> payIn, berr |-> TRUE]
      BY <3>1 DEF TypeOK, Response
    <3>2. CASE m_resp' = [pay |-> ctl_pay, berr |-> err]
      BY <3>2 DEF TypeOK, Response
    <3>3. CASE m_resp' = m_resp
      BY <3>3 DEF TypeOK
    <3> QED
      BY <3>1, <3>2, <3>3
  <2>2. s_resp' \in Response
    BY DEF TypeOK, Response
  <2>3. served' \in 0..2
    BY DEF TypeOK
  <2>4. s_ack_sync' \in Sync /\ m_req_sync' \in Sync /\ m_srst_sync' \in Sync
    BY DEF TypeOK
  <2>5. w_issued' \in BOOLEAN /\ w_pay' \in Payload
    BY DEF TypeOK
  <2>6. /\ s_hold' \in Payload \cup {Garbage} /\ m_pay' \in Payload \cup {Garbage}
        /\ ctl_pay' \in Payload \cup {Garbage}
    BY DEF TypeOK
  <2>7. /\ s_busy' \in BOOLEAN /\ s_req_toggle' \in BOOLEAN
        /\ s_ack_seen' \in BOOLEAN /\ s_ack' \in BOOLEAN
    BY DEF TypeOK
  <2>8. /\ m_req_seen' \in BOOLEAN /\ m_active' \in BOOLEAN /\ m_ack_toggle' \in BOOLEAN
        /\ ctl_busy' \in BOOLEAN /\ ctl_armed' \in BOOLEAN
        /\ s_rst' \in BOOLEAN /\ m_rst' \in BOOLEAN
    BY DEF TypeOK
  <2> HIDE <1>1
  <2> QED
    BY <2>1, <2>2, <2>3, <2>4, <2>5, <2>6, <2>7, <2>8 DEF TypeOK
<1> QED
  BY <1>2, <1>3, <1>4, <1>5, <1>6, <1>7

(* A reset clears both sides, so no token survives it; a release moves none. *)
LEMMA ResetIInv ==
    ASSUME IInv, CpuReset \/ SystemReset \/ ReleaseS \/ ReleaseM
    PROVE  IInv'
<1> USE PayloadAssumption
    DEF IInv, client, sRegs, mRegs, controller
<1>1. CASE CpuReset \/ SystemReset
  <2>1. ResetS /\ ResetM /\ s_rst' = TRUE /\ m_srst_sync' = SyncLow
    BY <1>1 DEF CpuReset, SystemReset
  <2>2. m_rst' \in BOOLEAN /\ ctl_busy' \in BOOLEAN /\ ctl_armed' \in BOOLEAN
    BY <1>1 DEF CpuReset, SystemReset, TypeOK
  <2>3. ctl_pay' \in Payload \cup {Garbage}
    BY <1>1 DEF CpuReset, SystemReset, TypeOK
  <2>4. NoResp \in Response /\ w_pay \in Payload /\ SyncLow \in Sync
    BY DEF NoResp, Response, TypeOK
  <2> HIDE DEF IInv
  <2>5. TypeOK'
    <3> HIDE DEF Sync, SyncLow, IInv
    <3>1. /\ w_issued' \in BOOLEAN /\ w_pay' \in Payload
          /\ s_busy' \in BOOLEAN /\ s_req_toggle' \in BOOLEAN
          /\ s_ack_seen' \in BOOLEAN /\ s_ack' \in BOOLEAN
          /\ s_rst' \in BOOLEAN
      BY <2>1, <2>4 DEF ResetS
    <3>4. served' \in 0..2
      BY <2>1 DEF ResetS
    <3>2. /\ s_hold' \in Payload \cup {Garbage} /\ s_ack_sync' \in Sync
          /\ s_resp' \in Response /\ m_srst_sync' \in Sync
      BY <2>1, <2>4 DEF ResetS
    <3>3. /\ m_req_sync' \in Sync /\ m_resp' \in Response
          /\ m_pay' \in Payload \cup {Garbage}
          /\ m_req_seen' \in BOOLEAN /\ m_active' \in BOOLEAN /\ m_ack_toggle' \in BOOLEAN
      BY <2>1, <2>4 DEF ResetM
    <3> QED
      BY <2>2, <2>3, <3>1, <3>2, <3>3, <3>4 DEF TypeOK
  <2>6. ~InFlight' /\ ~Replied' /\ ~Asked' /\ ~Req1' /\ ~Req2' /\ OneToken'
    BY <2>1 DEF InFlight, Asked, Replied, Req0, Req1, Req2, Ack0, Ack1, Ack2, OneToken,
                ResetS, ResetM
  <2>7. Handshake' /\ Progress'
    BY <2>1, <2>6 DEF Handshake, Progress, ResetS, ResetM
  <2>8. ControllerIdle'
    BY <2>1, <2>6 DEF ControllerIdle
  <2>9. Resets'
    BY <2>1 DEF Resets, ResetS, ResetM
  <2> QED
    BY <2>5, <2>6, <2>7, <2>8, <2>9 DEF IInv
<1>2. CASE ReleaseS \/ ReleaseM
  <2>1. TypeOK'
    <3> HIDE DEF Sync, SyncLow
    <3>1. CASE ReleaseS
      <4>1. s_rst' \in BOOLEAN
        BY <3>1 DEF ReleaseS
      <4>2. UNCHANGED <<client, sRegs, mRegs, m_srst_sync, m_rst, controller, served>>
        BY <3>1 DEF ReleaseS
      <4> QED
        BY <4>1, <4>2 DEF TypeOK
    <3>2. CASE ReleaseM
      <4>1. m_rst' \in BOOLEAN
        BY <3>2 DEF ReleaseM
      <4>2. UNCHANGED <<client, sRegs, mRegs, m_srst_sync, s_rst, controller, served>>
        BY <3>2 DEF ReleaseM
      <4> QED
        BY <4>1, <4>2 DEF TypeOK
    <3> QED
      BY <1>2, <3>1, <3>2
  <2> USE <1>2 DEF ReleaseS, ReleaseM
  <2>2. OneToken' /\ Handshake' /\ Progress'
    BY DEF OneToken, Handshake, Progress, RightAnswer, InFlight, Asked, Replied,
           Req0, Req1, Req2, Ack0, Ack1, Ack2
  <2>3. ControllerIdle'
    BY DEF ControllerIdle, Req1, Req2
  <2>4. Resets'
    BY DEF TypeOK, Resets, m_rst_n
  <2> QED
    BY <2>1, <2>2, <2>3, <2>4
<1> QED
  BY <1>1, <1>2

(* The token invariant holds in every reachable state.                       *)
THEOREM WalkerCdcInductive == Spec => []IInv
<1>1. IInv /\ [Next]_vars => IInv'
  <2> SUFFICES ASSUME IInv, [Next]_vars PROVE IInv'
    OBVIOUS
  <2>1. CASE Next
    BY <2>1, SEdgeIInv, MEdgeIInv, BothIInv, ResetIInv DEF Next
  <2>2. CASE UNCHANGED vars
    BY <2>2 DEF vars, client, sRegs, mRegs, controller, IInv, TypeOK, OneToken, Handshake,
           Progress, ControllerIdle, Resets, RightAnswer, InFlight, Asked, Replied,
           Req0, Req1, Req2, Ack0, Ack1, Ack2, m_rst_n
  <2> QED
    BY <2>1, <2>2
<1> QED
  BY <1>1, InitIInv, PTL DEF Spec

(* Whatever stands at the RAM controller is the whole payload of the walker  *)
(* request the MMU holds at that moment, and one the RAM window contains.    *)
THEOREM WalkerCdcLaunch == Spec => []LaunchIsHeldRequest
<1>1. IInv => LaunchIsHeldRequest
  BY DEF IInv, Handshake, Progress, InFlight, LaunchIsHeldRequest, m_req
<1> QED
  BY <1>1, WalkerCdcInductive, PTL

(* The answer the MMU takes belongs to its request and the RAM did it once.  *)
THEOREM WalkerCdcAnswer == Spec => []AnswerIsForRequest
<1>1. IInv => AnswerIsForRequest
  BY DEF IInv, Progress, RightAnswer, AnswerIsForRequest
<1> QED
  BY <1>1, WalkerCdcInductive, PTL
====
