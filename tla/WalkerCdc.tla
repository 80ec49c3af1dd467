---- MODULE WalkerCdc ----
(* rtl/compat/ap040_walker_cdc.v: the bridge that carries the table         *)
(* walker's descriptor reads and writes from the MMU's clock (s) to the RAM *)
(* controller's (m) and the answer back, with one toggle each way, each      *)
(* toggle through two synchroniser flops.                                    *)
(*                                                                           *)
(* The two clocks are unrelated: an s edge, an m edge, or both at once.  In  *)
(* the last case a flop that samples a toggle changing on the other side     *)
(* takes the old or the new value, and a bus sampled while it changes reads  *)
(* Garbage.  The client is the MMU's walker port (ap040_mmu.v: w_issued),    *)
(* which looks at the answer only under the clock enable.  The RAM           *)
(* controller is external: it takes a request once per rise of m_req and     *)
(* answers some time later, also when a reset has meanwhile withdrawn it.    *)

EXTENDS Naturals

CONSTANTS Payload,   \* what a descriptor transaction carries (s_we, s_addr, s_wdata, s_ddr)
          BadPayload, \* the payloads sent with s_bad: outside the RAM's window
          Garbage    \* a bus sampled while it changes

ASSUME PayloadAssumption == /\ BadPayload \subseteq Payload
                            /\ Garbage \notin Payload

\* A two-flop synchroniser: the changing bit is sampled by q0, used at q1.
Sync == [q0 : BOOLEAN, q1 : BOOLEAN]
SyncLow == [q0 |-> FALSE, q1 |-> FALSE]
Shift(sync, bit) == [q0 |-> bit, q1 |-> sync.q0]

NoResp == [pay |-> Garbage, berr |-> FALSE]   \* the response registers at reset

VARIABLES
    w_issued, w_pay,                           \* client: s_req and its payload
    s_busy, s_req_toggle, s_hold, s_ack_sync, s_ack_seen, s_ack, s_resp,
    m_srst_sync, m_req_sync, m_req_seen, m_active, m_pay, m_ack_toggle, m_resp,
    s_rst, m_rst,                              \* ~s_reset_n, ~m_reset_n
    ctl_busy, ctl_pay,                         \* RAM controller: at work, and on what
    ctl_armed,                                 \* m_req has been low since the last one
    served                                     \* ghost: RAM transactions begun for this s_req

client == <<w_issued, w_pay>>
sRegs == <<s_busy, s_req_toggle, s_hold, s_ack_sync, s_ack_seen, s_ack, s_resp>>
mRegs == <<m_req_sync, m_req_seen, m_active, m_pay, m_ack_toggle, m_resp>>
controller == <<ctl_busy, ctl_pay, ctl_armed>>
vars == <<client, sRegs, mRegs, m_srst_sync, s_rst, m_rst, controller, served>>

\* m_req is m_active: the two are set and cleared together.
m_req == m_active

Response == [pay : Payload \cup {Garbage}, berr : BOOLEAN]

TypeOK ==
    /\ w_issued \in BOOLEAN /\ w_pay \in Payload
    /\ s_busy \in BOOLEAN /\ s_req_toggle \in BOOLEAN
    /\ s_hold \in Payload \cup {Garbage}
    /\ s_ack_sync \in Sync /\ s_ack_seen \in BOOLEAN
    /\ s_ack \in BOOLEAN /\ s_resp \in Response
    /\ m_srst_sync \in Sync /\ m_req_sync \in Sync
    /\ m_req_seen \in BOOLEAN /\ m_active \in BOOLEAN
    /\ m_pay \in Payload \cup {Garbage}
    /\ m_ack_toggle \in BOOLEAN /\ m_resp \in Response
    /\ s_rst \in BOOLEAN /\ m_rst \in BOOLEAN
    /\ ctl_busy \in BOOLEAN /\ ctl_pay \in Payload \cup {Garbage}
    /\ ctl_armed \in BOOLEAN
    /\ served \in 0..2

Init ==
    /\ w_issued = FALSE /\ w_pay \in Payload
    /\ s_busy = FALSE /\ s_req_toggle = FALSE /\ s_hold = Garbage
    /\ s_ack_sync = SyncLow /\ s_ack_seen = FALSE
    /\ s_ack = FALSE /\ s_resp = NoResp
    /\ m_srst_sync = SyncLow
    /\ m_req_sync = SyncLow /\ m_req_seen = FALSE
    /\ m_active = FALSE /\ m_pay = Garbage
    /\ m_ack_toggle = FALSE /\ m_resp = NoResp
    /\ s_rst = TRUE /\ m_rst = TRUE
    /\ ctl_busy = FALSE /\ ctl_pay = Garbage /\ ctl_armed = TRUE
    /\ served = 0

(***************************************************************************)
(* The client: the MMU's walk FSM under its clock enable ce.               *)
(***************************************************************************)

\* A new descriptor transaction, one request-low clock after the last.
Issue == /\ ~w_issued
         /\ w_issued' = TRUE
         /\ w_pay' \in Payload

\* The held request sees its answer and drops.
Consume == /\ w_issued /\ s_ack
           /\ w_issued' = FALSE
           /\ UNCHANGED w_pay

Client == Issue \/ Consume \/ UNCHANGED client

(***************************************************************************)
(* One s clock.  ackTog is what the first synchroniser flop samples,       *)
(* respIn what the response bus reads.                                     *)
(***************************************************************************)

Accept == ~s_busy /\ w_issued
Answered == s_busy /\ s_ack_sync.q1 # s_ack_seen
Release == s_busy /\ ~w_issued /\ s_ack_sync.q1 = s_ack_seen

\* Mutants of AckNext: a one-clock pulse; an ack the request's fall does not clear.
AckPulse == Answered
AckSticky == Answered \/ s_ack

\* s_ack is held until the client drops the request, not pulsed: the client
\* may be blind under its clock enable when the answer comes.
AckNext == IF Answered THEN TRUE ELSE w_issued /\ s_ack

SClock(ackTog, respIn) ==
    /\ s_ack_sync' = Shift(s_ack_sync, ackTog)
    /\ s_hold' = IF Accept THEN w_pay ELSE s_hold
    /\ s_req_toggle' = IF Accept THEN ~s_req_toggle ELSE s_req_toggle
    /\ s_busy' = IF Accept THEN TRUE ELSE IF Release THEN FALSE ELSE s_busy
    /\ s_ack_seen' = IF Answered THEN s_ack_sync.q1 ELSE s_ack_seen
    /\ s_resp' = IF Answered THEN respIn
                 ELSE IF ~w_issued THEN [s_resp EXCEPT !.berr = FALSE] ELSE s_resp
    /\ s_ack' = AckNext

(***************************************************************************)
(* One m clock: the destination side, its reset release and the external   *)
(* RAM controller.                                                         *)
(***************************************************************************)

m_rst_n == ~m_rst /\ m_srst_sync.q1

Arrived == ~m_active /\ m_req_sync.q1 # m_req_seen

\* The controller answers the transaction it works on, in this m clock.
Completes(done, err) ==
    IF done THEN ctl_busy ELSE ~err

MClock(reqTog, payIn, done, err) ==
    /\ m_req_sync' = Shift(m_req_sync, reqTog)
    /\ m_req_seen' = IF Arrived THEN m_req_sync.q1 ELSE m_req_seen
    /\ m_pay' = IF Arrived THEN payIn ELSE m_pay
    /\ LET bad == Arrived /\ payIn \in BadPayload
           fin == m_active /\ done
       IN  /\ m_active' = IF Arrived THEN ~bad ELSE m_active /\ ~fin
           /\ m_ack_toggle' = IF bad \/ fin THEN ~m_ack_toggle ELSE m_ack_toggle
           /\ m_resp' = IF bad THEN [pay |-> payIn, berr |-> TRUE]
                        ELSE IF fin THEN [pay |-> ctl_pay, berr |-> err]
                        ELSE m_resp

\* The controller takes a request that has risen since its last one.
Takes == m_req /\ ctl_armed /\ ~ctl_busy

Controller(done) ==
    /\ ctl_busy' = (Takes \/ (ctl_busy /\ ~done))
    /\ ctl_pay' = IF Takes THEN m_pay ELSE ctl_pay
    /\ ctl_armed' = (~Takes /\ (ctl_armed \/ ~m_req))

ResetM == /\ m_req_sync' = SyncLow /\ m_req_seen' = FALSE
          /\ m_active' = FALSE /\ m_pay' = Garbage
          /\ m_ack_toggle' = FALSE /\ m_resp' = NoResp

\* Every m edge: the released reset advances through its own two flops and
\* the destination side runs once both have it.
MStep(reqTog, payIn, done, err) ==
    /\ Completes(done, err)
    /\ m_srst_sync' = IF s_rst THEN SyncLow ELSE Shift(m_srst_sync, TRUE)
    /\ IF m_rst_n THEN MClock(reqTog, payIn, done, err) ELSE UNCHANGED mRegs
    /\ Controller(done)

SStep(ackTog, respIn) == ~s_rst /\ Client /\ SClock(ackTog, respIn)

\* Ghost: how often the controller took the transaction the client holds.
CountServed(takes) ==
    served' = IF w_issued' /\ ~w_issued THEN 0
              ELSE IF takes /\ served < 2 THEN served + 1 ELSE served

(***************************************************************************)
(* Edges and resets.                                                       *)
(***************************************************************************)

SEdge == /\ SStep(m_ack_toggle, m_resp)
         /\ CountServed(FALSE)
         /\ UNCHANGED <<mRegs, m_srst_sync, s_rst, m_rst, controller>>

MEdge(done, err) ==
    /\ MStep(s_req_toggle, s_hold, done, err)
    /\ UNCHANGED <<client, sRegs, s_rst, m_rst>>
    /\ CountServed(Takes)

\* A changing bus reads as garbage, a stable one as what it holds.
Seen(old, new, garbled) == IF old = new THEN {old} ELSE garbled

BothEdges(done, err) ==
    \E ackTog \in BOOLEAN,
       respIn \in {m_resp} \cup [pay : {Garbage}, berr : BOOLEAN] :
        /\ SStep(ackTog, respIn)
        /\ \E reqTog \in {s_req_toggle, s_req_toggle'},
              payIn \in Seen(s_hold, s_hold', {Garbage}) :
               MStep(reqTog, payIn, done, err)
        /\ ackTog \in {m_ack_toggle, m_ack_toggle'}
        /\ respIn \in Seen(m_resp, m_resp', [pay : {Garbage}, berr : BOOLEAN])
        /\ CountServed(Takes)
        /\ UNCHANGED <<s_rst, m_rst>>

ResetS == /\ w_issued' = FALSE /\ UNCHANGED w_pay
          /\ s_busy' = FALSE /\ s_req_toggle' = FALSE /\ s_hold' = Garbage
          /\ s_ack_sync' = SyncLow /\ s_ack_seen' = FALSE
          /\ s_ack' = FALSE /\ s_resp' = NoResp
          /\ served' = 0

\* Mutant of CpuReset: only the s side is cleared.
CpuResetOneSided == /\ s_rst' = TRUE
                    /\ ResetS
                    /\ m_srst_sync' = SyncLow
                    /\ UNCHANGED <<mRegs, m_rst, controller>>

\* s_reset_n falls while the system stays up: the m side is cleared by the
\* same edge, the RAM controller goes on with what it has.
CpuReset == /\ s_rst' = TRUE
            /\ ResetS /\ ResetM
            /\ m_srst_sync' = SyncLow
            /\ UNCHANGED <<m_rst, controller>>

\* The reset behind m_reset_n also resets the CPU.
SystemReset == /\ s_rst' = TRUE /\ m_rst' = TRUE
               /\ ResetS /\ ResetM
               /\ m_srst_sync' = SyncLow
               /\ ctl_busy' = FALSE /\ ctl_pay' = Garbage /\ ctl_armed' = TRUE

\* Assumed of the platform: a CPU reset outlasts one RAM transaction.
ReleaseS == /\ s_rst /\ ~ctl_busy
            /\ s_rst' = FALSE
            /\ UNCHANGED <<client, sRegs, mRegs, m_srst_sync, m_rst, controller, served>>

ReleaseM == /\ m_rst
            /\ m_rst' = FALSE
            /\ UNCHANGED <<client, sRegs, mRegs, m_srst_sync, s_rst, controller, served>>

SomeSEdge == SEdge \/ \E done, err \in BOOLEAN : BothEdges(done, err)
SomeMEdge == \E done, err \in BOOLEAN : MEdge(done, err) \/ BothEdges(done, err)
ControllerAnswers == \E err \in BOOLEAN : MEdge(TRUE, err) \/ BothEdges(TRUE, err)

Next == \/ SEdge
        \/ \E done, err \in BOOLEAN : MEdge(done, err)
        \/ \E done, err \in BOOLEAN : BothEdges(done, err)
        \/ CpuReset \/ SystemReset \/ ReleaseS \/ ReleaseM

\* Both clocks run, ce is not off forever, resets end, the controller answers.
Fairness == /\ WF_vars(SomeSEdge) /\ WF_vars(SomeMEdge)
            /\ WF_vars(Consume /\ SomeSEdge)
            /\ WF_vars(ControllerAnswers)
            /\ WF_vars(ReleaseS) /\ WF_vars(ReleaseM)

Spec == Init /\ [][Next]_vars

FairSpec == Spec /\ Fairness

(***************************************************************************)
(* The inductive invariant: a transaction is one token that moves along the *)
(* two toggle chains, request toggle, its flops, the m side at work, answer  *)
(* toggle, its flops.                                                        *)
(***************************************************************************)

Req0 == s_req_toggle # m_req_sync.q0
Req1 == m_req_sync.q0 # m_req_sync.q1
Req2 == m_req_sync.q1 # m_req_seen
Ack0 == m_ack_toggle # s_ack_sync.q0
Ack1 == s_ack_sync.q0 # s_ack_sync.q1
Ack2 == s_ack_sync.q1 # s_ack_seen

Asked == Req0 \/ Req1 \/ Req2
Replied == Ack0 \/ Ack1 \/ Ack2
InFlight == Asked \/ m_active \/ Replied

\* One token at most.
OneToken == /\ Asked => ~m_active /\ ~Replied
            /\ m_active => ~Replied
            /\ ~(Req0 /\ Req1) /\ ~(Req0 /\ Req2) /\ ~(Req1 /\ Req2)
            /\ ~(Ack0 /\ Ack1) /\ ~(Ack0 /\ Ack2) /\ ~(Ack1 /\ Ack2)

\* An answer to the held request, the RAM having done its part.
RightAnswer(resp) ==
    /\ resp.pay = w_pay
    /\ IF w_pay \in BadPayload THEN resp.berr /\ served = 0 ELSE served = 1

\* A token means a busy source that holds the client's payload, and a busy
\* source with no token has answered.
Handshake ==
    /\ InFlight => s_busy /\ w_issued /\ ~s_ack
    /\ s_busy /\ w_issued => s_hold = w_pay
    /\ s_busy /\ w_issued /\ ~InFlight => s_ack
    /\ s_ack => s_busy
    /\ w_issued /\ ~s_busy => served = 0

Progress ==
    /\ Asked => served = 0
    /\ m_active => /\ m_pay = w_pay /\ w_pay \notin BadPayload
                   /\ \/ ~ctl_busy /\ ctl_armed /\ served = 0
                      \/ ctl_busy /\ ctl_pay = w_pay /\ ~ctl_armed /\ served = 1
    /\ Replied => RightAnswer(m_resp)
    /\ s_ack /\ w_issued => RightAnswer(s_resp)

ControllerIdle ==
    /\ ~m_active /\ ~s_rst => ~ctl_busy
    /\ ~m_active /\ ~ctl_armed => ~Req1 /\ ~Req2

Resets ==
    /\ m_srst_sync.q1 => m_srst_sync.q0
    /\ m_srst_sync.q0 => ~s_rst
    /\ s_rst => /\ ~w_issued /\ ~s_busy /\ ~s_req_toggle
               /\ s_ack_sync = SyncLow /\ ~s_ack_seen /\ ~s_ack
    /\ ~m_rst_n => /\ m_req_sync = SyncLow /\ ~m_req_seen
                   /\ ~m_active /\ ~m_ack_toggle

IInv == TypeOK /\ OneToken /\ Handshake /\ Progress /\ ControllerIdle /\ Resets

(***************************************************************************)
(* Properties                                                              *)
(***************************************************************************)

(* What stands at the RAM controller is the transaction the MMU is holding:  *)
(* the whole payload, never one of a window the RAM has not, never one that  *)
(* no client asked for (the phantom descriptor write a one-sided reset would *)
(* replay).                                                                  *)
LaunchIsHeldRequest ==
    m_req => w_issued /\ m_pay = w_pay /\ m_pay \notin BadPayload

(* The answer the MMU takes is the answer to the request it holds, complete, *)
(* and the RAM did that transaction exactly once (not at all for a bad one). *)
AnswerIsForRequest ==
    w_issued /\ s_ack =>
        /\ s_resp.pay = w_pay
        /\ IF w_pay \in BadPayload THEN s_resp.berr /\ served = 0 ELSE served = 1

(* A held walker request is answered, however the two clocks and the clock   *)
(* enable fall, unless a reset withdraws it.                                 *)
HeldRequestEnds == w_issued ~> ~w_issued
====
