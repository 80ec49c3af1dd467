---- MODULE Bus16 ----
(* rtl/compat/ap040_bus16_adapter.v: one 8/16/32-bit transfer of the core    *)
(* becomes one to three cycles of the 16-bit Minimig bus.                    *)
(*                                                                           *)
(* A byte of the operand is its index (1 is the most significant), a byte    *)
(* read is the address it came from, so that every mix-up shows.  longword   *)
(* and fc, which only ride along, are left out.  The target is external: it  *)
(* takes a cycle once, answers some clocks later with a level acknowledge,   *)
(* or with a bus error, and takes no new address before it has sampled IDLE. *)
(* The client is the cache's memory port (ap040_cache.v, C_PASS): it holds   *)
(* a request until the acknowledge or the bus error and then drops it for a  *)
(* clock, or, after an acknowledge, moves straight to its next one (a beat   *)
(* of a fill).  The clock enable is high at most while the bus is idle or    *)
(* the target answers.                                                       *)

EXTENDS Integers, Sequences

CONSTANTS Space,    \* byte addresses 0..Space-1 (even, at least 4) stand for
                    \* the 32-bit wrap
          Starts    \* addresses of them a request may start at

Addr == 0..Space-1

\* The space wraps on a word, no operand laps it, and requests start in it.
ASSUME SpaceAssumption ==
    Space \in Nat /\ Space >= 4 /\ Space % 2 = 0 /\ Starts \subseteq Addr

OperandKinds == {"fetch", "read", "write"}
Sizes == {1, 2, 4}                                    \* size_bytes
Operands == [kind : OperandKinds, size : Sizes, addr : Starts]

IDLE == [kind |-> "idle", addr |-> 0, hi |-> FALSE, lo |-> FALSE, data |-> <<0, 0>>]

VARIABLES
    mem_req, op,                             \* client: request and its operand
    active, subcycle_gap, kind_r, cur_addr, bytes_left, wshift, rshift,
    mem_ack, mem_rdata,
    bus,                                     \* busstate, addr_out, lanes, data_write
    target, t_bus,                           \* target: idle, busy, ack, berr; its cycle
    taken                                    \* ghost: bytes the target took for op

adapter == <<active, subcycle_gap, kind_r, cur_addr, bytes_left, wshift, rshift,
             mem_ack, mem_rdata, bus>>
adapterVars == <<mem_req, op, adapter, target, t_bus, taken>>

Cycle == [kind : OperandKinds, addr : Addr, hi : BOOLEAN, lo : BOOLEAN,
          data : [1..2 -> 0..4]]

AdapterTypeOK ==
    /\ mem_req \in BOOLEAN /\ op \in Operands
    /\ active \in BOOLEAN /\ subcycle_gap \in BOOLEAN
    /\ kind_r \in OperandKinds /\ cur_addr \in Addr /\ bytes_left \in 0..4
    /\ wshift \in Seq(0..4) /\ rshift \in Seq(Addr) /\ Len(rshift) <= 4
    /\ mem_ack \in BOOLEAN /\ mem_rdata \in Seq(Addr)
    /\ bus \in Cycle \cup {IDLE}
    /\ target \in {"idle", "busy", "ack", "berr"} /\ t_bus \in Cycle \cup {IDLE}
    /\ subcycle_gap => active

ResetAdapter ==
    /\ active' = FALSE /\ subcycle_gap' = FALSE
    /\ kind_r' = "read" /\ cur_addr' = 0 /\ bytes_left' = 0
    /\ wshift' = <<>> /\ rshift' = <<>>
    /\ mem_ack' = FALSE /\ mem_rdata' = <<>>
    /\ bus' = IDLE

AdapterInit ==
    /\ mem_req = FALSE /\ op \in Operands
    /\ active = FALSE /\ subcycle_gap = FALSE
    /\ kind_r = "read" /\ cur_addr = 0 /\ bytes_left = 0
    /\ wshift = <<>> /\ rshift = <<>>
    /\ mem_ack = FALSE /\ mem_rdata = <<>>
    /\ bus = IDLE
    /\ target = "idle" /\ t_bus = IDLE /\ taken = <<>>

(***************************************************************************)
(* The adapter, on an enabled clock.                                       *)
(***************************************************************************)

Odd(a) == a % 2 = 1
Plus(a, n) == (a + n) % Space

\* The bus cycle for the first bytes of what is left of an operand.
CycleAt(kind, a, left, bytes) ==
    LET word == ~Odd(a) /\ left >= 2
    IN  [kind |-> kind, addr |-> a, hi |-> ~Odd(a), lo |-> Odd(a) \/ word,
         data |-> IF word THEN <<bytes[1], bytes[2]>> ELSE <<bytes[1], bytes[1]>>]

\* Mutant of consumed: parity is forgotten.
consumed_any == IF bytes_left >= 2 THEN 2 ELSE 1

consumed == IF ~Odd(cur_addr) /\ bytes_left >= 2 THEN 2 ELSE 1

\* Mutant of next_left: every cycle moves a word.
next_left_word == bytes_left - 2

next_left == bytes_left - consumed

\* The bytes data_in brings: the target drives the word it took.
data_in == LET even == t_bus.addr - (t_bus.addr % 2)
           IN  IF Odd(cur_addr) THEN <<even + 1>>
               ELSE IF bytes_left >= 2 THEN <<even, even + 1>> ELSE <<even>>

\* Mutant of StartsNow: the request still up in the acknowledge clock counts.
StartsAgain == ~active /\ mem_req

StartsNow == ~active /\ mem_req /\ ~mem_ack

\* Mutant of AbortsNow: an error is seen only at the boundary.
AbortsInGap == active /\ subcycle_gap /\ target = "berr"

AbortsNow == active /\ target = "berr"

Start ==
    /\ active' = TRUE /\ subcycle_gap' = FALSE
    /\ kind_r' = op.kind /\ cur_addr' = op.addr /\ bytes_left' = op.size
    /\ wshift' = [i \in 1..op.size |-> i] /\ rshift' = <<>>
    /\ bus' = CycleAt(op.kind, op.addr, op.size, [i \in 1..op.size |-> i])
    /\ mem_ack' = FALSE /\ UNCHANGED mem_rdata

Abort ==
    /\ active' = FALSE /\ subcycle_gap' = FALSE
    /\ bus' = IDLE /\ mem_ack' = FALSE
    /\ UNCHANGED <<kind_r, cur_addr, bytes_left, wshift, rshift, mem_rdata>>

\* Mutant of LeaveGap: the boundary is never left.
LeaveGapNot ==
    /\ bus' = CycleAt(kind_r, cur_addr, bytes_left, wshift)
    /\ mem_ack' = FALSE
    /\ UNCHANGED <<active, subcycle_gap, kind_r, cur_addr, bytes_left, wshift, rshift,
                   mem_rdata>>

\* The boundary clock: the target has sampled IDLE, the saved request is raised again.
LeaveGap ==
    /\ subcycle_gap' = FALSE
    /\ bus' = CycleAt(kind_r, cur_addr, bytes_left, wshift)
    /\ mem_ack' = FALSE
    /\ UNCHANGED <<active, kind_r, cur_addr, bytes_left, wshift, rshift, mem_rdata>>

\* Mutant of NextCycle: the next word follows without the boundary.
NextCycleAtOnce ==
    /\ cur_addr' = Plus(cur_addr, consumed) /\ bytes_left' = next_left
    /\ wshift' = SubSeq(wshift, consumed + 1, Len(wshift))
    /\ bus' = CycleAt(kind_r, Plus(cur_addr, consumed), next_left,
                      SubSeq(wshift, consumed + 1, Len(wshift)))
    /\ subcycle_gap' = FALSE /\ mem_ack' = FALSE /\ UNCHANGED <<active, mem_rdata>>

NextCycle ==
    /\ cur_addr' = Plus(cur_addr, consumed) /\ bytes_left' = next_left
    /\ wshift' = SubSeq(wshift, consumed + 1, Len(wshift))
    /\ bus' = IDLE
    /\ subcycle_gap' = TRUE /\ mem_ack' = FALSE /\ UNCHANGED <<active, mem_rdata>>

FinishOperand ==
    /\ active' = FALSE /\ subcycle_gap' = FALSE
    /\ bus' = IDLE /\ mem_ack' = TRUE
    /\ mem_rdata' = IF kind_r = "write" THEN mem_rdata ELSE rshift \o data_in
    /\ UNCHANGED <<cur_addr, bytes_left, wshift>>

CompleteCycle ==
    /\ rshift' = IF kind_r = "write" THEN rshift ELSE rshift \o data_in
    /\ IF next_left = 0 THEN FinishOperand ELSE NextCycle
    /\ UNCHANGED kind_r

Quiet == mem_ack' = FALSE /\ UNCHANGED <<active, subcycle_gap, kind_r, cur_addr,
                                         bytes_left, wshift, rshift, mem_rdata, bus>>

AdapterClock == IF AbortsNow THEN Abort
                ELSE IF ~active THEN IF StartsNow THEN Start ELSE Quiet
                ELSE IF subcycle_gap THEN LeaveGap
                ELSE CompleteCycle

(***************************************************************************)
(* The client and the target.                                              *)
(***************************************************************************)

NewRequest == /\ mem_req' = TRUE /\ op' \in Operands /\ taken' = <<>>

DropRequest == mem_req' = FALSE /\ UNCHANGED <<op, taken>>

ClientClock ==
    CASE mem_req /\ target = "berr" -> DropRequest
      [] mem_req /\ target # "berr" /\ mem_ack -> DropRequest \/ NewRequest
      [] mem_req /\ target # "berr" /\ ~mem_ack -> UNCHANGED <<mem_req, op, taken>>
      [] ~mem_req -> NewRequest \/ UNCHANGED <<mem_req, op, taken>>

\* The bytes a cycle strobes, with the address each lane stands for.
Strobed(cycle) ==
    LET even == cycle.addr - (cycle.addr % 2)
    IN  (IF cycle.hi THEN <<[at |-> even, byte |-> cycle.data[1]]>> ELSE <<>>) \o
        (IF cycle.lo THEN <<[at |-> even + 1, byte |-> cycle.data[2]]>> ELSE <<>>)

TargetAccepts == target = "idle" /\ bus # IDLE

\* One target clock; answer is what it does if it has a cycle to work on.
TargetClock(answer) ==
    /\ target' = IF bus = IDLE THEN "idle"
                 ELSE IF target \in {"idle", "busy"} THEN answer
                 ELSE target
    /\ t_bus' = IF TargetAccepts THEN bus ELSE t_bus

(***************************************************************************)
(* One clock.  The enable is high at most in an idle or an answered clock. *)
(***************************************************************************)

CanEnable == bus = IDLE \/ target \in {"ack", "berr"}

BusClock(ce, answer) ==
    /\ TargetClock(answer)
    /\ IF ce THEN CanEnable /\ AdapterClock /\ ClientClock
       ELSE /\ UNCHANGED <<adapter, mem_req, op>>
            /\ taken' = IF TargetAccepts /\ Len(taken) < 5
                        THEN taken \o Strobed(bus) ELSE taken

\* nreset low for a clock: the client is reset with the adapter, the target is not.
AdapterReset(answer) == ResetAdapter /\ TargetClock(answer) /\ DropRequest

Answers == {"busy", "ack", "berr"}

AdapterNext == \/ \E ce \in BOOLEAN, answer \in Answers : BusClock(ce, answer)
        \/ \E answer \in Answers : AdapterReset(answer)

AdapterSpec == AdapterInit /\ [][AdapterNext]_adapterVars

\* The enable is not held off forever, and every cycle gets an answer.
Enabled1 == \E answer \in Answers : BusClock(TRUE, answer)
TargetAnswers == \E ce \in BOOLEAN, answer \in {"ack", "berr"} :
                bus # IDLE /\ target \in {"idle", "busy"} /\ BusClock(ce, answer)

AdapterFairSpec == AdapterSpec /\ WF_adapterVars(Enabled1) /\ WF_adapterVars(TargetAnswers)

(***************************************************************************)
(* Properties                                                              *)
(***************************************************************************)

(* An acknowledged request has moved exactly its own bytes: a read returns   *)
(* them big-endian from consecutive addresses, and the target has been given *)
(* every byte once, in order, at its own address and on its own lane.        *)
AckIsWholeOperand ==
    mem_ack =>
        /\ mem_req
        /\ LET at(i) == Plus(op.addr, i - 1)
           IN  IF op.kind = "write"
               THEN taken = [i \in 1..op.size |-> [at |-> at(i), byte |-> i]]
               ELSE mem_rdata = [i \in 1..op.size |-> at(i)]

(* While the target holds a cycle, or its level acknowledge of one, the bus  *)
(* shows that very cycle or IDLE: no word is put under the acknowledge of    *)
(* the one before (comment at ap040_bus16_adapter.v:194).                    *)
CycleStableUnderAck == target # "idle" /\ bus # IDLE => bus = t_bus

(* Every cycle on the bus is a part of the request the client holds now, at  *)
(* the bytes it has still to move: nothing is replayed after an acknowledge, *)
(* and after a bus error the vector fetch does not inherit the failed cycle. *)
CycleIsOfHeldRequest ==
    bus # IDLE =>
        /\ mem_req /\ bus.kind = op.kind
        /\ bytes_left \in 1..op.size
        /\ bus.addr = Plus(op.addr, op.size - bytes_left)

(* A request is acknowledged, or withdrawn by a bus error or a reset, however *)
(* many cycles and boundary clocks it takes.                                 *)
OperandEnds == mem_req ~> mem_ack \/ ~mem_req
====
