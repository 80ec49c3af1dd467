---- MODULE Interrupts ----
(***************************************************************************)
(* The interrupt path of the core: the IPL sampler of                      *)
(* rtl/ap040_pipe_core.v (two coherent samples, a held level 1-6, an       *)
(* edge-armed level 7, acknowledge toggles) and the instruction boundary   *)
(* of rtl/ap040_ea_fetch.v where a pending request is taken in front of an *)
(* instruction that has read nothing.  The sampler moves on every clock,   *)
(* the core on the clocks its enable `ce` lets through.                    *)
(*                                                                         *)
(* Levels are kept as levels (the pins are inverted).  An instruction is   *)
(* what the boundary sees of it: how many operand reads it makes, whether  *)
(* it is serialized and writes SR (MOVE to SR, RTE: `sr`), or stops        *)
(* (`stop`).  A micro-op behind EA-fetch is in EX (`ex_uop`), WB (`wb_uop`). *)
(* Left out: trace (it wins the boundary and drops the entry), a restarted *)
(* MOVEM, the throwaway frame, faults of the entry itself.                 *)
(***************************************************************************)
EXTENDS Integers

CONSTANTS Levels,   \* the levels the pins show, 0 and 7 among them
          Masks     \* the masks instructions write to SR

\* Both are three bits wide.
ASSUME LevelsAssumption == Levels \subseteq 0..7 /\ Masks \subseteq 0..7

VARIABLES
    \* the sampler, ap040_pipe_core.v
    ipl_s1, ipl_s2,        \* the pins, once and twice sampled
    irq_lvl_r,             \* the last coherent sample
    irq_hold_lvl,          \* a qualified level 1-6, held until acknowledged
    nmi_arm,               \* level 7 has been left since it was acknowledged
    irq_ack, nmi_ack,      \* a toggle the sampler has not seen yet
    \* the boundary, ap040_ea_fetch.v
    ph,                    \* "start", "ops", "stop" or "exc"
    insn,                  \* the instruction in EA-fetch, "none" without one
    need,                  \* operand reads it has still to send
    rd_pend,               \* one is outstanding
    rd_done,               \* one has been answered
    irq_pend, irq_take_lvl,
    x_vec, x_lvl,          \* the entry in progress: its vector and its mask
    \* behind it
    ex_uop, wb_uop,        \* the micro-ops in EX and in WB
    fill,                  \* clocks before a redirect's target can be here
    mask,                  \* the committed SR's interrupt mask
    \* history
    fresh,                 \* a level above the mask seen since the last acknowledge
    left7,                 \* a level other than 7 seen since the last level-7 entry
    split,                 \* an entry has taken vector and mask from two levels
                           \* (and the two above stay TRUE)
    late                   \* instructions finished under the pending request

sampler == <<ipl_s1, ipl_s2, irq_lvl_r, irq_hold_lvl, nmi_arm>>
acks    == <<irq_ack, nmi_ack>>
stage   == <<ph, insn, need, rd_pend, rd_done>>
arming  == <<irq_pend, irq_take_lvl>>
entry   == <<x_vec, x_lvl>>
pipe    == <<ex_uop, wb_uop, fill, mask>>
history == <<fresh, left7, split, late>>
core    == <<acks, stage, arming, entry, pipe>>
irqVars == <<sampler, core, history>>

----------------------------------------------------------------------------
Keep   == 8          \* a micro-op that leaves SR alone
NoMicroOp == [v |-> FALSE, sr |-> Keep, redirect |-> FALSE, irq |-> FALSE]
Plain  == [NoMicroOp EXCEPT !.v = TRUE]
StopOp(m) == [Plain EXCEPT !.sr = m]
SrOp(m)   == [StopOp(m) EXCEPT !.redirect = TRUE]
Final(m)  == [SrOp(m) EXCEPT !.irq = TRUE]          \* the entry's last micro-op

InsnKinds == {"plain", "load", "movem", "sr", "stop"}
Reads(k) == CASE k = "load" -> 1 [] k = "movem" -> 2 [] OTHER -> 0
Serialize(k) == k \in {"sr", "stop"}

\* Clocks from the redirect (in EX) to its target in EA-fetch: IF, ID, EA-calc.
RefillClocks == 3

----------------------------------------------------------------------------
(* The sampler *)
coherent == ipl_s1 = ipl_s2
irq_lvl_live == IF coherent THEN ipl_s2 ELSE irq_lvl_r
ack_busy == irq_ack \/ nmi_ack
nmi_pend == irq_lvl_live = 7 /\ nmi_arm
Qualified(l) == l \notin {0, 7} /\ l > mask
irq_live == Qualified(irq_lvl_live)
irq_lvl == IF nmi_pend THEN 7
           ELSE IF irq_live /\ irq_lvl_live > irq_hold_lvl THEN irq_lvl_live
           ELSE irq_hold_lvl
\* Mutant of irq_req: an acknowledge in flight still shows the request.
ReqUnderAck == nmi_pend \/ irq_live \/ irq_hold_lvl # 0
irq_req == ~ack_busy /\ (nmi_pend \/ irq_live \/ irq_hold_lvl # 0)

\* One clock of the sampler; the pins may show anything.
Sample ==
    /\ ipl_s1' \in Levels
    /\ ipl_s2' = ipl_s1
    /\ irq_lvl_r' = irq_lvl_live
    /\ nmi_arm' = ((nmi_arm \/ (coherent /\ ipl_s2 # 7)) /\ ~nmi_ack)
    /\ irq_hold_lvl' = IF irq_ack THEN 0
                       ELSE IF irq_hold_lvl > irq_lvl_r
                            THEN IF irq_lvl_r > mask THEN irq_lvl_r ELSE 0
                       ELSE IF Qualified(irq_lvl_r) THEN irq_lvl_r
                       ELSE irq_hold_lvl

----------------------------------------------------------------------------
(* The boundary *)
i_rd == rd_pend \/ rd_done
older_busy == ex_uop.v \/ wb_uop.v
irq_arm == irq_pend /\ ~i_rd
irq_hold == irq_arm /\ ph = "start"
irq_go == irq_arm /\ insn # "none" /\ ~older_busy /\ ph \in {"start", "stop"}

\* Mutant of irq_blk: every armed request blocks it, whatever the phase.
BlockEveryRead == irq_arm
\* What holds back an operand read of the instruction in EA-fetch.
irq_blk == irq_hold
\* Mutant of early_blk: nothing does.
EarlyFree == FALSE
\* What holds back the next instruction's early read.
early_blk == irq_pend

\* The redirect of the micro-op in EX: it goes out in its first clock there.
flush == ex_uop.redirect

\* WB holds a store while `held`; anything else retires.
Retires(held) == wb_uop.v /\ ~(held /\ wb_uop.sr = Keep)
WbFree(held) == ~wb_uop.v \/ Retires(held)
ExFree(held) == ~ex_uop.v \/ WbFree(held)

\* EX and WB advance, EA-fetch dispatching u; SR and the acknowledge commit.
Advance(held, u) ==
    /\ wb_uop' = IF WbFree(held) THEN ex_uop ELSE wb_uop
    /\ ex_uop' = IF ExFree(held) THEN u ELSE ex_uop
    /\ mask' = IF Retires(held) /\ wb_uop.sr # Keep THEN wb_uop.sr ELSE mask
    /\ nmi_ack' = (Retires(held) /\ wb_uop.irq /\ wb_uop.sr = 7)
    /\ irq_ack' = (Retires(held) /\ wb_uop.irq /\ wb_uop.sr # 7)

\* The next instruction reaches EA-fetch, its first read already sent or not.
Arrive(k) ==
    /\ insn' = k
    /\ rd_pend' \in {FALSE, k = "load" /\ ~early_blk}
    /\ need' = IF rd_pend' THEN Reads(k) - 1 ELSE Reads(k)
    /\ rd_done' = FALSE

Empty == insn' = "none" /\ need' = 0 /\ rd_pend' = FALSE /\ rd_done' = FALSE

\* irq_pend and irq_take_lvl, one clock behind the sampler (the level is read
\* only under irq_pend, and kept 0 without it).
Arm ==
    /\ irq_pend' = (irq_req /\ ph # "exc")
    /\ irq_take_lvl' = IF irq_pend' THEN irq_lvl ELSE 0

----------------------------------------------------------------------------
(* What EA-fetch does in an enabled clock *)
Working == insn # "none" /\ ph \in {"start", "ops"} /\ ~flush /\ ~irq_hold

\* EX's redirect empties the stage; the arming registers keep their values.
Flushed(held) ==
    /\ flush
    /\ ph' = "start" /\ Empty /\ fill' = RefillClocks - 1
    /\ Advance(held, NoMicroOp)
    /\ UNCHANGED <<arming, entry>>

\* Nothing to work on: the next instruction arrives, or not yet.
Idle(held, swift) ==
    /\ ~flush /\ insn = "none"
    /\ \/ Empty /\ (swift => fill > 1)
       \/ fill <= 1 /\ \E k \in InsnKinds : Arrive(k)
    /\ fill' = IF fill > 0 THEN fill - 1 ELSE 0
    /\ Advance(held, NoMicroOp) /\ Arm
    /\ UNCHANGED <<ph, entry>>

\* The pending request is taken in front of the instruction.
Enter(held) ==
    /\ ~flush /\ irq_go
    /\ ph' = "exc"
    /\ x_vec' = irq_take_lvl /\ x_lvl' = irq_lvl
    /\ Advance(held, NoMicroOp) /\ Arm
    /\ UNCHANGED <<insn, need, rd_pend, rd_done, fill>>

\* The instruction waits at the boundary while older ones commit, or stopped.
WaitFor(held) ==
    /\ ~flush /\ ~irq_go
    /\ insn # "none" /\ (irq_hold \/ ph = "stop")
    /\ Advance(held, NoMicroOp) /\ Arm
    /\ UNCHANGED <<stage, entry, fill>>

\* A serialized instruction waits for everything older.
Serializing(held) ==
    /\ Working /\ Serialize(insn) /\ ph = "start" /\ older_busy
    /\ Advance(held, NoMicroOp) /\ Arm
    /\ UNCHANGED <<stage, entry, fill>>

\* An operand read may go out: a MOVEM's not in its clock at the boundary.
can_rd == need > 0 /\ ~rd_pend /\ ~irq_blk /\ ~(insn = "movem" /\ ph = "start")

\* It reads, or its read is answered, or EX has no room: it leaves the boundary.
\* (A MOVEM's answered reads leave no done flag behind.)
Proceed(held, ans) ==
    /\ Working /\ ~(Serialize(insn) /\ older_busy)
    /\ need > 0 \/ (rd_pend /\ ~ans) \/ ~ExFree(held)
    /\ ph' = "ops"
    /\ rd_pend' = (can_rd \/ (rd_pend /\ ~ans))
    /\ need' = IF can_rd THEN need - 1 ELSE need
    /\ rd_done' = (rd_done \/ (rd_pend /\ ans /\ insn = "load"))
    /\ Advance(held, NoMicroOp) /\ Arm
    /\ UNCHANGED <<insn, entry, fill>>

\* Its last read is in (or answers now) and EX takes it; the next one follows.
FinishInsn(held, ans) ==
    /\ Working /\ ~(Serialize(insn) /\ older_busy)
    /\ need = 0 /\ (rd_pend => ans) /\ ExFree(held)
    /\ \/ /\ insn = "stop" /\ ph' = "stop"
          /\ \E m \in Masks : Advance(held, StopOp(m))
          /\ UNCHANGED <<insn, need, rd_pend, rd_done>>
       \/ /\ insn = "sr" /\ ph' = "start" /\ Empty
          /\ \E m \in Masks : Advance(held, SrOp(m))
       \/ /\ ~Serialize(insn) /\ ph' = "start"
          /\ Advance(held, Plain)
          /\ Empty \/ \E k \in InsnKinds : Arrive(k)
    /\ Arm /\ UNCHANGED <<entry, fill>>

\* The frame is pushed and the vector read; then the entry's final micro-op
\* (x_vec and x_lvl are not read again, and kept 0).
Frame(held, swift) ==
    /\ ph = "exc" /\ ~swift
    /\ Advance(held, NoMicroOp) /\ Arm
    /\ UNCHANGED <<stage, entry, fill>>
FrameDone(held) ==
    /\ ph = "exc" /\ ~older_busy
    /\ ph' = "start" /\ Empty
    /\ Advance(held, Final(x_lvl)) /\ Arm
    /\ x_vec' = 0 /\ x_lvl' = 0 /\ UNCHANGED fill

\* An enabled clock: WB holds its store (held), the outstanding read is
\* answered (ans), the front end and the frame do not make it wait (swift).
Enabled(held, ans, swift) ==
    \/ Flushed(held) \/ Idle(held, swift) \/ Enter(held) \/ WaitFor(held)
    \/ Serializing(held) \/ Proceed(held, ans) \/ FinishInsn(held, ans)
    \/ Frame(held, swift) \/ FrameDone(held)

\* The core's enable is low; a toggle stands still, so the sampler sees it
\* settled from its next clock on.
Disabled ==
    /\ irq_ack' = FALSE /\ nmi_ack' = FALSE
    /\ UNCHANGED <<stage, arming, entry, pipe>>

----------------------------------------------------------------------------
Entered == ph # "exc" /\ ph' = "exc"
\* An instruction leaves EA-fetch.
Left(held) == Working /\ ExFree(held) /\ ex_uop'.v /\ ph' # "stop"

\* Bookkeeping of the properties; no part of the code.
Remember(left) ==
    /\ split' = (split \/ (Entered /\ irq_take_lvl # irq_lvl))
    /\ fresh' = IF irq_ack' /\ ~split' THEN FALSE
                ELSE fresh \/ split' \/ irq_lvl_live > mask \/ irq_lvl_r > mask
    /\ left7' = IF Entered /\ irq_take_lvl = 7 /\ ~split' THEN FALSE
                ELSE left7 \/ split' \/ (coherent /\ ipl_s2 # 7)
    /\ late' = IF ~irq_pend' \/ Entered THEN 0
               ELSE IF left /\ irq_pend /\ late < 2 THEN late + 1
               ELSE late

Tick(held, ans, swift) ==
    Sample /\ Enabled(held, ans, swift) /\ Remember(Left(held))
ClockOnly == Sample /\ Disabled /\ Remember(FALSE)

IrqInit ==
    /\ ipl_s1 = 0 /\ ipl_s2 = 0 /\ irq_lvl_r = 0 /\ irq_hold_lvl = 0
    /\ nmi_arm = FALSE /\ irq_ack = FALSE /\ nmi_ack = FALSE
    /\ ph = "start" /\ insn = "none" /\ need = 0
    /\ rd_pend = FALSE /\ rd_done = FALSE
    /\ irq_pend = FALSE /\ irq_take_lvl = 0
    /\ x_vec = 0 /\ x_lvl = 0
    /\ ex_uop = NoMicroOp /\ wb_uop = NoMicroOp /\ fill = 0 /\ mask = 7
    /\ fresh = FALSE /\ left7 = FALSE /\ split = FALSE /\ late = 0

IrqNext ==
    \/ \E held \in {FALSE, wb_uop.v}, ans \in {FALSE, rd_pend} : Tick(held, ans, FALSE)
    \/ ClockOnly

\* An enabled clock in which memory answers and nothing stalls, the pins as
\* they are: were the pins part of it, fairness would have them move.
IrqProgress == ipl_s1' = ipl_s1 /\ Tick(FALSE, TRUE, TRUE)

IrqSpec == IrqInit /\ [][IrqNext]_irqVars /\ WF_irqVars(IrqProgress)

----------------------------------------------------------------------------
(* Properties *)

\* An acknowledged interrupt is not taken again: every entry has a level above
\* the mask seen since the last acknowledge, a level-7 entry a level other than
\* 7 since the last one -- although the arm, the hold register and the toggles
\* are all clocks behind the commit of the mask.  Holds until an entry takes its
\* vector and its mask from two levels.
TakenOnce ==
    [][Entered => IF irq_take_lvl = 7 THEN left7 ELSE fresh]_irqVars

\* A pending request waits for at most one instruction to leave EA-fetch: the
\* successor of an instruction that has read is held from its first read
\* ("the deferral is ONE instruction", ap040_ea_fetch.v:2230).
DeferredOnce == late <= 1

\* A level the pins keep above the mask is taken: no instruction the request
\* was armed in starves it, and holding back reads wedges none
\* (ap040_ea_fetch.v:2408-2419).
RequestTaken ==
    \A l \in Levels \ {0, 7} : []<>(ipl_s1 # l \/ mask >= l)

\* The entry's vector and the mask it sets are those of one level ("an
\* interrupt also sets the mask to its level", ap040_ea_fetch.v:1027).
VectorIsMask == ph = "exc" => x_vec = x_lvl
====
