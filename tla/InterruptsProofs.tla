---- MODULE InterruptsProofs ----
(***************************************************************************)
(* The interrupt path: a pending request waits for at most one             *)
(* instruction, and no acknowledged interrupt is taken again, for any      *)
(* levels on the pins and any masks the program writes.                    *)
(*                                                                         *)
(* An acknowledge is decided when the entry is dispatched, commits two     *)
(* clocks later and reaches the sampler a clock after that, while the arm, *)
(* the hold register and irq_pend go on showing the request.  The          *)
(* invariant says what keeps them from being believed meanwhile: the stage *)
(* behind the entry's redirect stays empty until the request is armed      *)
(* anew.                                                                   *)
(***************************************************************************)
EXTENDS Interrupts, TLAPS

\* A micro-op; only a valid one redirects, only an entry's last one acknowledges,
\* and that one writes SR.
MicroOps ==
    {u \in [v : BOOLEAN, sr : 0..8, redirect : BOOLEAN, irq : BOOLEAN] :
        /\ u.redirect => u.v
        /\ u.irq => u.redirect /\ u.sr # Keep}

TypesOK ==
    /\ ipl_s1 \in 0..7 /\ ipl_s2 \in 0..7 /\ irq_lvl_r \in 0..7 /\ irq_hold_lvl \in 0..6
    /\ nmi_arm \in BOOLEAN /\ irq_ack \in BOOLEAN /\ nmi_ack \in BOOLEAN
    /\ ph \in {"start", "ops", "stop", "exc"} /\ insn \in InsnKinds \cup {"none"}
    /\ rd_pend \in BOOLEAN /\ rd_done \in BOOLEAN
    /\ irq_pend \in BOOLEAN /\ irq_take_lvl \in 0..7 /\ x_lvl \in 0..7
    /\ ex_uop \in MicroOps /\ wb_uop \in MicroOps
    /\ fill \in 0..RefillClocks /\ mask \in 0..7
    /\ fresh \in BOOLEAN /\ left7 \in BOOLEAN /\ split \in BOOLEAN /\ late \in 0..1

\* An entry is made with nothing ahead of it.
EntryAlone == ph = "exc" => ~older_busy

\* Behind an entry's last micro-op the stage is empty, and too far from its target
\* to be filled in the clock that micro-op commits.
FinalAlone ==
    /\ ex_uop.irq \/ wb_uop.irq => insn = "none" /\ ph = "start"
    /\ wb_uop.irq => fill > 1

\* A level-7 entry, from its dispatch until the sampler has seen its acknowledge.
NmiUnderWay ==
    \/ ph = "exc" /\ x_lvl = 7
    \/ ex_uop.irq /\ ex_uop.sr = 7
    \/ wb_uop.irq /\ wb_uop.sr = 7
    \/ nmi_ack

\* Level 7 is armed by having been left, or not yet disarmed by its entry.
ArmedByLeaving == nmi_arm => left7 \/ NmiUnderWay

\* The hold register holds a level seen since the last acknowledge, or is about
\* to be cleared by it.
HoldIsFresh == irq_hold_lvl # 0 => fresh \/ irq_ack

\* An armed request is a new one, or the boundary cannot take it: there is no
\* instruction to take it in front of, or an entry is being made.
PendIsFresh ==
    irq_pend =>
        IF irq_take_lvl = 7 THEN left7 \/ insn = "none" \/ ph = "exc"
        ELSE fresh \/ insn = "none"

\* After an entry from two levels the histories say nothing.
SplitIsBoth == split => fresh /\ left7

\* Once an instruction has left under a request the next is held at the boundary.
HeldAfterOne == late > 0 => irq_arm /\ ph = "start"

BoundaryInv ==
    /\ TypesOK
    /\ EntryAlone /\ FinalAlone
    /\ ArmedByLeaving /\ HoldIsFresh /\ PendIsFresh /\ SplitIsBoth
    /\ HeldAfterOne

----------------------------------------------------------------------------
(* The sampler, the pipe and the stage, each for itself *)

\* The stage's own micro-ops; only an entry's last one acknowledges.
LEMMA OpsTyped ==
    /\ NoMicroOp \in MicroOps /\ ~NoMicroOp.v /\ ~NoMicroOp.redirect /\ ~NoMicroOp.irq
    /\ Plain \in MicroOps /\ ~Plain.irq
    /\ \A m \in 0..7 :
           /\ StopOp(m) \in MicroOps /\ ~StopOp(m).irq
           /\ SrOp(m) \in MicroOps /\ ~SrOp(m).irq
           /\ Final(m) \in MicroOps /\ Final(m).irq /\ Final(m).sr = m
<1> DEFINE Op == [v : BOOLEAN, sr : 0..8, redirect : BOOLEAN, irq : BOOLEAN]
<1>1. /\ NoMicroOp \in Op
      /\ NoMicroOp.v = FALSE /\ NoMicroOp.sr = 8 /\ NoMicroOp.redirect = FALSE /\ NoMicroOp.irq = FALSE
  BY DEF NoMicroOp, Keep
<1>2. /\ Plain \in Op
      /\ Plain.v = TRUE /\ Plain.sr = 8 /\ Plain.redirect = FALSE /\ Plain.irq = FALSE
  BY <1>1 DEF Plain
<1>3. NoMicroOp \in MicroOps /\ Plain \in MicroOps
  BY <1>1, <1>2 DEF MicroOps
<1>4. ASSUME NEW m \in 0..7
      PROVE  /\ StopOp(m) \in MicroOps /\ ~StopOp(m).irq
             /\ SrOp(m) \in MicroOps /\ ~SrOp(m).irq
             /\ Final(m) \in MicroOps /\ Final(m).irq /\ Final(m).sr = m
  <2>1. /\ StopOp(m) \in Op
        /\ StopOp(m).v = TRUE /\ StopOp(m).sr = m
        /\ StopOp(m).redirect = FALSE /\ StopOp(m).irq = FALSE
    BY <1>2 DEF StopOp
  <2>2. /\ SrOp(m) \in Op
        /\ SrOp(m).v = TRUE /\ SrOp(m).sr = m
        /\ SrOp(m).redirect = TRUE /\ SrOp(m).irq = FALSE
    BY <2>1 DEF SrOp
  <2>3. /\ Final(m) \in Op
        /\ Final(m).v = TRUE /\ Final(m).sr = m
        /\ Final(m).redirect = TRUE /\ Final(m).irq = TRUE
    BY <2>2 DEF Final
  <2>4. m # Keep
    BY DEF Keep
  <2> HIDE DEF Op
  <2>5. StopOp(m) \in MicroOps /\ SrOp(m) \in MicroOps /\ Final(m) \in MicroOps
    BY <2>1, <2>2, <2>3, <2>4 DEF MicroOps, Op
  <2> QED
    BY <2>1, <2>2, <2>3, <2>5
<1> QED
  BY <1>1, <1>2, <1>3, <1>4

\* The request shown is at a level: 7 only while the arm allows it.
LEMMA Requested ==
    ASSUME TypesOK
    PROVE  /\ irq_lvl_live \in 0..7 /\ irq_lvl \in 0..7
           /\ irq_req => ~irq_ack /\ ~nmi_ack
           /\ irq_req /\ irq_lvl = 7 => nmi_arm
           /\ irq_req /\ irq_lvl # 7 => irq_lvl_live > mask \/ irq_hold_lvl # 0
<1>1. irq_lvl_live \in 0..7
  BY DEF TypesOK, irq_lvl_live
<1>2. irq_lvl \in 0..7
  BY <1>1 DEF TypesOK, irq_lvl
<1>3. irq_req => ~irq_ack /\ ~nmi_ack
  BY DEF irq_req, ack_busy
<1>4. irq_req /\ irq_lvl = 7 => nmi_arm
  BY <1>1 DEF TypesOK, irq_req, irq_lvl, nmi_pend, irq_live, Qualified
<1>5. irq_req /\ irq_lvl # 7 => irq_lvl_live > mask \/ irq_hold_lvl # 0
  BY DEF irq_req, irq_lvl, irq_live, Qualified
<1> QED
  BY <1>1, <1>2, <1>3, <1>4, <1>5

\* One clock of the sampler.
LEMMA SampleStep ==
    ASSUME TypesOK, Sample
    PROVE  /\ ipl_s1' \in 0..7 /\ ipl_s2' \in 0..7 /\ irq_lvl_r' \in 0..7
           /\ irq_hold_lvl' \in 0..6 /\ nmi_arm' \in BOOLEAN
           /\ nmi_arm' => ~nmi_ack /\ (nmi_arm \/ (coherent /\ ipl_s2 # 7))
           /\ irq_hold_lvl' # 0 => /\ ~irq_ack
                                   /\ irq_lvl_r > mask \/ irq_hold_lvl # 0
<1>1. ipl_s1' \in 0..7 /\ ipl_s2' \in 0..7
  BY LevelsAssumption DEF TypesOK, Sample
<1>2. irq_lvl_r' \in 0..7
  BY Requested DEF Sample
<1>3. nmi_arm' \in BOOLEAN /\ (nmi_arm' => ~nmi_ack /\ (nmi_arm \/ (coherent /\ ipl_s2 # 7)))
  BY DEF Sample
<1>4. /\ irq_hold_lvl' \in 0..6
      /\ irq_hold_lvl' # 0 => ~irq_ack /\ (irq_lvl_r > mask \/ irq_hold_lvl # 0)
  <2>1. irq_hold_lvl' = IF irq_ack THEN 0
                        ELSE IF irq_hold_lvl > irq_lvl_r
                             THEN IF irq_lvl_r > mask THEN irq_lvl_r ELSE 0
                        ELSE IF Qualified(irq_lvl_r) THEN irq_lvl_r
                        ELSE irq_hold_lvl
    BY DEF Sample
  <2>2. irq_lvl_r \in 0..7 /\ irq_hold_lvl \in 0..6 /\ mask \in 0..7
    BY DEF TypesOK
  <2>3. Qualified(irq_lvl_r) <=> irq_lvl_r \notin {0, 7} /\ irq_lvl_r > mask
    BY DEF Qualified
  <2> QED
    BY <2>1, <2>2, <2>3
<1> QED
  BY <1>1, <1>2, <1>3, <1>4

\* The pipe moves on: what commits has left it, and what writes SR never waits.
LEMMA AdvanceStep ==
    ASSUME TypesOK, NEW held \in BOOLEAN, NEW u \in MicroOps, Advance(held, u)
    PROVE  /\ ex_uop' \in MicroOps /\ wb_uop' \in MicroOps /\ mask' \in 0..7
           /\ irq_ack' \in BOOLEAN /\ nmi_ack' \in BOOLEAN
           /\ irq_ack' => wb_uop.irq
           /\ nmi_ack' <=> wb_uop.irq /\ wb_uop.sr = 7
           /\ ex_uop' = u \/ (ex_uop' = ex_uop /\ ~ExFree(held))
           /\ wb_uop' = ex_uop \/ (wb_uop' = wb_uop /\ ~wb_uop.irq)
           /\ ExFree(held) => ex_uop' = u
           /\ ex_uop.irq => ex_uop' = ex_uop \/ wb_uop' = ex_uop
           /\ ~older_busy => ex_uop' = u /\ ~wb_uop'.v
<1>1. /\ ex_uop \in MicroOps /\ wb_uop \in MicroOps /\ mask \in 0..7
  BY DEF TypesOK
<1>2. /\ wb_uop' = IF WbFree(held) THEN ex_uop ELSE wb_uop
      /\ ex_uop' = IF ExFree(held) THEN u ELSE ex_uop
      /\ mask' = IF Retires(held) /\ wb_uop.sr # Keep THEN wb_uop.sr ELSE mask
      /\ nmi_ack' = (Retires(held) /\ wb_uop.irq /\ wb_uop.sr = 7)
      /\ irq_ack' = (Retires(held) /\ wb_uop.irq /\ wb_uop.sr # 7)
  BY DEF Advance
<1>3. /\ wb_uop.v \in BOOLEAN /\ wb_uop.irq \in BOOLEAN /\ wb_uop.sr \in 0..8
      /\ wb_uop.irq => wb_uop.v /\ wb_uop.sr # Keep
      /\ ex_uop.v \in BOOLEAN /\ (ex_uop.irq => ex_uop.v)
  BY <1>1 DEF MicroOps
<1>4. wb_uop.irq => Retires(held) /\ WbFree(held)
  BY <1>3 DEF Retires, WbFree
<1>5. mask' \in 0..7
  BY <1>1, <1>2, <1>3 DEF Keep
<1>6. irq_ack' \in BOOLEAN /\ nmi_ack' \in BOOLEAN
  BY <1>2
<1>7. (irq_ack' => wb_uop.irq) /\ (nmi_ack' <=> wb_uop.irq /\ wb_uop.sr = 7)
  BY <1>2, <1>4
<1>8. ~older_busy => ex_uop' = u /\ ~wb_uop'.v
  BY <1>2, <1>3 DEF older_busy, ExFree, WbFree
<1>9. ex_uop.irq => ex_uop' = ex_uop \/ wb_uop' = ex_uop
  BY <1>2, <1>3 DEF ExFree
<1> QED
  BY <1>1, <1>2, <1>4, <1>5, <1>6, <1>7, <1>8, <1>9

\* A clock without room for the stage's micro-op lets none out.
LEMMA NothingLeaves ==
    ASSUME NEW held, Advance(held, NoMicroOp) PROVE ~Left(held)
BY OpsTyped DEF Advance, Left

\* The next instruction has read nothing if a request is armed.
LEMMA ArriveStep ==
    ASSUME TypesOK, NEW k \in InsnKinds, Arrive(k)
    PROVE  /\ insn' \in InsnKinds \cup {"none"} /\ rd_pend' \in BOOLEAN /\ rd_done' = FALSE
           /\ irq_pend => ~rd_pend'
<1>1. rd_pend' \in {FALSE, k = "load" /\ ~early_blk} /\ insn' = k /\ rd_done' = FALSE
  BY DEF Arrive
<1>2. irq_pend => ~rd_pend'
  BY <1>1 DEF early_blk
<1>3. rd_pend' \in BOOLEAN
  BY <1>1
<1> QED
  BY <1>1, <1>2, <1>3

LEMMA ArmStep ==
    ASSUME TypesOK, Arm
    PROVE  irq_pend' \in BOOLEAN /\ irq_take_lvl' \in 0..7
<1>1. irq_pend' \in BOOLEAN
  BY DEF Arm
<1>2. irq_take_lvl' = IF irq_pend' THEN irq_lvl ELSE 0
  BY DEF Arm
<1> QED
  BY <1>1, <1>2, Requested

----------------------------------------------------------------------------
(* What an enabled clock does to the stage, whichever of its cases it is *)

\* The boundary with nothing read in front of it.
ClearNext == ph' = "start" /\ ~rd_pend' /\ ~rd_done'

StageTypes ==
    /\ ph' \in {"start", "ops", "stop", "exc"} /\ insn' \in InsnKinds \cup {"none"}
    /\ rd_pend' \in BOOLEAN /\ rd_done' \in BOOLEAN
    /\ irq_pend' \in BOOLEAN /\ irq_take_lvl' \in 0..7 /\ x_lvl' \in 0..7
    /\ fill' \in 0..RefillClocks

\* Micro-op u goes to EX.  A redirect empties the stage and arms nothing.
StageStep(held, u) ==
    /\ u \in MicroOps /\ Advance(held, u)
    /\ StageTypes
    /\ IF flush THEN UNCHANGED arming /\ insn' = "none" /\ ph' = "start" /\ fill' > 1
       ELSE Arm
    /\ u.irq => ph = "exc" /\ u.sr = x_lvl /\ insn' = "none" /\ ph' = "start"
    /\ ph' = "exc" => u = NoMicroOp /\ ~older_busy
    /\ Entered => irq_go /\ x_lvl' = irq_lvl
    /\ ph = "exc" => (ph' = "exc" /\ x_lvl' = x_lvl) \/ u = Final(x_lvl)
    /\ ph = "start" /\ insn = "none" /\ fill > 1 => insn' = "none" /\ ph' = "start"
    /\ irq_pend /\ Left(held) => ~(irq_arm /\ ph = "start") /\ ClearNext
    /\ irq_arm /\ ph = "start" => Entered \/ ClearNext

\* Nothing redirects while an entry is made.
LEMMA EntryIsQuiet ==
    ASSUME TypesOK, EntryAlone, ph = "exc" PROVE ~flush /\ ~older_busy
BY DEF TypesOK, EntryAlone, MicroOps, flush, older_busy

LEMMA FlushedStage ==
    ASSUME TypesOK, EntryAlone, NEW held \in BOOLEAN, Flushed(held)
    PROVE  StageStep(held, NoMicroOp)
<1>1. /\ flush /\ ph' = "start" /\ insn' = "none" /\ rd_pend' = FALSE /\ rd_done' = FALSE
      /\ fill' = 2 /\ Advance(held, NoMicroOp) /\ UNCHANGED arming /\ UNCHANGED entry
  BY DEF Flushed, Empty, RefillClocks
<1>2. ph # "exc"
  BY <1>1, EntryIsQuiet
<1>3. StageTypes
  <2>1. fill' \in 0..RefillClocks /\ insn' \in InsnKinds \cup {"none"}
    BY <1>1 DEF RefillClocks
  <2>2. irq_pend' = irq_pend /\ irq_take_lvl' = irq_take_lvl /\ x_lvl' = x_lvl
    BY <1>1 DEF arming, entry
  <2>3. irq_pend' \in BOOLEAN /\ irq_take_lvl' \in 0..7 /\ x_lvl' \in 0..7
    BY <2>2 DEF TypesOK
  <2> QED
    BY <1>1, <2>1, <2>3 DEF StageTypes
<1>4. ~Left(held)
  BY <1>1, NothingLeaves
<1> QED
  BY <1>1, <1>2, <1>3, <1>4, OpsTyped DEF StageStep, Entered, ClearNext

LEMMA IdleStage ==
    ASSUME TypesOK, EntryAlone, NEW held \in BOOLEAN, NEW swift, Idle(held, swift)
    PROVE  StageStep(held, NoMicroOp)
<1>1. /\ ~flush /\ insn = "none" /\ ph' = ph /\ x_lvl' = x_lvl
      /\ fill' = IF fill > 0 THEN fill - 1 ELSE 0
      /\ Advance(held, NoMicroOp) /\ Arm
  BY DEF Idle, entry
<1>2. /\ insn' \in InsnKinds \cup {"none"} /\ rd_pend' \in BOOLEAN /\ rd_done' = FALSE
      /\ irq_pend => ~rd_pend'
      /\ fill > 1 => insn' = "none"
  <2>1. CASE Empty
    BY <2>1 DEF Empty
  <2>2. CASE fill <= 1 /\ \E k \in InsnKinds : Arrive(k)
    <3>1. ~(fill > 1)
      BY <2>2 DEF TypesOK
    <3> QED
      BY <2>2, <3>1, ArriveStep
  <2> QED
    BY <2>1, <2>2 DEF Idle
<1>3. fill' \in 0..RefillClocks
  BY <1>1 DEF TypesOK, RefillClocks
<1>4. StageTypes
  BY <1>1, <1>2, <1>3, ArmStep DEF TypesOK, StageTypes
<1>5. ~Left(held)
  BY <1>1, NothingLeaves
<1>6. ph = "exc" => ~older_busy
  BY DEF EntryAlone
<1>7. irq_arm => irq_pend
  BY DEF irq_arm
<1> QED
  BY <1>1, <1>2, <1>4, <1>5, <1>6, <1>7, OpsTyped DEF StageStep, Entered, ClearNext

LEMMA EnterStage ==
    ASSUME TypesOK, EntryAlone, NEW held \in BOOLEAN, Enter(held)
    PROVE  StageStep(held, NoMicroOp)
<1>1. /\ ~flush /\ irq_go /\ ph' = "exc" /\ x_lvl' = irq_lvl
      /\ Advance(held, NoMicroOp) /\ Arm
      /\ insn' = insn /\ rd_pend' = rd_pend /\ rd_done' = rd_done /\ fill' = fill
  BY DEF Enter
<1>2. ph # "exc" /\ ~older_busy /\ insn # "none"
  BY <1>1 DEF irq_go
<1>3. StageTypes
  BY <1>1, ArmStep, Requested DEF TypesOK, StageTypes
<1>4. ~Left(held)
  BY <1>1, NothingLeaves
<1> QED
  BY <1>1, <1>2, <1>3, <1>4, OpsTyped DEF StageStep, Entered, ClearNext

\* WaitFor and Serializing leave the stage as it is.
LEMMA StillStage ==
    ASSUME TypesOK, EntryAlone, NEW held \in BOOLEAN, ~flush, ph # "exc", insn # "none",
           irq_arm /\ ph = "start" => ~rd_pend /\ ~rd_done,
           Advance(held, NoMicroOp), Arm, UNCHANGED <<stage, entry, fill>>
    PROVE  StageStep(held, NoMicroOp)
<1>1. /\ ph' = ph /\ insn' = insn /\ rd_pend' = rd_pend /\ rd_done' = rd_done
      /\ x_lvl' = x_lvl /\ fill' = fill
  BY DEF stage, entry
<1>2. StageTypes
  BY <1>1, ArmStep DEF TypesOK, StageTypes
<1>3. ~Left(held)
  BY NothingLeaves
<1> QED
  BY <1>1, <1>2, <1>3, OpsTyped DEF StageStep, Entered, ClearNext

LEMMA WaitStage ==
    ASSUME TypesOK, EntryAlone, NEW held \in BOOLEAN, WaitFor(held)
    PROVE  StageStep(held, NoMicroOp)
<1>1. /\ ~flush /\ insn # "none" /\ ph # "exc"
      /\ Advance(held, NoMicroOp) /\ Arm /\ UNCHANGED <<stage, entry, fill>>
  BY DEF WaitFor, irq_hold
<1>2. irq_arm => ~rd_pend /\ ~rd_done
  BY DEF irq_arm, i_rd
<1> QED
  BY <1>1, <1>2, StillStage

LEMMA SerializingStage ==
    ASSUME TypesOK, EntryAlone, NEW held \in BOOLEAN, Serializing(held)
    PROVE  StageStep(held, NoMicroOp)
<1>1. /\ ~flush /\ insn # "none" /\ ph # "exc" /\ ~(irq_arm /\ ph = "start")
      /\ Advance(held, NoMicroOp) /\ Arm /\ UNCHANGED <<stage, entry, fill>>
  BY DEF Serializing, Working, irq_hold
<1> QED
  BY <1>1, StillStage

LEMMA ProceedStage ==
    ASSUME TypesOK, EntryAlone, NEW held \in BOOLEAN, NEW ans, Proceed(held, ans)
    PROVE  StageStep(held, NoMicroOp)
<1>1. /\ ~flush /\ insn # "none" /\ ph \in {"start", "ops"} /\ ~(irq_arm /\ ph = "start")
      /\ ph' = "ops" /\ Advance(held, NoMicroOp) /\ Arm
      /\ insn' = insn /\ x_lvl' = x_lvl /\ fill' = fill
      /\ rd_pend' \in BOOLEAN /\ rd_done' \in BOOLEAN
  BY DEF Proceed, Working, irq_hold, entry
<1>2. StageTypes
  BY <1>1, ArmStep DEF TypesOK, StageTypes
<1>3. ~Left(held)
  BY <1>1, NothingLeaves
<1> QED
  BY <1>1, <1>2, <1>3, OpsTyped DEF StageStep, Entered, ClearNext

LEMMA FinishStage ==
    ASSUME TypesOK, EntryAlone, NEW held \in BOOLEAN, NEW ans,
           FinishInsn(held, ans)
    PROVE  \E u : StageStep(held, u)
<1>1. /\ ~flush /\ insn # "none" /\ ph \in {"start", "ops"} /\ ~(irq_arm /\ ph = "start")
      /\ Arm /\ x_lvl' = x_lvl /\ fill' = fill
  BY DEF FinishInsn, Working, irq_hold, entry
<1>2. CASE /\ insn = "stop" /\ ph' = "stop"
           /\ \E m \in Masks : Advance(held, StopOp(m))
           /\ UNCHANGED <<insn, need, rd_pend, rd_done>>
  <2>1. PICK m \in Masks : Advance(held, StopOp(m))
    BY <1>2
  <2>2. StopOp(m) \in MicroOps /\ ~StopOp(m).irq
    BY OpsTyped, LevelsAssumption
  <2>3. StageTypes
    BY <1>1, <1>2, ArmStep DEF TypesOK, StageTypes
  <2>4. ~Left(held)
    BY <1>2 DEF Left
  <2>5. StageStep(held, StopOp(m))
    BY <1>1, <1>2, <2>1, <2>2, <2>3, <2>4 DEF StageStep, Entered, ClearNext
  <2> QED
    BY <2>5
<1>3. CASE insn = "sr" /\ ph' = "start" /\ Empty /\ \E m \in Masks : Advance(held, SrOp(m))
  <2>1. PICK m \in Masks : Advance(held, SrOp(m))
    BY <1>3
  <2>2. SrOp(m) \in MicroOps /\ ~SrOp(m).irq
    BY OpsTyped, LevelsAssumption
  <2>3. insn' = "none" /\ rd_pend' = FALSE /\ rd_done' = FALSE
    BY <1>3 DEF Empty
  <2>4. StageTypes
    BY <1>1, <1>3, <2>3, ArmStep DEF TypesOK, StageTypes
  <2>5. StageStep(held, SrOp(m))
    BY <1>1, <1>3, <2>1, <2>2, <2>3, <2>4 DEF StageStep, Entered, ClearNext
  <2> QED
    BY <2>5
<1>4. CASE /\ ph' = "start" /\ Advance(held, Plain)
           /\ Empty \/ \E k \in InsnKinds : Arrive(k)
  <2>1. /\ insn' \in InsnKinds \cup {"none"} /\ rd_pend' \in BOOLEAN /\ rd_done' = FALSE
        /\ irq_pend => ~rd_pend'
    <3>1. CASE Empty
      BY <3>1 DEF Empty
    <3>2. CASE \E k \in InsnKinds : Arrive(k)
      BY <3>2, ArriveStep
    <3> QED
      BY <1>4, <3>1, <3>2
  <2>2. StageTypes
    BY <1>1, <1>4, <2>1, ArmStep DEF TypesOK, StageTypes
  <2>3. StageStep(held, Plain)
    BY <1>1, <1>4, <2>1, <2>2, OpsTyped DEF StageStep, Entered, ClearNext
  <2> QED
    BY <2>3
<1> QED
  BY <1>2, <1>3, <1>4 DEF FinishInsn

LEMMA FrameStage ==
    ASSUME TypesOK, EntryAlone, NEW held \in BOOLEAN, NEW swift, Frame(held, swift)
    PROVE  StageStep(held, NoMicroOp)
<1>1. /\ ph = "exc" /\ Advance(held, NoMicroOp) /\ Arm
      /\ ph' = ph /\ insn' = insn /\ rd_pend' = rd_pend /\ rd_done' = rd_done
      /\ x_lvl' = x_lvl /\ fill' = fill
  BY DEF Frame, stage, entry
<1>2. ~flush /\ ~older_busy
  BY <1>1, EntryIsQuiet
<1>3. StageTypes
  BY <1>1, ArmStep DEF TypesOK, StageTypes
<1>4. ~Left(held)
  BY <1>1, NothingLeaves
<1> QED
  BY <1>1, <1>2, <1>3, <1>4, OpsTyped DEF StageStep, Entered, ClearNext

LEMMA FrameDoneStage ==
    ASSUME TypesOK, EntryAlone, NEW held \in BOOLEAN, FrameDone(held)
    PROVE  StageStep(held, Final(x_lvl))
<1>1. /\ ph = "exc" /\ Advance(held, Final(x_lvl)) /\ Arm
      /\ ph' = "start" /\ insn' = "none" /\ rd_pend' = FALSE /\ rd_done' = FALSE
      /\ x_lvl' = 0 /\ fill' = fill
  BY DEF FrameDone, Empty
<1>2. ~flush /\ ~older_busy
  BY <1>1, EntryIsQuiet
<1>3. StageTypes
  <2>1. fill' \in 0..RefillClocks /\ x_lvl' \in 0..7 /\ insn' \in InsnKinds \cup {"none"}
    BY <1>1 DEF TypesOK
  <2>2. irq_pend' \in BOOLEAN /\ irq_take_lvl' \in 0..7
    BY <1>1, ArmStep
  <2> QED
    BY <1>1, <2>1, <2>2 DEF StageTypes
<1>4. Final(x_lvl) \in MicroOps /\ Final(x_lvl).irq /\ Final(x_lvl).sr = x_lvl
  BY OpsTyped DEF TypesOK
<1>5. ~Left(held)
  BY <1>1 DEF Left, Working
<1> QED
  BY <1>1, <1>2, <1>3, <1>4, <1>5 DEF StageStep, Entered, ClearNext

LEMMA EnabledStage ==
    ASSUME TypesOK, EntryAlone, NEW held \in BOOLEAN, NEW ans, NEW swift,
           Enabled(held, ans, swift)
    PROVE  \E u : StageStep(held, u)
BY FlushedStage, IdleStage, EnterStage, WaitStage, SerializingStage, ProceedStage,
   FinishStage, FrameStage, FrameDoneStage DEF Enabled

----------------------------------------------------------------------------
(* The invariant is kept *)

\* What has been seen stays seen, until an acknowledge or a level-7 entry.
LEMMA HistoryStep ==
    ASSUME TypesOK, NEW left, Remember(left)
    PROVE  /\ fresh' \in BOOLEAN /\ left7' \in BOOLEAN /\ split' \in BOOLEAN
           /\ split' => fresh' /\ left7'
           /\ fresh \/ irq_lvl_live > mask \/ irq_lvl_r > mask => fresh' \/ irq_ack'
           /\ left7 \/ (coherent /\ ipl_s2 # 7) => left7' \/ (Entered /\ irq_lvl = 7)
<1>1. split' = (split \/ (Entered /\ irq_take_lvl # irq_lvl))
  BY DEF Remember
<1>2. fresh' = IF irq_ack' /\ ~split' THEN FALSE
               ELSE fresh \/ split' \/ irq_lvl_live > mask \/ irq_lvl_r > mask
  BY DEF Remember
<1>3. left7' = IF Entered /\ irq_take_lvl = 7 /\ ~split' THEN FALSE
               ELSE left7 \/ split' \/ (coherent /\ ipl_s2 # 7)
  BY DEF Remember
<1>4. fresh \in BOOLEAN /\ left7 \in BOOLEAN /\ split \in BOOLEAN
  BY DEF TypesOK
<1>5. fresh' \in BOOLEAN /\ left7' \in BOOLEAN /\ split' \in BOOLEAN
  BY <1>1, <1>2, <1>3, <1>4
<1>6. split' => fresh' /\ left7'
  BY <1>2, <1>3
<1>7. fresh \/ irq_lvl_live > mask \/ irq_lvl_r > mask => fresh' \/ irq_ack'
  BY <1>2
<1>8. left7 \/ (coherent /\ ipl_s2 # 7) => left7' \/ (Entered /\ irq_lvl = 7)
  BY <1>1, <1>3
<1> QED
  BY <1>5, <1>6, <1>7, <1>8

\* An acknowledge on its way redirects, or its redirect has emptied the stage.
LEMMA EmptyBehindFinal ==
    ASSUME TypesOK, FinalAlone, NEW held, NEW u, StageStep(held, u)
    PROVE  /\ ex_uop.irq => flush /\ insn' = "none" /\ ph' = "start" /\ fill' > 1
           /\ wb_uop.irq => insn' = "none" /\ ph' = "start"
<1>1. ex_uop.irq => flush
  BY DEF TypesOK, MicroOps, flush
<1>2. ex_uop.irq => insn' = "none" /\ ph' = "start" /\ fill' > 1
  BY <1>1 DEF StageStep
<1>3. wb_uop.irq => insn' = "none" /\ ph' = "start"
  BY DEF FinalAlone, StageStep
<1> QED
  BY <1>1, <1>2, <1>3

LEMMA EnabledKeeps ==
    ASSUME BoundaryInv, NEW held \in BOOLEAN, NEW u,
           Sample, StageStep(held, u), Remember(Left(held))
    PROVE  BoundaryInv'
<1> USE DEF BoundaryInv
<1>1. /\ u \in MicroOps /\ Advance(held, u) /\ StageTypes
  BY DEF StageStep
<1>2. HeldAfterOne' /\ late' \in 0..1
  <2>1. late' = IF ~irq_pend' \/ Entered THEN 0
                ELSE IF Left(held) /\ irq_pend /\ late < 2 THEN late + 1
                ELSE late
    BY DEF Remember
  <2>2. CASE ~irq_pend' \/ Entered
    <3>1. late' = 0
      BY <2>1, <2>2
    <3> QED
      BY <3>1 DEF HeldAfterOne
  <2>3. CASE irq_pend' /\ ~Entered /\ Left(held) /\ irq_pend
    <3>1. ~(irq_arm /\ ph = "start") /\ ClearNext
      BY <2>3 DEF StageStep
    <3>2. late = 0
      BY <3>1 DEF TypesOK, HeldAfterOne
    <3>3. irq_arm' /\ ph' = "start"
      BY <2>3, <3>1 DEF ClearNext, irq_arm, i_rd
    <3> QED
      BY <2>1, <2>3, <3>2, <3>3 DEF HeldAfterOne
  <2>4. CASE irq_pend' /\ ~Entered /\ ~(Left(held) /\ irq_pend)
    <3>1. late' = late
      BY <2>1, <2>4
    <3>2. late > 0 => ClearNext
      BY <2>4 DEF HeldAfterOne, StageStep
    <3>3. ClearNext => irq_arm' /\ ph' = "start"
      BY <2>4 DEF ClearNext, irq_arm, i_rd
    <3> QED
      BY <3>1, <3>2, <3>3 DEF HeldAfterOne, TypesOK
  <2> QED
    BY <2>2, <2>3, <2>4
<1>3. TypesOK'
  BY <1>1, <1>2, SampleStep, AdvanceStep, HistoryStep DEF StageTypes, TypesOK
<1>4. EntryAlone'
  <2>1. ASSUME ph' = "exc" PROVE ~ex_uop'.v /\ ~wb_uop'.v
    BY <1>1, <2>1, AdvanceStep, OpsTyped DEF StageStep
  <2> QED
    BY <2>1 DEF EntryAlone, older_busy
<1>5. FinalAlone'
  <2>1. ASSUME ex_uop'.irq PROVE insn' = "none" /\ ph' = "start"
    <3>1. CASE ex_uop' = u
      BY <2>1, <3>1 DEF StageStep
    <3>2. CASE ex_uop' = ex_uop
      BY <2>1, <3>2, EmptyBehindFinal
    <3> QED
      BY <1>1, <3>1, <3>2, AdvanceStep
  <2>2. ASSUME wb_uop'.irq PROVE insn' = "none" /\ ph' = "start" /\ fill' > 1
    <3>1. wb_uop' = ex_uop
      BY <1>1, <2>2, AdvanceStep
    <3> QED
      BY <2>2, <3>1, EmptyBehindFinal
  <2> QED
    BY <2>1, <2>2 DEF FinalAlone
<1>6. ArmedByLeaving'
  <2> SUFFICES ASSUME nmi_arm' PROVE left7' \/ NmiUnderWay'
    BY DEF ArmedByLeaving
  <2>1. ~nmi_ack /\ (nmi_arm \/ (coherent /\ ipl_s2 # 7))
    BY SampleStep
  <2>2. CASE left7 \/ (coherent /\ ipl_s2 # 7)
    <3>1. left7' \/ (Entered /\ irq_lvl = 7)
      BY <2>2, HistoryStep
    <3>2. Entered /\ irq_lvl = 7 => ph' = "exc" /\ x_lvl' = 7
      BY DEF StageStep, Entered
    <3> QED
      BY <3>1, <3>2 DEF NmiUnderWay
  <2>3. CASE NmiUnderWay
    <3>1. CASE ph = "exc" /\ x_lvl = 7
      <4>1. ex_uop' = u
        BY <1>1, <3>1, AdvanceStep DEF EntryAlone
      <4>2. Final(7).irq /\ Final(7).sr = 7
        BY OpsTyped
      <4>3. (ph' = "exc" /\ x_lvl' = x_lvl) \/ u = Final(7)
        BY <3>1 DEF StageStep
      <4> QED
        BY <3>1, <4>1, <4>2, <4>3 DEF NmiUnderWay
    <3>2. CASE ex_uop.irq /\ ex_uop.sr = 7
      <4>1. ex_uop' = ex_uop \/ wb_uop' = ex_uop
        BY <1>1, <3>2, AdvanceStep
      <4> QED
        BY <3>2, <4>1 DEF NmiUnderWay
    <3>3. CASE wb_uop.irq /\ wb_uop.sr = 7
      <4>1. nmi_ack'
        BY <1>1, <3>3, AdvanceStep
      <4> QED
        BY <4>1 DEF NmiUnderWay
    <3> QED
      BY <2>1, <2>3, <3>1, <3>2, <3>3 DEF NmiUnderWay
  <2> QED
    BY <2>1, <2>2, <2>3 DEF ArmedByLeaving
<1>7. HoldIsFresh'
  BY SampleStep, HistoryStep DEF HoldIsFresh
<1>8. PendIsFresh'
  <2> SUFFICES ASSUME irq_pend'
               PROVE  IF irq_take_lvl' = 7 THEN left7' \/ insn' = "none" \/ ph' = "exc"
                      ELSE fresh' \/ insn' = "none"
    BY DEF PendIsFresh
  <2>1. CASE flush
    BY <2>1 DEF StageStep
  <2>2. CASE ~flush
    <3>1. irq_req /\ ph # "exc" /\ irq_take_lvl' = irq_lvl
      BY <2>2 DEF StageStep, Arm
    <3>2. ASSUME irq_lvl = 7 PROVE left7' \/ insn' = "none" \/ ph' = "exc"
      <4>1. nmi_arm /\ ~nmi_ack
        BY <3>1, <3>2, Requested
      <4>2. left7 \/ wb_uop.irq
        BY <2>2, <3>1, <4>1, EmptyBehindFinal DEF ArmedByLeaving, NmiUnderWay
      <4>3. left7 => left7' \/ ph' = "exc"
        BY HistoryStep DEF Entered
      <4> QED
        BY <4>2, <4>3, EmptyBehindFinal
    <3>3. ASSUME irq_lvl # 7 PROVE fresh' \/ insn' = "none"
      <4>1. fresh \/ irq_lvl_live > mask
        BY <3>1, <3>3, Requested DEF HoldIsFresh
      <4>2. fresh' \/ irq_ack'
        BY <4>1, HistoryStep
      <4>3. irq_ack' => wb_uop.irq
        BY <1>1, AdvanceStep
      <4> QED
        BY <4>2, <4>3, EmptyBehindFinal
    <3> QED
      BY <3>1, <3>2, <3>3
  <2> QED
    BY <2>1, <2>2
<1>9. SplitIsBoth'
  BY HistoryStep DEF SplitIsBoth
<1> QED
  BY <1>2, <1>3, <1>4, <1>5, <1>6, <1>7, <1>8, <1>9

\* With the core's enable low only the sampler moves, and sees the toggles settle.
LEMMA DisabledKeeps ==
    ASSUME BoundaryInv, ClockOnly
    PROVE  BoundaryInv'
<1> USE DEF BoundaryInv
<1>1. /\ Sample /\ Remember(FALSE) /\ irq_ack' = FALSE /\ nmi_ack' = FALSE
      /\ ph' = ph /\ insn' = insn /\ rd_pend' = rd_pend /\ rd_done' = rd_done
      /\ irq_pend' = irq_pend /\ irq_take_lvl' = irq_take_lvl /\ x_lvl' = x_lvl
      /\ ex_uop' = ex_uop /\ wb_uop' = wb_uop /\ fill' = fill /\ mask' = mask
  BY DEF ClockOnly, Disabled, stage, arming, entry, pipe
<1>2. ~Entered
  BY <1>1 DEF Entered
<1>3. late' = IF ~irq_pend THEN 0 ELSE late
  BY <1>1, <1>2 DEF Remember
<1>4. HeldAfterOne' /\ late' \in 0..1
  BY <1>1, <1>3 DEF TypesOK, HeldAfterOne, irq_arm, i_rd
<1>5. TypesOK'
  BY <1>1, <1>4, SampleStep, HistoryStep DEF TypesOK
<1>6. (fresh => fresh') /\ (left7 => left7')
  BY <1>1, <1>2, HistoryStep
<1>7. EntryAlone' /\ FinalAlone'
  BY <1>1 DEF EntryAlone, FinalAlone, older_busy
<1>8. ArmedByLeaving'
  <2>1. nmi_arm' => ~nmi_ack /\ (nmi_arm \/ left7')
    BY <1>1, <1>2, SampleStep, HistoryStep
  <2> QED
    BY <1>1, <1>6, <2>1 DEF ArmedByLeaving, NmiUnderWay
<1>9. HoldIsFresh'
  BY <1>1, SampleStep, HistoryStep DEF HoldIsFresh
<1>10. PendIsFresh'
  BY <1>1, <1>6 DEF PendIsFresh
<1>11. SplitIsBoth'
  BY <1>1, HistoryStep DEF SplitIsBoth
<1> QED
  BY <1>4, <1>5, <1>7, <1>8, <1>9, <1>10, <1>11

LEMMA BoundaryStart ==
    ASSUME IrqInit PROVE BoundaryInv
<1>1. /\ NoMicroOp \in MicroOps /\ ~NoMicroOp.irq /\ ~NoMicroOp.v
  BY OpsTyped
<1>2. TypesOK
  <2>1. /\ ipl_s1 \in 0..7 /\ ipl_s2 \in 0..7 /\ irq_lvl_r \in 0..7 /\ irq_hold_lvl \in 0..6
        /\ irq_take_lvl \in 0..7 /\ x_lvl \in 0..7 /\ mask \in 0..7 /\ late \in 0..1
    BY DEF IrqInit
  <2>2. fill \in 0..RefillClocks
    BY DEF IrqInit, RefillClocks
  <2>3. /\ nmi_arm \in BOOLEAN /\ irq_ack \in BOOLEAN /\ nmi_ack \in BOOLEAN
        /\ rd_pend \in BOOLEAN /\ rd_done \in BOOLEAN /\ irq_pend \in BOOLEAN
        /\ fresh \in BOOLEAN /\ left7 \in BOOLEAN /\ split \in BOOLEAN
    BY DEF IrqInit
  <2>4. /\ ph \in {"start", "ops", "stop", "exc"} /\ insn \in InsnKinds \cup {"none"}
        /\ ex_uop \in MicroOps /\ wb_uop \in MicroOps
    BY <1>1 DEF IrqInit
  <2> QED
    BY <2>1, <2>2, <2>3, <2>4 DEF TypesOK
<1> QED
  BY <1>1, <1>2 DEF IrqInit, BoundaryInv, EntryAlone, FinalAlone, ArmedByLeaving, HoldIsFresh,
                    PendIsFresh, SplitIsBoth, HeldAfterOne

LEMMA BoundaryStep ==
    ASSUME BoundaryInv, [IrqNext]_irqVars PROVE BoundaryInv'
<1>1. CASE \E held \in {FALSE, wb_uop.v}, ans \in {FALSE, rd_pend} : Tick(held, ans, FALSE)
  <2>1. PICK held \in {FALSE, wb_uop.v}, ans \in {FALSE, rd_pend} : Tick(held, ans, FALSE)
    BY <1>1
  <2>2. held \in BOOLEAN
    BY DEF BoundaryInv, TypesOK, MicroOps
  <2>3. Sample /\ Enabled(held, ans, FALSE) /\ Remember(Left(held))
    BY <2>1 DEF Tick
  <2>4. PICK u : StageStep(held, u)
    BY <2>2, <2>3, EnabledStage DEF BoundaryInv
  <2> QED
    BY <2>2, <2>3, <2>4, EnabledKeeps
<1>2. CASE ClockOnly
  BY <1>2, DisabledKeeps
<1>3. CASE UNCHANGED irqVars
  <2>1. /\ UNCHANGED <<ipl_s1, ipl_s2, irq_lvl_r, irq_hold_lvl, nmi_arm, irq_ack, nmi_ack>>
        /\ UNCHANGED <<ph, insn, rd_pend, rd_done, irq_pend, irq_take_lvl, x_lvl>>
        /\ UNCHANGED <<ex_uop, wb_uop, fill, mask, fresh, left7, split, late>>
    BY <1>3 DEF irqVars, sampler, core, acks, stage, arming, entry, pipe, history
  <2> QED
    BY <2>1 DEF BoundaryInv, TypesOK, EntryAlone, FinalAlone, ArmedByLeaving, NmiUnderWay,
                HoldIsFresh, PendIsFresh, SplitIsBoth, HeldAfterOne, older_busy, irq_arm, i_rd
<1> QED
  BY <1>1, <1>2, <1>3 DEF IrqNext

----------------------------------------------------------------------------
(* The results *)

\* The invariant holds of the whole interrupt path.
THEOREM InterruptsInductive == IrqSpec => []BoundaryInv
<1>1. IrqInit => BoundaryInv
  BY BoundaryStart
<1>2. BoundaryInv /\ [IrqNext]_irqVars => BoundaryInv'
  BY BoundaryStep
<1> QED
  BY <1>1, <1>2, PTL DEF IrqSpec

\* A pending request waits for at most one instruction to leave EA-fetch, whatever
\* the pins, the masks and the stalls do meanwhile.
THEOREM InterruptsDeferOnce == IrqSpec => []DeferredOnce
<1>1. BoundaryInv => DeferredOnce
  BY DEF BoundaryInv, TypesOK, DeferredOnce
<1> QED
  BY <1>1, InterruptsInductive, PTL

\* No entry is made for a request that has been acknowledged: a level above the mask
\* has been seen since (level 7: another level has), unless an earlier entry took its
\* vector and its mask from two levels.
THEOREM InterruptsTakenOnce == IrqSpec => TakenOnce
<1>1. BoundaryInv /\ [IrqNext]_irqVars
          => [Entered => IF irq_take_lvl = 7 THEN left7 ELSE fresh]_irqVars
  <2> SUFFICES ASSUME BoundaryInv, IrqNext, Entered
               PROVE  IF irq_take_lvl = 7 THEN left7 ELSE fresh
    OBVIOUS
  <2>1. irq_go
    <3>1. CASE \E held \in {FALSE, wb_uop.v}, ans \in {FALSE, rd_pend} : Tick(held, ans, FALSE)
      <4>1. PICK held \in {FALSE, wb_uop.v}, ans \in {FALSE, rd_pend} : Tick(held, ans, FALSE)
        BY <3>1
      <4>2. held \in BOOLEAN
        BY DEF BoundaryInv, TypesOK, MicroOps
      <4>3. Enabled(held, ans, FALSE)
        BY <4>1 DEF Tick
      <4> QED
        BY <4>2, <4>3, EnabledStage DEF BoundaryInv, StageStep
    <3>2. CASE ClockOnly
      BY <3>2 DEF ClockOnly, Disabled, stage, Entered
    <3> QED
      BY <3>1, <3>2 DEF IrqNext
  <2>2. irq_pend /\ insn # "none" /\ ph # "exc"
    BY <2>1 DEF irq_go, irq_arm
  <2> QED
    BY <2>2 DEF BoundaryInv, PendIsFresh
<1> QED
  BY <1>1, InterruptsInductive, PTL DEF IrqSpec, TakenOnce
====
