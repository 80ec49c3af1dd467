--------------------------------- MODULE Fpsp ---------------------------------
(***************************************************************************)
(* tb/mk_fpsp.py, main(): the generated FPSP program, its expectations,    *)
(* and what the bench finds when a processor has run it.  The generator    *)
(* emits one case after the other, asks the FPSP model about all of them   *)
(* at the end and writes the expectations; the processor then runs the     *)
(* program, right or with one defect.                                      *)
(*                                                                         *)
(* Every transcendental function has the one exact result y (fcos -y),     *)
(* which the FPSP and its model miss by err ulps.  What matters here is    *)
(* where results are kept, in which order, and what of them is compared.   *)
(***************************************************************************)
EXTENDS FpspRound, SequencesExt

CONSTANTS Cases,   \* PASS_A ... pass U, in main()'s order
          Truths,  \* the exact results considered
          Errors,  \* by how many ulps the FPSP's algorithms may err
          MaxUlp   \* MAXULP

VARIABLES
  y, err,                        \* the functions' exact result, the FPSP's error
  i,                             \* the generator: the cases written
  code, opnd, exp,               \* the program, its operand table, the .exp
  n, nb, ncount,                 \* slots of the passes, cases counted
  pending, passb, packout,       \* what the .exp is written from
  phase,                         \* where all this stands
  pc, fp, fpsr, an, mem,         \* the processor
  defect                         \* what it did wrong, and in which case

lists == <<code, opnd, exp, n, nb, ncount, pending, passb, packout>>
cpu == <<pc, fp, fpsr, an, mem, defect>>
vars == <<y, err, i, lists, phase, cpu>>

Clear == [cc |-> {}, quot |-> 0, inex |-> FALSE]
Functions1 == {"fsin", "fcos"}

\* The exact result of a case, from its operands.
Result(c) ==
  CASE c.fn \in {"fsin", "fsincos"} -> y
    [] c.fn = "fcos" -> -y
    [] c.fn = "fint" -> One * NearestInt(c.arg, One)
    [] c.fn = "fgetexp" -> One * (BitLength(Abs(c.arg)) - 1 - Frac)
    [] c.fn = "fmod" -> c.dest - c.arg * Trunc(c.dest, c.arg)
    [] c.fn = "frem" -> c.dest - c.arg * NearestInt(c.dest, c.arg)
    [] c.fn = "fscale" -> Signed(Sign(c.dest), Scale(Abs(c.dest), Trunc(c.arg, One)))
    [] c.fn = "fmul" -> (c.dest * c.arg) \div One
    [] c.fn = "fadd" -> c.dest + c.arg
    [] OTHER -> c.arg

\* FPSR as it must be: the condition codes; the quotient of FMOD and FREM, whose
\* zero has the sign of the dividend; INEX2 of FINT.
Fpsr(c) ==
  LET r == Result(c)
      remainder == c.fn \in {"fmod", "frem"}
  IN  [cc   |-> Cc(r) \cup (IF remainder /\ r = 0 /\ c.dest < 0 THEN {"N"} ELSE {}),
       quot |-> CASE c.fn = "fmod" -> Trunc(c.dest, c.arg)
                  [] c.fn = "frem" -> NearestInt(c.dest, c.arg)
                  [] OTHER -> 0,
       inex |-> c.fn = "fint" /\ r # c.arg]

\* An operand's or result's image; a denormal's is its own.
Store(v) == IF Abs(v) < 2 ^ (Ext - 1) /\ v # 0 THEN <<Sign(v), 0, Abs(v)>> ELSE ToExt(v)
Shifted(b, d) == Unkey(b[1], Key(b) + d)
ModelValue(c) == Shifted(ToExt(Result(c)), err)
Table(c) == Shifted(ToExt(c.arg), c.off)

-------------------------------------------------------------------------------
\* The generator's helpers.

Line(op, reg, at) == [op |-> op, reg |-> reg, at |-> at]
ClearFpsr == <<Line("clear", 0, <<>>)>>
Load(reg, k) == <<Line("load", reg, <<"O", k, "x">>)>>
Do(c, from, at) == <<[op |-> "do", case |-> c, from |-> from, at |-> at]>>
Count == <<Line("count", 0, <<>>)>>

\* Mutant of Save: the result is stored before FPSR is.
SaveResultFirst(pass, slot) ==
  <<Line("fmove", 1, <<pass, slot, "x">>), Line("fpsr", 0, <<pass, slot, "fpsr">>)>>

\* FPSR first: a store is an FP instruction and clears INEX2.
Save(pass, slot) ==
  <<Line("fpsr", 0, <<pass, slot, "fpsr">>), Line("fmove", 1, <<pass, slot, "x">>)>>

Entry(slot, c, how, mask) ==
  [slot |-> slot, case |-> c, how |-> how, mask |-> mask, want |-> Fpsr(c)]

\* A line of the .exp: an image within tol ulps, a longword, FPSR's top byte.
Want(at, x) == [at |-> at, want |-> x, tol |-> 0, byte |-> FALSE]
WantCc(at, cc) == [Want(at, cc) EXCEPT !.byte = TRUE]

NextOpnd == Len(opnd) + 1

\* case_a(): the instruction's lines and operands, then what is kept of it.
Case(lines, operands, how, mask) ==
  /\ code' = code \o ClearFpsr \o lines \o Save("A", n) \o Count
  /\ opnd' = opnd \o operands
  /\ pending' = Append(pending, Entry(n, Cases[i + 1], how, mask))
  /\ n' = n + 1 /\ ncount' = ncount + 1
  /\ UNCHANGED <<exp, nb, passb, packout>>

-------------------------------------------------------------------------------
\* main(): one action per kind of case.

Next1(pass) == i < Len(Cases) /\ Cases[i + 1].pass = pass

\* Register, extended memory and double immediate source in turn; the operand is
\* put in the table for each form.
Monadic ==
  LET c == Cases[i + 1]
  IN  /\ Next1("monadic")
      /\ Case(CASE i % 3 = 0 -> Load(0, NextOpnd) \o Do(c, <<"reg", 0>>, 0)
                [] i % 3 = 1 -> Do(c, <<"mem", NextOpnd>>, 0)
                [] OTHER -> Do(c, <<"imm", c.arg>>, 0),
              <<ToExt(c.arg)>>,
              IF c.fn \in Functions1 THEN "model" ELSE "exact",
              IF c.fn = "fint" THEN "all" ELSE "cc")

\* One instruction, one case, two results (extra_slot() keeps no FPSR).
SinCos ==
  LET c == Cases[i + 1]
  IN  /\ Next1("sincos")
      /\ code' = code \o ClearFpsr \o Load(0, NextOpnd) \o Do(c, <<"reg", 0>>, 0)
                   \o Save("A", n) \o Count \o <<Line("fmove", 2, <<"A", n + 1, "x">>)>>
      /\ opnd' = Append(opnd, ToExt(c.arg))
      /\ pending' = pending \o <<Entry(n, c, "model", "cc"),
                                 Entry(n + 1, [c EXCEPT !.fn = "fcos"], "model", "none")>>
      /\ n' = n + 2 /\ ncount' = ncount + 1
      /\ UNCHANGED <<exp, nb, passb, packout>>

Dyadic ==
  LET c == Cases[i + 1]
  IN  /\ Next1("dyadic")
      /\ Case(Load(1, NextOpnd) \o Load(0, NextOpnd + 1) \o Do(c, <<"reg", 0>>, 0),
              <<ToExt(c.dest), ToExt(c.arg)>>, "exact", "all")

Movecr ==
  Next1("rom") /\ Case(Do(Cases[i + 1], <<"imm", Cases[i + 1].arg>>, 0), <<>>, "table", "cc")

\* (An)+ and -(An): An is kept and expected too.
Stepped(start, from, end) ==
  LET c == Cases[i + 1]
      at == <<"D", i, "an">>
  IN  /\ code' = code \o <<Line("lea", start, <<>>)>> \o ClearFpsr \o Do(c, <<from, 0>>, 0)
                   \o <<Line("an", 0, at)>> \o Save("A", n) \o Count
      /\ opnd' = Append(opnd, ToExt(c.arg))
      /\ pending' = Append(pending, Entry(n, c, "model", "cc"))
      /\ exp' = Append(exp, Want(at, end))
      /\ n' = n + 1 /\ ncount' = ncount + 1
      /\ UNCHANGED <<nb, passb, packout>>
PostInc == Next1("(an)+") /\ Stepped(NextOpnd, "(an)+", NextOpnd + 1)
PreDec == Next1("-(an)") /\ Stepped(NextOpnd + 1, "-(an)", NextOpnd)

\* Integer, single and word sources, packed decimal and denormal immediates.
Immediate ==
  LET c == Cases[i + 1]
  IN  /\ Next1("immediate")
      /\ Case(Do(c, <<"imm", c.arg>>, 0), <<>>,
              IF c.fn \in Functions1 THEN "model" ELSE "exact", "cc")

PackedMemory ==
  LET c == Cases[i + 1]
  IN  /\ Next1("packed") /\ Case(Do(c, <<"mem", NextOpnd>>, 0), <<<<"P", 0, c.arg>>>>, "ulp1", "cc")

\* Packed decimal out: the digits in memory, and no FPSR.
PackedOut ==
  LET c == Cases[i + 1]
  IN  /\ Next1("packed out")
      /\ code' = code \o Load(1, NextOpnd) \o ClearFpsr
                   \o Do(c, <<"reg", 1>>, Len(packout) + 1) \o Count
      /\ opnd' = Append(opnd, ToExt(c.arg))
      /\ packout' = Append(packout, c.digits)
      /\ ncount' = ncount + 1
      /\ UNCHANGED <<exp, n, nb, pending, passb>>

\* Denormals: loaded as they are; as a register operand, found again in the table
\* by its image; and beside a normal register operand.
Denormal(c) == Store(c.dest)[2] = 0
DenormalLoad ==
  LET c == Cases[i + 1]
  IN  Next1("denormal") /\ Case(Do(c, <<"mem", NextOpnd>>, 0), <<Store(c.arg)>>, "own", "cc")
Operation ==
  LET c == Cases[i + 1]
      k == IF Denormal(c) THEN CHOOSE j \in DOMAIN opnd : opnd[j][2] = 0 /\ opnd[j][1] # "P"
           ELSE NextOpnd
  IN  /\ Next1("operation")
      /\ Case(Load(1, k) \o Do(c, <<"imm", c.arg>>, 0),
              IF Denormal(c) THEN <<>> ELSE <<ToExt(c.dest)>>,
              IF c.fn = "fadd" THEN "own" ELSE "exact", "cc")

\* Pass B: the functions of pass A again, FPCR at double precision, the result
\* stored as a double.  Mutant: an argument near a midpoint is not left out.
CasesB == SelectSeq(Cases, LAMBDA c : c.pass = "monadic" /\ c.fn \in Functions1)
NoneLeftOut(c) == FALSE
LeftOut(c) == NearMid(Result(c), Dbl)

PassB ==
  LET c == CasesB[i + 1 - Len(Cases)]
  IN  /\ i >= Len(Cases) /\ i < Len(Cases) + Len(CasesB)
      /\ IF LeftOut(c) THEN UNCHANGED lists
         ELSE /\ code' = code \o ClearFpsr \o Do(c, <<"double", c.arg>>, 0) \o Save("B", nb) \o Count
              /\ passb' = Append(passb, [slot |-> nb, case |-> c])
              /\ nb' = nb + 1 /\ ncount' = ncount + 1
              /\ UNCHANGED <<opnd, exp, n, pending, packout>>

Generate ==
  /\ phase = "generate"
  /\ \/ Monadic \/ SinCos \/ Dyadic \/ Movecr \/ PostInc \/ PreDec \/ Immediate
     \/ PackedMemory \/ PackedOut \/ DenormalLoad \/ Operation \/ PassB
  /\ i' = i + 1
  /\ UNCHANGED <<y, err, phase, cpu>>

\* The model has answered; the .exp is written, or refused when the model is more
\* than MAXULP from the exactly rounded value.
\* Mutant of Tolerance: every value may be an ulp off.
OneUlp(how) == 1
Tolerance(how) == IF how = "ulp1" THEN 1 ELSE 0

Expected(p) ==
  LET c == p.case
      x == CASE p.how = "model" -> ModelValue(c)
             [] p.how = "table" -> Table(c)
             [] p.how = "own"   -> Store(Result(c))
             [] OTHER -> ToExt(Result(c))
  IN  <<[Want(<<"A", p.slot, "x">>, x) EXCEPT !.tol = Tolerance(p.how)]>>
        \o CASE p.mask = "all" -> <<Want(<<"A", p.slot, "fpsr">>, p.want)>>
             [] p.mask = "cc"  -> <<WantCc(<<"A", p.slot, "fpsr">>, p.want.cc)>>
             [] OTHER -> <<>>
ExpectedB(p) ==
  <<Want(<<"B", p.slot, "x">>, ToDbl(Result(p.case))),
    WantCc(<<"B", p.slot, "fpsr">>, Cc(Result(p.case)))>>

TooFar ==
  \E k \in DOMAIN pending :
    /\ pending[k].how = "model"
    /\ UlpDist(ModelValue(pending[k].case), ToExt(Result(pending[k].case))) > MaxUlp

Verdict ==
  /\ phase = "generate" /\ i = Len(Cases) + Len(CasesB)
  /\ IF TooFar THEN phase' = "refused" /\ UNCHANGED exp
     ELSE /\ phase' = "run"
          /\ exp' = exp
               \o FlattenSeq([k \in DOMAIN pending |-> Expected(pending[k])])
               \o [k \in DOMAIN packout |-> Want(<<"P", k, "x">>, packout[k])]
               \o FlattenSeq([k \in DOMAIN passb |-> ExpectedB(passb[k])])
               \o <<Want(<<"D", 0, "count">>, ncount), Want(<<"D", 0, "end">>, TRUE)>>
  /\ UNCHANGED <<y, err, i, code, opnd, n, nb, ncount, pending, passb, packout, cpu>>

-------------------------------------------------------------------------------
\* The processor, with the FPSP in it (external: 68040.library).

Put(at, x) == mem' = (at :> x) @@ mem
Ins == code[pc]

\* An instruction's operand, by its source.
Operand ==
  CASE Ins.from[1] = "reg" -> ExtVal(fp[Ins.from[2]])
    [] Ins.from[1] = "mem" -> ExtVal(opnd[Ins.from[2]])
    [] Ins.from[1] = "(an)+" -> ExtVal(opnd[an])
    [] Ins.from[1] = "-(an)" -> ExtVal(opnd[an - 1])
    [] OTHER -> Ins.from[2]
Dest(c) == c.pass \in {"dyadic", "operation"}
RightOperands(c) == Operand = c.arg /\ (Dest(c) => ExtVal(fp[1]) = c.dest)

\* With double precision the error is below the documented bound, either way.
Approximations(x) ==
  LET d == (Ulp(x, Dbl) - 1) \div 2 ^ Guard IN {x - d, x, x + d}

Answers(c) ==
  CASE ~RightOperands(c) -> {<<"+", 0, 0>>}
    [] Ins.from[1] = "double" -> {ToExt(DblVal(ToDbl(v))) : v \in Approximations(Result(c))}
    [] c.fn \in {"fsin", "fcos", "fsincos"} -> {ModelValue(c)}
    [] c.pass = "rom" -> {Table(c)}
    [] c.pass = "packed" -> {Shifted(ToExt(c.arg), d) : d \in {-1, 0, 1}}
    [] OTHER -> {Store(Result(c))}

\* A wrong answer: one ulp of what is compared, or two where one is allowed.
Wrong(c, x) ==
  Shifted(x, CASE Ins.from[1] = "double" -> 2 ^ (Ext - Dbl)
               [] c.pass = "packed" -> 3
               [] OTHER -> 1)

Deliver(c, x, cos, status) ==
  /\ fpsr' = status
  /\ IF c.pass = "packed out"
     THEN Put(<<"P", Ins.at, "x">>, x) /\ UNCHANGED fp
     ELSE /\ fp' = [fp EXCEPT ![1] = x, ![2] = IF c.fn = "fsincos" THEN cos ELSE @]
          /\ UNCHANGED mem

\* FPSR after a right operation: a store leaves it, a function's result is inexact.
Status(c) ==
  IF c.pass = "packed out" THEN fpsr
  ELSE [Fpsr(c) EXCEPT !.inex = @ \/ c.fn \in {"fsin", "fcos", "fsincos"}]

NoDefect == [what |-> "none"]

AnStep == CASE Ins.from[1] = "(an)+" -> an + 1
            [] Ins.from[1] = "-(an)" -> an - 1
            [] OTHER -> an

\* What can go wrong in case c, whose right results are x (and cos): the value,
\* the condition codes, the rest of FPSR, the step of An; no effect at all; a
\* stray exception, which ends at the halt label; a processor that hangs.
Defects == {"value", "cos", "cc", "status", "an", "skip", "trap", "hang"}

Err(what, c, x, cos) ==
  \/ /\ what = "value" /\ Deliver(c, Wrong(c, x), cos, Status(c))
     /\ an' = AnStep /\ UNCHANGED phase
  \/ /\ what = "cos" /\ c.fn = "fsincos" /\ Deliver(c, x, Wrong(c, cos), Status(c))
     /\ an' = AnStep /\ UNCHANGED phase
  \/ /\ what = "cc" /\ Deliver(c, x, cos, [Status(c) EXCEPT !.cc = {"N", "Z"} \ @])
     /\ an' = AnStep /\ UNCHANGED phase
  \/ /\ what = "status"
     /\ \/ Deliver(c, x, cos, [Status(c) EXCEPT !.quot = @ + 1])
        \/ Deliver(c, x, cos, [Status(c) EXCEPT !.inex = ~@])
     /\ an' = AnStep /\ UNCHANGED phase
  \/ /\ what = "an" /\ AnStep # an
     /\ Deliver(c, x, cos, Status(c)) /\ UNCHANGED <<an, phase>>
  \/ /\ what = "skip" /\ an' = AnStep /\ UNCHANGED <<fp, fpsr, mem, phase>>
  \/ /\ what = "trap" /\ phase' = "halt" /\ UNCHANGED <<fp, fpsr, an, mem>>
  \/ /\ what = "hang" /\ phase' = "hung" /\ UNCHANGED <<fp, fpsr, an, mem>>

Perform ==
  LET c == Ins.case
      cos == ModelValue([c EXCEPT !.fn = "fcos"])
  IN  /\ Ins.op = "do"
      /\ \E x \in IF c.pass = "packed out" THEN {c.digits} ELSE Answers(c) :
           \/ /\ Deliver(c, x, cos, Status(c)) /\ an' = AnStep
              /\ UNCHANGED <<phase, defect>>
           \/ /\ defect = NoDefect
              /\ \E what \in Defects : Err(what, c, x, cos) /\ defect' = [what |-> what, case |-> c]
      /\ pc' = pc + 1

\* The plain instructions around it.  A store to memory clears INEX2.
Plain ==
  /\ pc' = pc + 1 /\ UNCHANGED <<phase, defect>>
  /\ \/ Ins.op = "clear" /\ fpsr' = Clear /\ UNCHANGED <<fp, an, mem>>
     \/ /\ Ins.op = "load" /\ fp' = [fp EXCEPT ![Ins.reg] = opnd[Ins.at[2]]]
        /\ UNCHANGED <<fpsr, an, mem>>
     \/ Ins.op = "lea" /\ an' = Ins.reg /\ UNCHANGED <<fp, fpsr, mem>>
     \/ Ins.op = "an" /\ Put(Ins.at, an) /\ UNCHANGED <<fp, fpsr, an>>
     \/ Ins.op = "fpsr" /\ Put(Ins.at, fpsr) /\ UNCHANGED <<fp, fpsr, an>>
     \/ /\ Ins.op = "fmove"
        /\ Put(Ins.at, IF Ins.at[1] = "B" THEN ToDbl(ExtVal(fp[1])) ELSE fp[Ins.reg])
        /\ fpsr' = [fpsr EXCEPT !.inex = FALSE] /\ UNCHANGED <<fp, an>>
     \/ /\ Ins.op = "count" /\ Put(<<"D", 0, "count">>, mem[<<"D", 0, "count">>] + 1)
        /\ UNCHANGED <<fp, fpsr, an>>

Execute ==
  /\ phase = "run" /\ pc <= Len(code)
  /\ Plain \/ Perform
  /\ UNCHANGED <<y, err, i, lists>>

\* The last lines: the end is noted, and the halt label reached.
Halt ==
  /\ phase = "run" /\ pc > Len(code) /\ phase' = "halt"
  /\ Put(<<"D", 0, "end">>, TRUE)
  /\ UNCHANGED <<y, err, i, lists, pc, fp, fpsr, an, defect>>

-------------------------------------------------------------------------------
\* The bench (tb_ap040_pipe_prog.v) waits for the halt label and compares memory
\* with the .exp: x80, m8 and m32 lines.  What was never written differs: no image
\* expected of a packed decimal store is zero, and all else is written by whatever
\* reaches the end.

Holds(e) ==
  /\ e.at \in DOMAIN mem
  /\ LET got == mem[e.at]
     IN  CASE e.tol > 0 -> UlpDist(got, e.want) <= e.tol
           [] e.byte -> got.cc = e.want
           [] OTHER -> got = e.want

Ran == phase \in {"halt", "hung"}
Passed == phase = "halt" /\ \A k \in DOMAIN exp : Holds(exp[k])

Init ==
  /\ y \in Truths /\ err \in Errors /\ i = 0
  /\ code = <<>> /\ opnd = <<>> /\ exp = <<>>
  /\ n = 0 /\ nb = 0 /\ ncount = 0 /\ pending = <<>> /\ passb = <<>> /\ packout = <<>>
  /\ phase = "generate" /\ pc = 1 /\ fp = [r \in 0..2 |-> <<"+", 0, 0>>]
  /\ fpsr = Clear /\ an = 0 /\ mem = (<<"D", 0, "count">> :> 0) /\ defect = NoDefect

Next == Generate \/ Verdict \/ Execute \/ Halt
Spec == Init /\ [][Next]_vars /\ WF_vars(Next)

\* A right processor passes, whatever the functions' results are and however the
\* FPSP errs within its documented bound: every expectation is of the slot, the
\* register and the moment it was written for (mk_fpsp.py:375-391, 543-612).
RightPasses == Ran /\ defect = NoDefect => Passed

\* What the expectations cannot tell from right: the condition codes of a packed
\* decimal store, whose FPSR is cleared and never kept (mk_fpsp.py:508-512); the
\* quotient and INEX2 where no rule of line 33 applies, of which only the condition
\* codes are compared; and an FADD of zero that does nothing, whose register holds
\* the result already and whose condition codes are the cleared ones (532-535).
Unseen(d) ==
  \/ d.what = "cc" /\ d.case.pass = "packed out"
  \/ d.what = "status" /\ d.case.fn # "fint" /\ d.case.pass # "dyadic"
  \/ d.what = "skip" /\ d.case.fn = "fadd"

\* Those are all the gaps: a processor with one defect in one case passes with one
\* of them and with no other.  A value an ulp off (two where one is allowed), wrong
\* condition codes, a wrong quotient or INEX2 of FINT, FMOD, FREM and FSCALE, an An
\* not stepped, an instruction without effect, a stray exception, a hang: none
\* passes (mk_fpsp.py:32-34, 561-612, 626-636).
DefectCaught == Ran /\ defect # NoDefect => (Passed <=> Unseen(defect))

\* "The FPSR condition-code byte is checked exactly for every case"
\* (mk_fpsp.py:32): wrong condition codes in one case do not pass.
ConditionCodesChecked == Ran /\ defect.what = "cc" => ~Passed

===============================================================================
