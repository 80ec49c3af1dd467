---- MODULE MCTools ----
(***************************************************************************)
(* The Python tools of the test suite, each alone in its part of one run:  *)
(* the mutant tables (this module's own names), the program generator of   *)
(* the differential runs, the FPSP generator with the processor and the    *)
(* bench that use what it writes, and the number formats of the latter.    *)
(*                                                                         *)
(* Mutants: three rows (two edits, a stale one, an equivalent one), two    *)
(* threads, a session that may be killed and a second one with other       *)
(* sources.  Fuzz: every program of two lines and a one-line subroutine or *)
(* handler, with at most one interrupt.  FPSP: one case of each kind or    *)
(* more, six-bit extended and three-bit double mantissas, exact results    *)
(* on and beside the midpoints.  Formats: every value from 64 to 600 units.*)
(***************************************************************************)
EXTENDS MutantPool, FpspRound, FuzzGen

CONSTANTS Cases, Truths, Errors, MaxUlp        \* Fpsp

VARIABLES
    part,
    y, err, i, fcode, opnd, exp, n, nb, ncount, pending, passb, packout, phase,
    pc, fp, fpsr, an, mem, defect,
    x

FP == INSTANCE Fpsp WITH code <- fcode

fpVars == <<y, err, i, fcode, opnd, exp, n, nb, ncount, pending, passb, packout,
            phase, pc, fp, fpsr, an, mem, defect>>

all == <<part, pool, vars, fpVars, x>>

Smallest == 64
Largest  == 600

\* A rests every part but p.
Only(p, A) ==
    /\ part = p /\ A /\ UNCHANGED part
    /\ IF p = "mutants" THEN TRUE ELSE UNCHANGED pool
    /\ IF p = "fuzz" THEN TRUE ELSE UNCHANGED vars
    /\ IF p = "fpsp" THEN TRUE ELSE UNCHANGED fpVars
    /\ IF p = "formats" THEN TRUE ELSE UNCHANGED x

AllInit ==
    /\ part \in {"mutants", "fuzz", "fpsp", "formats"}
    /\ PoolInit /\ Init /\ FP!Init /\ x = Smallest
    \* a resting part has one initial state
    /\ part # "mutants" => script = "wa" /\ ~all_progs
    /\ part # "fuzz" => ~irq
    /\ part # "fpsp" => y = Min(Truths) /\ err = 0

AllNext ==
    \/ Only("mutants", PoolNext)
    \/ Only("fuzz", Next)
    \/ Only("fpsp", FP!Next)
    \/ Only("formats", x < Largest /\ x' = x + 1)

\* No step of a script undoes another, so that it takes steps at all is enough
\* (MutantPool!PoolSpec states it for each thread).
ToolsSpec ==
    /\ AllInit /\ [][AllNext]_all
    /\ WF_all(Only("mutants", Step))

\* The FPSP program alone.
FpspSpec == AllInit /\ part = "fpsp" /\ [][Only("fpsp", FP!Next)]_all

----------------------------------------------------------------------------
(* The parts' properties; the mutant tables' and the program generator's are *)
(* their modules' own.  They say of a resting part what its initial state    *)
(* satisfies.                                                                *)

\* A script that runs ends (MutantPool!TableEnds; only a restart leaves this state).
ScriptEnds == []<>(part = "mutants" => Ended)

\* A right processor passes the generated FPSP program.
RightPasses == FP!RightPasses
\* A processor with one defect does not, but for the gaps FP!Unseen names.
DefectCaught == FP!DefectCaught
\* Nor one with wrong condition codes in any case (mk_fpsp.py:32).
ConditionCodesChecked == FP!ConditionCodesChecked

\* An image is the nearest of its format, and the distance of two images is
\* the number of steps between them (FpspRound, at x and the values behind it).
ImagesRight ==
    part = "formats" => RoundsRight(x) /\ \A z \in x..x + 20 : StepsRight(x, z)
\* A result within the FPSP's bound is stored as the exact one's double.
DoubleDecided == part = "formats" => Decided(x)

----------------------------------------------------------------------------
(* The mutant tables' rows and sources *)

MCNames == <<"two_edits", "stale", "equiv">>

E(f, o, nw) == [file |-> f, old |-> o, new |-> nw]
MCEdits ==
  [two_edits |-> <<E("cache", "guard", "no guard"), E("core", "hold", "no hold")>>,
   stale     |-> <<E("cache", "guard", "no guard"), E("cache", "vb[set]", "(")>>,
   equiv     |-> <<E("core", "hold", "hold twice")>>]

\* As in dfpmis_mutants.py's row m3_snoop, a row names a text the sources no
\* longer have.  The second session's sources have it, but do not compile with
\* the edit, and they have new code besides that one program fails on.
MCSources ==
  <<[cache |-> <<"guard", "vb_g1">>, core |-> <<"hold">>],
    [cache |-> <<"guard", "vb[set]">>, core |-> <<"hold", "new code">>]>>

Prog(p, k) == [prog |-> p, kind |-> k]
MCPlans ==
  [wa     |-> <<Prog("t_cbwa", "f1"), Prog("t_cbwa", "f0")>>,
   xc7    |-> <<Prog("snoop", "snoop"), Prog("t_cbwa", "compat")>>,
   dfpmis |-> <<Prog("t_dfpmis", "tb")>>]

\* Each program notices one of the changes of a row, or what a session added.
MCFails ==
  [p \in UNION {ToSet(MCPlans[s]) : s \in DOMAIN MCPlans} |->
     CASE p.prog \in {"t_cbwa", "t_dfpmis"} /\ p.kind \in {"f1", "tb", "compat"} -> {"no hold"}
       [] p.prog = "t_cbwa" /\ p.kind = "f0" -> {"no guard", "new code"}
       [] OTHER -> {"hold twice"}]

(* The FPSP program's cases, in main()'s order *)

Cs(p, f, a, d, o) ==
  [pass |-> p, fn |-> f, arg |-> a, dest |-> d, off |-> o, digits |-> <<"+", 2, 40>>]
MCCases ==
  <<Cs("monadic", "fsin", 64, 0, 0), Cs("monadic", "fcos", 128, 0, 0),
    Cs("monadic", "fsin", 96, 0, 0), Cs("monadic", "fint", -160, 0, 0),
    Cs("monadic", "fgetexp", 320, 0, 0), Cs("monadic", "fint", 224, 0, 0),
    Cs("sincos", "fsincos", 80, 0, 0),
    Cs("dyadic", "fmod", 192, 640, 0), Cs("dyadic", "fmod", 128, -256, 0),
    Cs("dyadic", "frem", 192, 704, 0), Cs("dyadic", "fscale", 96, -128, 0),
    Cs("rom", "fmovecr", 200, 0, -1),
    Cs("(an)+", "fsin", 72, 0, 0), Cs("-(an)", "fcos", 88, 0, 0),
    Cs("immediate", "fsin", 100, 0, 0), Cs("immediate", "fmove", -125, 0, 0),
    Cs("packed", "fmove", 310, 0, 0), Cs("packed out", "fmove.p", 125, 0, 3),
    Cs("denormal", "fmove", 4, 0, 0),
    Cs("operation", "fmul", 2048, 4, 0), Cs("operation", "fmul", 1, 8192, 0),
    Cs("operation", "fadd", 0, 4, 0)>>
MCErrors == {-1, 0, 2, 3}
====
