----------------------------- MODULE ToolsProofs -----------------------------
(***************************************************************************)
(* The proofs about three of the tools, which share no state: the rounding *)
(* of tb/mk_fpsp.py for every width, the programs of the generator gen.py  *)
(* of tb/fuzz for every length and every set of TRAPs, and the mutant      *)
(* tables of tb/perf for every table of rows.                              *)
(***************************************************************************)
EXTENDS FpspRound, FuzzGen, MutantPool, FiniteSetTheorems, SequenceTheorems, TLAPS

----------------------------------------------------------------------------
(* Rounding: round_bits() returns a nearest multiple, and near_mid() leaves *)
(* out every value whose rounding a small error could change.               *)

\* Division with remainder, as RoundNearest uses it (mk_fpsp.py:70-73).
LEMMA DivMod ==
  ASSUME NEW m \in Nat, NEW u \in Nat \ {0}
  PROVE  /\ m \div u \in Nat /\ m % u \in Nat
         /\ m = u * (m \div u) + (m % u)
         /\ m % u < u
  OBVIOUS

\* Multiples of a unit are a unit apart.
LEMMA Apart ==
  ASSUME NEW u \in Nat, NEW a \in Nat, NEW b \in Nat, a + 1 <= b
  PROVE  u * a + u <= u * b
  <1>1. PICK d \in Nat : b = a + 1 + d
    <2>1. b - (a + 1) \in Nat
      OBVIOUS
    <2>2. b = a + 1 + (b - (a + 1))
      OBVIOUS
    <2>. QED BY <2>1, <2>2
  <1>2. u * b = u * a + u + u * d
    BY <1>1
  <1>3. u * d \in Nat
    BY <1>1
  <1>. QED BY <1>2, <1>3

\* round_bits() is off by at most half a unit (mk_fpsp.py:70-73).
THEOREM RoundsToNearest ==
  ASSUME NEW m \in Nat, NEW half \in Nat \ {0}
  PROVE  Distance(2 * half * RoundNearest(m, half), m) <= half
  <1>. DEFINE u == 2 * half
              q == m \div u
              r == m % u
  <1>1. u \in Nat \ {0} /\ q \in Nat /\ r \in Nat /\ m = u * q + r /\ r < u
    <2>1. u \in Nat \ {0}
      OBVIOUS
    <2>. HIDE DEF u
    <2>. QED BY DivMod, <2>1
  <1>. HIDE DEF q, r
  <1>2. CASE r > half \/ (r = half /\ q % 2 = 1)
    <2>1. RoundNearest(m, half) = q + 1
      BY <1>2 DEF RoundNearest, q, r
    <2>2. u * (q + 1) = u * q + u /\ u * q \in Nat
      BY <1>1
    <2>3. u * (q + 1) - m = u - r
      BY <1>1, <2>2
    <2>. QED BY <1>1, <1>2, <2>1, <2>3 DEF Distance, Abs
  <1>3. CASE ~(r > half \/ (r = half /\ q % 2 = 1))
    <2>1. RoundNearest(m, half) = q
      BY <1>3 DEF RoundNearest, q, r
    <2>2. u * q \in Nat
      BY <1>1
    <2>3. m - u * q = r
      BY <1>1, <2>2
    <2>. QED BY <1>1, <1>3, <2>1, <2>2, <2>3 DEF Distance, Abs
  <1>. QED BY <1>2, <1>3

\* near_mid() decides: when m is not within unit/slack of a midpoint, every k closer
\* to m than unit/slack rounds to the same multiple (mk_fpsp.py:24-30, 109-119).
THEOREM GuardDecides ==
  ASSUME NEW m \in Nat, NEW k \in Nat, NEW half \in Nat \ {0}, NEW slack \in Nat \ {0},
         ~NearMidpoint(m, half, slack),
         Distance(m, k) * slack < 2 * half
  PROVE  RoundNearest(k, half) = RoundNearest(m, half)
  <1>. DEFINE u == 2 * half
              q == m \div u
              r == m % u
              p == k \div u
              s == k % u
              d == Distance(m, k)
              g == Distance(r, half)
  <1>1. u \in Nat \ {0} /\ u = 2 * half
    OBVIOUS
  <1>2. q \in Nat /\ r \in Nat /\ m = u * q + r /\ r < u
    <2>. HIDE DEF u
    <2>. QED BY DivMod, <1>1
  <1>3. p \in Nat /\ s \in Nat /\ k = u * p + s /\ s < u
    <2>. HIDE DEF u
    <2>. QED BY DivMod, <1>1
  <1>4. RoundNearest(m, half) = IF r > half \/ (r = half /\ q % 2 = 1) THEN q + 1 ELSE q
    BY DEF RoundNearest
  <1>5. RoundNearest(k, half) = IF s > half \/ (s = half /\ p % 2 = 1) THEN p + 1 ELSE p
    BY DEF RoundNearest
  <1>6. g * slack >= u
    BY <1>2 DEF NearMidpoint, Distance, Abs
  <1>7. d * slack < u
    OBVIOUS
  <1>. HIDE DEF u, q, r, p, s
  <1>8. d \in Nat /\ g \in Nat
    BY <1>1, <1>2 DEF Distance, Abs
  <1>9. d < g
    <2>. HIDE DEF d, g
    <2>1. SUFFICES ASSUME g <= d PROVE FALSE
      BY <1>8
    <2>2. g * slack <= d * slack
      BY <1>8, <2>1
    <2>. QED BY <1>1, <1>6, <1>7, <1>8, <2>2
  <1>10. g <= half
    BY <1>1, <1>2 DEF Distance, Abs
  <1>11. u * q \in Nat /\ u * p \in Nat
    BY <1>1, <1>2, <1>3
  <1>12. CASE p = q
    <2>1. s - r = k - m
      BY <1>2, <1>3, <1>11, <1>12
    <2>. QED BY <1>1, <1>2, <1>3, <1>4, <1>5, <1>8, <1>9, <1>12, <2>1 DEF Distance, Abs
  <1>13. CASE q + 1 <= p
    <2>1. u * q + u <= u * p
      BY Apart, <1>1, <1>2, <1>3, <1>13
    <2>2. p = q + 1
      <3>1. SUFFICES ASSUME q + 2 <= p PROVE FALSE
        BY <1>2, <1>3, <1>13
      <3>2. u * (q + 1) + u <= u * p /\ u * (q + 1) = u * q + u
        BY Apart, <1>1, <1>2, <1>3, <3>1
      <3>. QED BY <1>1, <1>2, <1>3, <1>9, <1>10, <1>11, <3>2 DEF Distance, Abs
    <2>3. u * p = u * q + u
      BY <1>1, <1>2, <2>2
    <2>4. r > half /\ s < half
      BY <1>1, <1>2, <1>3, <1>9, <1>10, <1>11, <2>3 DEF Distance, Abs
    <2>. QED BY <1>2, <1>3, <1>4, <1>5, <2>2, <2>4
  <1>14. CASE p + 1 <= q
    <2>1. u * p + u <= u * q
      BY Apart, <1>1, <1>2, <1>3, <1>14
    <2>2. q = p + 1
      <3>1. SUFFICES ASSUME p + 2 <= q PROVE FALSE
        BY <1>2, <1>3, <1>14
      <3>2. u * (p + 1) + u <= u * q /\ u * (p + 1) = u * p + u
        BY Apart, <1>1, <1>2, <1>3, <3>1
      <3>. QED BY <1>1, <1>2, <1>3, <1>9, <1>10, <1>11, <3>2 DEF Distance, Abs
    <2>3. u * q = u * p + u
      BY <1>1, <1>3, <2>2
    <2>4. r < half /\ s > half
      BY <1>1, <1>2, <1>3, <1>9, <1>10, <1>11, <2>3 DEF Distance, Abs
    <2>. QED BY <1>2, <1>3, <1>4, <1>5, <2>2, <2>4
  <1>. QED BY <1>2, <1>3, <1>12, <1>13, <1>14

----------------------------------------------------------------------------
(* The programs of gen.py *)

Routines == {Main, Trp(15), Irq2} \cup {Trp(t) : t \in TrapsUsed} \cup {Sub(n) : n \in Nat}
Traps == {Trp(15)} \cup {Trp(t) : t \in TrapsUsed}
\* The lines a routine may have, the last one apart.
PlainOps == {"alu", "load", "store", "set_d7", "copy"}
BodyOps == PlainOps \cup {"push", "pop"}
MainOps == {"trap", "bsr", "user", "mask", "tst", "dump", "privileged", "halt"}
OpNames == BodyOps \cup MainOps \cup {"rte", "rts"}
LineSet ==
    [op : OpNames] \cup [op : OpNames, part : {"lo", "hi"}] \cup [op : OpNames, to : Routines]

OpsOf(r) == BodyOps \cup IF r = Main THEN MainOps
                         ELSE IF r \in Traps THEN {"rte"} ELSE {"rts"}
EndOf(r) == IF r = Main THEN "halt" ELSE IF r \in Traps THEN "rte" ELSE "rts"

\* The main body is in user mode in front of line i: it has entered it and not left
\* it since.
Leaves(l) == l.op = "trap" /\ l.to = Trp(15)
UserAt(c, i) ==
    \E j \in 1..i - 1 : c[j].op = "user" /\ \A k \in j + 1..i - 1 : ~Leaves(c[k])

\* Line i of routine r, among the routines D: what is pushed is popped by the next
\* line, and what is privileged stands where the main body is in supervisor mode.
LineRight(D, r, c, i) ==
    /\ c[i].op \in OpsOf(r)
    /\ c[i].op = "pop" => i > 1 /\ c[i - 1].op = "push"
    /\ c[i].op = "push" => i < Len(c) /\ c[i + 1].op = "pop"
    /\ c[i].op \in {"user", "mask", "privileged", "halt"} => ~UserAt(c, i)
    /\ c[i].op = "trap" => c[i].to \in Traps
    /\ c[i].op = "bsr" => c[i].to \in D \cap {Sub(n) : n \in Nat}

RoutineRight(D, r, c) == c \in Seq(LineSet) /\ \A i \in 1..Len(c) : LineRight(D, r, c, i)
Closed(r, c) == c # <<>> /\ c[Len(c)].op = EndOf(r)

Fixed == {Trp(15), Irq2}

\* What the generator has written so far.
Written ==
    /\ DOMAIN code \subseteq Routines
    /\ {Main} \cup Fixed \cup Traps \subseteq DOMAIN code
    /\ code = [r \in DOMAIN code |-> code[r]]
    /\ code[Trp(15)] = <<Op("set_S"), Op("rte")>>
    /\ code[Irq2] = <<Op("save"), Op("work"), Op("restore"), Op("rte")>>
    /\ \A r \in DOMAIN code \ Fixed : RoutineRight(DOMAIN code, r, code[r])
    /\ IsFiniteSet(Subs)
    /\ \A n \in Nat : Sub(n) \in DOMAIN code => n <= Cardinality(Subs)

\* What it has still to write: each routine once, the main body first.
StillToWrite ==
    /\ todo \in Seq(DOMAIN code \ Fixed) /\ IsInjective(todo)
    /\ \A r \in DOMAIN code \ Fixed :
           (\A k \in 1..Len(todo) : todo[k] # r) => Closed(r, code[r])
    /\ \A k \in 1..Len(todo) :
           todo[k] = Main => k = 1 /\ (user <=> UserAt(code[Main], Len(code[Main]) + 1))
    /\ user \in BOOLEAN

----------------------------------------------------------------------------
(* The processor in it *)

Places == Routines \X Nat
ValueSet == [is : {"value"}, of : SUBSET {"d"}]
FrameSet == [is : {"frame"}, s : BOOLEAN, masked : BOOLEAN, back : Places]
ReturnSet == [is : {"return"}, to : Places]
RegsSet == [is : {"regs"}, of : SUBSET Registers]
StackSet == ValueSet \cup FrameSet \cup ReturnSet \cup RegsSet

CpuSet ==
    [state : {"run", "halt", "unexp", "irqnone"}, r : Routines, i : Nat,
     s : BOOLEAN, masked : BOOLEAN, ss : Seq(StackSet), us : Seq(StackSet)]

\* Line i of routine r is executed in mode s: on the stack of that mode are what
\* called the routine and nothing else.
Called(c, r, i, s, below) ==
    \/ r = Main /\ below = <<>> /\ (s <=> ~UserAt(c[Main], i))
    \/ \E b \in 1..Len(c[Main]) :
         /\ c[Main][b].op # "pop"
         /\ \/ /\ r \in Traps /\ s
               /\ \E f \in FrameSet :
                    /\ below = <<f>> /\ f.back = <<Main, b>>
                    /\ IF r = Trp(15) /\ i = 1 THEN ~UserAt(c[Main], b)
                       ELSE (f.s <=> ~UserAt(c[Main], b))
            \/ /\ r \in {Sub(n) : n \in Nat} /\ (s <=> ~UserAt(c[Main], b))
               /\ below = <<[is |-> "return", to |-> <<Main, b>>]>>

\* The processor is at line i of routine r outside the interrupt handler: the stack
\* of its mode holds its caller, and between a push and its pop a value; the other
\* stack is empty.  What is on the stack is right unless a store was wrong (wrong).
At(c, wrong, r, i, s, ss, us) ==
    /\ r \in DOMAIN c \ {Irq2} /\ i \in 1..Len(c[r]) /\ s \in BOOLEAN
    /\ (IF s THEN us ELSE ss) = <<>>
    /\ \E below \in Seq(StackSet), v \in ValueSet :
         /\ (IF s THEN ss ELSE us) = IF c[r][i].op = "pop" THEN Append(below, v) ELSE below
         /\ v.of # {} => wrong
         /\ Called(c, r, i, s, below)

\* It is in the interrupt handler, entered from such a place.
InHandler(c, wrong, p) ==
    /\ p.r = Irq2 /\ p.i \in 1..4 /\ p.s /\ p.masked
    /\ \E f \in FrameSet, ss \in Seq(StackSet), g \in RegsSet :
         /\ p.ss = IF p.i \in {2, 3} THEN Append(Append(ss, f), g) ELSE Append(ss, f)
         /\ g.of # {} => wrong
         /\ At(c, wrong, f.back[1], f.back[2], f.s, ss, p.us)

Executing ==
    /\ cpu \in CpuSet /\ bad \in BOOLEAN
    /\ todo # <<>> =>
         /\ cpu.state = "run" /\ cpu.r = Main /\ cpu.i = 1 /\ cpu.s
         /\ cpu.ss = <<>> /\ cpu.us = <<>>
    /\ todo = <<>> /\ cpu.state = "run" =>
         \/ At(code, bad, cpu.r, cpu.i, cpu.s, cpu.ss, cpu.us)
         \/ InHandler(code, bad, cpu)
    /\ EveryProgramEnds

\* Outside the handler nothing differs without a wrong store, and a program that is
\* interrupted meets none.
Alike ==
    /\ irq => ~bad
    /\ cpu.state = "run" /\ cpu.r = Irq2 => irq
    /\ ~bad => dump = {}
    /\ ~bad => differ \subseteq IF cpu.r = Irq2 /\ cpu.i = 3 THEN Registers ELSE {}

ProgramInv == Written /\ StillToWrite /\ Executing /\ Alike

----------------------------------------------------------------------------
(* Routines by themselves *)

\* No two routines have the same name.
LEMMA RoutineNames ==
    /\ Main # Trp(15) /\ Main # Irq2 /\ Trp(15) # Irq2
    /\ \A t \in TrapsUsed : Trp(t) \notin {Main, Irq2, Trp(15)}
    /\ \A n \in Nat : Sub(n) \notin {Main, Irq2} \cup Traps
    /\ \A m, n \in Nat : Sub(m) = Sub(n) => m = n
    /\ \A n \in Nat : Sub(n)[1] = "sub"
    /\ \A r \in {Main, Irq2} \cup Traps : r[1] # "sub"
BY TrapsAssumption DEF Main, Irq2, Trp, Sub, Traps

\* The mode in front of the first line, and behind a line.
LEMMA UserStart == ASSUME NEW c PROVE ~UserAt(c, 1)
BY DEF UserAt

\* Entering makes it user mode, TRAP 15 ends it, any other line keeps the mode.
LEMMA UserNext ==
    ASSUME NEW c, NEW i \in Nat \ {0}
    PROVE  UserAt(c, i + 1) <=> c[i].op = "user" \/ (UserAt(c, i) /\ ~Leaves(c[i]))
<1>1. ASSUME UserAt(c, i + 1), c[i].op # "user" PROVE UserAt(c, i) /\ ~Leaves(c[i])
  <2>1. PICK j \in 1..i : c[j].op = "user" /\ \A k \in j + 1..i : ~Leaves(c[k])
    BY <1>1 DEF UserAt
  <2>2. j \in 1..i - 1 /\ i \in j + 1..i
    BY <1>1, <2>1
  <2> QED
    BY <2>1, <2>2 DEF UserAt
<1>2. ASSUME UserAt(c, i), ~Leaves(c[i]) PROVE UserAt(c, i + 1)
  <2>1. PICK j \in 1..i - 1 : c[j].op = "user" /\ \A k \in j + 1..i - 1 : ~Leaves(c[k])
    BY <1>2 DEF UserAt
  <2>2. j \in 1..i /\ \A k \in j + 1..i : ~Leaves(c[k])
    BY <1>2, <2>1
  <2> QED
    BY <2>1, <2>2 DEF UserAt
<1>3. ASSUME c[i].op = "user" PROVE UserAt(c, i + 1)
  BY <1>3 DEF UserAt
<1> QED
  BY <1>1, <1>2, <1>3

\* Two lists of lines, one behind the other.
LEMMA Behind2 ==
    ASSUME NEW c \in Seq(LineSet), NEW d \in Seq(LineSet)
    PROVE  /\ c \o d \in Seq(LineSet) /\ Len(c) \in Nat /\ Len(d) \in Nat
           /\ Len(c \o d) = Len(c) + Len(d)
           /\ \A i \in 1..Len(c) : (c \o d)[i] = c[i]
           /\ \A i \in 1..Len(d) : (c \o d)[Len(c) + i] = d[i]
           /\ \A i \in Len(c) + 1..Len(c) + Len(d) : (c \o d)[i] = d[i - Len(c)]
<1>1. Len(c) \in Nat /\ Len(d) \in Nat
  BY LenProperties
<1>2. /\ c \o d \in Seq(LineSet)
      /\ Len(c \o d) = Len(c) + Len(d)
      /\ \A i \in 1..Len(c) + Len(d) :
             (c \o d)[i] = IF i <= Len(c) THEN c[i] ELSE d[i - Len(c)]
  BY ConcatProperties
<1> QED
  BY <1>1, <1>2

\* A sequence of two lines.
LEMMA TwoLines ==
    ASSUME NEW x, NEW y, <<x>> \in Seq(LineSet), <<y>> \in Seq(LineSet)
    PROVE  <<x>> \o <<y>> = <<x, y>>
<1> DEFINE c == <<x>>
           d == <<y>>
           e == <<x, y>>
<1>1. /\ c \in Seq(LineSet) /\ Len(c) = 1 /\ c[1] = x
      /\ d \in Seq(LineSet) /\ Len(d) = 1 /\ d[1] = y
      /\ e \in Seq(LineSet) /\ Len(e) = 2 /\ e[1] = x /\ e[2] = y
  OBVIOUS
<1> HIDE DEF c, d, e
<1>2. c \o d \in Seq(LineSet) /\ Len(c \o d) = 2 /\ (c \o d)[1] = x /\ (c \o d)[2] = y
  <2>1. /\ c \o d \in Seq(LineSet) /\ Len(c \o d) = Len(c) + Len(d)
        /\ \A i \in 1..Len(c) + Len(d) :
               (c \o d)[i] = IF i <= Len(c) THEN c[i] ELSE d[i - Len(c)]
    BY <1>1, ConcatProperties
  <2>2. 1 \in 1..Len(c) + Len(d) /\ 2 \in 1..Len(c) + Len(d)
    BY <1>1
  <2>3. (c \o d)[1] = c[1]
    BY <1>1, <2>1, <2>2
  <2>4. (c \o d)[2] = d[1]
    BY <1>1, <2>1, <2>2
  <2> QED
    BY <1>1, <2>1, <2>3, <2>4
<1>3. \A i \in 1..Len(e) : (c \o d)[i] = e[i]
  BY <1>1, <1>2
<1>4. c \o d = e
  BY <1>1, <1>2, <1>3, SeqEqual
<1> QED
  BY <1>4 DEF c, d, e

\* The mode in front of a line depends on the lines before it only.
LEMMA UserPrefix ==
    ASSUME NEW c \in Seq(LineSet), NEW d \in Seq(LineSet), NEW i \in 1..Len(c) + 1
    PROVE  UserAt(c \o d, i) <=> UserAt(c, i)
<1>1. Len(c) \in Nat /\ \A j \in 1..i - 1 : (c \o d)[j] = c[j]
  BY Behind2
<1>2. \A j \in 1..i - 1 : \A k \in j + 1..i - 1 : (c \o d)[k] = c[k]
  BY <1>1
<1> QED
  BY <1>1, <1>2 DEF UserAt

\* Behind lines that do not enter user mode it is user mode only if it was so in front
\* of them and none of them left it.
LEMMA UserBehind ==
    ASSUME NEW c \in Seq(LineSet), NEW d \in Seq(LineSet), NEW i \in 1..Len(d) + 1,
           \A k \in 1..Len(d) : d[k].op # "user",
           UserAt(c \o d, Len(c) + i)
    PROVE  UserAt(c, Len(c) + 1) /\ \A k \in 1..i - 1 : ~Leaves(d[k])
<1> DEFINE e == c \o d
<1>1. /\ Len(c) \in Nat /\ Len(d) \in Nat
      /\ \A k \in 1..Len(c) : e[k] = c[k]
      /\ \A k \in 1..Len(d) : e[Len(c) + k] = d[k]
  BY Behind2
<1>a. UserAt(e, Len(c) + i)
  OBVIOUS
<1> HIDE DEF e
<1>2. PICK j \in 1..Len(c) + i - 1 :
          e[j].op = "user" /\ \A k \in j + 1..Len(c) + i - 1 : ~Leaves(e[k])
  BY <1>a DEF UserAt
<1>3. j \in 1..Len(c)
  <2>1. SUFFICES ASSUME j > Len(c) PROVE FALSE
    BY <1>1
  <2>2. j - Len(c) \in 1..Len(d) /\ j = Len(c) + (j - Len(c))
    BY <1>1, <2>1
  <2> QED
    BY <1>1, <1>2, <2>2
<1>4. c[j].op = "user" /\ \A k \in j + 1..Len(c) : ~Leaves(c[k])
  BY <1>1, <1>2, <1>3
<1>5. ASSUME NEW k \in 1..i - 1 PROVE ~Leaves(d[k])
  <2>1. k \in 1..Len(d) /\ Len(c) + k \in j + 1..Len(c) + i - 1
    BY <1>1, <1>3
  <2> QED
    BY <1>1, <1>2, <2>1
<1>6. UserAt(c, Len(c) + 1)
  BY <1>1, <1>3, <1>4 DEF UserAt
<1> QED
  BY <1>5, <1>6

\* A routine with lines behind it that are right there.
LEMMA LongerRight ==
    ASSUME NEW D, NEW r, NEW c, NEW d \in Seq(LineSet), RoutineRight(D, r, c),
           \A i \in 1..Len(d) : LineRight(D, r, c \o d, Len(c) + i)
    PROVE  RoutineRight(D, r, c \o d)
<1> DEFINE e == c \o d
<1>1. c \in Seq(LineSet) /\ \A i \in 1..Len(c) : LineRight(D, r, c, i)
  BY DEF RoutineRight
<1>2. /\ e \in Seq(LineSet) /\ Len(c) \in Nat /\ Len(d) \in Nat
      /\ Len(e) = Len(c) + Len(d)
      /\ \A i \in 1..Len(c) : e[i] = c[i]
  BY <1>1, Behind2
<1>3. \A i \in 1..Len(c) : UserAt(e, i) <=> UserAt(c, i)
  BY <1>1, <1>2, UserPrefix
<1>4. ASSUME NEW i \in 1..Len(c) PROVE LineRight(D, r, e, i)
  <2> HIDE DEF e
  <2>a. LineRight(D, r, c, i)
    BY <1>1
  <2>b. e[i] = c[i]
    BY <1>2
  <2>c. UserAt(e, i) <=> UserAt(c, i)
    BY <1>3
  <2>1. LineRight(D, r, c, i) /\ e[i] = c[i] /\ (UserAt(e, i) <=> UserAt(c, i))
    BY <2>a, <2>b, <2>c
  <2>2. i > 1 => e[i - 1] = c[i - 1]
    BY <1>2
  <2>3. i < Len(c) => i < Len(e) /\ e[i + 1] = c[i + 1]
    BY <1>2
  <2> QED
    BY <2>1, <2>2, <2>3 DEF LineRight
<1>5. ASSUME NEW i \in 1..Len(e), i > Len(c) PROVE LineRight(D, r, e, i)
  <2>1. i - Len(c) \in 1..Len(d) /\ Len(c) + (i - Len(c)) = i
    BY <1>2, <1>5
  <2> QED
    BY <2>1
<1> HIDE DEF e
<1>6. \A i \in 1..Len(e) : LineRight(D, r, e, i)
  BY <1>2, <1>4, <1>5
<1> QED
  BY <1>2, <1>6 DEF RoutineRight, e

----------------------------------------------------------------------------
(* What the generator adds to a routine *)

\* Lines as the generator writes them.
LEMMA Written1 ==
    /\ \A x \in OpNames : Op(x) \in LineSet /\ Op(x).op = x
    /\ \A x \in OpNames, r \in Routines :
           To(x, r) \in LineSet /\ To(x, r).op = x /\ To(x, r).to = r
    /\ \A x \in OpNames, p \in {"lo", "hi"} : [op |-> x, part |-> p] \in LineSet
<1>1. ASSUME NEW x \in OpNames PROVE Op(x) \in [op : OpNames] /\ Op(x).op = x
  BY DEF Op
<1>2. ASSUME NEW x \in OpNames, NEW r \in Routines
      PROVE  To(x, r) \in [op : OpNames, to : Routines] /\ To(x, r).op = x /\ To(x, r).to = r
  BY DEF To
<1>3. ASSUME NEW x \in OpNames, NEW p \in {"lo", "hi"}
      PROVE  [op |-> x, part |-> p] \in [op : OpNames, part : {"lo", "hi"}]
  OBVIOUS
<1> QED
  BY <1>1, <1>2, <1>3 DEF LineSet

\* The names of the lines, and where each may stand.
LEMMA OpFacts ==
    /\ BodyOps \cup MainOps \cup {"rte", "rts"} \subseteq OpNames
    /\ \A r : BodyOps \subseteq OpsOf(r) /\ EndOf(r) \in OpsOf(r) \cap OpNames
    /\ MainOps \subseteq OpsOf(Main)
    /\ \A r : r # Main => EndOf(r) \in {"rte", "rts"}
<1>1. BodyOps \cup MainOps \cup {"rte", "rts"} \subseteq OpNames
  BY DEF OpNames
<1>2. ASSUME NEW r PROVE BodyOps \subseteq OpsOf(r) /\ EndOf(r) \in OpsOf(r) \cap OpNames
  BY DEF OpsOf, EndOf, OpNames, MainOps
<1>3. MainOps \subseteq OpsOf(Main)
  BY DEF OpsOf
<1>4. \A r : r # Main => EndOf(r) \in {"rte", "rts"}
  BY DEF EndOf
<1> QED
  BY <1>1, <1>2, <1>3, <1>4

\* One line, or a push and its pop.
LEMMA OneLine ==
    ASSUME NEW D, NEW r, NEW c, NEW x \in LineSet, RoutineRight(D, r, c),
           x.op \in OpsOf(r) \ {"push", "pop"},
           x.op \in {"user", "mask", "privileged", "halt"} => ~UserAt(c, Len(c) + 1),
           x.op = "trap" => x.to \in Traps,
           x.op = "bsr" => x.to \in D \cap {Sub(n) : n \in Nat}
    PROVE  /\ RoutineRight(D, r, c \o <<x>>)
           /\ UserAt(c \o <<x>>, Len(c \o <<x>>) + 1)
                <=> x.op = "user" \/ (UserAt(c, Len(c) + 1) /\ ~Leaves(x))
<1>1. c \in Seq(LineSet)
  BY DEF RoutineRight
<1> DEFINE d == <<x>>
           e == c \o d
<1>2. d \in Seq(LineSet) /\ Len(d) = 1 /\ d[1] = x
  OBVIOUS
<1> HIDE DEF d
<1>3. /\ e \in Seq(LineSet) /\ Len(c) \in Nat /\ Len(e) = Len(c) + 1
      /\ e[Len(c) + 1] = x
  BY <1>1, <1>2, Behind2
<1>4. UserAt(e, Len(c) + 1) <=> UserAt(c, Len(c) + 1)
  BY <1>1, <1>2, <1>3, UserPrefix
<1> HIDE DEF e
<1>5. LineRight(D, r, e, Len(c) + 1)
  BY <1>3, <1>4 DEF LineRight
<1>6. \A i \in 1..Len(d) : LineRight(D, r, e, Len(c) + i)
  BY <1>2, <1>5
<1>7. RoutineRight(D, r, e)
  BY <1>2, <1>6, LongerRight DEF e
<1>8. UserAt(e, Len(c) + 1 + 1) <=> x.op = "user" \/ (UserAt(e, Len(c) + 1) /\ ~Leaves(x))
  <2>1. Len(c) + 1 \in Nat \ {0}
    BY <1>3
  <2>2. UserAt(e, Len(c) + 1 + 1) <=> e[Len(c) + 1].op = "user"
                                      \/ (UserAt(e, Len(c) + 1) /\ ~Leaves(e[Len(c) + 1]))
    BY <2>1, UserNext
  <2> QED
    BY <1>3, <2>2
<1>9. UserAt(e, Len(e) + 1) <=> x.op = "user" \/ (UserAt(c, Len(c) + 1) /\ ~Leaves(x))
  BY <1>3, <1>4, <1>8
<1> QED
  BY <1>7, <1>9 DEF e, d

\* A push and its pop, added together (gen.py:128-130).
LEMMA OnePair ==
    ASSUME NEW D, NEW r, NEW c, RoutineRight(D, r, c)
    PROVE  LET e == c \o <<Op("push"), Op("pop")>>
           IN  /\ RoutineRight(D, r, e)
               /\ UserAt(e, Len(e) + 1) <=> UserAt(c, Len(c) + 1)
<1>1. c \in Seq(LineSet)
  BY DEF RoutineRight
<1> DEFINE d == <<Op("push"), Op("pop")>>
           e == c \o d
<1>a. Op("push") \in LineSet /\ Op("pop") \in LineSet
  BY Written1 DEF OpNames, BodyOps
<1>2. /\ d \in Seq(LineSet) /\ Len(d) = 2 /\ d[1].op = "push" /\ d[2].op = "pop"
  BY <1>a DEF Op
<1> HIDE DEF d
<1>d. d \in Seq(LineSet) /\ Len(d) = 2
  BY <1>2
<1>e. /\ e \in Seq(LineSet) /\ Len(c) \in Nat /\ Len(e) = Len(c) + Len(d)
      /\ \A i \in Len(c) + 1..Len(c) + Len(d) : e[i] = d[i - Len(c)]
  BY <1>1, <1>d, Behind2
<1>b. /\ e \in Seq(LineSet) /\ Len(c) \in Nat /\ Len(e) = Len(c) + 2
      /\ \A i \in Len(c) + 1..Len(c) + 2 : e[i] = d[i - Len(c)]
  BY <1>d, <1>e
<1>c. e[Len(c) + 1] = d[1] /\ e[Len(c) + 2] = d[2]
  <2> HIDE DEF e
  <2> QED
    BY <1>b
<1>3. /\ e \in Seq(LineSet) /\ Len(c) \in Nat /\ Len(e) = Len(c) + 2
      /\ e[Len(c) + 1].op = "push" /\ e[Len(c) + 2].op = "pop"
  BY <1>2, <1>b, <1>c
<1>4. UserAt(e, Len(c) + 1) <=> UserAt(c, Len(c) + 1)
  BY <1>1, <1>2, <1>3, UserPrefix
<1> HIDE DEF e
<1>5. LineRight(D, r, e, Len(c) + 1) /\ LineRight(D, r, e, Len(c) + 2)
  BY <1>3 DEF LineRight, OpsOf, BodyOps
<1>6. \A i \in 1..Len(d) : LineRight(D, r, e, Len(c) + i)
  BY <1>2, <1>5
<1>7. RoutineRight(D, r, e)
  BY <1>2, <1>6, LongerRight DEF e
<1>8. UserAt(e, Len(c) + 1 + 1) <=> UserAt(e, Len(c) + 1)
  <2>1. Len(c) + 1 \in Nat \ {0}
    BY <1>3
  <2> QED
    BY <1>3, <2>1, UserNext DEF Leaves
<1>9. UserAt(e, Len(c) + 2 + 1) <=> UserAt(e, Len(c) + 2)
  <2>1. Len(c) + 2 \in Nat \ {0}
    BY <1>3
  <2> QED
    BY <1>3, <2>1, UserNext DEF Leaves
<1>10. Len(c) + 1 + 1 = Len(c) + 2
  BY <1>3
<1> QED
  BY <1>3, <1>4, <1>7, <1>8, <1>9, <1>10 DEF e, d

\* What the random mix of a body may choose.
LEMMA DataNames ==
    ASSUME NEW o \in DataOps
    PROVE  o \in LineSet /\ o.op \in PlainOps \cup {"push"} /\ o.op # "set_d7"
<1>1. \/ \E x \in {"store", "load"}, p \in {"lo", "hi"} : o = [op |-> x, part |-> p]
      \/ o = Op("copy") \/ o = Op("push") \/ o = Op("alu")
  BY DEF DataOps
<1>2. o \in LineSet /\ o.op \in {"store", "load", "copy", "push", "alu"}
  <2>1. CASE \E x \in {"store", "load"}, p \in {"lo", "hi"} : o = [op |-> x, part |-> p]
    <3>1. PICK x \in {"store", "load"}, p \in {"lo", "hi"} : o = [op |-> x, part |-> p]
      BY <2>1
    <3> QED
      BY <3>1, Written1 DEF OpNames, BodyOps, PlainOps
  <2>2. ASSUME o = Op("copy") PROVE o \in LineSet /\ o.op = "copy"
    BY <2>2, Written1 DEF OpNames, BodyOps, PlainOps
  <2>3. ASSUME o = Op("push") PROVE o \in LineSet /\ o.op = "push"
    BY <2>3, Written1 DEF OpNames, BodyOps, PlainOps
  <2>4. ASSUME o = Op("alu") PROVE o \in LineSet /\ o.op = "alu"
    BY <2>4, Written1 DEF OpNames, BodyOps, PlainOps
  <2> QED
    BY <1>1, <2>1, <2>2, <2>3, <2>4
<1> QED
  BY <1>2 DEF PlainOps

\* The random choices that stay within a routine.
LEMMA BodyRight ==
    ASSUME NEW D, NEW r, NEW c, NEW o \in DataOps, RoutineRight(D, r, c)
    PROVE  LET e == c \o Lines(o)
           IN  /\ RoutineRight(D, r, e)
               /\ UserAt(e, Len(e) + 1) <=> UserAt(c, Len(c) + 1)
<1>1. o \in LineSet /\ o.op \in PlainOps \cup {"push"} /\ o.op # "set_d7"
  BY DataNames
<1>2. CASE o.op = "copy"
  <2> DEFINE s == Op("set_d7")
             f == c \o <<s>>
  <2>1. s \in LineSet /\ s.op = "set_d7"
    BY Written1 DEF OpNames, BodyOps, PlainOps
  <2> HIDE DEF s
  <2>2. RoutineRight(D, r, f) /\ (UserAt(f, Len(f) + 1) <=> UserAt(c, Len(c) + 1))
    BY <2>1, OneLine DEF OpsOf, BodyOps, PlainOps, Leaves
  <2> HIDE DEF f
  <2>3. /\ RoutineRight(D, r, f \o <<o>>)
        /\ UserAt(f \o <<o>>, Len(f \o <<o>>) + 1) <=> UserAt(f, Len(f) + 1)
    BY <1>1, <1>2, <2>2, OneLine DEF OpsOf, BodyOps, PlainOps, Leaves
  <2>4. f \o <<o>> = c \o <<s, o>>
    <3>a. c \in Seq(LineSet) /\ s \in LineSet /\ o \in LineSet
      BY <1>1, <2>1 DEF RoutineRight
    <3>1. c \in Seq(LineSet) /\ <<s>> \in Seq(LineSet) /\ <<o>> \in Seq(LineSet)
      BY <3>a
    <3>2. (c \o <<s>>) \o <<o>> = c \o (<<s>> \o <<o>>)
      BY <3>1, ConcatAssociative
    <3>3. <<s>> \o <<o>> = <<s, o>>
      BY <3>1, TwoLines
    <3> QED
      BY <3>2, <3>3 DEF f
  <2>5. Lines(o) = <<s, o>>
    BY <1>2 DEF Lines, s
  <2> QED
    BY <2>2, <2>3, <2>4, <2>5
<1>3. CASE o.op = "push"
  <2>1. o = Op("push")
    BY <1>3 DEF DataOps, Op
  <2>2. Lines(o) = <<Op("push"), Op("pop")>>
    BY <1>3, <2>1 DEF Lines
  <2> QED
    BY <2>2, OnePair
<1>4. CASE o.op \notin {"copy", "push"}
  <2>1. Lines(o) = <<o>>
    BY <1>4 DEF Lines
  <2> QED
    BY <1>1, <1>4, <2>1, OneLine DEF OpsOf, BodyOps, PlainOps, Leaves
<1> QED
  BY <1>2, <1>3, <1>4

\* The lines behind the main body: out of user mode, then the results and the end.
LEMMA EpilogueRight ==
    ASSUME NEW D, NEW c, RoutineRight(D, Main, c), (user <=> UserAt(c, Len(c) + 1))
    PROVE  RoutineRight(D, Main, c \o Epilogue) /\ Closed(Main, c \o Epilogue)
<1>1. c \in Seq(LineSet)
  BY DEF RoutineRight
<1>2. /\ Epilogue \in Seq(LineSet) /\ Len(Epilogue) \in 3..6
      /\ Epilogue[Len(Epilogue)].op = "halt"
      /\ \A i \in 1..Len(Epilogue) :
            /\ Epilogue[i].op \in {"trap", "mask", "tst", "dump", "privileged", "halt"}
            /\ Epilogue[i].op = "trap" => Epilogue[i].to = Trp(15)
      /\ user => Leaves(Epilogue[1])
  <2> DEFINE t == To("trap", Trp(15))
             A == IF user THEN <<t>> ELSE <<>>
             L == {t} \cup {Op(x) : x \in {"mask", "tst", "dump", "privileged", "halt"}}
             G == A \o IrqsOff
  <2>1. /\ t \in LineSet /\ t.op = "trap" /\ t.to = Trp(15)
        /\ \A x \in MainOps : Op(x) \in LineSet /\ Op(x).op = x
    BY Written1, OpFacts DEF MainOps, Routines
  <2> HIDE DEF t
  <2>2. /\ L \subseteq LineSet
        /\ \A l \in L : /\ l.op \in {"trap", "mask", "tst", "dump", "privileged", "halt"}
                        /\ l.op = "trap" => l.to = Trp(15)
    BY <2>1 DEF MainOps
  <2>3. /\ Op("mask") \in L /\ Op("tst") \in L /\ Op("dump") \in L
        /\ Op("privileged") \in L /\ Op("halt") \in L /\ t \in L
    OBVIOUS
  <2> HIDE DEF L
  <2>4. /\ A \in Seq(L) /\ Len(A) \in 0..1
        /\ user => Len(A) = 1 /\ A[1] = t
    BY <2>3
  <2>5. IrqsOff \in Seq(L) /\ Len(IrqsOff) \in 0..2
    BY <2>3 DEF IrqsOff
  <2>6. Results \in Seq(L) /\ Len(Results) = 3 /\ Results[3] = Op("halt")
    BY <2>3 DEF Results
  <2> HIDE DEF A
  <2>7. /\ G \in Seq(L) /\ Len(G) = Len(A) + Len(IrqsOff)
        /\ \A i \in 1..Len(G) : G[i] = IF i <= Len(A) THEN A[i] ELSE IrqsOff[i - Len(A)]
    BY <2>4, <2>5, ConcatProperties
  <2> HIDE DEF G
  <2>a. Results \in Seq(L) /\ Len(G) \in Nat /\ Len(Results) = 3 /\ G \in Seq(L)
    BY <2>6, <2>7, LenProperties
  <2>b. /\ G \o Results \in Seq(L) /\ Len(G \o Results) = Len(G) + Len(Results)
        /\ \A i \in 1..Len(G) + Len(Results) :
               (G \o Results)[i] = IF i <= Len(G) THEN G[i] ELSE Results[i - Len(G)]
    <3>1. G \in Seq(L) /\ Results \in Seq(L)
      BY <2>a
    <3> QED
      BY <3>1, ConcatProperties
  <2>8. /\ G \o Results \in Seq(L) /\ Len(G \o Results) = Len(G) + 3
        /\ \A i \in 1..Len(G) + 3 :
               (G \o Results)[i] = IF i <= Len(G) THEN G[i] ELSE Results[i - Len(G)]
    BY <2>a, <2>b
  <2>9. Epilogue = G \o Results
    BY DEF Epilogue, G, A, t
  <2>10. Len(G) \in 0..3
    <3>1. Len(A) \in 0..1 /\ Len(IrqsOff) \in 0..2 /\ Len(G) = Len(A) + Len(IrqsOff)
      BY <2>4, <2>5, <2>7
    <3>2. \A a \in 0..1, b \in 0..2 : a + b \in 0..3
      OBVIOUS
    <3> QED
      BY <3>1, <3>2
  <2>11. Epilogue \in Seq(LineSet) /\ \A i \in 1..Len(Epilogue) : Epilogue[i] \in L
    BY <2>2, <2>8, <2>9
  <2>12. Epilogue[Len(Epilogue)].op = "halt"
    BY <2>1, <2>6, <2>8, <2>9, <2>10 DEF MainOps
  <2>13. user => Epilogue[1] = t
    <3>1. SUFFICES ASSUME user PROVE Epilogue[1] = t
      OBVIOUS
    <3>2. Len(A) = 1 /\ A[1] = t
      BY <2>4, <3>1
    <3>3. Len(G) \in 0..3 /\ 1 \in 1..Len(G) /\ 1 \in 1..Len(G) + 3
      BY <2>5, <2>7, <2>10, <3>2
    <3>4. G[1] = t
      BY <2>7, <3>2, <3>3
    <3> QED
      BY <2>8, <2>9, <3>3, <3>4
  <2>14. Len(Epilogue) \in 3..6
    <3>1. Len(Epilogue) = Len(G) + 3
      BY <2>8, <2>9
    <3>2. \A m \in 0..3 : m + 3 \in 3..6
      OBVIOUS
    <3> QED
      BY <2>10, <3>1, <3>2
  <2>15. \A i \in 1..Len(Epilogue) :
            /\ Epilogue[i].op \in {"trap", "mask", "tst", "dump", "privileged", "halt"}
            /\ Epilogue[i].op = "trap" => Epilogue[i].to = Trp(15)
    BY <2>2, <2>11
  <2>16. user => Leaves(Epilogue[1])
    BY <2>1, <2>13 DEF Leaves
  <2> QED
    BY <2>11, <2>12, <2>14, <2>15, <2>16
<1> DEFINE d == Epilogue
           e == c \o d
<1> HIDE DEF d
<1>3. /\ d \in Seq(LineSet) /\ Len(d) \in 3..6 /\ d[Len(d)].op = "halt"
      /\ \A i \in 1..Len(d) :
            /\ d[i].op \in {"trap", "mask", "tst", "dump", "privileged", "halt"}
            /\ d[i].op = "trap" => d[i].to = Trp(15)
      /\ user => Leaves(d[1])
  BY <1>2 DEF d
<1>4. /\ e \in Seq(LineSet) /\ Len(c) \in Nat /\ Len(e) = Len(c) + Len(d)
      /\ \A i \in 1..Len(d) : e[Len(c) + i] = d[i]
  BY <1>1, <1>3, Behind2
<1>5. ASSUME NEW i \in 1..Len(d), UserAt(e, Len(c) + i) PROVE i = 1 /\ user
  <2>1. \A k \in 1..Len(d) : d[k].op # "user"
    BY <1>3
  <2>2. i \in 1..Len(d) + 1
    BY <1>3
  <2>3. UserAt(c, Len(c) + 1) /\ \A k \in 1..i - 1 : ~Leaves(d[k])
    BY <1>1, <1>3, <1>5, <2>1, <2>2, UserBehind
  <2> QED
    BY <1>3, <2>3
<1> HIDE DEF e
<1>6. ASSUME NEW i \in 1..Len(d) PROVE LineRight(D, Main, e, Len(c) + i)
  <2>1. /\ e[Len(c) + i].op \in {"trap", "mask", "tst", "dump", "privileged", "halt"}
        /\ e[Len(c) + i].op = "trap" => e[Len(c) + i].to = Trp(15)
    BY <1>3, <1>4
  <2>2. e[Len(c) + i].op # "trap" => ~UserAt(e, Len(c) + i)
    BY <1>3, <1>4, <1>5 DEF Leaves
  <2> QED
    BY <2>1, <2>2 DEF LineRight, OpsOf, MainOps, Traps
<1>7. RoutineRight(D, Main, e)
  BY <1>3, <1>6, LongerRight DEF e
<1>8. Closed(Main, e)
  BY <1>3, <1>4 DEF Closed, EndOf
<1> QED
  BY <1>7, <1>8 DEF e, d

\* The last line of a handler or of a subroutine.
LEMMA ReturnRight ==
    ASSUME NEW D, NEW r, NEW c, RoutineRight(D, r, c), r # Main
    PROVE  LET e == c \o <<Op(EndOf(r))>> IN RoutineRight(D, r, e) /\ Closed(r, e)
<1> DEFINE x == Op(EndOf(r))
<1>1. x \in LineSet /\ x.op = EndOf(r) /\ x.op \in {"rte", "rts"} /\ x.op \in OpsOf(r)
  BY Written1, OpFacts
<1> HIDE DEF x
<1>2. RoutineRight(D, r, c \o <<x>>)
  BY <1>1, OneLine
<1>3. Len(c) \in Nat /\ Len(c \o <<x>>) = Len(c) + 1 /\ (c \o <<x>>)[Len(c) + 1] = x
  BY <1>1 DEF RoutineRight
<1> QED
  BY <1>1, <1>2, <1>3 DEF Closed, x

\* A routine that is right stays right when the program has more routines.
LEMMA MoreRoutines ==
    ASSUME NEW D, NEW E, D \subseteq E, NEW r, NEW c, RoutineRight(D, r, c)
    PROVE  RoutineRight(E, r, c)
BY DEF RoutineRight, LineRight

----------------------------------------------------------------------------
(* The generator *)

\* The traps' handlers in the order they are written.
LEMMA TrapsInOrder ==
    ASSUME NEW S, S = {Trp(t) : t \in TrapsUsed}
    PROVE  /\ SetToSeq(S) \in Seq(S) /\ IsInjective(SetToSeq(S))
           /\ \A x \in S : \E k \in 1..Len(SetToSeq(S)) : SetToSeq(S)[k] = x
<1>1. IsFiniteSet(TrapsUsed)
  <2>1. IsFiniteSet(0..14) /\ TrapsUsed \in SUBSET (0..14)
    <3>1. 0 \in Int /\ 14 \in Int
      OBVIOUS
    <3>2. IsFiniteSet(0..14)
      BY <3>1, FS_Interval
    <3> QED
      BY <3>2, TrapsAssumption
  <2> QED
    BY <2>1, FS_Subset
<1>2. IsFiniteSet(S)
  <2> DEFINE f == [t \in TrapsUsed |-> Trp(t)]
  <2>1. f \in Surjection(TrapsUsed, S)
    BY DEF Surjection
  <2> QED
    BY <1>1, <2>1, FS_Surjection
<1> DEFINE n == Cardinality(S)
<1>3. n \in Nat /\ ExistsBijection(1..n, S)
  BY <1>2, FS_CardinalityType
<1> HIDE DEF n
<1>4. PICK g \in [1..n -> S] : IsInjective(g)
  BY <1>3 DEF ExistsBijection, Bijection, Injection
<1> DEFINE f == SetToSeq(S)
<1>5. f \in [1..n -> S] /\ IsInjective(f)
  BY <1>4 DEF SetToSeq, n
<1> HIDE DEF f
<1>6. f \in Injection(1..n, S)
  BY <1>5 DEF Injection
<1>7. IsFiniteSet(1..n) /\ Cardinality(1..n) = n
  BY <1>3, FS_Interval
<1>8. f \in Surjection(1..n, S)
  BY <1>2, <1>6, <1>7, FS_Injection DEF n
<1>9. f \in Seq(S) /\ Len(f) = n
  BY <1>3, <1>5
<1>10. \A x \in S : \E k \in 1..n : f[k] = x
  BY <1>8 DEF Surjection
<1> QED
  BY <1>5, <1>9, <1>10 DEF f

\* The empty program: nothing but the fixed handlers is written (gen.py:132-190).
LEMMA ProgramStart ==
    ASSUME Init
    PROVE  Written /\ StillToWrite
<1> DEFINE S == {Trp(t) : t \in TrapsUsed}
           f == SetToSeq(S)
<1>1. f \in Seq(S) /\ IsInjective(f) /\ \A x \in S : \E k \in 1..Len(f) : f[k] = x
  BY TrapsInOrder
<1>2. /\ DOMAIN code = {Main, Trp(15), Irq2} \cup S
      /\ code = [r \in DOMAIN code |-> code[r]]
      /\ code[Main] = <<>>
      /\ code[Trp(15)] = <<Op("set_S"), Op("rte")>>
      /\ code[Irq2] = <<Op("save"), Op("work"), Op("restore"), Op("rte")>>
      /\ \A r \in S : code[r] = <<Op("alu")>>
  BY RoutineNames DEF Init
<1>3. todo = <<Main>> \o f /\ user = FALSE
  BY DEF Init
<1>4. ~(Main \in S) /\ S \cap Fixed = {} /\ Main \notin Fixed /\ DOMAIN code \subseteq Routines
  <2>1. \A x \in S : x # Main /\ x # Trp(15) /\ x # Irq2
    BY RoutineNames
  <2>2. Main # Trp(15) /\ Main # Irq2
    BY RoutineNames
  <2> QED
    BY <1>2, <2>1, <2>2 DEF Fixed, Routines
<1>5. \A r : RoutineRight(DOMAIN code, r, <<>>)
  BY DEF RoutineRight
<1>6. \A r : RoutineRight(DOMAIN code, r, <<Op("alu")>>)
  <2>1. Op("alu") \in LineSet /\ Op("alu").op = "alu"
    BY Written1 DEF OpNames, BodyOps, PlainOps
  <2>2. \A r : "alu" \in OpsOf(r)
    BY OpFacts DEF BodyOps, PlainOps
  <2> DEFINE c == <<Op("alu")>>
  <2>3. c \in Seq(LineSet) /\ Len(c) = 1 /\ c[1].op = "alu"
    BY <2>1
  <2> HIDE DEF c
  <2> QED
    BY <2>2, <2>3 DEF RoutineRight, LineRight, c
<1>7. Subs = {}
  BY <1>2, RoutineNames DEF Subs, Traps
<1>8. Written
  <2>1. Traps \subseteq DOMAIN code
    BY <1>2 DEF Traps
  <2>2. IsFiniteSet(Subs) /\ \A n \in Nat : Sub(n) \in DOMAIN code => n <= Cardinality(Subs)
    <3>1. \A n \in Nat : Sub(n) \notin DOMAIN code
      BY <1>2, RoutineNames DEF Traps
    <3> QED
      BY <1>7, <3>1, FS_EmptySet
  <2>3. \A r \in DOMAIN code \ Fixed : RoutineRight(DOMAIN code, r, code[r])
    BY <1>2, <1>5, <1>6 DEF Fixed
  <2> QED
    BY <1>2, <1>4, <2>1, <2>2, <2>3 DEF Written, Fixed
<1> DEFINE T == DOMAIN code \ Fixed
<1>9. T = {Main} \cup S
  BY <1>2, <1>4 DEF Fixed
<1>10. /\ todo \in Seq(T) /\ Len(f) \in Nat /\ Len(todo) = Len(f) + 1
       /\ todo[1] = Main /\ \A k \in 1..Len(f) : todo[k + 1] = f[k]
  <2> HIDE DEF f, S, T
  <2>1. <<Main>> \in Seq(T) /\ f \in Seq(T) /\ Len(f) \in Nat
    BY <1>1, <1>9
  <2> DEFINE m == <<Main>>
  <2>2. m \in Seq(T) /\ Len(m) = 1 /\ m[1] = Main
    BY <2>1
  <2> HIDE DEF m
  <2>3. /\ m \o f \in Seq(T) /\ Len(m \o f) = Len(m) + Len(f)
        /\ \A i \in 1..Len(m) + Len(f) : (m \o f)[i] = IF i <= Len(m) THEN m[i] ELSE f[i - Len(m)]
    BY <2>1, <2>2, ConcatProperties
  <2>4. /\ (m \o f)[1] = m[1]
        /\ \A i \in 2..Len(f) + 1 : (m \o f)[i] = f[i - 1]
    BY <2>1, <2>2, <2>3
  <2>5. ASSUME NEW k \in 1..Len(f) PROVE (m \o f)[k + 1] = f[k]
    <3>1. k + 1 \in 2..Len(f) + 1 /\ (k + 1) - 1 = k
      BY <2>1
    <3> QED
      BY <2>4, <3>1
  <2> QED
    BY <1>3, <2>1, <2>2, <2>3, <2>4, <2>5 DEF m
<1> HIDE DEF f, S
<1>11. \A k \in 2..Len(todo) : k - 1 \in 1..Len(f) /\ todo[k] = f[k - 1] /\ todo[k] \in S
  <2>1. ASSUME NEW k \in 2..Len(todo)
        PROVE  k - 1 \in 1..Len(f) /\ todo[k] = f[k - 1] /\ todo[k] \in S
    <3>1. k - 1 \in 1..Len(f) /\ (k - 1) + 1 = k
      BY <1>10
    <3>2. todo[k] = f[k - 1]
      BY <1>10, <3>1
    <3>3. f[k - 1] \in S
      BY <1>1, <3>1
    <3> QED
      BY <3>1, <3>2, <3>3
  <2> QED
    BY <2>1
<1>12. IsInjective(todo)
  <2>1. DOMAIN todo = 1..Len(todo) /\ DOMAIN f = 1..Len(f)
    BY <1>1, <1>10, LenProperties
  <2>2. SUFFICES ASSUME NEW a \in 1..Len(todo), NEW b \in 1..Len(todo), todo[a] = todo[b]
                 PROVE  a = b
    BY <2>1 DEF IsInjective
  <2>3. CASE a = 1 \/ b = 1
    BY <1>4, <1>10, <1>11, <2>2, <2>3
  <2>4. CASE a # 1 /\ b # 1
    <3>1. a \in 2..Len(todo) /\ b \in 2..Len(todo)
      BY <1>10, <2>4
    <3>2. a - 1 \in 1..Len(f) /\ b - 1 \in 1..Len(f) /\ f[a - 1] = f[b - 1]
      BY <1>11, <2>2, <3>1
    <3>3. a - 1 = b - 1
      BY <1>1, <2>1, <3>2 DEF IsInjective
    <3> QED
      BY <1>10, <3>1, <3>3
  <2> QED
    BY <2>3, <2>4
<1>13. \A r \in T : \E k \in 1..Len(todo) : todo[k] = r
  <2>1. \E k \in 1..Len(todo) : todo[k] = Main
    BY <1>10
  <2>2. ASSUME NEW r \in S PROVE \E k \in 1..Len(todo) : todo[k] = r
    <3>1. PICK k \in 1..Len(f) : f[k] = r
      BY <1>1
    <3>2. k + 1 \in 1..Len(todo) /\ todo[k + 1] = r
      BY <1>10, <3>1
    <3> QED
      BY <3>2
  <2> QED
    BY <1>9, <2>1, <2>2
<1>14. ~UserAt(code[Main], Len(code[Main]) + 1)
  <2>1. Len(code[Main]) + 1 = 1
    <3>1. code[Main] = <<>>
      BY <1>2
    <3> QED
      BY <3>1
  <2> QED
    BY <2>1, UserStart
<1>15. \A k \in 1..Len(todo) : todo[k] = Main => k = 1
  <2>1. \A k \in 1..Len(todo) : k = 1 \/ k \in 2..Len(todo)
    BY <1>10
  <2> QED
    BY <1>4, <1>11, <2>1
<1> QED
  BY <1>3, <1>8, <1>10, <1>12, <1>13, <1>14, <1>15 DEF StillToWrite

\* One routine is written anew.
LEMMA Rewritten ==
    ASSUME Written, NEW h \in DOMAIN code \ Fixed, NEW c, RoutineRight(DOMAIN code, h, c),
           code' = [code EXCEPT ![h] = c]
    PROVE  /\ Written'
           /\ DOMAIN code' = DOMAIN code /\ code'[h] = c
           /\ \A r \in DOMAIN code \ {h} : code'[r] = code[r]
<1>1. /\ DOMAIN code' = DOMAIN code /\ code'[h] = c
      /\ \A r \in DOMAIN code \ {h} : code'[r] = code[r]
      /\ code' = [r \in DOMAIN code' |-> code'[r]]
  BY DEF Written
<1>2. Subs' = Subs
  BY <1>1 DEF Subs
<1>3. \A r \in DOMAIN code' \ Fixed : RoutineRight(DOMAIN code', r, code'[r])
  BY <1>1 DEF Written
<1>4. Trp(15) # h /\ Irq2 # h /\ Trp(15) \in DOMAIN code /\ Irq2 \in DOMAIN code
  BY DEF Written, Fixed
<1>5. code'[Trp(15)] = code[Trp(15)] /\ code'[Irq2] = code[Irq2]
  BY <1>1, <1>4
<1> QED
  BY <1>1, <1>2, <1>3, <1>5 DEF Written

\* One random choice keeps the program right: a line or a pair that fits where it stands,
\* or a call of a new subroutine, still to be written (gen.py:44-130).
LEMMA BodyKeeps ==
    ASSUME Written, StillToWrite, Body
    PROVE  Written' /\ StillToWrite'
<1> DEFINE D == DOMAIN code
           h == todo[1]
           c == code[Main]
           n == Cardinality(Subs) + 1
<1>1. /\ h \in D \ Fixed /\ 1 \in 1..Len(todo) /\ Len(todo) \in Nat
      /\ todo \in Seq(D \ Fixed)
  <2>1. todo # <<>> /\ todo \in Seq(D \ Fixed)
    BY DEF Body, StillToWrite
  <2> QED
    BY <2>1
<1>2. PICK o \in DataOps \cup (IF todo[1] = Main THEN ControlOps ELSE {}) :
        /\ user' = CASE o.op = "user" -> TRUE
                     [] o.op = "trap" -> user /\ o.to # Trp(15)
                     [] OTHER -> user
        /\ IF o.op = "bsr"
           THEN /\ todo' = Append(todo, o.to)
                /\ code' = [r \in DOMAIN code \cup {o.to} |->
                              CASE r = o.to -> <<>>
                                [] r = Main -> Append(code[Main], o)
                                [] OTHER -> code[r]]
           ELSE /\ code' = [code EXCEPT ![todo[1]] = @ \o Lines(o)]
                /\ UNCHANGED todo
  BY DEF Body
<1>3. RoutineRight(D, h, code[h]) /\ (h = Main => (user <=> UserAt(c, Len(c) + 1)))
  BY <1>1 DEF Written, StillToWrite
<1>4. user \in BOOLEAN
  BY DEF StillToWrite
<1>5. ASSUME NEW e, RoutineRight(D, h, e), code' = [code EXCEPT ![h] = e], todo' = todo,
             user' \in BOOLEAN, h = Main => (user' <=> UserAt(e, Len(e) + 1))
      PROVE  Written' /\ StillToWrite'
  <2>1. /\ Written' /\ DOMAIN code' = D /\ code'[h] = e
        /\ \A r \in D \ {h} : code'[r] = code[r]
    BY <1>1, <1>5, Rewritten
  <2>2. \A r \in D \ Fixed :
            (\A k \in 1..Len(todo) : todo[k] # r) => Closed(r, code'[r])
    BY <1>1, <2>1 DEF StillToWrite
  <2>3. \A k \in 1..Len(todo) : todo[k] = Main => k = 1 /\ h = Main
    BY DEF StillToWrite
  <2>4. h = Main => code'[Main] = e
    BY <2>1
  <2> QED
    BY <1>5, <2>1, <2>2, <2>3, <2>4 DEF StillToWrite
<1>6. CASE o \in DataOps
  <2>1. o.op \notin {"bsr", "user", "trap"}
    BY <1>6, DataNames DEF PlainOps
  <2>2. RoutineRight(D, h, code[h] \o Lines(o))
        /\ (UserAt(code[h] \o Lines(o), Len(code[h] \o Lines(o)) + 1)
              <=> UserAt(code[h], Len(code[h]) + 1))
    BY <1>3, <1>6, BodyRight
  <2>3. user' = user /\ todo' = todo /\ code' = [code EXCEPT ![h] = code[h] \o Lines(o)]
    BY <1>2, <2>1
  <2> QED
    BY <1>3, <1>4, <1>5, <2>2, <2>3
<1>7. CASE o \in ControlOps /\ h = Main
  <2>1. \/ \E t \in TrapsUsed : o = To("trap", Trp(t))
        \/ user /\ o = To("trap", Trp(15))
        \/ ~user /\ o = Op("user")
        \/ o = To("bsr", Sub(n))
    BY <1>4, <1>7 DEF ControlOps
  <2>2. RoutineRight(D, Main, c) /\ (user <=> UserAt(c, Len(c) + 1))
    BY <1>3, <1>7
  <2>3. /\ {Trp(15)} \cup {Trp(t) : t \in TrapsUsed} \subseteq Routines
        /\ {Trp(15)} \cup {Trp(t) : t \in TrapsUsed} = Traps
        /\ \A t \in TrapsUsed : Trp(t) # Trp(15)
    BY RoutineNames DEF Routines, Traps
  <2>4. CASE \E r \in Traps : o = To("trap", r)
    <3>1. PICK r \in Traps : o = To("trap", r)
      BY <2>4
    <3>2. o \in LineSet /\ o.op = "trap" /\ o.to = r
      BY <2>3, <3>1, Written1 DEF OpNames, MainOps
    <3>3. Lines(o) = <<o>>
      BY <3>2 DEF Lines
    <3>4. /\ RoutineRight(D, Main, c \o <<o>>)
          /\ UserAt(c \o <<o>>, Len(c \o <<o>>) + 1)
               <=> UserAt(c, Len(c) + 1) /\ ~Leaves(o)
      BY <2>2, <3>2, OneLine DEF OpsOf, MainOps
    <3>5. (user' <=> user /\ r # Trp(15)) /\ user' \in BOOLEAN
          /\ todo' = todo /\ code' = [code EXCEPT ![h] = c \o <<o>>]
      BY <1>2, <1>4, <1>7, <3>2, <3>3
    <3> QED
      BY <1>5, <1>7, <2>2, <3>2, <3>4, <3>5 DEF Leaves
  <2>5. CASE ~user /\ o = Op("user")
    <3>1. o \in LineSet /\ o.op = "user"
      BY <2>5, Written1 DEF OpNames, MainOps
    <3>2. Lines(o) = <<o>>
      BY <3>1 DEF Lines
    <3>3. /\ RoutineRight(D, Main, c \o <<o>>)
          /\ UserAt(c \o <<o>>, Len(c \o <<o>>) + 1)
      BY <2>2, <2>5, <3>1, OneLine DEF OpsOf, MainOps
    <3>4. user' = TRUE /\ todo' = todo /\ code' = [code EXCEPT ![h] = c \o <<o>>]
      BY <1>2, <1>7, <3>1, <3>2
    <3> QED
      BY <1>5, <1>7, <3>3, <3>4
  <2>6. CASE o = To("bsr", Sub(n))
    <3> DEFINE E == D \cup {Sub(n)}
               e == c \o <<o>>
    <3>a. IsFiniteSet(Subs) /\ \A m \in Nat : Sub(m) \in D => m <= Cardinality(Subs)
      BY DEF Written
    <3>1. IsFiniteSet(Subs) /\ Cardinality(Subs) \in Nat /\ n \in Nat /\ n > Cardinality(Subs)
      <4>1. Cardinality(Subs) \in Nat
        BY <3>a, FS_CardinalityType
      <4> QED
        BY <3>a, <4>1
    <3>2. Sub(n) \in Routines /\ Sub(n) \notin D /\ Sub(n) \notin Fixed /\ Sub(n) # Main
      <4> HIDE DEF n
      <4>1. Sub(n) \notin D
        BY <3>a, <3>1
      <4>2. Sub(n) \in Routines
        BY <3>1 DEF Routines
      <4>3. Sub(n) \notin {Main, Irq2} \cup Traps /\ Trp(15) \in Traps
        BY <3>1, RoutineNames DEF Traps
      <4> QED
        BY <4>1, <4>2, <4>3 DEF Fixed
    <3>3. o \in LineSet /\ o.op = "bsr" /\ o.to = Sub(n)
      BY <2>6, <3>2, Written1 DEF OpNames, MainOps
    <3>4. /\ todo' = Append(todo, Sub(n)) /\ user' = user
          /\ code' = [r \in E |-> CASE r = Sub(n) -> <<>>
                                    [] r = Main -> Append(c, o)
                                    [] OTHER -> code[r]]
      BY <1>2, <3>3
    <3>5. Append(c, o) = e
      BY <2>2, <3>3, AppendIsConcat DEF RoutineRight
    <3> HIDE DEF n
    <3>6. /\ DOMAIN code' = E /\ code' = [r \in DOMAIN code' |-> code'[r]]
          /\ code'[Sub(n)] = <<>> /\ code'[Main] = e
          /\ \A r \in D \ {Main} : code'[r] = code[r]
      BY <1>1, <1>7, <3>2, <3>4, <3>5
    <3>7. RoutineRight(E, Main, c)
      BY <2>2, MoreRoutines
    <3>8. /\ RoutineRight(E, Main, e)
          /\ UserAt(e, Len(e) + 1) <=> UserAt(c, Len(c) + 1)
      BY <3>1, <3>3, <3>7, OneLine DEF OpsOf, MainOps, Leaves
    <3>9. RoutineRight(E, Sub(n), <<>>)
      BY DEF RoutineRight
    <3>10. ASSUME NEW r \in E \ Fixed PROVE RoutineRight(E, r, code'[r])
      <4>1. CASE r = Sub(n)
        BY <3>6, <3>9, <4>1
      <4>2. CASE r = Main
        BY <3>6, <3>8, <4>2
      <4>3. CASE r # Sub(n) /\ r # Main
        <5>1. RoutineRight(D, r, code[r]) /\ code'[r] = code[r]
          BY <3>6, <4>3 DEF Written
        <5> QED
          BY <5>1, MoreRoutines
      <4> QED
        BY <4>1, <4>2, <4>3
    <3>11. IsFiniteSet(Subs') /\ Cardinality(Subs') = n
      <4>1. Subs' = Subs \cup {Sub(n)} /\ Sub(n) \notin Subs
        BY <3>1, <3>2, <3>6, RoutineNames DEF Subs
      <4> QED
        BY <3>1, <4>1, FS_AddElement DEF n
    <3>12. \A m \in Nat : Sub(m) \in E => m <= n
      <4>1. \A m \in Nat : Sub(m) \in D => m <= n
        <5>1. SUFFICES ASSUME NEW m \in Nat, Sub(m) \in D PROVE m <= n
          OBVIOUS
        <5>2. m <= Cardinality(Subs)
          BY <3>a, <5>1
        <5> QED
          BY <3>1, <5>2
      <4>2. \A m \in Nat : Sub(m) = Sub(n) => m = n
        BY <3>1, RoutineNames
      <4> QED
        BY <3>1, <4>1, <4>2
    <3>13. Trp(15) \in D \ {Main} /\ Irq2 \in D \ {Main}
      BY RoutineNames DEF Written, Fixed
    <3>14. Written'
      <4>1. /\ D \subseteq Routines /\ {Main} \cup Fixed \cup Traps \subseteq D
            /\ code[Trp(15)] = <<Op("set_S"), Op("rte")>>
            /\ code[Irq2] = <<Op("save"), Op("work"), Op("restore"), Op("rte")>>
        BY DEF Written
      <4>2. E \subseteq Routines /\ {Main} \cup Fixed \cup Traps \subseteq E
        BY <3>2, <4>1
      <4>3. code'[Trp(15)] = code[Trp(15)] /\ code'[Irq2] = code[Irq2]
        BY <3>6, <3>13
      <4>4. \A m \in Nat : Sub(m) \in DOMAIN code' => m <= Cardinality(Subs')
        <5>1. SUFFICES ASSUME NEW m \in Nat, Sub(m) \in DOMAIN code'
                       PROVE  m <= Cardinality(Subs')
          OBVIOUS
        <5>2. m <= n
          BY <3>6, <3>12, <5>1
        <5> QED
          BY <3>11, <5>2
      <4>5. \A r \in DOMAIN code' \ Fixed : RoutineRight(DOMAIN code', r, code'[r])
        BY <3>6, <3>10
      <4>6. /\ DOMAIN code' \subseteq Routines /\ {Main} \cup Fixed \cup Traps \subseteq DOMAIN code'
            /\ code' = [r \in DOMAIN code' |-> code'[r]]
        BY <3>6, <4>2
      <4> QED
        BY <3>11, <4>1, <4>3, <4>4, <4>5, <4>6 DEF Written
    <3>15. /\ todo' \in Seq(E \ Fixed) /\ Len(todo') = Len(todo) + 1
           /\ \A k \in 1..Len(todo) : todo'[k] = todo[k]
           /\ todo'[Len(todo) + 1] = Sub(n)
      <4>1. todo \in Seq(E \ Fixed) /\ Sub(n) \in E \ Fixed
        BY <1>1, <3>2
      <4> QED
        BY <3>4, <4>1, AppendProperties
    <3>16. IsInjective(todo')
      <4>1. DOMAIN todo' = 1..Len(todo) + 1 /\ DOMAIN todo = 1..Len(todo)
        BY <1>1, <3>15, LenProperties
      <4>2. \A k \in 1..Len(todo) : todo'[k] = todo[k] /\ todo[k] \in D
        BY <1>1, <3>15
      <4>3. SUFFICES ASSUME NEW a \in 1..Len(todo) + 1, NEW b \in 1..Len(todo) + 1,
                            todo'[a] = todo'[b]
                     PROVE  a = b
        BY <4>1 DEF IsInjective
      <4>4. CASE a = Len(todo) + 1 \/ b = Len(todo) + 1
        BY <1>1, <3>2, <3>15, <4>2, <4>3, <4>4
      <4>5. CASE a # Len(todo) + 1 /\ b # Len(todo) + 1
        <5>1. a \in 1..Len(todo) /\ b \in 1..Len(todo)
          BY <1>1, <4>5
        <5>2. todo[a] = todo[b]
          BY <4>2, <4>3, <5>1
        <5> QED
          BY <4>1, <5>1, <5>2 DEF StillToWrite, IsInjective
      <4> QED
        BY <4>4, <4>5
    <3>17. \A r \in E \ Fixed :
               (\A k \in 1..Len(todo') : todo'[k] # r) => Closed(r, code'[r])
      <4>1. SUFFICES ASSUME NEW r \in E \ Fixed, \A k \in 1..Len(todo') : todo'[k] # r
                     PROVE  Closed(r, code'[r])
        OBVIOUS
      <4>2. r # Sub(n) /\ r # Main
        BY <1>1, <1>7, <3>15, <4>1
      <4>3. \A k \in 1..Len(todo) : todo[k] # r
        BY <1>1, <3>15, <4>1
      <4> QED
        BY <3>6, <4>1, <4>2, <4>3 DEF StillToWrite
    <3>18. \A k \in 1..Len(todo') : todo'[k] = Main => k = 1
      BY <1>1, <3>2, <3>15 DEF StillToWrite
    <3> QED
      BY <1>4, <2>2, <3>4, <3>6, <3>8, <3>14, <3>15, <3>16, <3>17, <3>18 DEF StillToWrite
  <2> QED
    BY <2>1, <2>3, <2>4, <2>5, <2>6
<1> QED
  BY <1>2, <1>6, <1>7

\* A routine is complete.
LEMMA CloseKeeps ==
    ASSUME Written, StillToWrite, Close
    PROVE  Written' /\ StillToWrite'
<1> DEFINE D == DOMAIN code
           h == todo[1]
           x == CASE todo[1] = Main -> Epilogue
                  [] todo[1][1] = "trp" -> <<Op("rte")>>
                  [] OTHER -> <<Op("rts")>>
           e == code[h] \o x
<1>1. /\ h \in D \ Fixed /\ 1 \in 1..Len(todo) /\ Len(todo) \in Nat
      /\ todo \in Seq(D \ Fixed) /\ todo # <<>>
  <2>1. todo # <<>> /\ todo \in Seq(D \ Fixed)
    BY DEF Close, StillToWrite
  <2> QED
    BY <2>1
<1>2. code' = [code EXCEPT ![h] = e] /\ todo' = Tail(todo) /\ user' = user
  BY DEF Close
<1> HIDE DEF x, e
<1>3. /\ RoutineRight(D, h, code[h])
      /\ h = Main => (user <=> UserAt(code[Main], Len(code[Main]) + 1))
  BY <1>1 DEF Written, StillToWrite
<1>4. RoutineRight(D, h, e) /\ Closed(h, e)
  <2>1. CASE h = Main
    <3>1. user <=> UserAt(code[Main], Len(code[Main]) + 1)
      BY <1>3, <2>1
    <3>2. e = code[Main] \o Epilogue
      BY <2>1 DEF x, e, Main
    <3> QED
      BY <1>3, <2>1, <3>1, <3>2, EpilogueRight
  <2>2. CASE h # Main
    <3>1. x = <<Op(EndOf(h))>>
      <4>1. h \in Traps \/ \E n \in Nat : h = Sub(n)
        BY <1>1, <2>2 DEF Written, Routines, Fixed, Traps
      <4>2. h \in Traps => h[1] = "trp"
        BY DEF Traps, Trp
      <4>3. (\E n \in Nat : h = Sub(n)) => h[1] = "sub" /\ h \notin Traps
        BY RoutineNames
      <4> QED
        BY <2>2, <4>1, <4>2, <4>3 DEF EndOf, x
    <3>2. e = code[h] \o <<Op(EndOf(h))>>
      BY <3>1 DEF e
    <3> QED
      BY <1>3, <2>2, <3>2, ReturnRight
  <2> QED
    BY <2>1, <2>2
<1> HIDE DEF x, e
<1>5. /\ Written' /\ DOMAIN code' = D /\ code'[h] = e
      /\ \A r \in D \ {h} : code'[r] = code[r]
  BY <1>1, <1>2, <1>4, Rewritten
<1>6. /\ todo' \in Seq(D \ Fixed) /\ Len(todo') = Len(todo) - 1
      /\ \A k \in 1..Len(todo) - 1 : todo'[k] = todo[k + 1]
  BY <1>1, <1>2, HeadTailProperties
<1>7. \A k \in 1..Len(todo') : k + 1 \in 2..Len(todo) /\ todo'[k] = todo[k + 1]
  BY <1>1, <1>6
<1>8. DOMAIN todo = 1..Len(todo) /\ DOMAIN todo' = 1..Len(todo')
  BY <1>1, <1>6, LenProperties
<1>9. IsInjective(todo')
  <2>1. SUFFICES ASSUME NEW a \in 1..Len(todo'), NEW b \in 1..Len(todo'), todo'[a] = todo'[b]
                 PROVE  a = b
    BY <1>8 DEF IsInjective
  <2>2. a + 1 \in 1..Len(todo) /\ b + 1 \in 1..Len(todo) /\ todo[a + 1] = todo[b + 1]
    BY <1>7, <2>1
  <2>3. a + 1 = b + 1
    BY <1>8, <2>2 DEF StillToWrite, IsInjective
  <2> QED
    BY <1>1, <1>6, <2>3
<1>10. ASSUME NEW r \in D \ Fixed, \A k \in 1..Len(todo') : todo'[k] # r
       PROVE  Closed(r, code'[r])
  <2>1. CASE r = h
    BY <1>4, <1>5, <2>1
  <2>2. CASE r # h
    <3>1. ASSUME NEW k \in 1..Len(todo) PROVE todo[k] # r
      <4>1. CASE k = 1
        BY <2>2, <4>1
      <4>2. CASE k # 1
        <5>1. k - 1 \in 1..Len(todo') /\ (k - 1) + 1 = k
          BY <1>1, <1>6, <4>2
        <5> QED
          BY <1>7, <1>10, <5>1
      <4> QED
        BY <4>1, <4>2
    <3>2. Closed(r, code[r])
      BY <3>1 DEF StillToWrite
    <3> QED
      BY <1>5, <2>2, <3>2
  <2> QED
    BY <2>1, <2>2
<1>11. \A k \in 1..Len(todo') : todo'[k] # Main
  <2>1. \A k \in 2..Len(todo) : todo[k] # Main
    BY <1>1 DEF StillToWrite
  <2> QED
    BY <1>7, <2>1
<1> QED
  BY <1>2, <1>5, <1>6, <1>9, <1>10, <1>11 DEF StillToWrite

\* The generator's lines stay as they are, then.
LEMMA CodeStays ==
    ASSUME Written, StillToWrite, UNCHANGED <<todo, user, code>>
    PROVE  Written' /\ StillToWrite'
BY DEF Written, StillToWrite, Subs

----------------------------------------------------------------------------
(* The processor in a complete program *)

\* Every routine is written to its end.
Complete(c) ==
    /\ DOMAIN c \subseteq Routines /\ {Main} \cup Fixed \cup Traps \subseteq DOMAIN c
    /\ c[Trp(15)] = <<Op("set_S"), Op("rte")>>
    /\ c[Irq2] = <<Op("save"), Op("work"), Op("restore"), Op("rte")>>
    /\ \A r \in DOMAIN c \ Fixed : RoutineRight(DOMAIN c, r, c[r]) /\ Closed(r, c[r])

\* When nothing is left to write, every routine is complete.
LEMMA NothingLeft ==
    ASSUME Written, StillToWrite, todo = <<>>
    PROVE  Complete(code)
<1>1. \A r \in DOMAIN code \ Fixed : Closed(r, code[r])
  BY DEF StillToWrite
<1> QED
  BY <1>1 DEF Written, Complete

\* The kinds of routine, and the lines each has.
LEMMA RoutineKinds ==
    ASSUME NEW r \in Routines
    PROVE  /\ r = Main \/ r = Irq2 \/ r \in Traps \/ r \in {Sub(n) : n \in Nat}
           /\ r = Main => /\ r \notin Traps /\ r \notin {Sub(n) : n \in Nat}
                          /\ OpsOf(r) = BodyOps \cup MainOps /\ EndOf(r) = "halt"
           /\ r \in Traps => /\ r # Main /\ r # Irq2 /\ r \notin {Sub(n) : n \in Nat}
                             /\ OpsOf(r) = BodyOps \cup {"rte"} /\ EndOf(r) = "rte"
           /\ r \in {Sub(n) : n \in Nat} =>
                /\ r # Main /\ r # Irq2 /\ r \notin Traps
                /\ OpsOf(r) = BodyOps \cup {"rts"} /\ EndOf(r) = "rts"
<1>1. r = Main \/ r = Irq2 \/ r \in Traps \/ r \in {Sub(n) : n \in Nat}
  BY DEF Routines, Traps
<1>2. Main \notin Traps /\ Irq2 \notin Traps
  BY RoutineNames DEF Traps
<1>3. \A x \in {Sub(n) : n \in Nat} : x \notin {Main, Irq2} \cup Traps
  BY RoutineNames
<1> HIDE DEF Main, Irq2
<1>4. r = Main => OpsOf(r) = BodyOps \cup MainOps /\ EndOf(r) = "halt"
  BY DEF OpsOf, EndOf
<1>5. r \in Traps => OpsOf(r) = BodyOps \cup {"rte"} /\ EndOf(r) = "rte"
  BY <1>2 DEF OpsOf, EndOf
<1>6. r \in {Sub(n) : n \in Nat} => OpsOf(r) = BodyOps \cup {"rts"} /\ EndOf(r) = "rts"
  BY <1>3 DEF OpsOf, EndOf
<1> QED
  BY <1>1, <1>2, <1>3, <1>4, <1>5, <1>6

\* A line that is not the last of its routine has a next one.
LEMMA NextLine ==
    ASSUME NEW c, Complete(c), NEW r \in DOMAIN c \ Fixed, NEW i \in 1..Len(c[r])
    PROVE  /\ LineRight(DOMAIN c, r, c[r], i) /\ Len(c[r]) \in Nat
           /\ c[r][i].op # EndOf(r) =>
                /\ i + 1 \in 1..Len(c[r])
                /\ c[r][i + 1].op = "pop" <=> c[r][i].op = "push"
           /\ 1 \in 1..Len(c[r]) /\ c[r][1].op # "pop"
<1> DEFINE d == c[r]
<1>1. d \in Seq(LineSet) /\ (\A j \in 1..Len(d) : LineRight(DOMAIN c, r, d, j))
      /\ d # <<>> /\ d[Len(d)].op = EndOf(r)
  BY DEF Complete, RoutineRight, Closed
<1> HIDE DEF d
<1>2. Len(d) \in Nat /\ Len(d) >= 1
  BY <1>1
<1>3. i \in 1..Len(d)
  BY DEF d
<1>4. ASSUME d[i].op # EndOf(r)
      PROVE  i + 1 \in 1..Len(d) /\ (d[i + 1].op = "pop" <=> d[i].op = "push")
  <2>1. i # Len(d)
    BY <1>1, <1>4
  <2>2. i + 1 \in 1..Len(d) /\ (i + 1) - 1 = i
    BY <1>2, <1>3, <2>1
  <2>3. LineRight(DOMAIN c, r, d, i) /\ LineRight(DOMAIN c, r, d, i + 1)
    BY <1>1, <1>3, <2>2
  <2> QED
    BY <2>2, <2>3 DEF LineRight
<1>5. 1 \in 1..Len(d) /\ d[1].op # "pop"
  <2>1. 1 \in 1..Len(d)
    BY <1>2
  <2>2. LineRight(DOMAIN c, r, d, 1)
    BY <1>1, <2>1
  <2> QED
    BY <2>1, <2>2 DEF LineRight
<1> QED
  BY <1>1, <1>2, <1>3, <1>4, <1>5 DEF d

\* A complete routine has a first line, and it is not a pop.
LEMMA FirstLine ==
    ASSUME NEW c, Complete(c), NEW r \in DOMAIN c \ {Irq2}
    PROVE  1 \in 1..Len(c[r]) /\ c[r][1].op # "pop"
<1>1. CASE r = Trp(15)
  <2> DEFINE d == <<Op("set_S"), Op("rte")>>
  <2>1. Len(d) = 2 /\ d[1].op # "pop"
    BY DEF Op
  <2>2. c[r] = d
    BY <1>1 DEF Complete
  <2> HIDE DEF d
  <2>3. Len(c[r]) = 2 /\ c[r][1].op # "pop"
    BY <2>1, <2>2
  <2>4. 1 \in 1..Len(c[r])
    BY <2>3
  <2> QED
    BY <2>3, <2>4
<1>2. CASE r # Trp(15)
  <2>1. r \in DOMAIN c \ Fixed
    BY <1>2 DEF Fixed
  <2> DEFINE d == c[r]
  <2>2. d \in Seq(LineSet) /\ d # <<>>
    BY <2>1 DEF Complete, RoutineRight, Closed
  <2> HIDE DEF d
  <2>3. Len(d) \in Nat \ {0}
    BY <2>2, EmptySeq
  <2>4. 1 \in 1..Len(d)
    BY <2>3
  <2> QED
    BY <2>1, <2>4, NextLine DEF d
<1> QED
  BY <1>1, <1>2

\* The last element of a stack.
LEMMA StackTop ==
    ASSUME NEW S, NEW s \in Seq(S), NEW x \in S
    PROVE  /\ Append(s, x) \in Seq(S) /\ Append(s, x) # <<>>
           /\ Last(Append(s, x)) = x /\ Front(Append(s, x)) = s
           /\ <<x>> = Append(<<>>, x)
<1> DEFINE t == Append(s, x)
<1>1. /\ t \in Seq(S) /\ Len(s) \in Nat /\ Len(t) = Len(s) + 1
      /\ \A i \in 1..Len(s) : t[i] = s[i]
      /\ t[Len(s) + 1] = x
  BY AppendProperties
<1> HIDE DEF t
<1>2. Len(t) - 1 = Len(s) /\ Last(t) = x
  BY <1>1 DEF Last
<1>3. Front(t) \in Seq(S) /\ Len(Front(t)) = Len(s) /\ \A i \in 1..Len(s) : Front(t)[i] = s[i]
  <2>1. Front(t) = SubSeq(t, 1, Len(s))
    BY <1>2 DEF Front
  <2> HIDE DEF Front
  <2>2. \A i \in 1..Len(s) : i \in 1..Len(t)
    BY <1>1
  <2>3. SubSeq(t, 1, Len(s)) \in Seq(S)
    BY <1>1
  <2>4. Len(SubSeq(t, 1, Len(s))) = Len(s)
        /\ \A i \in 1..Len(s) : SubSeq(t, 1, Len(s))[i] = t[i]
    BY <1>1
  <2> QED
    BY <1>1, <2>1, <2>3, <2>4
<1>4. Front(t) = s
  BY <1>3, SeqEqual
<1>5. t # <<>>
  BY <1>1
<1>6. <<x>> = Append(<<>>, x)
  OBVIOUS
<1> QED
  BY <1>1, <1>2, <1>4, <1>5, <1>6 DEF t

\* The place a program starts at and its routines come back to.
LEMMA AtMain ==
    ASSUME Main # Irq2, NEW c, Complete(c), NEW w, NEW s \in BOOLEAN, NEW b \in 1..Len(c[Main]),
           c[Main][b].op # "pop", s <=> ~UserAt(c[Main], b)
    PROVE  At(c, w, Main, b, s, <<>>, <<>>)
<1>1. Called(c, Main, b, s, <<>>)
  BY DEF Called
<1>2. <<>> \in Seq(StackSet) /\ [is |-> "value", of |-> {}] \in ValueSet
      /\ [is |-> "value", of |-> {}].of = {}
  BY DEF ValueSet
<1>3. Main \in DOMAIN c \ {Irq2}
  BY DEF Complete
<1> QED
  BY <1>1, <1>2, <1>3 DEF At

\* Where a processor outside the interrupt handler is, and its stacks.
Stands(c, r, i, s, ss, us) ==
    /\ r \in DOMAIN c \ {Irq2} /\ r \in Routines
    /\ i \in 1..Len(c[r]) /\ i \in Nat \ {0}
    /\ s \in BOOLEAN /\ (IF s THEN us ELSE ss) = <<>>
    /\ \/ r \in DOMAIN c \ Fixed /\ r # Trp(15)
       \/ r = Trp(15) /\ i = 1 /\ c[r][i].op = "set_S"
       \/ r = Trp(15) /\ i = 2 /\ c[r][i].op = "rte"

\* A line that is executed outside the interrupt handler is one that may stand there.
LEMMA AtLine ==
    ASSUME NEW c, Complete(c),
           NEW w, NEW r, NEW i, NEW s, NEW ss, NEW us, At(c, w, r, i, s, ss, us)
    PROVE  Stands(c, r, i, s, ss, us)
<1>1. /\ r \in DOMAIN c \ {Irq2} /\ r \in Routines
      /\ i \in 1..Len(c[r]) /\ s \in BOOLEAN /\ (IF s THEN us ELSE ss) = <<>>
  BY DEF At, Complete
<1>2. i \in Nat \ {0}
  BY <1>1
<1>3. r \in Fixed => r = Trp(15)
  BY <1>1 DEF Fixed
<1>4. ASSUME r = Trp(15)
      PROVE  \/ i = 1 /\ c[r][i].op = "set_S"
             \/ i = 2 /\ c[r][i].op = "rte"
  <2> DEFINE d == <<Op("set_S"), Op("rte")>>
  <2>1. Len(d) = 2 /\ d[1] = Op("set_S") /\ d[2] = Op("rte")
    OBVIOUS
  <2>2. c[r] = d
    BY <1>4 DEF Complete
  <2>3. Op("set_S").op = "set_S" /\ Op("rte").op = "rte"
    BY DEF Op
  <2> HIDE DEF d
  <2>4. Len(c[r]) = 2
    BY <2>1, <2>2
  <2>5. i = 1 \/ i = 2
    BY <1>1, <2>4
  <2> QED
    BY <2>1, <2>2, <2>3, <2>5
<1> QED
  BY <1>1, <1>2, <1>3, <1>4 DEF Stands

\* What is right stays so after a wrong store.
LEMMA AtWrong ==
    ASSUME NEW c, NEW w, NEW x, NEW r, NEW i, NEW s, NEW ss, NEW us,
           At(c, w, r, i, s, ss, us), w => x
    PROVE  At(c, x, r, i, s, ss, us)
BY DEF At

\* A line that calls nothing, changes no mode and no stack.
LEMMA AtPlain ==
    ASSUME NEW c, Complete(c),
           NEW w, NEW r, NEW i, NEW s, NEW ss, NEW us, At(c, w, r, i, s, ss, us),
           c[r][i].op \in PlainOps \cup {"mask", "tst", "dump", "privileged"}
    PROVE  At(c, w, r, i + 1, s, ss, us)
<1>2. c[r][i].op \notin {"push", "pop", "user", "trap", "halt", "rte", "rts", "set_S"}
  BY DEF PlainOps
<1>1. /\ r \in DOMAIN c \ {Irq2} /\ r \in DOMAIN c \ Fixed /\ r # Trp(15) /\ i \in 1..Len(c[r])
      /\ s \in BOOLEAN /\ i \in Nat \ {0} /\ (IF s THEN us ELSE ss) = <<>>
  <2>1. Stands(c, r, i, s, ss, us)
    BY AtLine
  <2> QED
    BY <1>2, <2>1 DEF Stands
<1>3. EndOf(r) \in {"halt", "rte", "rts"}
  BY DEF EndOf
<1>4. i + 1 \in 1..Len(c[r]) /\ c[r][i + 1].op # "pop"
  <2>1. c[r][i].op # EndOf(r) /\ c[r][i].op # "push"
    BY <1>2, <1>3
  <2> QED
    BY <1>1, <2>1, NextLine
<1>5. PICK below \in Seq(StackSet), v \in ValueSet :
        /\ (IF s THEN ss ELSE us) = below
        /\ v.of # {} => w
        /\ Called(c, r, i, s, below)
  BY <1>2 DEF At
<1>6. r = Main => (UserAt(c[Main], i + 1) <=> UserAt(c[Main], i))
  BY <1>1, <1>2, UserNext DEF Leaves
<1>7. Called(c, r, i + 1, s, below)
  BY <1>1, <1>5, <1>6 DEF Called
<1> QED
  BY <1>1, <1>4, <1>5, <1>7 DEF At

\* A push and its pop.
LEMMA AtPush ==
    ASSUME NEW c, Complete(c),
           NEW w, NEW r, NEW i, NEW s, NEW ss, NEW us, At(c, w, r, i, s, ss, us),
           c[r][i].op = "push", NEW v \in ValueSet, v.of # {} => w
    PROVE  At(c, w, r, i + 1, s, IF s THEN Append(ss, v) ELSE ss,
                                 IF s THEN us ELSE Append(us, v))
<1>1. /\ r \in DOMAIN c \ {Irq2} /\ r \in DOMAIN c \ Fixed /\ r # Trp(15) /\ i \in 1..Len(c[r])
      /\ s \in BOOLEAN /\ i \in Nat \ {0} /\ (IF s THEN us ELSE ss) = <<>>
  <2>1. Stands(c, r, i, s, ss, us)
    BY AtLine
  <2> QED
    BY <2>1 DEF Stands
<1>3. EndOf(r) \in {"halt", "rte", "rts"}
  BY DEF EndOf
<1>4. i + 1 \in 1..Len(c[r]) /\ c[r][i + 1].op = "pop"
  <2>1. c[r][i].op # EndOf(r)
    BY <1>3
  <2> QED
    BY <1>1, <2>1, NextLine
<1>5. PICK below \in Seq(StackSet) :
        /\ (IF s THEN ss ELSE us) = below
        /\ Called(c, r, i, s, below)
  BY DEF At
<1>6. r = Main => (UserAt(c[Main], i + 1) <=> UserAt(c[Main], i))
  BY <1>1, UserNext DEF Leaves
<1>7. Called(c, r, i + 1, s, below)
  BY <1>1, <1>5, <1>6 DEF Called
<1> DEFINE sn == IF s THEN Append(ss, v) ELSE ss
           un == IF s THEN us ELSE Append(us, v)
<1>8. (IF s THEN un ELSE sn) = <<>> /\ (IF s THEN sn ELSE un) = Append(below, v)
  BY <1>1, <1>5
<1> HIDE DEF sn, un
<1>9. At(c, w, r, i + 1, s, sn, un)
  BY <1>1, <1>4, <1>7, <1>8 DEF At
<1> QED
  BY <1>9 DEF sn, un

\* A pop finds what its push left, and leaves the caller on the stack.
LEMMA AtPop ==
    ASSUME NEW c, Complete(c),
           NEW w, NEW r, NEW i, NEW s, NEW ss, NEW us, At(c, w, r, i, s, ss, us),
           c[r][i].op = "pop"
    PROVE  \E below \in Seq(StackSet), v \in ValueSet :
             /\ (IF s THEN ss ELSE us) = Append(below, v)
             /\ v.of # {} => w
             /\ At(c, w, r, i + 1, s, IF s THEN below ELSE ss, IF s THEN us ELSE below)
<1>1. /\ r \in DOMAIN c \ {Irq2} /\ r \in DOMAIN c \ Fixed /\ r # Trp(15) /\ i \in 1..Len(c[r])
      /\ s \in BOOLEAN /\ i \in Nat \ {0} /\ (IF s THEN us ELSE ss) = <<>>
  <2>1. Stands(c, r, i, s, ss, us)
    BY AtLine
  <2> QED
    BY <2>1 DEF Stands
<1>3. EndOf(r) \in {"halt", "rte", "rts"}
  BY DEF EndOf
<1>4. i + 1 \in 1..Len(c[r]) /\ c[r][i + 1].op # "pop"
  <2>1. c[r][i].op # EndOf(r)
    BY <1>3
  <2> QED
    BY <1>1, <2>1, NextLine
<1>5. PICK below \in Seq(StackSet), v \in ValueSet :
        /\ (IF s THEN ss ELSE us) = Append(below, v)
        /\ v.of # {} => w
        /\ Called(c, r, i, s, below)
  BY DEF At
<1>6. r = Main => (UserAt(c[Main], i + 1) <=> UserAt(c[Main], i))
  BY <1>1, UserNext DEF Leaves
<1>7. Called(c, r, i + 1, s, below)
  BY <1>1, <1>5, <1>6 DEF Called
<1> DEFINE sn == IF s THEN below ELSE ss
           un == IF s THEN us ELSE below
<1>8. (IF s THEN un ELSE sn) = <<>> /\ (IF s THEN sn ELSE un) = below
  BY <1>1, <1>5
<1> HIDE DEF sn, un
<1>9. At(c, w, r, i + 1, s, sn, un)
  BY <1>1, <1>4, <1>5, <1>7, <1>8 DEF At
<1> QED
  BY <1>5, <1>9 DEF sn, un

\* The main body's own lines: nothing is on the stacks.
LEMMA AtMainLine ==
    ASSUME NEW c, Complete(c),
           NEW w, NEW r, NEW i, NEW s, NEW ss, NEW us, At(c, w, r, i, s, ss, us),
           c[r][i].op \in MainOps
    PROVE  /\ r = Main /\ ss = <<>> /\ us = <<>> /\ (s <=> ~UserAt(c[Main], i))
           /\ LineRight(DOMAIN c, Main, c[Main], i)
           /\ c[r][i].op # "halt" => i + 1 \in 1..Len(c[Main]) /\ c[Main][i + 1].op # "pop"
<1>3. /\ c[r][i].op \notin BodyOps \cup {"rte", "rts", "set_S"}
      /\ c[r][i].op \notin {"push", "pop"}
  BY DEF MainOps, BodyOps, PlainOps
<1>1. /\ r \in DOMAIN c \ {Irq2} /\ r \in DOMAIN c \ Fixed /\ r # Trp(15) /\ i \in 1..Len(c[r])
      /\ s \in BOOLEAN /\ i \in Nat \ {0} /\ (IF s THEN us ELSE ss) = <<>> /\ r \in Routines
      /\ r # Irq2
  <2>1. Stands(c, r, i, s, ss, us)
    BY AtLine
  <2> QED
    BY <1>3, <2>1 DEF Stands
<1>2. LineRight(DOMAIN c, r, c[r], i)
  BY <1>1, NextLine
<1>a. /\ r = Main \/ r = Irq2 \/ r \in Traps \/ r \in {Sub(n) : n \in Nat}
      /\ r = Main => /\ r \notin Traps /\ r \notin {Sub(n) : n \in Nat} /\ EndOf(r) = "halt"
      /\ r \in Traps => OpsOf(r) = BodyOps \cup {"rte"}
      /\ r \in {Sub(n) : n \in Nat} => OpsOf(r) = BodyOps \cup {"rts"}
  BY <1>1, RoutineKinds
<1>4. r = Main /\ EndOf(r) = "halt" /\ r \notin Traps /\ r \notin {Sub(n) : n \in Nat}
  BY <1>1, <1>2, <1>3, <1>a DEF LineRight
<1>5. /\ ss = <<>> /\ us = <<>>
      /\ s <=> ~UserAt(c[Main], i)
  BY <1>1, <1>3, <1>4 DEF At, Called
<1>6. c[r][i].op # "halt" => i + 1 \in 1..Len(c[Main]) /\ c[Main][i + 1].op # "pop"
  <2>1. SUFFICES ASSUME c[r][i].op # EndOf(r)
                 PROVE  i + 1 \in 1..Len(c[Main]) /\ c[Main][i + 1].op # "pop"
    BY <1>4
  <2>2. i + 1 \in 1..Len(c[r]) /\ (c[r][i + 1].op = "pop" <=> c[r][i].op = "push")
    <3>1. r \in DOMAIN c \ Fixed /\ i \in 1..Len(c[r])
      BY <1>1
    <3>2. c[r][i].op # EndOf(r) => /\ i + 1 \in 1..Len(c[r])
                                   /\ (c[r][i + 1].op = "pop" <=> c[r][i].op = "push")
      BY <3>1, NextLine, SMTT(30)
    <3> QED
      BY <2>1, <3>2
  <2> QED
    BY <1>3, <1>4, <2>2
<1> QED
  BY <1>2, <1>4, <1>5, <1>6

\* User mode is entered from supervisor mode, with both stacks empty.
LEMMA AtUser ==
    ASSUME NEW c, Complete(c),
           NEW w, NEW r, NEW i, NEW s, NEW ss, NEW us, At(c, w, r, i, s, ss, us),
           c[r][i].op = "user"
    PROVE  s /\ At(c, w, r, i + 1, FALSE, ss, us)
<1>1. c[r][i].op \in MainOps
  BY DEF MainOps
<1>2. /\ r = Main /\ ss = <<>> /\ us = <<>> /\ (s <=> ~UserAt(c[Main], i))
      /\ LineRight(DOMAIN c, Main, c[Main], i)
      /\ c[r][i].op # "halt" => i + 1 \in 1..Len(c[Main]) /\ c[Main][i + 1].op # "pop"
  BY <1>1, AtMainLine
<1>3. Stands(c, r, i, s, ss, us)
  BY AtLine
<1>4. UserAt(c[Main], i + 1)
  BY <1>2, <1>3, UserNext DEF Stands
<1>5. At(c, w, Main, i + 1, FALSE, <<>>, <<>>)
  BY <1>2, <1>4, AtMain, RoutineNames
<1> QED
  BY <1>2, <1>3, <1>5 DEF LineRight, Stands

\* A call and a trap go to the first line of a routine.
LEMMA AtTrap ==
    ASSUME NEW c, Complete(c),
           NEW w, NEW r, NEW i, NEW s, NEW ss, NEW us, At(c, w, r, i, s, ss, us),
           c[r][i].op = "trap", NEW f \in FrameSet, f.s = s, f.back = <<r, i + 1>>
    PROVE  c[r][i].to \in Routines /\ At(c, w, c[r][i].to, 1, TRUE, Append(ss, f), us)
<1> DEFINE t == c[r][i].to
<1>1. c[r][i].op \in MainOps /\ c[r][i].op # "halt"
  BY DEF MainOps
<1>2. /\ r = Main /\ ss = <<>> /\ us = <<>> /\ (s <=> ~UserAt(c[Main], i))
      /\ LineRight(DOMAIN c, Main, c[Main], i)
      /\ c[r][i].op # "halt" => i + 1 \in 1..Len(c[Main]) /\ c[Main][i + 1].op # "pop"
  BY <1>1, AtMainLine
<1>3. Stands(c, r, i, s, ss, us)
  BY AtLine
<1>4. UserAt(c[Main], i + 1) <=> UserAt(c[Main], i) /\ t # Trp(15)
  BY <1>2, <1>3, UserNext DEF Stands, Leaves
<1>5. t \in Traps /\ t \in DOMAIN c /\ t \in Routines /\ t # Irq2
  <2>1. t \in Traps /\ Traps \subseteq DOMAIN c /\ DOMAIN c \subseteq Routines
    BY <1>2 DEF LineRight, Complete
  <2> QED
    BY <2>1, RoutineKinds
<1> HIDE DEF t
<1>6. 1 \in 1..Len(c[t]) /\ c[t][1].op # "pop"
  BY <1>5, FirstLine
<1>7. <<>> \in Seq(StackSet) /\ f \in StackSet /\ Append(ss, f) = <<f>> /\ <<f>> \in Seq(StackSet)
  BY <1>2 DEF StackSet
<1>8. Called(c, t, 1, TRUE, <<f>>)
  <2>1. i + 1 \in 1..Len(c[Main]) /\ c[Main][i + 1].op # "pop" /\ f.back = <<Main, i + 1>>
    BY <1>1, <1>2
  <2>2. IF t = Trp(15) /\ 1 = 1 THEN ~UserAt(c[Main], i + 1)
        ELSE (f.s <=> ~UserAt(c[Main], i + 1))
    BY <1>2, <1>4
  <2> QED
    BY <1>5, <2>1, <2>2 DEF Called
<1>9. [is |-> "value", of |-> {}] \in ValueSet /\ [is |-> "value", of |-> {}].of = {}
  BY DEF ValueSet
<1>10. At(c, w, t, 1, TRUE, <<f>>, <<>>)
  BY <1>5, <1>6, <1>7, <1>8, <1>9 DEF At
<1> QED
  BY <1>2, <1>5, <1>7, <1>10 DEF t

\* A call leaves the place behind it on the stack of its mode.
LEMMA AtBsr ==
    ASSUME NEW c, Complete(c),
           NEW w, NEW r, NEW i, NEW s, NEW ss, NEW us, At(c, w, r, i, s, ss, us),
           c[r][i].op = "bsr", NEW x, x = [is |-> "return", to |-> <<r, i + 1>>]
    PROVE  /\ c[r][i].to \in Routines
           /\ At(c, w, c[r][i].to, 1, s, IF s THEN Append(ss, x) ELSE ss,
                                         IF s THEN us ELSE Append(us, x))
<1> DEFINE t == c[r][i].to
<1>1. c[r][i].op \in MainOps /\ c[r][i].op # "halt"
  BY DEF MainOps
<1>2. /\ r = Main /\ ss = <<>> /\ us = <<>> /\ (s <=> ~UserAt(c[Main], i))
      /\ LineRight(DOMAIN c, Main, c[Main], i)
      /\ c[r][i].op # "halt" => i + 1 \in 1..Len(c[Main]) /\ c[Main][i + 1].op # "pop"
  BY <1>1, AtMainLine
<1>3. Stands(c, r, i, s, ss, us)
  BY AtLine
<1>4. UserAt(c[Main], i + 1) <=> UserAt(c[Main], i)
  BY <1>2, <1>3, UserNext DEF Stands, Leaves
<1>5. t \in {Sub(n) : n \in Nat} /\ t \in DOMAIN c /\ t \in Routines /\ t # Irq2 /\ t \notin Fixed
  <2>1. t \in {Sub(n) : n \in Nat} /\ t \in DOMAIN c /\ DOMAIN c \subseteq Routines
    BY <1>2 DEF LineRight, Complete
  <2>2. t # Irq2 /\ t \notin Traps /\ Trp(15) \in Traps
    BY <2>1, RoutineKinds DEF Traps
  <2> QED
    BY <2>1, <2>2 DEF Fixed
<1> HIDE DEF t
<1>6. 1 \in 1..Len(c[t]) /\ c[t][1].op # "pop"
  BY <1>5, FirstLine
<1>7. Append(<<>>, x) = <<x>> /\ <<x>> \in Seq(StackSet)
  <2>1. Main \in Routines /\ i + 1 \in Nat
    BY <1>3 DEF Stands, Routines
  <2>2. x \in ReturnSet
    BY <1>2, <2>1 DEF ReturnSet, Places
  <2> QED
    BY <2>2 DEF StackSet
<1>8. Called(c, t, 1, s, <<x>>)
  <2>1. i + 1 \in 1..Len(c[Main]) /\ c[Main][i + 1].op # "pop"
    BY <1>1, <1>2
  <2>2. s <=> ~UserAt(c[Main], i + 1)
    BY <1>2, <1>4
  <2>3. <<x>> = <<[is |-> "return", to |-> <<Main, i + 1>>]>>
    BY <1>2
  <2> QED
    BY <1>5, <2>1, <2>2, <2>3 DEF Called
<1>9. [is |-> "value", of |-> {}] \in ValueSet /\ [is |-> "value", of |-> {}].of = {}
  BY DEF ValueSet
<1> DEFINE sn == IF s THEN Append(ss, x) ELSE ss
           un == IF s THEN us ELSE Append(us, x)
<1>10. (IF s THEN un ELSE sn) = <<>> /\ (IF s THEN sn ELSE un) = <<x>>
  BY <1>2, <1>7
<1> HIDE DEF sn, un
<1>11. At(c, w, t, 1, s, sn, un)
  BY <1>3, <1>5, <1>6, <1>7, <1>8, <1>9, <1>10 DEF At, Stands
<1> QED
  BY <1>5, <1>11 DEF t, sn, un

\* A return goes to the line of the main body behind the call, in its mode.
LEMMA AtRts ==
    ASSUME NEW c, Complete(c),
           NEW w, NEW r, NEW i, NEW s, NEW ss, NEW us, At(c, w, r, i, s, ss, us),
           c[r][i].op = "rts"
    PROVE  \E x \in ReturnSet :
             /\ x.is = "return" /\ (IF s THEN ss ELSE us) = <<x>>
             /\ At(c, w, x.to[1], x.to[2], s, <<>>, <<>>)
<1>1. Stands(c, r, i, s, ss, us)
  BY AtLine
<1>2. r \in DOMAIN c \ Fixed /\ i \in 1..Len(c[r]) /\ r \in Routines /\ r # Irq2
  BY <1>1 DEF Stands
<1>3. LineRight(DOMAIN c, r, c[r], i)
  BY <1>2, NextLine
<1>4. "rts" \notin BodyOps \cup MainOps \cup {"rte"}
  BY DEF BodyOps, MainOps, PlainOps
<1>5. r \in {Sub(n) : n \in Nat} /\ r # Main /\ r \notin Traps
  BY <1>2, <1>3, <1>4, RoutineKinds DEF LineRight
<1>6. PICK b \in 1..Len(c[Main]) :
        /\ c[Main][b].op # "pop"
        /\ s <=> ~UserAt(c[Main], b)
        /\ (IF s THEN ss ELSE us) = <<[is |-> "return", to |-> <<Main, b>>]>>
  BY <1>5 DEF At, Called
<1> DEFINE x == [is |-> "return", to |-> <<Main, b>>]
<1>7. x \in ReturnSet /\ x.is = "return" /\ x.to[1] = Main /\ x.to[2] = b
  <2>1. Main \in Routines /\ b \in Nat
    BY DEF Routines
  <2> QED
    BY <2>1 DEF ReturnSet, Places
<1>8. At(c, w, Main, b, s, <<>>, <<>>)
  BY <1>1, <1>6, AtMain, RoutineNames DEF Stands
<1> HIDE DEF x
<1>9. At(c, w, x.to[1], x.to[2], s, <<>>, <<>>)
  BY <1>7, <1>8
<1>10. (IF s THEN ss ELSE us) = <<x>>
  BY <1>6 DEF x
<1> QED
  BY <1>7, <1>9, <1>10

\* A trap handler's rte finds the frame of the trap and nothing else.
LEMMA AtRte ==
    ASSUME NEW c, Complete(c),
           NEW w, NEW r, NEW i, NEW s, NEW ss, NEW us, At(c, w, r, i, s, ss, us),
           c[r][i].op = "rte"
    PROVE  /\ s /\ us = <<>>
           /\ \E f \in FrameSet :
                ss = <<f>> /\ At(c, w, f.back[1], f.back[2], f.s, <<>>, <<>>)
<1>1. Stands(c, r, i, s, ss, us)
  BY AtLine
<1>2. i \in 1..Len(c[r]) /\ r \in Routines /\ r # Irq2 /\ (r = Trp(15) => i = 2)
  BY <1>1 DEF Stands
<1>3. r \in Traps
  <2>1. CASE r = Trp(15)
    BY <2>1 DEF Traps
  <2>2. CASE r # Trp(15)
    <3>1. r \in DOMAIN c \ Fixed
      BY <1>1, <2>2 DEF Stands
    <3>2. LineRight(DOMAIN c, r, c[r], i)
      BY <1>2, <3>1, NextLine
    <3>3. "rte" \notin BodyOps \cup MainOps \cup {"rts"}
      BY DEF BodyOps, MainOps, PlainOps
    <3> QED
      BY <1>2, <3>2, <3>3, RoutineKinds DEF LineRight
  <2> QED
    BY <2>1, <2>2
<1>4. r # Main /\ r \notin {Sub(n) : n \in Nat}
  BY <1>2, <1>3, RoutineKinds
<1>5. PICK b \in 1..Len(c[Main]), f \in FrameSet :
        /\ c[Main][b].op # "pop" /\ s
        /\ (IF s THEN ss ELSE us) = <<f>> /\ f.back = <<Main, b>>
        /\ f.s <=> ~UserAt(c[Main], b)
  BY <1>2, <1>4 DEF At, Called
<1>6. f.s \in BOOLEAN /\ f.back[1] = Main /\ f.back[2] = b
  BY <1>5 DEF FrameSet
<1>7. At(c, w, Main, b, f.s, <<>>, <<>>)
  BY <1>5, <1>6, AtMain, RoutineNames
<1>8. At(c, w, f.back[1], f.back[2], f.s, <<>>, <<>>)
  BY <1>6, <1>7
<1>9. s /\ us = <<>> /\ ss = <<f>>
  BY <1>1, <1>5 DEF Stands
<1> QED
  BY <1>8, <1>9

\* The way out of user mode: the frame returns to supervisor mode.
LeavesUser(c, w, r, i, f) ==
    \A g \in FrameSet : g.s /\ g.back = f.back => At(c, w, r, i + 1, TRUE, <<g>>, <<>>)

\* TRAP 15's handler finds the frame of the trap that left user mode.
LEMMA AtFrame ==
    ASSUME NEW c, Complete(c),
           NEW w, NEW r, NEW i, NEW s, NEW ss, NEW us, At(c, w, r, i, s, ss, us),
           c[r][i].op = "set_S"
    PROVE  /\ s /\ us = <<>>
           /\ \E f \in FrameSet : ss = <<f>> /\ LeavesUser(c, w, r, i, f)
<1>1. Stands(c, r, i, s, ss, us)
  BY AtLine
<1>2. r = Trp(15) /\ i = 1
  <2>1. CASE r \in DOMAIN c \ Fixed
    <3>1. LineRight(DOMAIN c, r, c[r], i)
      BY <1>1, <2>1, NextLine DEF Stands
    <3>2. "set_S" \notin BodyOps \cup MainOps \cup {"rte", "rts"}
      BY DEF BodyOps, MainOps, PlainOps
    <3> QED
      BY <3>1, <3>2 DEF LineRight, OpsOf
  <2>2. CASE r \notin DOMAIN c \ Fixed
    BY <1>1, <2>2 DEF Stands
  <2> QED
    BY <2>1, <2>2
<1>3. r \in Traps /\ r # Main /\ r \notin {Sub(n) : n \in Nat}
  <2>1. r \in Traps
    BY <1>2 DEF Traps
  <2> QED
    BY <1>1, <2>1, RoutineKinds DEF Stands
<1>4. PICK b \in 1..Len(c[Main]), f \in FrameSet :
        /\ c[Main][b].op # "pop" /\ s
        /\ (IF s THEN ss ELSE us) = <<f>> /\ f.back = <<Main, b>>
        /\ ~UserAt(c[Main], b)
  BY <1>2, <1>3 DEF At, Called
<1>5. s /\ us = <<>> /\ ss = <<f>>
  BY <1>1, <1>4 DEF Stands
<1>6. 2 \in 1..Len(c[r]) /\ c[r][2].op # "pop"
  <2> DEFINE d == <<Op("set_S"), Op("rte")>>
  <2>1. Len(d) = 2 /\ d[2].op # "pop"
    BY DEF Op
  <2>2. c[r] = d
    BY <1>2 DEF Complete
  <2> HIDE DEF d
  <2>3. Len(c[r]) = 2
    BY <2>1, <2>2
  <2>4. 2 \in 1..Len(c[r])
    BY <2>3
  <2> QED
    BY <2>1, <2>2, <2>4
<1>7. ASSUME NEW g \in FrameSet, g.s, g.back = f.back
      PROVE  At(c, w, r, 2, TRUE, <<g>>, <<>>)
  <2>1. Called(c, r, 2, TRUE, <<g>>)
    BY <1>3, <1>4, <1>7 DEF Called
  <2>2. <<g>> \in Seq(StackSet)
    <3>1. g \in StackSet
      BY DEF StackSet
    <3> QED
      BY <3>1
  <2>3. [is |-> "value", of |-> {}] \in ValueSet /\ [is |-> "value", of |-> {}].of = {}
    BY DEF ValueSet
  <2> QED
    BY <1>1, <1>6, <2>1, <2>2, <2>3 DEF At, Stands
<1>8. i + 1 = 2
  BY <1>2
<1>9. LeavesUser(c, w, r, i, f)
  BY <1>7, <1>8 DEF LeavesUser
<1> QED
  BY <1>5, <1>9

\* The lines the processor meets outside the interrupt handler.
LEMMA AtOps ==
    ASSUME NEW c, Complete(c),
           NEW w, NEW r, NEW i, NEW s, NEW ss, NEW us, At(c, w, r, i, s, ss, us)
    PROVE  c[r][i].op \in OpNames \cup {"set_S"}
<1>1. Stands(c, r, i, s, ss, us)
  BY AtLine
<1>2. CASE r \in DOMAIN c \ Fixed
  <2>1. LineRight(DOMAIN c, r, c[r], i)
    BY <1>1, <1>2, NextLine DEF Stands
  <2> QED
    BY <2>1 DEF LineRight, OpsOf, OpNames
<1>3. CASE r \notin DOMAIN c \ Fixed
  BY <1>1, <1>3 DEF Stands, OpNames
<1> QED
  BY <1>2, <1>3

----------------------------------------------------------------------------
(* The processor's registers *)

\* The next line.
LEMMA Stepped ==
    ASSUME NEW c \in CpuSet
    PROVE  /\ Step1(c) \in CpuSet
           /\ Step1(c).r = c.r /\ Step1(c).i = c.i + 1 /\ Step1(c).s = c.s
           /\ Step1(c).ss = c.ss /\ Step1(c).us = c.us
           /\ Step1(c).state = c.state /\ Step1(c).masked = c.masked
<1>1. c = [state |-> c.state, r |-> c.r, i |-> c.i, s |-> c.s, masked |-> c.masked,
           ss |-> c.ss, us |-> c.us]
  BY DEF CpuSet
<1>2. c.i + 1 \in Nat
  BY DEF CpuSet
<1>3. Step1(c) = [state |-> c.state, r |-> c.r, i |-> c.i + 1, s |-> c.s,
                  masked |-> c.masked, ss |-> c.ss, us |-> c.us]
  BY <1>1 DEF Step1
<1>4. Step1(c) \in CpuSet
  BY <1>2, <1>3 DEF CpuSet
<1> QED
  BY <1>3, <1>4

\* Another place.
LEMMA Jumped ==
    ASSUME NEW c \in CpuSet, NEW p \in Places
    PROVE  /\ Jump(c, p) \in CpuSet
           /\ Jump(c, p).r = p[1] /\ Jump(c, p).i = p[2] /\ Jump(c, p).s = c.s
           /\ Jump(c, p).ss = c.ss /\ Jump(c, p).us = c.us
           /\ Jump(c, p).state = c.state /\ Jump(c, p).masked = c.masked
<1>1. p[1] \in Routines /\ p[2] \in Nat
  BY DEF Places
<1> QED
  BY <1>1 DEF Jump, CpuSet

\* Another stack for the current mode.
LEMMA StackIsSet ==
    ASSUME cpu \in CpuSet, NEW c \in CpuSet, NEW t \in Seq(StackSet)
    PROVE  /\ Set(c, t) \in CpuSet
           /\ Set(c, t).r = c.r /\ Set(c, t).i = c.i /\ Set(c, t).s = c.s
           /\ Set(c, t).ss = (IF cpu.s THEN t ELSE c.ss)
           /\ Set(c, t).us = (IF cpu.s THEN c.us ELSE t)
           /\ Set(c, t).state = c.state /\ Set(c, t).masked = c.masked
<1>1. CASE cpu.s
  BY <1>1 DEF Set, CpuSet
<1>2. CASE ~cpu.s
  BY <1>2 DEF Set, CpuSet
<1> QED
  BY <1>1, <1>2

FrameOf(c, p) == [is |-> "frame", s |-> c.s, masked |-> c.masked, back |-> p]

\* The frame of an exception.
LEMMA FrameFacts ==
    ASSUME NEW c \in CpuSet, NEW p \in Places
    PROVE  /\ FrameOf(c, p) \in FrameSet /\ FrameOf(c, p) \in StackSet
           /\ FrameOf(c, p).is = "frame" /\ FrameOf(c, p).s = c.s /\ FrameOf(c, p).back = p
           /\ Append(c.ss, FrameOf(c, p)) \in Seq(StackSet)
<1>1. c.s \in BOOLEAN /\ c.masked \in BOOLEAN /\ c.ss \in Seq(StackSet)
  BY DEF CpuSet
<1>2. FrameOf(c, p) \in FrameSet
      /\ FrameOf(c, p).is = "frame" /\ FrameOf(c, p).s = c.s /\ FrameOf(c, p).back = p
  BY <1>1 DEF FrameOf, FrameSet
<1>3. FrameOf(c, p) \in StackSet
  BY <1>2 DEF StackSet
<1>4. Append(c.ss, FrameOf(c, p)) \in Seq(StackSet)
  BY <1>1, <1>3, AppendProperties
<1> QED
  BY <1>2, <1>3, <1>4

\* The registers after an exception.
LEMMA Excepted ==
    ASSUME NEW c \in CpuSet, NEW t \in Routines, NEW p \in Places
    PROVE  /\ Except(c, t, p) \in CpuSet
           /\ Except(c, t, p).r = t /\ Except(c, t, p).i = 1 /\ Except(c, t, p).s
           /\ Except(c, t, p).ss = Append(c.ss, FrameOf(c, p)) /\ Except(c, t, p).us = c.us
           /\ Except(c, t, p).state = c.state
<1> DEFINE j == Jump(c, <<t, 1>>)
           n == Append(c.ss, FrameOf(c, p))
           e == [j EXCEPT !.s = TRUE, !.ss = n]
<1>1. <<t, 1>> \in Places
  BY DEF Places
<1>2. /\ j \in CpuSet /\ j.r = t /\ j.i = 1 /\ j.ss = c.ss /\ j.us = c.us
      /\ j.s = c.s /\ j.masked = c.masked /\ j.state = c.state
  BY <1>1, Jumped
<1>3. Except(c, t, p) = e
  BY <1>2 DEF Except, FrameOf
<1>4. n \in Seq(StackSet)
  BY FrameFacts
<1> HIDE DEF j, n
<1>5. /\ e \in CpuSet /\ e.r = j.r /\ e.i = j.i /\ e.s
      /\ e.ss = n /\ e.us = j.us /\ e.state = j.state
  BY <1>2, <1>4 DEF CpuSet
<1> HIDE DEF e
<1> QED
  BY <1>2, <1>3, <1>5 DEF n

----------------------------------------------------------------------------
(* A step outside the interrupt handler *)

\* What a step there leads to.
Outcome ==
    /\ cpu' \in CpuSet /\ cpu'.state \in {"run", "halt", "irqnone"}
    /\ bad' \in BOOLEAN
    /\ cpu'.state = "run" => At(code, bad', cpu'.r, cpu'.i, cpu'.s, cpu'.ss, cpu'.us)
    /\ cpu'.state = "halt" => cpu'.s /\ cpu'.ss = <<>> /\ cpu'.us = <<>>

Outside ==
    /\ Complete(code) /\ cpu \in CpuSet /\ bad \in BOOLEAN /\ cpu.state = "run"
    /\ At(code, bad, cpu.r, cpu.i, cpu.s, cpu.ss, cpu.us)

\* The line is done and the next one follows.
LEMMA StepOn ==
    ASSUME Outside, bad' \in BOOLEAN, bad => bad',
           Line.op \in PlainOps \cup {"mask", "tst", "dump", "privileged"},
           cpu' \in CpuSet, cpu'.state = "run", cpu'.r = cpu.r, cpu'.i = cpu.i + 1,
           cpu'.s = cpu.s, cpu'.ss = cpu.ss, cpu'.us = cpu.us
    PROVE  Outcome
<1>1. At(code, bad, cpu.r, cpu.i + 1, cpu.s, cpu.ss, cpu.us)
  BY AtPlain DEF Outside, Line
<1>2. At(code, bad', cpu.r, cpu.i + 1, cpu.s, cpu.ss, cpu.us)
  BY <1>1, AtWrong
<1> QED
  BY <1>2 DEF Outcome

\* Lines that change neither the mode nor a stack.
LEMMA OutsideAlu ==
    ASSUME Outside, bad' \in BOOLEAN, bad => bad', Line.op \in PlainOps, Go
    PROVE  Outcome
<1>1. cpu \in CpuSet /\ cpu.state = "run"
  BY DEF Outside
<1>2. cpu' = Step1(cpu)
  BY DEF Go
<1> QED
  BY <1>1, <1>2, Stepped, StepOn

\* A push: its pop is the next line.
LEMMA OutsidePush ==
    ASSUME Outside, bad' = bad, ~bad => differ = {}, Line.op = "push",
           cpu' = Push(Step1(cpu), [is |-> "value", of |-> differ \cap {"d"}])
    PROVE  Outcome
<1> DEFINE v == [is |-> "value", of |-> differ \cap {"d"}]
           c == Step1(cpu)
           t == Append(Stack, v)
<1>1. v \in ValueSet /\ v \in StackSet /\ (v.of # {} => bad)
  BY DEF ValueSet, StackSet, Outside
<1>2. cpu \in CpuSet /\ cpu.state = "run" /\ cpu.s \in BOOLEAN /\ bad \in BOOLEAN
  BY DEF Outside, CpuSet
<1> HIDE DEF v
<1>3. Stack \in Seq(StackSet) /\ t \in Seq(StackSet)
  <2>1. Stack \in Seq(StackSet)
    BY <1>2 DEF Stack, CpuSet
  <2> QED
    BY <1>1, <2>1, AppendProperties
<1>4. cpu' = Set(c, t)
  BY DEF Push, v
<1>5. c \in CpuSet /\ c.r = cpu.r /\ c.i = cpu.i + 1 /\ c.s = cpu.s /\ c.ss = cpu.ss
      /\ c.us = cpu.us /\ c.state = cpu.state
  BY <1>2, Stepped
<1> HIDE DEF c, t
<1>6. /\ cpu' \in CpuSet /\ cpu'.r = cpu.r /\ cpu'.i = cpu.i + 1 /\ cpu'.s = cpu.s
      /\ cpu'.ss = (IF cpu.s THEN t ELSE cpu.ss)
      /\ cpu'.us = (IF cpu.s THEN cpu.us ELSE t)
      /\ cpu'.state = "run"
  BY <1>2, <1>3, <1>4, <1>5, StackIsSet
<1>7. At(code, bad, cpu.r, cpu.i + 1, cpu.s, IF cpu.s THEN Append(cpu.ss, v) ELSE cpu.ss,
                                             IF cpu.s THEN cpu.us ELSE Append(cpu.us, v))
  BY <1>1, AtPush DEF Outside, Line
<1>8. /\ cpu.s => t = Append(cpu.ss, v)
      /\ ~cpu.s => t = Append(cpu.us, v)
  BY DEF t, Stack
<1>9. At(code, bad, cpu.r, cpu.i + 1, cpu.s, cpu'.ss, cpu'.us)
  <2>1. CASE cpu.s
    BY <1>6, <1>7, <1>8, <2>1
  <2>2. CASE ~cpu.s
    BY <1>6, <1>7, <1>8, <2>2
  <2> QED
    BY <2>1, <2>2
<1> QED
  BY <1>2, <1>6, <1>9 DEF Outcome

\* A pop: its push was the line before.
LEMMA OutsidePop ==
    ASSUME Outside, bad' = bad, Line.op = "pop",
           If(Top("value"), Pop(Step1(cpu)))
    PROVE  Outcome /\ (Last(Stack).of # {} => bad)
<1> DEFINE c == Step1(cpu)
<1>1. PICK below \in Seq(StackSet), v \in ValueSet :
        /\ (IF cpu.s THEN cpu.ss ELSE cpu.us) = Append(below, v)
        /\ v.of # {} => bad
        /\ At(code, bad, cpu.r, cpu.i + 1, cpu.s, IF cpu.s THEN below ELSE cpu.ss,
                                                  IF cpu.s THEN cpu.us ELSE below)
  BY AtPop, SMTT(30) DEF Outside, Line
<1>2. cpu \in CpuSet /\ cpu.state = "run" /\ cpu.s \in BOOLEAN /\ bad \in BOOLEAN
  BY DEF Outside, CpuSet
<1>3. v \in StackSet /\ v.is = "value"
  BY DEF StackSet, ValueSet
<1>4. Stack # <<>> /\ Last(Stack) = v /\ Front(Stack) = below
  <2>1. Stack = Append(below, v)
    BY <1>1 DEF Stack
  <2> QED
    BY <1>3, <2>1, StackTop
<1>5. cpu' = Set(c, below)
  BY <1>3, <1>4 DEF If, Top, Pop
<1>6. c \in CpuSet /\ c.r = cpu.r /\ c.i = cpu.i + 1 /\ c.s = cpu.s /\ c.ss = cpu.ss
      /\ c.us = cpu.us /\ c.state = cpu.state
  BY <1>2, Stepped
<1> HIDE DEF c
<1>7. /\ cpu' \in CpuSet /\ cpu'.r = cpu.r /\ cpu'.i = cpu.i + 1 /\ cpu'.s = cpu.s
      /\ cpu'.ss = (IF cpu.s THEN below ELSE cpu.ss)
      /\ cpu'.us = (IF cpu.s THEN cpu.us ELSE below)
      /\ cpu'.state = "run"
  BY <1>2, <1>5, <1>6, StackIsSet
<1>8. At(code, bad, cpu.r, cpu.i + 1, cpu.s, cpu'.ss, cpu'.us)
  <2>1. CASE cpu.s
    BY <1>1, <1>7, <2>1
  <2>2. CASE ~cpu.s
    BY <1>1, <1>7, <2>2
  <2> QED
    BY <2>1, <2>2
<1> QED
  BY <1>1, <1>2, <1>4, <1>7, <1>8 DEF Outcome

\* Into user mode.
LEMMA OutsideUser ==
    ASSUME Outside, bad' = bad, Line.op = "user",
           If(cpu.s, [Step1(cpu) EXCEPT !.s = FALSE])
    PROVE  Outcome
<1> DEFINE c == Step1(cpu)
           e == [c EXCEPT !.s = FALSE]
<1>1. cpu.s /\ At(code, bad, cpu.r, cpu.i + 1, FALSE, cpu.ss, cpu.us)
  BY AtUser DEF Outside, Line
<1>2. cpu \in CpuSet /\ cpu.state = "run" /\ bad \in BOOLEAN
  BY DEF Outside
<1>3. cpu' = e
  BY <1>1 DEF If
<1>4. c \in CpuSet /\ c.r = cpu.r /\ c.i = cpu.i + 1 /\ c.ss = cpu.ss
      /\ c.us = cpu.us /\ c.state = cpu.state
  BY <1>2, Stepped
<1> HIDE DEF c
<1>5. /\ e \in CpuSet /\ e.r = cpu.r /\ e.i = cpu.i + 1 /\ e.ss = cpu.ss
      /\ e.us = cpu.us /\ e.state = cpu.state /\ e.s = FALSE
  BY <1>4 DEF CpuSet
<1> HIDE DEF e
<1> QED
  BY <1>1, <1>2, <1>3, <1>5 DEF Outcome

\* A trap: its handler runs in supervisor mode, on the frame.
LEMMA OutsideTrap ==
    ASSUME Outside, bad' = bad, Line.op = "trap",
           cpu' = Except(cpu, Line.to, Behind)
    PROVE  Outcome
<1> DEFINE t == code[cpu.r][cpu.i].to
           f == FrameOf(cpu, Behind)
<1>1. cpu \in CpuSet /\ cpu.state = "run" /\ bad \in BOOLEAN
  BY DEF Outside
<1>2. Behind \in Places /\ Behind = <<cpu.r, cpu.i + 1>>
  BY <1>1 DEF Behind, Places, CpuSet
<1>3. f \in FrameSet /\ f.s = cpu.s /\ f.back = <<cpu.r, cpu.i + 1>>
  BY <1>1, <1>2, FrameFacts
<1> HIDE DEF f
<1>4. t \in Routines /\ At(code, bad, t, 1, TRUE, Append(cpu.ss, f), cpu.us)
  <2>1. Complete(code) /\ At(code, bad, cpu.r, cpu.i, cpu.s, cpu.ss, cpu.us)
        /\ code[cpu.r][cpu.i].op = "trap"
    BY DEF Outside, Line
  <2> QED
    BY <1>3, <2>1, AtTrap
<1>5. cpu' = Except(cpu, t, Behind)
  BY DEF Line
<1> HIDE DEF t
<1>6. /\ cpu' \in CpuSet /\ cpu'.r = t /\ cpu'.i = 1 /\ cpu'.s
      /\ cpu'.ss = Append(cpu.ss, f) /\ cpu'.us = cpu.us
      /\ cpu'.state = cpu.state
  <2> DEFINE p == Behind
             e == Except(cpu, t, p)
  <2>1. cpu \in CpuSet /\ t \in Routines /\ p \in Places
    BY <1>1, <1>2, <1>4
  <2> HIDE DEF p
  <2>2. e \in CpuSet
    BY <2>1, Excepted
  <2>3. e.r = t /\ e.i = 1
    BY <2>1, Excepted
  <2>4. e.s
    BY <2>1, Excepted
  <2>5. e.ss = Append(cpu.ss, FrameOf(cpu, p)) /\ e.us = cpu.us
    BY <2>1, Excepted
  <2>6. e.state = cpu.state
    BY <2>1, Excepted
  <2> QED
    BY <1>5, <2>2, <2>3, <2>4, <2>5, <2>6 DEF f, p
<1>7. cpu'.s = TRUE
  BY <1>6 DEF CpuSet
<1> QED
  BY <1>1, <1>4, <1>6, <1>7 DEF Outcome

\* A call: the subroutine runs in the caller's mode, on the return address.
LEMMA OutsideBsr ==
    ASSUME Outside, bad' = bad, Line.op = "bsr",
           cpu' = Jump(Push(cpu, [is |-> "return", to |-> Behind]), <<Line.to, 1>>)
    PROVE  Outcome
<1> DEFINE t == code[cpu.r][cpu.i].to
           x == [is |-> "return", to |-> Behind]
           n == Append(Stack, x)
           c == Set(cpu, n)
<1>1. cpu \in CpuSet /\ cpu.state = "run" /\ cpu.s \in BOOLEAN /\ bad \in BOOLEAN
  BY DEF Outside, CpuSet
<1>2. Behind \in Places /\ Behind = <<cpu.r, cpu.i + 1>>
  BY <1>1 DEF Behind, Places, CpuSet
<1>3. x \in StackSet /\ x = [is |-> "return", to |-> <<cpu.r, cpu.i + 1>>]
  BY <1>2 DEF StackSet, ReturnSet
<1> HIDE DEF x
<1>4. /\ t \in Routines
      /\ At(code, bad, t, 1, cpu.s, IF cpu.s THEN Append(cpu.ss, x) ELSE cpu.ss,
                                    IF cpu.s THEN cpu.us ELSE Append(cpu.us, x))
  BY <1>3, AtBsr DEF Outside, Line
<1>5. n \in Seq(StackSet) /\ (cpu.s => n = Append(cpu.ss, x)) /\ (~cpu.s => n = Append(cpu.us, x))
  <2>1. Stack \in Seq(StackSet)
    BY <1>1 DEF Stack, CpuSet
  <2>2. n \in Seq(StackSet)
    BY <1>3, <2>1, AppendProperties
  <2> QED
    BY <2>2 DEF Stack
<1> HIDE DEF n
<1>6. /\ c \in CpuSet /\ c.s = cpu.s
      /\ c.ss = (IF cpu.s THEN n ELSE cpu.ss)
      /\ c.us = (IF cpu.s THEN cpu.us ELSE n)
      /\ c.state = cpu.state
  BY <1>1, <1>5, StackIsSet
<1>7. cpu' = Jump(c, <<t, 1>>)
  BY DEF Push, Line, n, x
<1> HIDE DEF c
<1>8. <<t, 1>> \in Places /\ <<t, 1>>[1] = t /\ <<t, 1>>[2] = 1
  BY <1>4 DEF Places
<1>9. /\ cpu' \in CpuSet /\ cpu'.r = t /\ cpu'.i = 1 /\ cpu'.s = cpu.s
      /\ cpu'.ss = (IF cpu.s THEN n ELSE cpu.ss)
      /\ cpu'.us = (IF cpu.s THEN cpu.us ELSE n)
      /\ cpu'.state = "run"
  BY <1>1, <1>6, <1>7, <1>8, Jumped
<1> HIDE DEF t
<1>10. At(code, bad, t, 1, cpu.s, cpu'.ss, cpu'.us)
  <2>1. CASE cpu.s
    BY <1>4, <1>5, <1>9, <2>1
  <2>2. CASE ~cpu.s
    BY <1>4, <1>5, <1>9, <2>2
  <2> QED
    BY <2>1, <2>2
<1> QED
  BY <1>1, <1>9, <1>10 DEF Outcome

\* A subroutine returns behind its call.
LEMMA OutsideRts ==
    ASSUME Outside, bad' = bad, Line.op = "rts",
           If(Top("return"), Jump(Pop(cpu), Last(Stack).to))
    PROVE  Outcome
<1> DEFINE c == Set(cpu, <<>>)
<1>1. cpu \in CpuSet /\ cpu.state = "run" /\ cpu.s \in BOOLEAN /\ bad \in BOOLEAN
  BY DEF Outside, CpuSet
<1>2. PICK x \in ReturnSet :
        /\ x.is = "return" /\ (IF cpu.s THEN cpu.ss ELSE cpu.us) = <<x>>
        /\ At(code, bad, x.to[1], x.to[2], cpu.s, <<>>, <<>>)
  BY AtRts DEF Outside, Line
<1>3. Stack # <<>> /\ Last(Stack) = x /\ Front(Stack) = <<>>
  <2>1. x \in StackSet /\ <<>> \in Seq(StackSet)
    BY DEF StackSet
  <2>2. Stack = Append(<<>>, x)
    BY <1>2, <2>1, StackTop DEF Stack
  <2> DEFINE z == <<>>
  <2>3. z \in Seq(StackSet) /\ Stack = Append(z, x)
    BY <2>1, <2>2
  <2> HIDE DEF z
  <2>4. Stack # <<>> /\ Last(Stack) = x /\ Front(Stack) = z
    BY <2>1, <2>3, StackTop
  <2> QED
    BY <2>4 DEF z
<1>4. x.to \in Places
  BY DEF ReturnSet
<1>5. cpu' = Jump(c, x.to)
  BY <1>2, <1>3 DEF If, Top, Pop
<1>6. <<>> \in Seq(StackSet) /\ (IF cpu.s THEN cpu.us ELSE cpu.ss) = <<>>
  BY AtLine DEF Outside, Stands
<1>7. /\ c \in CpuSet /\ c.s = cpu.s
      /\ c.ss = (IF cpu.s THEN <<>> ELSE cpu.ss)
      /\ c.us = (IF cpu.s THEN cpu.us ELSE <<>>)
      /\ c.state = cpu.state
  BY <1>1, <1>6, StackIsSet
<1> HIDE DEF c
<1>8. c.ss = <<>> /\ c.us = <<>>
  BY <1>6, <1>7
<1>9. /\ cpu' \in CpuSet /\ cpu'.r = x.to[1] /\ cpu'.i = x.to[2] /\ cpu'.s = cpu.s
      /\ cpu'.ss = <<>> /\ cpu'.us = <<>> /\ cpu'.state = "run"
  BY <1>1, <1>4, <1>5, <1>7, <1>8, Jumped
<1> QED
  BY <1>1, <1>2, <1>9 DEF Outcome

\* What an rte does with the frame on top of the stack.
AfterRte(c, f) == [Jump(c, f.back) EXCEPT !.s = f.s, !.masked = f.masked]

\* The registers after an rte.
LEMMA RteFields ==
    ASSUME NEW c \in CpuSet, NEW f \in FrameSet
    PROVE  /\ AfterRte(c, f) \in CpuSet
           /\ AfterRte(c, f).r = f.back[1] /\ AfterRte(c, f).i = f.back[2]
           /\ AfterRte(c, f).s = f.s
           /\ AfterRte(c, f).ss = c.ss /\ AfterRte(c, f).us = c.us
           /\ AfterRte(c, f).state = c.state
<1> DEFINE e == AfterRte(c, f)
<1> DEFINE j == Jump(c, f.back)
<1>1. f.s \in BOOLEAN /\ f.masked \in BOOLEAN /\ f.back \in Places
  BY DEF FrameSet
<1>2. j \in CpuSet /\ j.r = f.back[1] /\ j.i = f.back[2] /\ j.ss = c.ss /\ j.us = c.us
      /\ j.state = c.state
  BY <1>1, Jumped
<1> HIDE DEF j
<1>3. e = [j EXCEPT !.s = f.s, !.masked = f.masked]
  BY DEF j, AfterRte
<1> HIDE DEF e
<1>4. /\ e \in CpuSet /\ e.r = j.r /\ e.i = j.i /\ e.s = f.s
      /\ e.ss = j.ss /\ e.us = j.us /\ e.state = j.state
  BY <1>1, <1>2, <1>3 DEF CpuSet
<1> QED
  BY <1>2, <1>4 DEF e

\* A trap handler returns behind the trap, in the mode its frame holds.
LEMMA OutsideRte ==
    ASSUME Outside, bad' = bad, Line.op = "rte",
           If(cpu.s /\ Top("frame"),
              [Jump(Pop(cpu), Last(Stack).back) EXCEPT !.s = Last(Stack).s,
                                                       !.masked = Last(Stack).masked])
    PROVE  Outcome
<1> DEFINE c == Set(cpu, <<>>)
<1>1. cpu \in CpuSet /\ cpu.state = "run" /\ bad \in BOOLEAN
  BY DEF Outside
<1>2. cpu.s /\ cpu.us = <<>>
  BY AtRte DEF Outside, Line
<1>3. PICK f \in FrameSet :
        cpu.ss = <<f>> /\ At(code, bad, f.back[1], f.back[2], f.s, <<>>, <<>>)
  BY AtRte DEF Outside, Line
<1>4. Stack # <<>> /\ Last(Stack) = f /\ Front(Stack) = <<>> /\ f.is = "frame"
  <2>1. f \in StackSet /\ <<>> \in Seq(StackSet)
    BY DEF StackSet
  <2>2. Stack = Append(<<>>, f)
    <3>1. <<f>> = Append(<<>>, f)
      BY <2>1, StackTop
    <3> QED
      BY <1>2, <1>3, <3>1 DEF Stack
  <2> DEFINE z == <<>>
  <2>3. f \in StackSet /\ z \in Seq(StackSet) /\ Stack = Append(z, f)
    BY <2>1, <2>2
  <2> HIDE DEF z
  <2>4. Stack # <<>> /\ Last(Stack) = f /\ Front(Stack) = z
    BY <2>3, StackTop
  <2>5. f.is = "frame"
    BY DEF FrameSet
  <2> QED
    BY <2>4, <2>5 DEF z
<1>5. cpu' = AfterRte(c, f)
  BY <1>2, <1>4 DEF If, Top, Pop, AfterRte
<1>6. c \in CpuSet /\ c.ss = <<>> /\ c.us = <<>> /\ c.state = "run"
  <2>1. <<>> \in Seq(StackSet)
    OBVIOUS
  <2>2. /\ c \in CpuSet /\ c.ss = (IF cpu.s THEN <<>> ELSE cpu.ss)
        /\ c.us = (IF cpu.s THEN cpu.us ELSE <<>>) /\ c.state = cpu.state
    BY <1>1, <2>1, StackIsSet
  <2> QED
    BY <1>1, <1>2, <2>2
<1> HIDE DEF c
<1>7. /\ cpu' \in CpuSet /\ cpu'.r = f.back[1] /\ cpu'.i = f.back[2] /\ cpu'.s = f.s
      /\ cpu'.ss = <<>> /\ cpu'.us = <<>> /\ cpu'.state = "run"
  <2> DEFINE e == AfterRte(c, f)
  <2>1. e \in CpuSet /\ e.r = f.back[1] /\ e.i = f.back[2]
    BY <1>6, RteFields
  <2>2. e.s = f.s
    BY <1>6, RteFields
  <2>3. e.ss = c.ss /\ e.us = c.us /\ e.state = c.state
    BY <1>6, RteFields
  <2> HIDE DEF e
  <2> QED
    BY <1>5, <1>6, <2>1, <2>2, <2>3 DEF e
<1> QED
  BY <1>1, <1>3, <1>7 DEF Outcome

\* TRAP 15's handler makes its frame a supervisor-mode one.
LEMMA OutsideSetS ==
    ASSUME Outside, bad' = bad, Line.op = "set_S",
           If(Top("frame"),
              Set(Step1(cpu), Append(Front(Stack), [Last(Stack) EXCEPT !.s = TRUE])))
    PROVE  Outcome
<1> DEFINE c == Step1(cpu)
<1>1. cpu \in CpuSet /\ cpu.state = "run" /\ bad \in BOOLEAN
  BY DEF Outside
<1>a. Complete(code) /\ At(code, bad, cpu.r, cpu.i, cpu.s, cpu.ss, cpu.us)
      /\ code[cpu.r][cpu.i].op = "set_S"
  BY DEF Outside, Line
<1>2. cpu.s /\ cpu.us = <<>>
  BY <1>a, AtFrame
<1>3. PICK f \in FrameSet :
        cpu.ss = <<f>> /\ LeavesUser(code, bad, cpu.r, cpu.i, f)
  BY <1>a, AtFrame
<1> DEFINE g == [f EXCEPT !.s = TRUE]
<1>4. Stack # <<>> /\ Last(Stack) = f /\ Front(Stack) = <<>> /\ f.is = "frame"
  <2>1. f \in StackSet /\ <<>> \in Seq(StackSet)
    BY DEF StackSet
  <2>2. Stack = Append(<<>>, f)
    <3>1. <<f>> = Append(<<>>, f)
      BY <2>1, StackTop
    <3> QED
      BY <1>2, <1>3, <3>1 DEF Stack
  <2> DEFINE z == <<>>
  <2>3. f \in StackSet /\ z \in Seq(StackSet) /\ Stack = Append(z, f)
    BY <2>1, <2>2
  <2> HIDE DEF z
  <2>4. Stack # <<>> /\ Last(Stack) = f /\ Front(Stack) = z
    BY <2>3, StackTop
  <2>5. f.is = "frame"
    BY DEF FrameSet
  <2> QED
    BY <2>4, <2>5 DEF z
<1>5. g \in FrameSet /\ g.s /\ g.back = f.back
  BY DEF FrameSet
<1>6. cpu' = Set(c, Append(<<>>, g))
  BY <1>4 DEF If, Top
<1> HIDE DEF g
<1>7. Append(<<>>, g) = <<g>> /\ <<g>> \in Seq(StackSet)
  <2>1. g \in StackSet /\ <<>> \in Seq(StackSet)
    BY <1>5 DEF StackSet
  <2> QED
    BY <2>1, StackTop
<1>8. c \in CpuSet /\ c.r = cpu.r /\ c.i = cpu.i + 1 /\ c.s = cpu.s /\ c.us = cpu.us
      /\ c.state = cpu.state
  BY <1>1, Stepped
<1> HIDE DEF c
<1>9. /\ cpu' \in CpuSet /\ cpu'.r = c.r /\ cpu'.i = c.i /\ cpu'.s = c.s
      /\ cpu'.ss = (IF cpu.s THEN <<g>> ELSE c.ss)
      /\ cpu'.us = (IF cpu.s THEN c.us ELSE <<g>>)
      /\ cpu'.state = c.state
  <2> DEFINE t == <<g>>
  <2>1. cpu \in CpuSet /\ c \in CpuSet /\ t \in Seq(StackSet) /\ cpu' = Set(c, t)
    BY <1>1, <1>6, <1>7, <1>8
  <2> HIDE DEF t
  <2>2. cpu' \in CpuSet /\ cpu'.r = c.r /\ cpu'.i = c.i
    BY <2>1, StackIsSet
  <2>3. cpu'.s = c.s
    BY <2>1, StackIsSet
  <2>4. cpu'.ss = (IF cpu.s THEN t ELSE c.ss) /\ cpu'.us = (IF cpu.s THEN c.us ELSE t)
    BY <2>1, StackIsSet
  <2>5. cpu'.state = c.state
    BY <2>1, StackIsSet
  <2> QED
    BY <2>2, <2>3, <2>4, <2>5 DEF t
<1>10. At(code, bad, cpu.r, cpu.i + 1, TRUE, <<g>>, <<>>)
  BY <1>3, <1>5 DEF LeavesUser
<1>11. cpu.s = TRUE
  BY <1>1, <1>2 DEF CpuSet
<1>12. cpu'.r = cpu.r /\ cpu'.i = cpu.i + 1 /\ cpu'.s = TRUE /\ cpu'.ss = <<g>> /\ cpu'.us = <<>>
       /\ cpu'.state = "run"
  BY <1>1, <1>2, <1>8, <1>9, <1>11
<1> QED
  BY <1>1, <1>9, <1>10, <1>12 DEF Outcome

\* The lines behind the main body: none of them is met in user mode.
LEMMA OutsideFinish ==
    ASSUME Outside, Finish
    PROVE  Outcome /\ differ' = differ /\ bad' = bad /\ (differ = {} /\ dump = {} => dump' = {})
<1> DEFINE c == Step1(cpu)
<1>1. cpu \in CpuSet /\ cpu.state = "run" /\ bad \in BOOLEAN
  BY DEF Outside
<1>2. c \in CpuSet /\ c.r = cpu.r /\ c.i = cpu.i + 1 /\ c.s = cpu.s /\ c.ss = cpu.ss
      /\ c.us = cpu.us /\ c.state = cpu.state
  BY <1>1, Stepped
<1> HIDE DEF c
<1>3. differ' = differ /\ bad' = bad
  BY DEF Finish
<1>4. CASE Line.op = "mask" /\ If(cpu.s, [c EXCEPT !.masked = TRUE]) /\ dump' = dump
  <2> DEFINE e == [c EXCEPT !.masked = TRUE]
  <2>1. /\ e \in CpuSet /\ e.r = c.r /\ e.i = c.i /\ e.s = c.s /\ e.ss = c.ss
        /\ e.us = c.us /\ e.state = c.state
    BY <1>2 DEF CpuSet
  <2>2. cpu.s
    <3>1. code[cpu.r][cpu.i].op \in MainOps
      BY <1>4 DEF MainOps, Line
    <3>2. (cpu.s <=> ~UserAt(code[Main], cpu.i)) /\ LineRight(DOMAIN code, Main, code[Main], cpu.i)
          /\ cpu.r = Main
      BY <3>1, AtMainLine DEF Outside
    <3> QED
      BY <1>4, <3>2 DEF LineRight, Line
  <2>3. cpu' = e
    BY <1>4, <2>2 DEF If
  <2> HIDE DEF e
  <2>4. /\ cpu' \in CpuSet /\ cpu'.r = cpu.r /\ cpu'.i = cpu.i + 1 /\ cpu'.s = cpu.s
        /\ cpu'.ss = cpu.ss /\ cpu'.us = cpu.us /\ cpu'.state = "run"
    BY <1>1, <1>2, <2>1, <2>3
  <2>5. Outcome
    BY <1>1, <1>3, <1>4, <2>4, StepOn
  <2> QED
    BY <1>3, <1>4, <2>5
<1>5. CASE Line.op = "tst" /\ dump' = dump
           /\ cpu' = IF irqs = 0 THEN [cpu EXCEPT !.state = "irqnone"] ELSE c
  <2>1. CASE irqs = 0
    <3>1. cpu' \in CpuSet /\ cpu'.state = "irqnone"
      BY <1>1, <1>5, <2>1 DEF CpuSet
    <3> QED
      BY <1>1, <1>3, <1>5, <3>1 DEF Outcome
  <2>2. CASE irqs # 0
    <3>1. cpu' = c
      BY <1>5, <2>2
    <3>2. Outcome
      BY <1>1, <1>2, <1>3, <1>5, <3>1, StepOn
    <3> QED
      BY <1>3, <1>5, <3>2
  <2> QED
    BY <2>1, <2>2
<1>6. CASE Line.op = "dump" /\ dump' = differ \cap {"lo", "d"} /\ cpu' = c
  <2>1. Outcome
    BY <1>1, <1>2, <1>3, <1>6, StepOn
  <2> QED
    BY <1>3, <1>6, <2>1
<1>7. CASE Line.op = "privileged" /\ If(cpu.s, c) /\ dump' = dump
  <2>1. cpu.s
    <3>1. code[cpu.r][cpu.i].op \in MainOps
      BY <1>7 DEF MainOps, Line
    <3>2. (cpu.s <=> ~UserAt(code[Main], cpu.i)) /\ LineRight(DOMAIN code, Main, code[Main], cpu.i)
          /\ cpu.r = Main
      BY <3>1, AtMainLine DEF Outside
    <3> QED
      BY <1>7, <3>2 DEF LineRight, Line
  <2>2. cpu' = c
    BY <1>7, <2>1 DEF If
  <2>3. Outcome
    BY <1>1, <1>2, <1>3, <1>7, <2>2, StepOn
  <2> QED
    BY <1>3, <1>7, <2>3
<1>8. CASE Line.op = "halt" /\ cpu' = [cpu EXCEPT !.state = "halt"] /\ dump' = dump
  <2>1. cpu.s /\ cpu.ss = <<>> /\ cpu.us = <<>>
    <3>1. code[cpu.r][cpu.i].op \in MainOps
      BY <1>8 DEF MainOps, Line
    <3>2. (cpu.s <=> ~UserAt(code[Main], cpu.i)) /\ LineRight(DOMAIN code, Main, code[Main], cpu.i)
          /\ cpu.r = Main /\ cpu.ss = <<>> /\ cpu.us = <<>>
      BY <3>1, AtMainLine DEF Outside
    <3> QED
      BY <1>8, <3>2 DEF LineRight, Line
  <2>2. cpu' \in CpuSet /\ cpu'.state = "halt" /\ cpu'.s = cpu.s /\ cpu'.ss = cpu.ss
        /\ cpu'.us = cpu.us
    BY <1>1, <1>8 DEF CpuSet
  <2> QED
    BY <1>1, <1>3, <1>8, <2>1, <2>2 DEF Outcome
<1> QED
  BY <1>4, <1>5, <1>6, <1>7, <1>8 DEF Finish, Go, c

\* The random mix outside the handler.
LEMMA OutsideData ==
    ASSUME Outside, Data, ~bad => differ = {}
    PROVE  Outcome /\ (irq => bad' = bad) /\ (~bad' => ~bad /\ differ' = {})
<1>1. bad \in BOOLEAN
  BY DEF Outside
<1>2. CASE Line.op = "alu" /\ UNCHANGED <<differ, bad>> /\ Go
  <2>1. Outcome
    BY <1>1, <1>2, OutsideAlu DEF PlainOps
  <2> QED
    BY <1>2, <2>1
<1>3. CASE Line.op = "load" /\ differ' \in Move(Line.part, "d") /\ UNCHANGED bad /\ Go
  <2>1. Outcome
    BY <1>1, <1>3, OutsideAlu DEF PlainOps
  <2> QED
    BY <1>3, <2>1 DEF Move
<1>4. CASE Line.op = "store" /\ Go /\ differ' \in Move("d", Line.part) /\ UNCHANGED bad
  <2>1. Outcome
    BY <1>1, <1>4, OutsideAlu DEF PlainOps
  <2> QED
    BY <1>4, <2>1 DEF Move
<1>5. CASE Line.op = "store" /\ Go /\ ~bad /\ ~irq /\ bad' = TRUE
  <2>1. Outcome
    BY <1>1, <1>5, OutsideAlu DEF PlainOps
  <2> QED
    BY <1>5, <2>1
<1>6. CASE Line.op = "set_d7" /\ differ' = differ \ {"d7"} /\ UNCHANGED bad /\ Go
  <2>1. Outcome
    BY <1>1, <1>6, OutsideAlu DEF PlainOps
  <2> QED
    BY <1>6, <2>1
<1>7. CASE /\ Line.op = "copy" /\ UNCHANGED bad /\ Go
           /\ \E from, to \in {"lo", "hi"} :
                differ' \in IF "d7" \in differ THEN {(differ \ {"d7"}) \cup {to}}
                            ELSE Move(from, to)
  <2>1. Outcome
    BY <1>1, <1>7, OutsideAlu DEF PlainOps
  <2>2. differ = {} => differ' = {}
    BY <1>7 DEF Move
  <2> QED
    BY <1>7, <2>1, <2>2
<1>8. CASE /\ Line.op = "push" /\ UNCHANGED <<differ, bad>>
           /\ cpu' = Push(Step1(cpu), [is |-> "value", of |-> differ \cap {"d"}])
  <2>1. Outcome
    BY <1>8, OutsidePush
  <2> QED
    BY <1>8, <2>1
<1>9. CASE /\ Line.op = "pop" /\ UNCHANGED bad
           /\ differ' \in IF Top("value") /\ Last(Stack).of # {} THEN {differ, differ \cup {"d"}}
                          ELSE {differ}
           /\ If(Top("value"), Pop(Step1(cpu)))
  <2>1. Outcome /\ (Last(Stack).of # {} => bad)
    BY <1>9, OutsidePop
  <2> QED
    BY <1>9, <2>1
<1> QED
  BY <1>2, <1>3, <1>4, <1>5, <1>6, <1>7, <1>8, <1>9 DEF Data

\* Calls, traps and returns outside the handler.
LEMMA OutsideControl ==
    ASSUME Outside, Control
    PROVE  Outcome /\ differ' = differ /\ bad' = bad
<1>1. differ' = differ /\ bad' = bad
  BY DEF Control
<1>2. CASE Line.op = "trap" /\ cpu' = Except(cpu, Line.to, Behind)
  BY <1>1, <1>2, OutsideTrap
<1>3. CASE /\ Line.op = "bsr"
           /\ cpu' = Jump(Push(cpu, [is |-> "return", to |-> Behind]), <<Line.to, 1>>)
  BY <1>1, <1>3, OutsideBsr
<1>4. CASE Line.op = "rts" /\ If(Top("return"), Jump(Pop(cpu), Last(Stack).to))
  BY <1>1, <1>4, OutsideRts
<1>5. CASE Line.op = "user" /\ If(cpu.s, [Step1(cpu) EXCEPT !.s = FALSE])
  BY <1>1, <1>5, OutsideUser
<1>6. CASE /\ Line.op = "rte"
           /\ If(cpu.s /\ Top("frame"),
                 [Jump(Pop(cpu), Last(Stack).back) EXCEPT !.s = Last(Stack).s,
                                                          !.masked = Last(Stack).masked])
  BY <1>1, <1>6, OutsideRte
<1>7. CASE /\ Line.op = "set_S"
           /\ If(Top("frame"),
                 Set(Step1(cpu), Append(Front(Stack), [Last(Stack) EXCEPT !.s = TRUE])))
  BY <1>1, <1>7, OutsideSetS
<1> QED
  BY <1>2, <1>3, <1>4, <1>5, <1>6, <1>7 DEF Control

\* Every line outside the handler.
LEMMA OutsideStep ==
    ASSUME Outside, Execute, ~bad => differ = {}
    PROVE  /\ Outcome /\ (irq => bad' = bad) /\ (~bad' => ~bad /\ differ' = {})
           /\ ~bad' /\ dump = {} => dump' = {}
<1>1. bad \in BOOLEAN
  BY DEF Outside
<1>2. CASE Data /\ UNCHANGED <<irqs, dump>>
  BY <1>2, OutsideData
<1>3. CASE Control /\ UNCHANGED <<irqs, dump>>
  BY <1>3, OutsideControl
<1>4. CASE Handler /\ UNCHANGED dump
  <2>1. Line.op \in {"save", "work", "restore"}
    BY <1>4 DEF Handler
  <2>2. Line.op \in OpNames \cup {"set_S"}
    BY AtOps DEF Outside, Line
  <2>3. {"save", "work", "restore"} \cap (OpNames \cup {"set_S"}) = {}
    BY DEF OpNames, BodyOps, MainOps, PlainOps
  <2> QED
    BY <2>1, <2>2, <2>3
<1>5. CASE Finish
  BY <1>5, OutsideFinish
<1> QED
  BY <1>2, <1>3, <1>4, <1>5 DEF Execute

----------------------------------------------------------------------------
(* The interrupt handler *)

\* The interrupt handler's lines (gen.py:170-186).
LEMMA HandlerLines ==
    ASSUME NEW c, Complete(c)
    PROVE  /\ c[Irq2][1].op = "save" /\ c[Irq2][2].op = "work"
           /\ c[Irq2][3].op = "restore" /\ c[Irq2][4].op = "rte"
<1> DEFINE d == <<Op("save"), Op("work"), Op("restore"), Op("rte")>>
<1>1. d[1].op = "save" /\ d[2].op = "work" /\ d[3].op = "restore" /\ d[4].op = "rte"
  BY DEF Op
<1>2. c[Irq2] = d
  BY DEF Complete
<1> HIDE DEF d
<1> QED
  BY <1>1, <1>2

\* What the handler was entered from is all that is below its frame.
LEMMA HandlerAt ==
    ASSUME NEW c, NEW p, p.r = Irq2, p.s, p.masked,
           NEW f \in FrameSet, NEW ss \in Seq(StackSet), NEW g \in RegsSet, g.of = {},
           \/ p.i = 1 /\ p.ss = Append(ss, f)
           \/ p.i = 2 /\ p.ss = Append(Append(ss, f), g)
           \/ p.i = 3 /\ p.ss = Append(Append(ss, f), g)
           \/ p.i = 4 /\ p.ss = Append(ss, f),
           At(c, FALSE, f.back[1], f.back[2], f.s, ss, p.us)
    PROVE  InHandler(c, FALSE, p)
<1>1. p.i \in 1..4
  OBVIOUS
<1>2. p.ss = IF p.i \in {2, 3} THEN Append(Append(ss, f), g) ELSE Append(ss, f)
  <2> DEFINE x == Append(ss, f)
             y == Append(x, g)
  <2>1. \/ p.i = 1 /\ p.ss = x
        \/ p.i = 2 /\ p.ss = y
        \/ p.i = 3 /\ p.ss = y
        \/ p.i = 4 /\ p.ss = x
    OBVIOUS
  <2> HIDE DEF x, y
  <2>2. p.ss = IF p.i \in {2, 3} THEN y ELSE x
    BY <2>1
  <2> QED
    BY <2>2 DEF x, y
<1> QED
  BY <1>1, <1>2 DEF InHandler

\* The handler is entered at a place it comes back to.
LEMMA InterruptEnters ==
    ASSUME Outside, ~bad, cpu' = [Except(cpu, Irq2, <<cpu.r, cpu.i>>) EXCEPT !.masked = TRUE]
    PROVE  /\ cpu' \in CpuSet /\ cpu'.state = "run" /\ cpu'.r = Irq2 /\ cpu'.i = 1
           /\ InHandler(code, FALSE, cpu')
<1> DEFINE p == <<cpu.r, cpu.i>>
           e == Except(cpu, Irq2, p)
           f == FrameOf(cpu, p)
<1>1. cpu \in CpuSet /\ cpu.state = "run" /\ cpu.ss \in Seq(StackSet)
  BY DEF Outside, CpuSet
<1>2. p \in Places /\ p[1] = cpu.r /\ p[2] = cpu.i /\ Irq2 \in Routines
  BY <1>1 DEF CpuSet, Places, Routines
<1>3. cpu' = [e EXCEPT !.masked = TRUE]
  OBVIOUS
<1> HIDE DEF p
<1>4. f \in FrameSet /\ f.s = cpu.s /\ f.back = p
  BY <1>1, <1>2, FrameFacts
<1>5. e \in CpuSet /\ e.r = Irq2 /\ e.i = 1 /\ e.us = cpu.us /\ e.state = cpu.state
  BY <1>1, <1>2, Excepted
<1>6. e.s /\ e.ss = Append(cpu.ss, f)
  BY <1>1, <1>2, Excepted
<1> HIDE DEF e, f
<1>7. /\ cpu' \in CpuSet /\ cpu'.r = Irq2 /\ cpu'.i = 1 /\ cpu'.us = cpu.us
      /\ cpu'.state = "run" /\ cpu'.s /\ cpu'.masked /\ cpu'.ss = Append(cpu.ss, f)
  BY <1>1, <1>3, <1>5, <1>6 DEF CpuSet
<1>8. At(code, bad, cpu.r, cpu.i, cpu.s, cpu.ss, cpu.us)
  BY DEF Outside
<1>9. At(code, FALSE, f.back[1], f.back[2], f.s, cpu.ss, cpu'.us)
  <2>a. bad = FALSE
    BY DEF Outside
  <2>1. At(code, FALSE, cpu.r, cpu.i, cpu.s, cpu.ss, cpu.us)
    BY <1>8, <2>a
  <2> QED
    BY <1>2, <1>4, <1>7, <2>1
<1> DEFINE g == [is |-> "regs", of |-> {}]
<1>10. g \in RegsSet /\ g.of = {}
  BY DEF RegsSet
<1> HIDE DEF g
<1>11. InHandler(code, FALSE, cpu')
  BY <1>1, <1>4, <1>7, <1>9, <1>10, HandlerAt
<1> QED
  BY <1>7, <1>11

\* A step in the handler: the registers it changes are saved before and restored
\* behind, and it goes back to where it came from.
LEMMA HandlerSteps ==
    ASSUME Complete(code), cpu \in CpuSet, cpu.state = "run", bad = FALSE, Execute,
           InHandler(code, FALSE, cpu),
           differ \subseteq IF cpu.i = 3 THEN Registers ELSE {}
    PROVE  /\ cpu' \in CpuSet /\ cpu'.state = "run" /\ bad' = FALSE /\ dump' = dump
           /\ \/ /\ At(code, FALSE, cpu'.r, cpu'.i, cpu'.s, cpu'.ss, cpu'.us)
                 /\ differ' = {}
              \/ /\ InHandler(code, FALSE, cpu')
                 /\ differ' \subseteq IF cpu'.i = 3 THEN Registers ELSE {}
<1>1. PICK f \in FrameSet, ss \in Seq(StackSet), g \in RegsSet :
        /\ cpu.ss = IF cpu.i \in {2, 3} THEN Append(Append(ss, f), g) ELSE Append(ss, f)
        /\ g.of # {} => FALSE
        /\ At(code, FALSE, f.back[1], f.back[2], f.s, ss, cpu.us)
  BY DEF InHandler
<1>2. cpu.r = Irq2 /\ cpu.i \in 1..4 /\ cpu.s /\ cpu.masked
  BY DEF InHandler
<1>3. /\ f \in StackSet /\ g \in StackSet /\ g.of = {} /\ g.is = "regs" /\ f.is = "frame"
      /\ Append(ss, f) \in Seq(StackSet)
  <2>1. f \in StackSet /\ g \in StackSet
    BY DEF StackSet
  <2>2. g.of = {} /\ g.is = "regs" /\ f.is = "frame"
    BY <1>1 DEF RegsSet, FrameSet
  <2>3. Append(ss, f) \in Seq(StackSet)
    BY <2>1, StackTop
  <2> QED
    BY <2>1, <2>2, <2>3
<1>4. Stack = cpu.ss
  BY <1>2 DEF Stack
<1>5. /\ code[Irq2][1].op = "save" /\ code[Irq2][2].op = "work"
      /\ code[Irq2][3].op = "restore" /\ code[Irq2][4].op = "rte"
  BY HandlerLines
<1> DEFINE c == Step1(cpu)
<1>6. c \in CpuSet /\ c.r = cpu.r /\ c.i = cpu.i + 1 /\ c.s = cpu.s /\ c.ss = cpu.ss
      /\ c.us = cpu.us /\ c.state = cpu.state /\ c.masked = cpu.masked
  BY Stepped
<1> HIDE DEF c
<1>7. CASE cpu.i = 1
  <2>1. Line.op = "save"
    BY <1>2, <1>5, <1>7 DEF Line
  <2>2. /\ cpu' = Push(c, [is |-> "regs", of |-> differ])
        /\ bad' = FALSE /\ dump' = dump /\ differ' = {}
    <3>1. differ = {}
      BY <1>7
    <3> QED
      BY <2>1, <3>1 DEF Execute, Data, Control, Handler, Finish, c
  <2> DEFINE h == [is |-> "regs", of |-> {}]
             t == Append(cpu.ss, h)
  <2>3. h \in RegsSet /\ h \in StackSet /\ h.of = {}
    BY DEF StackSet, RegsSet
  <2>4. cpu' = Set(c, t)
    <3>1. differ = {}
      BY <1>7
    <3> QED
      BY <1>4, <2>2, <3>1 DEF Push
  <2> HIDE DEF h
  <2>5. cpu.ss = Append(ss, f) /\ cpu.ss \in Seq(StackSet)
    BY <1>1, <1>3, <1>7
  <2>6. t \in Seq(StackSet)
    BY <2>3, <2>5, StackTop
  <2> HIDE DEF t
  <2>7. /\ cpu' \in CpuSet /\ cpu'.r = Irq2 /\ cpu'.i = 2 /\ cpu'.ss = t /\ cpu'.us = cpu.us
        /\ cpu'.state = "run"
    BY <1>2, <1>6, <1>7, <2>4, <2>6, StackIsSet
  <2>8. cpu'.s /\ cpu'.masked
    BY <1>2, <1>6, <2>4, <2>6, StackIsSet
  <2>9. t = Append(Append(ss, f), h)
    BY <2>5 DEF t
  <2>10. InHandler(code, FALSE, cpu')
    BY <1>1, <2>3, <2>7, <2>8, <2>9, HandlerAt
  <2> QED
    BY <2>2, <2>7, <2>10
<1>8. CASE cpu.i = 2
  <2>1. Line.op = "work"
    BY <1>2, <1>5, <1>8 DEF Line
  <2>2. cpu' = c /\ bad' = FALSE /\ dump' = dump /\ differ' = differ \cup Registers
    BY <2>1 DEF Execute, Data, Control, Handler, Finish, Go, c
  <2>3. differ' \subseteq Registers
    BY <1>8, <2>2
  <2>4. /\ cpu' \in CpuSet /\ cpu'.r = Irq2 /\ cpu'.i = 3 /\ cpu'.ss = cpu.ss
        /\ cpu'.us = cpu.us /\ cpu'.state = "run"
    BY <1>2, <1>6, <1>8, <2>2
  <2>a. cpu'.s /\ cpu'.masked
    BY <1>2, <1>6, <2>2
  <2>5. cpu.ss = Append(Append(ss, f), g)
    BY <1>1, <1>8
  <2>6. InHandler(code, FALSE, cpu')
    BY <1>1, <1>3, <2>4, <2>a, <2>5, HandlerAt
  <2> QED
    BY <2>2, <2>3, <2>4, <2>6
<1>9. CASE cpu.i = 3
  <2>1. Line.op = "restore"
    BY <1>2, <1>5, <1>9 DEF Line
  <2>2. /\ bad' = FALSE /\ dump' = dump
        /\ differ' = (differ \ Saved) \cup (Last(Stack).of \cap Saved)
        /\ If(Top("regs"), Pop(c))
    BY <2>1 DEF Execute, Data, Control, Handler, Finish, c
  <2>3. Stack = Append(Append(ss, f), g)
    BY <1>1, <1>4, <1>9
  <2>4. Stack # <<>> /\ Last(Stack) = g /\ Front(Stack) = Append(ss, f)
    <3> DEFINE u == Append(ss, f)
    <3>1. u \in Seq(StackSet) /\ g \in StackSet /\ Stack = Append(u, g)
      BY <1>3, <2>3
    <3> HIDE DEF u
    <3>2. Stack # <<>> /\ Last(Stack) = g /\ Front(Stack) = u
      BY <3>1, StackTop
    <3> QED
      BY <3>2 DEF u
  <2>5. differ' = {}
    BY <1>3, <1>9, <2>2, <2>4 DEF Saved
  <2>6. cpu' = Set(c, Append(ss, f))
    BY <1>3, <2>2, <2>4 DEF If, Top, Pop
  <2> DEFINE t == Append(ss, f)
  <2>7. t \in Seq(StackSet) /\ cpu' = Set(c, t)
    BY <1>3, <2>6
  <2> HIDE DEF t
  <2>8. /\ cpu' \in CpuSet /\ cpu'.r = Irq2 /\ cpu'.i = 4 /\ cpu'.ss = t /\ cpu'.us = cpu.us
        /\ cpu'.state = "run"
    BY <1>2, <1>6, <1>9, <2>7, StackIsSet
  <2>9. cpu'.s /\ cpu'.masked
    BY <1>2, <1>6, <2>7, StackIsSet
  <2>10. InHandler(code, FALSE, cpu')
    BY <1>1, <1>3, <2>8, <2>9, HandlerAt DEF t
  <2> QED
    BY <2>2, <2>5, <2>8, <2>10
<1>10. CASE cpu.i = 4
  <2>1. Line.op = "rte"
    BY <1>2, <1>5, <1>10 DEF Line
  <2>2. /\ bad' = FALSE /\ dump' = dump /\ differ' = {}
        /\ If(cpu.s /\ Top("frame"),
              [Jump(Pop(cpu), Last(Stack).back) EXCEPT !.s = Last(Stack).s,
                                                       !.masked = Last(Stack).masked])
    <3>1. differ = {}
      BY <1>10
    <3> QED
      BY <2>1, <3>1 DEF Execute, Data, Control, Handler, Finish
  <2>3. Stack = Append(ss, f)
    BY <1>1, <1>4, <1>10
  <2>4. Stack # <<>> /\ Last(Stack) = f /\ Front(Stack) = ss
    BY <1>3, <2>3, StackTop
  <2> DEFINE d == Set(cpu, ss)
  <2>5. cpu' = AfterRte(d, f)
    BY <1>2, <1>3, <2>2, <2>4 DEF If, Top, Pop, AfterRte
  <2>6. d \in CpuSet /\ d.ss = ss /\ d.us = cpu.us /\ d.state = "run"
    BY <1>2, StackIsSet
  <2> HIDE DEF d
  <2> DEFINE e == AfterRte(d, f)
  <2>8. e \in CpuSet /\ e.r = f.back[1] /\ e.i = f.back[2]
    BY <2>6, RteFields
  <2>9. e.s = f.s
    BY <2>6, RteFields
  <2>10. e.ss = d.ss /\ e.us = d.us /\ e.state = d.state
    BY <2>6, RteFields
  <2>7. cpu' = e
    BY <2>5
  <2> HIDE DEF e
  <2>11. At(code, FALSE, e.r, e.i, e.s, e.ss, e.us)
    BY <1>1, <2>6, <2>8, <2>9, <2>10
  <2> QED
    BY <2>2, <2>6, <2>7, <2>8, <2>10, <2>11
<1>11. cpu.i = 1 \/ cpu.i = 2 \/ cpu.i = 3 \/ cpu.i = 4
  BY <1>2
<1> QED
  BY <1>7, <1>8, <1>9, <1>10, <1>11

----------------------------------------------------------------------------
(* The theorems *)

\* Every step of the generator and of the processor keeps the invariant.
LEMMA ProgramKeeps ==
    ASSUME ProgramInv, [Next]_vars
    PROVE  ProgramInv'
<1> USE DEF ProgramInv
<1>1. CASE todo # <<>> /\ (Body \/ Close)
  <2>1. /\ UNCHANGED <<irq, cpu, irqs, bad, differ, dump>>
        /\ Written' /\ StillToWrite'
    <3>1. CASE Body
      <4>1. Written' /\ StillToWrite'
        BY <3>1, BodyKeeps
      <4> QED
        BY <3>1, <4>1 DEF Body
    <3>2. CASE Close
      <4>1. Written' /\ StillToWrite'
        BY <3>2, CloseKeeps
      <4> QED
        BY <3>2, <4>1 DEF Close
    <3> QED
      BY <1>1, <3>1, <3>2
  <2>2. Alike'
    BY <2>1 DEF Alike
  <2>3. /\ cpu \in CpuSet /\ bad \in BOOLEAN /\ EveryProgramEnds
        /\ cpu.state = "run" /\ cpu.r = Main /\ cpu.i = 1 /\ cpu.s
        /\ cpu.ss = <<>> /\ cpu.us = <<>>
    BY <1>1 DEF Executing
  <2>4. ASSUME todo' = <<>> PROVE At(code', bad, Main, 1, TRUE, <<>>, <<>>)
    <3>1. Complete(code)'
      BY <2>1, <2>4 DEF Written, StillToWrite, Complete
    <3>2. Main # Irq2 /\ Main \in DOMAIN code'
      BY <3>1, RoutineNames DEF Complete
    <3>3. 1 \in 1..Len(code'[Main]) /\ code'[Main][1].op # "pop"
      BY <3>1, <3>2, FirstLine
    <3> QED
      BY <3>1, <3>2, <3>3, UserStart, AtMain
  <2>5. cpu.s = TRUE
    BY <2>3 DEF CpuSet
  <2>6. Executing'
    BY <2>1, <2>3, <2>4, <2>5 DEF Executing, EveryProgramEnds
  <2> QED
    BY <2>1, <2>2, <2>6
<1>2. CASE Execute
  <2>1. /\ todo = <<>> /\ cpu.state = "run" /\ UNCHANGED <<irq, todo, left, user, code>>
    BY <1>2 DEF Execute, Running
  <2>2. Written' /\ StillToWrite'
    BY <2>1, CodeStays
  <2>3. Complete(code) /\ cpu \in CpuSet /\ bad \in BOOLEAN
    BY <2>1, NothingLeft DEF Executing
  <2>4. CASE At(code, bad, cpu.r, cpu.i, cpu.s, cpu.ss, cpu.us)
    <3>1. Outside
      BY <2>1, <2>3, <2>4 DEF Outside
    <3>2. cpu.r # Irq2
      BY <2>4 DEF At
    <3>3. ~bad => differ = {}
      BY <3>2 DEF Alike
    <3>4. /\ Outcome /\ (irq => bad' = bad) /\ (~bad' => ~bad /\ differ' = {})
          /\ ~bad' /\ dump = {} => dump' = {}
      BY <1>2, <3>1, <3>3, OutsideStep
    <3>5. cpu'.state = "run" => cpu'.r # Irq2
      BY <3>4 DEF Outcome, At
    <3>6. Executing'
      BY <2>1, <3>4 DEF Executing, EveryProgramEnds, Outcome
    <3> QED
      BY <2>1, <2>2, <3>4, <3>5, <3>6 DEF Alike
  <2>5. CASE InHandler(code, bad, cpu)
    <3>1. cpu.r = Irq2 /\ irq /\ bad = FALSE
      BY <2>1, <2>3, <2>5 DEF InHandler, Alike
    <3>2. differ \subseteq IF cpu.i = 3 THEN Registers ELSE {}
      BY <3>1 DEF Alike
    <3>3. /\ cpu' \in CpuSet /\ cpu'.state = "run" /\ bad' = FALSE /\ dump' = dump
          /\ \/ /\ At(code, FALSE, cpu'.r, cpu'.i, cpu'.s, cpu'.ss, cpu'.us)
                /\ differ' = {}
             \/ /\ InHandler(code, FALSE, cpu')
                /\ differ' \subseteq IF cpu'.i = 3 THEN Registers ELSE {}
      BY <1>2, <2>1, <2>3, <2>5, <3>1, <3>2, HandlerSteps
    <3>4. Executing'
      BY <2>1, <3>3 DEF Executing, EveryProgramEnds
    <3>5. Alike'
      BY <2>1, <3>1, <3>3 DEF Alike, At, InHandler
    <3> QED
      BY <2>2, <3>4, <3>5
  <2> QED
    BY <2>1, <2>4, <2>5 DEF Executing
<1>3. CASE Interrupt
  <2>1. /\ todo = <<>> /\ cpu.state = "run" /\ irq /\ ~cpu.masked
        /\ cpu' = [Except(cpu, Irq2, <<cpu.r, cpu.i>>) EXCEPT !.masked = TRUE]
        /\ UNCHANGED <<irq, todo, left, user, code, irqs, bad, differ, dump>>
    BY <1>3 DEF Interrupt, Running
  <2>2. Written' /\ StillToWrite'
    BY <2>1, CodeStays
  <2>3. Complete(code) /\ cpu \in CpuSet /\ bad \in BOOLEAN
    BY <2>1, NothingLeft DEF Executing
  <2>4. ~bad /\ bad = FALSE
    BY <2>1, <2>3 DEF Alike
  <2>5. At(code, bad, cpu.r, cpu.i, cpu.s, cpu.ss, cpu.us)
    BY <2>1 DEF Executing, InHandler
  <2>6. Outside
    BY <2>1, <2>3, <2>5 DEF Outside
  <2>7. /\ cpu' \in CpuSet /\ cpu'.state = "run" /\ cpu'.r = Irq2 /\ cpu'.i = 1
        /\ InHandler(code, FALSE, cpu')
    BY <2>1, <2>4, <2>6, InterruptEnters
  <2>8. differ = {}
    <3>1. cpu.r # Irq2
      BY <2>5 DEF At
    <3> QED
      BY <2>4, <3>1 DEF Alike
  <2>9. Executing'
    BY <2>1, <2>3, <2>4, <2>7 DEF Executing, EveryProgramEnds
  <2>10. Alike'
    BY <2>1, <2>4, <2>7, <2>8 DEF Alike
  <2> QED
    BY <2>2, <2>9, <2>10
<1>4. CASE UNCHANGED vars
  <2>1. Written' /\ StillToWrite'
    BY <1>4, CodeStays DEF vars
  <2> QED
    BY <1>4, <2>1 DEF vars, Executing, EveryProgramEnds, Alike
<1> QED
  BY <1>1, <1>2, <1>3, <1>4 DEF Next, Body, Close

\* It holds before the first line is written.
LEMMA ProgramFirst ==
    ASSUME Init
    PROVE  ProgramInv
<1>1. Written /\ StillToWrite
  BY ProgramStart
<1>2. code[Main] = <<>>
  BY RoutineNames DEF Init
<1>3. todo # <<>>
  BY <1>1, <1>2, RoutineNames DEF Written, StillToWrite, Closed, Fixed
<1>4. cpu \in CpuSet
  BY DEF Init, CpuSet, Routines
<1>5. Executing
  BY <1>3, <1>4 DEF Executing, Init, EveryProgramEnds
<1>6. Alike
  BY RoutineNames DEF Alike, Init
<1> QED
  BY <1>1, <1>5, <1>6 DEF ProgramInv

\* What is written so far is right, the processor is at a line of the complete program
\* with its callers and nothing else on the stack, and nothing differs without a wrong
\* store: gen.py's generator and every program it writes, for every length, whatever TRAPs
\* it uses and however many interrupts are raised.
THEOREM ProgramInductive == Spec => []ProgramInv
<1>1. Init => ProgramInv
  BY ProgramFirst
<1>2. ProgramInv /\ [Next]_vars => ProgramInv'
  BY ProgramKeeps
<1> QED
  BY <1>1, <1>2, PTL DEF Spec

\* No program gen.py writes meets a privilege violation or a return through something
\* that is no frame, and one that halts does so in supervisor mode with both stacks empty
\* (gen.py:76-92, 128, 144-151).
THEOREM ProgramsEnd == Spec => []EveryProgramEnds
<1>1. ProgramInv => EveryProgramEnds
  BY DEF ProgramInv, Executing
<1>2. Spec => []ProgramInv
  BY ProgramInductive
<1> QED
  BY <1>1, <1>2, PTL

\* What a program dumps does not depend on when, or whether, it is interrupted
\* (the handler of gen.py:170-186 saves and restores every register it changes).
THEOREM InterruptsUnseen == Spec => []IrqInvisible
<1>1. ProgramInv => IrqInvisible
  BY DEF ProgramInv, Alike, IrqInvisible
<1>2. Spec => []ProgramInv
  BY ProgramInductive
<1> QED
  BY <1>1, <1>2, PTL

----------------------------------------------------------------------------
(* The mutant tables: what a row works on *)

\* Fragment x of file f when the first k edits of row n have been made.
Mine(n, k, f, x) == {j \in 1..k : Edits[n][j].file = f /\ Edits[n][j].old = x}
Replaced(n, k, f, x) ==
    IF Mine(n, k, f, x) = {} THEN x ELSE Edits[n][CHOOSE j \in Mine(n, k, f, x) : TRUE].new

\* The scratch tree then, and whether each of these edits fits the sources.
Src == Sources[session]
TreeAt(n, k) ==
    [f \in DOMAIN Src |-> [i \in DOMAIN Src[f] |-> Replaced(n, k, f, Src[f][i])]]
Fits(n, k) == \A j \in 1..k : Count(Src[Edits[n][j].file], Edits[n][j].old) = 1
Mutated(n) == TreeAt(n, Len(Edits[n]))

\* No edit of a row looks for what another one does, or for what another one puts.
LEMMA EditsApart ==
    ASSUME NEW n \in DOMAIN Edits, NEW k \in 1..Len(Edits[n])
    PROVE  /\ \A j \in 1..k - 1 : Edits[n][j].file = Edits[n][k].file =>
                 Edits[n][j].old # Edits[n][k].old /\ Edits[n][j].new # Edits[n][k].old
           /\ 1..k = (1..k - 1) \cup {k}
<1>1. Len(Edits[n]) \in Nat /\ DOMAIN Edits[n] = 1..Len(Edits[n])
  BY RowsAssumption DEF Sequence
<1> QED
  BY <1>1, TablesAssumption

\* What an edit looks for is looked for by no edit before it.
LEMMA MineHere ==
    ASSUME NEW n \in DOMAIN Edits, NEW k \in 1..Len(Edits[n])
    PROVE  /\ Mine(n, k - 1, Edits[n][k].file, Edits[n][k].old) = {}
           /\ Mine(n, k, Edits[n][k].file, Edits[n][k].old) = {k}
<1>1. /\ \A j \in 1..k - 1 : ~(Edits[n][j].file = Edits[n][k].file
                                /\ Edits[n][j].old = Edits[n][k].old)
      /\ 1..k = (1..k - 1) \cup {k}
  BY EditsApart
<1>2. Mine(n, k - 1, Edits[n][k].file, Edits[n][k].old) = {}
  BY <1>1 DEF Mine
<1>3. Mine(n, k, Edits[n][k].file, Edits[n][k].old) = {k}
  BY <1>1 DEF Mine
<1> QED
  BY <1>2, <1>3

\* An edit changes nothing in another file, and no fragment it does not look for.
LEMMA MineElsewhere ==
    ASSUME NEW n \in DOMAIN Edits, NEW k \in 1..Len(Edits[n]), NEW f, NEW x,
           f # Edits[n][k].file \/ x # Edits[n][k].old
    PROVE  Replaced(n, k, f, x) = Replaced(n, k - 1, f, x)
<1>1. Mine(n, k, f, x) = Mine(n, k - 1, f, x)
  BY EditsApart DEF Mine
<1> QED
  BY <1>1 DEF Replaced

\* The edits before it put nothing that it looks for.
LEMMA NotSought ==
    ASSUME NEW n \in DOMAIN Edits, NEW k \in 1..Len(Edits[n]), NEW x, x # Edits[n][k].old
    PROVE  Replaced(n, k - 1, Edits[n][k].file, x) # Edits[n][k].old
<1> DEFINE e == Edits[n][k]
<1>1. CASE Mine(n, k - 1, e.file, x) = {}
  BY <1>1 DEF Replaced
<1>2. CASE Mine(n, k - 1, e.file, x) # {}
  <2> DEFINE j == CHOOSE j \in Mine(n, k - 1, e.file, x) : TRUE
  <2>1. j \in Mine(n, k - 1, e.file, x)
    BY <1>2
  <2>2. Replaced(n, k - 1, e.file, x) = Edits[n][j].new
    BY <1>2 DEF Replaced
  <2> HIDE DEF j
  <2>3. j \in 1..k - 1 /\ Edits[n][j].file = e.file
    BY <2>1 DEF Mine
  <2> QED
    BY <2>2, <2>3, EditsApart
<1> QED
  BY <1>1, <1>2

\* What it looks for is still there, and it puts its new text there.
LEMMA Sought ==
    ASSUME NEW n \in DOMAIN Edits, NEW k \in 1..Len(Edits[n])
    PROVE  /\ Replaced(n, k - 1, Edits[n][k].file, Edits[n][k].old) = Edits[n][k].old
           /\ Replaced(n, k, Edits[n][k].file, Edits[n][k].old) = Edits[n][k].new
<1>1. (CHOOSE j \in {k} : TRUE) = k
  OBVIOUS
<1> QED
  BY <1>1, MineHere DEF Replaced

\* The next edit finds its text as often as the sources have it (wa_mutants.py:107).
LEMMA CountStays ==
    ASSUME NEW n \in DOMAIN Edits, NEW k \in 1..Len(Edits[n]),
           session \in 1..Len(Sources)
    PROVE  /\ Edits[n][k].file \in DOMAIN Src
           /\ Count(TreeAt(n, k - 1)[Edits[n][k].file], Edits[n][k].old)
                = Count(Src[Edits[n][k].file], Edits[n][k].old)
<1> DEFINE e == Edits[n][k]
           t == TreeAt(n, k - 1)[e.file]
<1>1. e.file \in DOMAIN Src
  BY RowsAssumption, TablesAssumption DEF Sequence, Src
<1>2. t = [i \in DOMAIN Src[e.file] |-> Replaced(n, k - 1, e.file, Src[e.file][i])]
  BY <1>1 DEF TreeAt
<1>3. \A i \in DOMAIN Src[e.file] : (t[i] = e.old) <=> (Src[e.file][i] = e.old)
  <2>1. \A x : (Replaced(n, k - 1, e.file, x) = e.old) <=> (x = e.old)
    BY Sought, NotSought
  <2> QED
    BY <1>2, <2>1
<1>4. DOMAIN t = DOMAIN Src[e.file]
  BY <1>2
<1> HIDE DEF t
<1>5. {i \in DOMAIN t : t[i] = e.old} = {i \in DOMAIN Src[e.file] : Src[e.file][i] = e.old}
  BY <1>3, <1>4
<1>6. Count(t, e.old) = Count(Src[e.file], e.old)
  BY <1>5 DEF Count
<1> QED
  BY <1>1, <1>6 DEF t

\* Making it gives the next tree (wa_mutants.py:109).
LEMMA NextTree ==
    ASSUME NEW n \in DOMAIN Edits, NEW k \in 1..Len(Edits[n]),
           session \in 1..Len(Sources)
    PROVE  TreeAt(n, k) =
               [TreeAt(n, k - 1) EXCEPT ![Edits[n][k].file] = Edited(@, Edits[n][k])]
<1> DEFINE e == Edits[n][k]
           t == TreeAt(n, k - 1)
           u == [t EXCEPT ![e.file] = Edited(@, e)]
           v == TreeAt(n, k)
<1>1. e.file \in DOMAIN Src
  BY CountStays
<1>2. /\ t = [f \in DOMAIN Src |-> t[f]] /\ v = [f \in DOMAIN Src |-> v[f]]
      /\ \A f \in DOMAIN Src :
            /\ t[f] = [i \in DOMAIN Src[f] |-> Replaced(n, k - 1, f, Src[f][i])]
            /\ v[f] = [i \in DOMAIN Src[f] |-> Replaced(n, k, f, Src[f][i])]
  BY DEF TreeAt
<1> HIDE DEF t, v
<1>3. ASSUME NEW f \in DOMAIN Src, f # e.file PROVE u[f] = v[f]
  <2>1. \A x : Replaced(n, k, f, x) = Replaced(n, k - 1, f, x)
    BY <1>3, MineElsewhere
  <2>2. u[f] = t[f]
    BY <1>2, <1>3
  <2> QED
    BY <1>2, <2>1, <2>2
<1>4. u[e.file] = v[e.file]
  <2> DEFINE f == e.file
             g == Src[f]
  <2>1. u[f] = Edited(t[f], e)
    BY <1>1, <1>2
  <2>2. ASSUME NEW x
        PROVE  Replaced(n, k, f, x) = IF Replaced(n, k - 1, f, x) = e.old THEN e.new
                                      ELSE Replaced(n, k - 1, f, x)
    <3>1. CASE x = e.old
      BY <3>1, Sought
    <3>2. CASE x # e.old
      <4>1. Replaced(n, k - 1, f, x) # e.old
        BY <3>2, NotSought
      <4>2. Replaced(n, k, f, x) = Replaced(n, k - 1, f, x)
        BY <3>2, MineElsewhere
      <4> QED
        BY <4>1, <4>2
    <3> QED
      BY <3>1, <3>2
  <2>3. t[f] = [i \in DOMAIN g |-> Replaced(n, k - 1, f, g[i])]
        /\ v[f] = [i \in DOMAIN g |-> Replaced(n, k, f, g[i])]
    BY <1>1, <1>2
  <2>4. Edited(t[f], e) = [i \in DOMAIN g |-> IF t[f][i] = e.old THEN e.new ELSE t[f][i]]
    BY <2>3 DEF Edited
  <2>5. Edited(t[f], e) = v[f]
    <3>1. ASSUME NEW i \in DOMAIN g
          PROVE  (IF t[f][i] = e.old THEN e.new ELSE t[f][i]) = Replaced(n, k, f, g[i])
      <4>1. t[f][i] = Replaced(n, k - 1, f, g[i])
        BY <2>3
      <4> QED
        BY <4>1, <2>2
    <3> QED
      BY <2>3, <2>4, <3>1
  <2> QED
    BY <2>1, <2>5
<1>5. u = [f \in DOMAIN Src |-> u[f]]
  BY <1>2
<1>6. u = v
  BY <1>2, <1>3, <1>4, <1>5
<1> QED
  BY <1>6 DEF t, v

\* All edits fit, one after the other, exactly when each fits the sources.
LEMMA AllFit ==
    ASSUME NEW n \in DOMAIN Edits PROVE Fits(n, Len(Edits[n])) <=> Anchored(n)
<1>1. DOMAIN Edits[n] = 1..Len(Edits[n])
  BY RowsAssumption DEF Sequence
<1> QED
  BY <1>1 DEF Fits, Anchored, Src

\* The tree with every edit made is the one the row is meant to test.
LEMMA MutatedIsIntended ==
    ASSUME NEW n \in DOMAIN Edits PROVE Fragments(Mutated(n)) = Intended(n)
<1> DEFINE last == Len(Edits[n])
           R(f, x) == Replaced(n, last, f, x)
           mine(f) == {k \in DOMAIN Edits[n] : Edits[n][k].file = f}
           I(f, x) == IF \E k \in mine(f) : Edits[n][k].old = x
                      THEN Edits[n][CHOOSE k \in mine(f) : Edits[n][k].old = x].new
                      ELSE x
<1>1. last \in Nat /\ DOMAIN Edits[n] = 1..last
  BY RowsAssumption DEF Sequence
<1>2. ASSUME NEW f, NEW x PROVE R(f, x) = I(f, x)
  <2>1. Mine(n, last, f, x) = {k \in mine(f) : Edits[n][k].old = x}
    BY <1>1 DEF Mine
  <2>2. CASE Mine(n, last, f, x) = {}
    BY <2>1, <2>2 DEF Replaced
  <2>3. CASE Mine(n, last, f, x) # {}
    <3> DEFINE j == CHOOSE j \in Mine(n, last, f, x) : TRUE
               k == CHOOSE k \in mine(f) : Edits[n][k].old = x
    <3>1. j \in mine(f) /\ Edits[n][j].old = x
      BY <2>1, <2>3
    <3>2. k \in mine(f) /\ Edits[n][k].old = x
      BY <3>1
    <3>3. R(f, x) = Edits[n][j].new /\ I(f, x) = Edits[n][k].new
      BY <2>3, <3>1 DEF Replaced
    <3> HIDE DEF j, k
    <3>4. j = k
      BY <3>1, <3>2, TablesAssumption
    <3> QED
      BY <3>3, <3>4
  <2> QED
    BY <2>2, <2>3
<1> HIDE DEF R, I
<1>3. ASSUME NEW f \in DOMAIN Src
      PROVE  ToSet(Mutated(n)[f]) = {I(f, x) : x \in ToSet(Src[f])}
  <2>1. Mutated(n)[f] = [i \in DOMAIN Src[f] |-> R(f, Src[f][i])]
    BY DEF Mutated, TreeAt, R
  <2>2. ToSet(Mutated(n)[f]) = {R(f, Src[f][i]) : i \in DOMAIN Src[f]}
    BY <2>1 DEF ToSet
  <2> QED
    BY <1>2, <2>2 DEF ToSet
<1>4. DOMAIN Mutated(n) = DOMAIN Src
  BY DEF Mutated, TreeAt
<1>5. Fragments(Mutated(n)) = UNION {{I(f, x) : x \in ToSet(Src[f])} : f \in DOMAIN Src}
  BY <1>3, <1>4 DEF Fragments
<1>6. Intended(n) = UNION {{I(f, x) : x \in ToSet(Src[f])} : f \in DOMAIN Src}
  BY DEF Intended, I, Src
<1> QED
  BY <1>5, <1>6

----------------------------------------------------------------------------
(* The mutant tables: what a row has come to *)

\* The values of the variables.
OutcomeNames == {"pass", "fail", "timeout"}
Verdicts == {"none", "does not apply", "does not compile", "caught", "survived",
             "survived, expected"}
AtSet == [step : {"copy", "edit", "prog", "log"}, k : Nat, p : Nat, vvps : SUBSET Kinds,
          res : Seq(OutcomeNames), caught : BOOLEAN]
RowSet == [verdict : Verdicts, res : Seq(OutcomeNames)]
Futures == {"none", "queued", "running", "finished", "raised", "cancelled"}
MainSteps == {"assemble", "mapping", "raising", "done", "raised"}

\* What program q shows on the tree the row is meant to test.
Shown(n, q) ==
    {IF Noticed(n, q) THEN "fail" ELSE "pass", "timeout"}

\* A row at work, when a is where it is and d its directory: its tree is the session's
\* with the edits so far made, every one of them fits, and when it runs programs, its
\* benches are of the tree it is meant to test and its results what that tree shows.
AtWork(n, a, d) ==
    \/ a = Entry
    \/ /\ a.step = "edit" /\ a.k \in 1..Len(Edits[n]) + 1
       /\ d.rtl = TreeAt(n, a.k - 1) /\ Fits(n, a.k - 1)
       /\ a.p = 1 /\ a.vvps = {} /\ a.res = <<>> /\ ~a.caught
    \/ /\ a.step \in {"prog", "log"}
       /\ d.rtl = Mutated(n) /\ Anchored(n)
       /\ a.p \in DOMAIN Plan /\ Len(a.res) = a.p - 1
       /\ \A b \in a.vvps : b \in DOMAIN d.vvp /\ d.vvp[b] = Mutated(n)
       /\ a.vvps # {} => Intended(n) \cap Broken = {}
       /\ \A q \in 1..a.p - 1 : a.res[q] \in Shown(n, q)
       /\ a.caught <=> \E q \in 1..a.p - 1 : a.res[q] # "pass"
       /\ a.step = "log" => /\ a.vvps # {} /\ Plan[a.p] \in DOMAIN d.log
                            /\ d.log[Plan[a.p]] \in Shown(n, a.p)

\* A row that waits has done nothing, one that works is right, and what one returns is true.
RowRight(n, future, a, d, r) ==
    /\ future \in {"none", "queued"} => a = Entry
    /\ future = "running" => AtWork(n, a, d)
    /\ future = "finished" => RowTrue(n, r)

\* The type invariant, with what the proof needs to know of it.
PoolShape ==
    /\ script \in DOMAIN Plans /\ all_progs \in BOOLEAN
    /\ session \in 1..Len(Sources) /\ main \in MainSteps
    /\ fut \in [Rows -> Futures] /\ at \in [Rows -> AtSet] /\ row \in [Rows -> RowSet]
    /\ dir = [n \in Rows |-> dir[n]]
    /\ \A n \in Rows : dir[n] = [rtl |-> dir[n].rtl, vvp |-> dir[n].vvp, log |-> dir[n].log]
    /\ printed \in Seq(RowSet) /\ Len(printed) <= Len(Names)

\* The inductive invariant.
PoolInv ==
    /\ PoolShape
    /\ main = "assemble" => \A n \in Rows : fut[n] = "none"
    /\ \A n \in Rows : RowRight(n, fut[n], at[n], dir[n], row[n])
    /\ RowsTrue

----------------------------------------------------------------------------

\* PROGS is not empty, and dfpmis_mutants.py has one program (wa_mutants.py:20, xc7_mutants.py:23,
\* dfpmis_mutants.py:103-105).
LEMMA PlanFacts ==
    ASSUME script \in DOMAIN Plans
    PROVE  /\ Len(Plan) \in Nat \ {0} /\ DOMAIN Plan = 1..Len(Plan)
           /\ \A p \in DOMAIN Plan : Plan[p].kind \in Kinds
           /\ script = "dfpmis" => Len(Plan) = 1
<1>1. Plan # <<>> /\ Plan \in Seq(ToSet(Plan))
  BY RowsAssumption DEF Plan, Sequence
<1>2. Len(Plan) # 0
  BY <1>1, EmptySeq
<1> QED
  BY <1>1, <1>2, TablesAssumption DEF Plan, Kinds

\* The rows of an invocation are rows of the table.
LEMMA RowNames == ASSUME NEW n \in Rows PROVE n \in DOMAIN Edits
BY RowsAssumption DEF Rows, ToSet

\* The rows' meaning depends on the session, the script and its option only.
LEMMA SameMeaning ==
    ASSUME session' = session, script' = script, all_progs' = all_progs
    PROVE  /\ \A n, a, d : AtWork(n, a, d)' <=> AtWork(n, a, d)
           /\ \A n, r : RowTrue(n, r)' <=> RowTrue(n, r)
BY DEF AtWork, RowTrue, Anchored, Intended, Noticed, Plan, TreeAt, Fits, Mutated, Src, Shown

----------------------------------------------------------------------------
(* A step of one row *)

\* Before the first edit the tree is the session's.
LEMMA FirstTree ==
    ASSUME NEW n \in DOMAIN Edits, session \in 1..Len(Sources)
    PROVE  TreeAt(n, 0) = Src /\ Fits(n, 0)
<1>1. session \in DOMAIN Sources
  BY RowsAssumption DEF Sequence
<1>2. Src = [f \in DOMAIN Src |-> Src[f]]
  BY <1>1, RowsAssumption DEF Tree, Src
<1>3. \A f \in DOMAIN Src : Src[f] = [i \in DOMAIN Src[f] |-> Src[f][i]]
  <2> SUFFICES ASSUME NEW f \in DOMAIN Src PROVE Src[f] = [i \in DOMAIN Src[f] |-> Src[f][i]]
    OBVIOUS
  <2>1. Src[f] \in Seq(ToSet(Src[f]))
    BY <1>1, RowsAssumption DEF Tree, Sequence, Src
  <2> QED
    BY <2>1
<1>4. \A f, x : Replaced(n, 0, f, x) = x
  BY DEF Replaced, Mine
<1>5. TreeAt(n, 0) = [f \in DOMAIN Src |-> [i \in DOMAIN Src[f] |-> Src[f][i]]]
  BY <1>4 DEF TreeAt
<1>6. TreeAt(n, 0) = [f \in DOMAIN Src |-> Src[f]]
  BY <1>3, <1>5
<1> QED
  BY <1>2, <1>6 DEF Fits

\* If one row goes on and is right, all rows are.
LEMMA OneRow ==
    ASSUME PoolInv, Keep, main # "assemble", NEW n \in Rows,
           NEW u \in Futures, NEW a \in AtSet, NEW r \in RowSet, NEW d,
           d = [rtl |-> d.rtl, vvp |-> d.vvp, log |-> d.log],
           fut' = [fut EXCEPT ![n] = u], at' = [at EXCEPT ![n] = a],
           row' = [row EXCEPT ![n] = r], dir' = [dir EXCEPT ![n] = d],
           RowRight(n, u, a, d, r)
    PROVE  PoolInv'
<1>1. /\ session' = session /\ script' = script /\ all_progs' = all_progs
      /\ main' = main /\ printed' = printed
  BY DEF Keep
<1>2. Kinds' = Kinds
  BY <1>1 DEF Kinds, Plan
<1>3. AtSet' = AtSet
  BY <1>2 DEF AtSet
<1>4. PoolShape'
  <2>1. fut' \in [Rows -> Futures] /\ at' \in [Rows -> AtSet] /\ row' \in [Rows -> RowSet]
    BY DEF PoolInv, PoolShape
  <2>2. dir' = [m \in Rows |-> dir'[m]]
    BY DEF PoolInv, PoolShape
  <2>3. \A m \in Rows : dir'[m] = IF m = n THEN d ELSE dir[m]
    BY DEF PoolInv, PoolShape
  <2>4. \A m \in Rows :
            dir'[m] = [rtl |-> dir'[m].rtl, vvp |-> dir'[m].vvp, log |-> dir'[m].log]
    BY <2>3 DEF PoolInv, PoolShape
  <2> QED
    BY <1>1, <1>3, <2>1, <2>2, <2>4 DEF PoolInv, PoolShape
<1>5. ASSUME NEW m \in Rows PROVE RowRight(m, fut[m], at[m], dir[m], row[m])'
  <2>1. CASE m = n
    <3>1. fut'[m] = u /\ at'[m] = a /\ row'[m] = r /\ dir'[m] = d
      BY <2>1 DEF PoolInv, PoolShape
    <3>2. /\ AtWork(n, a, d)' <=> AtWork(n, a, d)
          /\ RowTrue(n, r)' <=> RowTrue(n, r)
      BY <1>1, SameMeaning
    <3>3. /\ u \in {"none", "queued"} => a = Entry
          /\ u = "running" => AtWork(n, a, d)'
          /\ u = "finished" => RowTrue(n, r)'
      BY <3>2 DEF RowRight
    <3> QED
      BY <2>1, <3>1, <3>3 DEF RowRight
  <2>2. CASE m # n
    <3> DEFINE b == at[m]
               e == dir[m]
               q == row[m]
    <3>1. fut'[m] = fut[m] /\ at'[m] = b /\ row'[m] = q /\ dir'[m] = e
      BY <2>2 DEF PoolInv, PoolShape
    <3>2. RowRight(m, fut[m], b, e, q)
      BY DEF PoolInv
    <3> HIDE DEF b, e, q
    <3>3. /\ fut[m] \in {"none", "queued"} => b = Entry
          /\ fut[m] = "running" => AtWork(m, b, e)
          /\ fut[m] = "finished" => RowTrue(m, q)
      BY <3>2 DEF RowRight
    <3> QED
      BY <1>1, <3>1, <3>3, SameMeaning DEF RowRight
  <2> QED
    BY <2>1, <2>2
<1>6. RowsTrue'
  BY <1>1, SameMeaning DEF PoolInv, RowsTrue
<1> QED
  BY <1>1, <1>4, <1>5, <1>6 DEF PoolInv

\* A row whose run() is at a step.
LEMMA Worker ==
    ASSUME PoolInv, NEW n \in Rows, NEW step, RowAt(n, step)
    PROVE  /\ fut[n] = "running" /\ at[n].step = step
           /\ main # "assemble" /\ n \in DOMAIN Edits /\ session \in 1..Len(Sources)
           /\ script \in DOMAIN Plans /\ all_progs \in BOOLEAN
           /\ at[n] \in AtSet /\ row[n] \in RowSet
           /\ dir[n] = [rtl |-> dir[n].rtl, vvp |-> dir[n].vvp, log |-> dir[n].log]
           /\ AtWork(n, at[n], dir[n])
           /\ fut = [fut EXCEPT ![n] = fut[n]] /\ at = [at EXCEPT ![n] = at[n]]
           /\ row = [row EXCEPT ![n] = row[n]] /\ dir = [dir EXCEPT ![n] = dir[n]]
           /\ Len(Edits[n]) \in Nat /\ DOMAIN Edits[n] = 1..Len(Edits[n])
<1>1. fut[n] = "running" /\ at[n].step = step
  BY DEF RowAt
<1>2. main # "assemble" /\ AtWork(n, at[n], dir[n])
  BY <1>1 DEF PoolInv, RowRight
<1>3. /\ session \in 1..Len(Sources) /\ script \in DOMAIN Plans /\ all_progs \in BOOLEAN
      /\ at[n] \in AtSet /\ row[n] \in RowSet
      /\ dir[n] = [rtl |-> dir[n].rtl, vvp |-> dir[n].vvp, log |-> dir[n].log]
  BY DEF PoolInv, PoolShape
<1>4. /\ fut = [fut EXCEPT ![n] = fut[n]] /\ at = [at EXCEPT ![n] = at[n]]
      /\ row = [row EXCEPT ![n] = row[n]] /\ dir = [dir EXCEPT ![n] = dir[n]]
  BY DEF PoolInv, PoolShape
<1>5. n \in DOMAIN Edits
  BY RowNames
<1>6. Len(Edits[n]) \in Nat /\ DOMAIN Edits[n] = 1..Len(Edits[n])
  BY <1>5, RowsAssumption DEF Sequence
<1> QED
  BY <1>1, <1>2, <1>3, <1>4, <1>5, <1>6

\* A statement raises.
LEMMA Raised ==
    ASSUME PoolInv, Keep, NEW n \in Rows, NEW step, RowAt(n, step), Raise(n)
    PROVE  PoolInv'
<1>1. fut' = [fut EXCEPT ![n] = "raised"] /\ "raised" \in Futures
  BY DEF Raise, Futures
<1>2. /\ at' = [at EXCEPT ![n] = at[n]] /\ row' = [row EXCEPT ![n] = row[n]]
      /\ dir' = [dir EXCEPT ![n] = dir[n]]
  BY Worker DEF Raise
<1>3. RowRight(n, "raised", at[n], dir[n], row[n])
  BY DEF RowRight
<1>4. /\ main # "assemble" /\ at[n] \in AtSet /\ row[n] \in RowSet
      /\ dir[n] = [rtl |-> dir[n].rtl, vvp |-> dir[n].vvp, log |-> dir[n].log]
  BY Worker
<1> QED
  BY <1>1, <1>2, <1>3, <1>4, OneRow

\* run() returns with a row that is true.
LEMMA Returned ==
    ASSUME PoolInv, Keep, NEW n \in Rows, NEW step, RowAt(n, step),
           NEW v \in Verdicts, NEW res \in Seq(OutcomeNames),
           Return(n, v, res), UNCHANGED <<at, dir>>,
           RowTrue(n, [verdict |-> v, res |-> res])
    PROVE  PoolInv'
<1> DEFINE r == [verdict |-> v, res |-> res]
<1>1. /\ fut' = [fut EXCEPT ![n] = "finished"] /\ "finished" \in Futures
      /\ row' = [row EXCEPT ![n] = r] /\ r \in RowSet
  BY DEF Return, Futures, RowSet
<1>2. at' = [at EXCEPT ![n] = at[n]] /\ dir' = [dir EXCEPT ![n] = dir[n]]
  BY Worker
<1>3. RowRight(n, "finished", at[n], dir[n], r)
  BY DEF RowRight
<1>4. /\ main # "assemble" /\ at[n] \in AtSet
      /\ dir[n] = [rtl |-> dir[n].rtl, vvp |-> dir[n].vvp, log |-> dir[n].log]
  BY Worker
<1> HIDE DEF r
<1> QED
  BY <1>1, <1>2, <1>3, <1>4, OneRow

\* A step inside run().
LEMMA GoesOn ==
    ASSUME PoolInv, Keep, NEW n \in Rows, NEW step, RowAt(n, step),
           UNCHANGED <<fut, row>>, NEW a \in AtSet, NEW d,
           d = [rtl |-> d.rtl, vvp |-> d.vvp, log |-> d.log],
           at' = [at EXCEPT ![n] = a], dir' = [dir EXCEPT ![n] = d], AtWork(n, a, d)
    PROVE  PoolInv'
<1>1. /\ fut' = [fut EXCEPT ![n] = "running"] /\ "running" \in Futures
      /\ row' = [row EXCEPT ![n] = row[n]] /\ row[n] \in RowSet /\ main # "assemble"
  BY Worker DEF Futures
<1>2. RowRight(n, "running", a, d, row[n])
  BY DEF RowRight
<1> QED
  BY <1>1, <1>2, OneRow

\* The scratch tree is the session's, whatever an earlier session left (wa_mutants.py:101-103).
LEMMA CopyRight ==
    ASSUME PoolInv, Keep, NEW n \in Rows, Copy(n)
    PROVE  PoolInv'
<1>1. RowAt(n, "copy")
  BY DEF Copy
<1>2. CASE Raise(n)
  BY <1>1, <1>2, Raised
<1>3. CASE /\ dir' = [dir EXCEPT ![n] = [Empty EXCEPT !.rtl = Sources[session]]]
           /\ at' = [at EXCEPT ![n].step = "edit"]
           /\ UNCHANGED <<fut, row>>
  <2> DEFINE a == [at[n] EXCEPT !.step = "edit"]
             d == [Empty EXCEPT !.rtl = Sources[session]]
  <2>1. /\ at[n].step = "copy" /\ at[n] \in AtSet /\ n \in DOMAIN Edits
        /\ session \in 1..Len(Sources) /\ Len(Edits[n]) \in Nat
        /\ AtWork(n, at[n], dir[n])
    BY <1>1, Worker
  <2>2. at[n] = Entry
    BY <2>1 DEF AtWork
  <2>3. /\ a \in AtSet /\ a.step = "edit" /\ a.k = 1 /\ a.p = 1 /\ a.vvps = {}
        /\ a.res = <<>> /\ ~a.caught
    <3>1. /\ at[n].k = 1 /\ at[n].p = 1 /\ at[n].vvps = {} /\ at[n].res = <<>>
          /\ ~at[n].caught
      BY <2>2 DEF Entry
    <3> QED
      BY <2>1, <3>1 DEF AtSet
  <2>4. d.rtl = Src /\ d = [rtl |-> d.rtl, vvp |-> d.vvp, log |-> d.log]
    BY DEF Empty, Src
  <2>5. at' = [at EXCEPT ![n] = a] /\ dir' = [dir EXCEPT ![n] = d]
    BY <1>3
  <2> HIDE DEF a, d
  <2>6. d.rtl = TreeAt(n, 0) /\ Fits(n, 0)
    BY <2>1, <2>4, FirstTree
  <2>7. AtWork(n, a, d)
    BY <2>1, <2>3, <2>6 DEF AtWork
  <2> QED
    BY <1>1, <1>3, <2>3, <2>4, <2>5, <2>7, GoesOn
<1> QED
  BY <1>2, <1>3 DEF Copy

\* What is found once at every edit fits, and what is not does not apply.
LEMMA EditRight ==
    ASSUME PoolInv, Keep, NEW n \in Rows, Edit(n)
    PROVE  PoolInv'
<1> DEFINE b == at[n]
           e == Edits[n][b.k]
<1>1. RowAt(n, "edit")
  BY DEF Edit
<1>2. /\ b.step = "edit" /\ b \in AtSet /\ n \in DOMAIN Edits
      /\ session \in 1..Len(Sources) /\ script \in DOMAIN Plans
      /\ Len(Edits[n]) \in Nat /\ DOMAIN Edits[n] = 1..Len(Edits[n])
      /\ AtWork(n, b, dir[n])
      /\ dir = [dir EXCEPT ![n] = dir[n]]
      /\ dir[n] = [rtl |-> dir[n].rtl, vvp |-> dir[n].vvp, log |-> dir[n].log]
  BY <1>1, Worker
<1>3. b # Entry
  BY <1>2 DEF Entry
<1>4. /\ b.k \in 1..Len(Edits[n]) + 1
      /\ dir[n].rtl = TreeAt(n, b.k - 1) /\ Fits(n, b.k - 1)
      /\ b.p = 1 /\ b.vvps = {} /\ b.res = <<>> /\ ~b.caught
  BY <1>2, <1>3 DEF AtWork
<1>5. CASE b.k > Len(Edits[n])
  <2> DEFINE a == [b EXCEPT !.step = "prog"]
  <2>1. /\ a \in AtSet /\ a.step = "prog" /\ a.p = 1 /\ a.vvps = {} /\ a.res = <<>> /\ ~a.caught
    BY <1>2, <1>4 DEF AtSet
  <2>2. at' = [at EXCEPT ![n] = a] /\ UNCHANGED <<fut, row, dir>>
    BY <1>5 DEF Edit
  <2>3. dir[n].rtl = Mutated(n) /\ Anchored(n)
    <3>1. b.k - 1 = Len(Edits[n])
      BY <1>2, <1>4, <1>5
    <3> QED
      BY <1>2, <1>4, <3>1, AllFit DEF Mutated
  <2> HIDE DEF a
  <2>4. a.p \in DOMAIN Plan /\ Len(a.res) = a.p - 1
    BY <1>2, <2>1, PlanFacts
  <2>5. AtWork(n, a, dir[n])
    BY <2>1, <2>3, <2>4 DEF AtWork
  <2> QED
    BY <1>1, <1>2, <2>1, <2>2, <2>5, GoesOn
<1>6. CASE b.k <= Len(Edits[n]) /\ Count(dir[n].rtl[e.file], e.old) # 1
  <2>1. Return(n, "does not apply", <<>>) /\ UNCHANGED <<at, dir>>
    <3>1. ~(b.k > Len(Edits[n]))
      BY <1>2, <1>4, <1>6
    <3> QED
      BY <1>6, <3>1 DEF Edit
  <2>2. b.k \in 1..Len(Edits[n])
    BY <1>2, <1>4, <1>6
  <2>3. Count(Src[e.file], e.old) # 1
    BY <1>2, <1>4, <1>6, <2>2, CountStays
  <2>4. ~Anchored(n)
    BY <1>2, <2>2, <2>3 DEF Anchored, Src
  <2>5. RowTrue(n, [verdict |-> "does not apply", res |-> <<>>])
    BY <2>4 DEF RowTrue
  <2>6. "does not apply" \in Verdicts /\ <<>> \in Seq(OutcomeNames)
    BY DEF Verdicts
  <2> QED
    BY <1>1, <2>1, <2>5, <2>6, Returned
<1>7. CASE b.k <= Len(Edits[n]) /\ Count(dir[n].rtl[e.file], e.old) = 1
  <2> DEFINE a == [b EXCEPT !.k = b.k + 1]
             t == [dir[n].rtl EXCEPT ![e.file] = Edited(@, e)]
             d == [dir[n] EXCEPT !.rtl = t]
  <2>1. b.k \in 1..Len(Edits[n])
    BY <1>2, <1>4, <1>7
  <2>2. /\ dir' = [dir EXCEPT ![n].rtl[e.file] = Edited(@, e)]
        /\ at' = [at EXCEPT ![n].k = b.k + 1] /\ UNCHANGED <<fut, row>>
    <3>1. ~(b.k > Len(Edits[n]))
      BY <1>2, <2>1
    <3>2. ~(Count(dir[n].rtl[e.file], e.old) # 1)
      BY <1>7
    <3> QED
      BY <3>1, <3>2 DEF Edit
  <2>3. at' = [at EXCEPT ![n] = a] /\ dir' = [dir EXCEPT ![n] = d]
    BY <2>2
  <2>4. /\ a \in AtSet /\ a.step = "edit" /\ a.k = b.k + 1 /\ a.p = 1 /\ a.vvps = {}
        /\ a.res = <<>> /\ ~a.caught
    BY <1>2, <1>4 DEF AtSet
  <2>5. d.rtl = t /\ d = [rtl |-> d.rtl, vvp |-> d.vvp, log |-> d.log]
    <3> HIDE DEF t
    <3>1. d = [rtl |-> t, vvp |-> dir[n].vvp, log |-> dir[n].log]
      BY <1>2
    <3> HIDE DEF d
    <3> QED
      BY <3>1
  <2>6. t = TreeAt(n, b.k)
    <3>1. t = [TreeAt(n, b.k - 1) EXCEPT ![e.file] = Edited(@, e)]
      BY <1>4
    <3> HIDE DEF t
    <3> QED
      BY <1>2, <1>4, <2>1, <3>1, NextTree
  <2>7. Fits(n, b.k)
    <3>1. Count(Src[e.file], e.old) = 1
      BY <1>2, <1>4, <1>7, <2>1, CountStays
    <3>2. \A j \in 1..b.k : j \in 1..b.k - 1 \/ j = b.k
      BY <2>1
    <3> QED
      BY <1>4, <3>1, <3>2 DEF Fits
  <2>8. b.k + 1 \in 1..Len(Edits[n]) + 1 /\ (b.k + 1) - 1 = b.k
    BY <1>2, <2>1
  <2> HIDE DEF a, d, t
  <2>9. AtWork(n, a, d)
    BY <2>4, <2>5, <2>6, <2>7, <2>8 DEF AtWork
  <2> QED
    BY <1>1, <2>2, <2>3, <2>4, <2>5, <2>9, GoesOn
<1>8. b.k > Len(Edits[n]) \/ b.k <= Len(Edits[n])
  BY <1>2, <1>4
<1> HIDE DEF b, e
<1> QED
  BY <1>5, <1>6, <1>7, <1>8

\* A row that builds or runs.
LEMMA Ready ==
    ASSUME PoolInv, NEW n \in Rows, NEW step \in {"prog", "log"}, RowAt(n, step)
    PROVE  /\ at[n].step = step
           /\ dir[n].rtl = Mutated(n) /\ Fragments(Mutated(n)) = Intended(n) /\ Anchored(n)
           /\ at[n].p \in 1..Len(Plan) /\ Len(Plan) \in Nat /\ Len(at[n].res) = at[n].p - 1
           /\ \A b \in at[n].vvps : b \in DOMAIN dir[n].vvp /\ dir[n].vvp[b] = Mutated(n)
           /\ at[n].vvps # {} => Intended(n) \cap Broken = {}
           /\ \A q \in 1..at[n].p - 1 : at[n].res[q] \in Shown(n, q)
           /\ at[n].caught <=> \E q \in 1..at[n].p - 1 : at[n].res[q] # "pass"
           /\ at[n].step = "log" => /\ at[n].vvps # {} /\ Plan[at[n].p] \in DOMAIN dir[n].log
                                    /\ dir[n].log[Plan[at[n].p]] \in Shown(n, at[n].p)
<1>1. /\ at[n].step = step /\ AtWork(n, at[n], dir[n]) /\ n \in DOMAIN Edits
      /\ script \in DOMAIN Plans
  BY Worker
<1>2. at[n] # Entry /\ at[n].step # "edit"
  BY <1>1 DEF Entry
<1>3. DOMAIN Plan = 1..Len(Plan) /\ Len(Plan) \in Nat
  BY <1>1, PlanFacts
<1>4. Fragments(Mutated(n)) = Intended(n)
  BY <1>1, MutatedIsIntended
<1> DEFINE a == at[n]
           d == dir[n]
<1>5. AtWork(n, a, d) /\ a # Entry /\ a.step # "edit" /\ a.step = step
  BY <1>1, <1>2
<1> HIDE DEF a, d
<1>6. /\ d.rtl = Mutated(n) /\ Anchored(n)
      /\ a.p \in DOMAIN Plan /\ Len(a.res) = a.p - 1
      /\ \A b \in a.vvps : b \in DOMAIN d.vvp /\ d.vvp[b] = Mutated(n)
      /\ a.vvps # {} => Intended(n) \cap Broken = {}
      /\ \A q \in 1..a.p - 1 : a.res[q] \in Shown(n, q)
      /\ a.caught <=> \E q \in 1..a.p - 1 : a.res[q] # "pass"
      /\ a.step = "log" => /\ a.vvps # {} /\ Plan[a.p] \in DOMAIN d.log
                           /\ d.log[Plan[a.p]] \in Shown(n, a.p)
  BY <1>5 DEF AtWork
<1> QED
  BY <1>1, <1>3, <1>4, <1>6 DEF a, d

\* A bench is compiled from the tree the row is meant to test.
LEMMA BuildRight ==
    ASSUME PoolInv, Keep, NEW n \in Rows, Build(n)
    PROVE  PoolInv'
<1> DEFINE b == at[n]
           kind == Plan[b.p].kind
<1>1. RowAt(n, "prog")
  BY DEF Build
<1>2. /\ b \in AtSet /\ script \in DOMAIN Plans
      /\ at = [at EXCEPT ![n] = b] /\ dir = [dir EXCEPT ![n] = dir[n]]
      /\ dir[n] = [rtl |-> dir[n].rtl, vvp |-> dir[n].vvp, log |-> dir[n].log]
  BY <1>1, Worker
<1>3. /\ b.step = "prog" /\ dir[n].rtl = Mutated(n) /\ Fragments(Mutated(n)) = Intended(n)
      /\ Anchored(n) /\ b.p \in 1..Len(Plan) /\ Len(Plan) \in Nat /\ Len(b.res) = b.p - 1
      /\ \A x \in b.vvps : x \in DOMAIN dir[n].vvp /\ dir[n].vvp[x] = Mutated(n)
      /\ \A q \in 1..b.p - 1 : b.res[q] \in Shown(n, q)
      /\ b.caught <=> \E q \in 1..b.p - 1 : b.res[q] # "pass"
  BY <1>1, Ready
<1>4. CASE Intended(n) \cap Broken # {}
  <2>1. Return(n, "does not compile", <<>>) /\ UNCHANGED <<at, dir>>
    BY <1>3, <1>4 DEF Build
  <2>2. RowTrue(n, [verdict |-> "does not compile", res |-> <<>>])
    BY <1>3, <1>4 DEF RowTrue
  <2>3. "does not compile" \in Verdicts /\ <<>> \in Seq(OutcomeNames)
    BY DEF Verdicts
  <2> QED
    BY <1>1, <2>1, <2>2, <2>3, Returned
<1>5. CASE Intended(n) \cap Broken = {}
  <2> DEFINE a == [b EXCEPT !.vvps = @ \cup {kind}]
             f == Put(dir[n].vvp, kind, dir[n].rtl)
             d == [dir[n] EXCEPT !.vvp = f]
  <2>1. /\ dir' = [dir EXCEPT ![n].vvp = f] /\ at' = [at EXCEPT ![n].vvps = @ \cup {kind}]
        /\ UNCHANGED <<fut, row>>
    BY <1>3, <1>5 DEF Build
  <2>2. dir' = [dir EXCEPT ![n] = d] /\ at' = [at EXCEPT ![n] = a]
    BY <2>1
  <2>3. kind \in Kinds
    BY <1>2, <1>3, PlanFacts
  <2>4. /\ a \in AtSet /\ a.step = "prog" /\ a.p = b.p /\ a.vvps = b.vvps \cup {kind}
        /\ a.res = b.res /\ a.caught = b.caught
    BY <1>2, <1>3, <2>3 DEF AtSet
  <2>5. /\ d = [rtl |-> d.rtl, vvp |-> d.vvp, log |-> d.log]
        /\ d.rtl = dir[n].rtl /\ d.vvp = f
    BY <1>2
  <2>6. \A x \in b.vvps \cup {kind} : x \in DOMAIN f /\ f[x] = Mutated(n)
    BY <1>3 DEF Put
  <2>7. b.p \in DOMAIN Plan
    BY <1>2, <1>3, PlanFacts
  <2> HIDE DEF a, d, f, kind
  <2>8. AtWork(n, a, d)
    BY <1>3, <1>5, <2>4, <2>5, <2>6, <2>7 DEF AtWork
  <2> QED
    BY <1>1, <2>1, <2>2, <2>4, <2>5, <2>8, GoesOn
<1> QED
  BY <1>4, <1>5

\* A program's log says what the intended tree shows, or that time ran out.
LEMMA SimulateRight ==
    ASSUME PoolInv, Keep, NEW n \in Rows, Simulate(n)
    PROVE  PoolInv'
<1> DEFINE b == at[n]
           p == Plan[b.p]
<1>1. RowAt(n, "prog")
  BY DEF Simulate
<1>2. /\ b \in AtSet /\ script \in DOMAIN Plans
      /\ dir[n] = [rtl |-> dir[n].rtl, vvp |-> dir[n].vvp, log |-> dir[n].log]
  BY <1>1, Worker
<1>3. /\ b.step = "prog" /\ dir[n].rtl = Mutated(n) /\ Fragments(Mutated(n)) = Intended(n)
      /\ Anchored(n) /\ b.p \in 1..Len(Plan) /\ Len(Plan) \in Nat /\ Len(b.res) = b.p - 1
      /\ \A x \in b.vvps : x \in DOMAIN dir[n].vvp /\ dir[n].vvp[x] = Mutated(n)
      /\ b.vvps # {} => Intended(n) \cap Broken = {}
      /\ \A q \in 1..b.p - 1 : b.res[q] \in Shown(n, q)
      /\ b.caught <=> \E q \in 1..b.p - 1 : b.res[q] # "pass"
  BY <1>1, Ready
<1>4. p.kind \in b.vvps
  BY DEF Simulate, MustBuild
<1>5. PICK o \in Outcomes(p, dir[n].vvp[p.kind]) : dir' = [dir EXCEPT ![n].log = Put(@, p, o)]
  BY DEF Simulate
<1>6. o \in Shown(n, b.p)
  BY <1>3, <1>4, <1>5 DEF Outcomes, Shown, Noticed
<1> DEFINE a == [b EXCEPT !.step = "log"]
           f == Put(dir[n].log, p, o)
           d == [dir[n] EXCEPT !.log = f]
<1>7. /\ dir' = [dir EXCEPT ![n] = d] /\ at' = [at EXCEPT ![n] = a]
      /\ UNCHANGED <<fut, row>>
  BY <1>5 DEF Simulate
<1>8. /\ a \in AtSet /\ a.step = "log" /\ a.p = b.p /\ a.vvps = b.vvps
      /\ a.res = b.res /\ a.caught = b.caught
  BY <1>2 DEF AtSet
<1>9. /\ d = [rtl |-> d.rtl, vvp |-> d.vvp, log |-> d.log]
      /\ d.rtl = dir[n].rtl /\ d.vvp = dir[n].vvp /\ d.log = f
  BY <1>2
<1>10. p \in DOMAIN f /\ f[p] = o
  BY DEF Put
<1>11. b.p \in DOMAIN Plan
  BY <1>2, <1>3, PlanFacts
<1> HIDE DEF a, d, f
<1>12. AtWork(n, a, d)
  BY <1>3, <1>4, <1>6, <1>8, <1>9, <1>10, <1>11 DEF AtWork
<1> QED
  BY <1>1, <1>7, <1>8, <1>9, <1>12, GoesOn

\* The results with one more.
LEMMA MoreResults ==
    ASSUME NEW n \in DOMAIN Edits, NEW p \in Nat \ {0}, NEW s \in Seq(OutcomeNames),
           NEW o \in Shown(n, p), NEW caught \in BOOLEAN,
           Len(s) = p - 1, \A q \in 1..p - 1 : s[q] \in Shown(n, q),
           caught <=> \E q \in 1..p - 1 : s[q] # "pass"
    PROVE  /\ Append(s, o) \in Seq(OutcomeNames) /\ Len(Append(s, o)) = p
           /\ \A q \in 1..p : Append(s, o)[q] \in Shown(n, q)
           /\ (caught \/ o # "pass") <=> \E q \in 1..p : Append(s, o)[q] # "pass"
<1> DEFINE t == Append(s, o)
<1>1. o \in OutcomeNames
  BY DEF Shown, OutcomeNames
<1>2. /\ t \in Seq(OutcomeNames) /\ Len(t) = p /\ t[p] = o
      /\ \A q \in 1..p - 1 : t[q] = s[q]
  BY <1>1, AppendProperties
<1> HIDE DEF t
<1>3. \A q \in 1..p : q \in 1..p - 1 \/ q = p
  OBVIOUS
<1>4. 1..p - 1 \subseteq 1..p /\ p \in 1..p
  OBVIOUS
<1>5. \A q \in 1..p : t[q] \in Shown(n, q)
  BY <1>2, <1>3
<1>6. (caught \/ o # "pass") <=> \E q \in 1..p : t[q] # "pass"
  BY <1>2, <1>3, <1>4
<1> QED
  BY <1>2, <1>5, <1>6 DEF t

\* A verdict from the results of the programs that ran is true.
LEMMA VerdictTrue ==
    ASSUME NEW n \in DOMAIN Edits, Anchored(n), Intended(n) \cap Broken = {},
           NEW s \in Seq(OutcomeNames), NEW caught \in BOOLEAN, Len(s) \in 1..Len(Plan),
           \A q \in 1..Len(s) : s[q] \in Shown(n, q),
           caught <=> \E q \in 1..Len(s) : s[q] # "pass",
           NEW v \in {"caught", "survived", "survived, expected"}, v = "caught" <=> caught,
           ~caught \/ all_progs => Len(s) = Len(Plan)
    PROVE  v \in Verdicts /\ RowTrue(n, [verdict |-> v, res |-> s])
<1> DEFINE r == [verdict |-> v, res |-> s]
<1>1. r.verdict = v /\ r.res = s /\ DOMAIN s = 1..Len(s)
  <2>1. s \in Seq(OutcomeNames)
    OBVIOUS
  <2>2. DOMAIN s = 1..Len(s)
    BY <2>1, LenProperties
  <2> QED
    BY <2>2
<1> HIDE DEF r
<1>2. \A p \in DOMAIN s : s[p] # "timeout" => ((s[p] = "fail") <=> Noticed(n, p))
  BY <1>1 DEF Shown
<1>3. RowTrue(n, r)
  BY <1>1, <1>2 DEF RowTrue
<1> QED
  BY <1>3 DEF r, Verdicts

\* wa_mutants.py and xc7_mutants.py: a verdict when all programs of PROGS have run, or
\* one has noticed and -a was not given; otherwise the next program.
LEMMA ReadLogRight ==
    ASSUME PoolInv, Keep, NEW n \in Rows, ReadLog(n)
    PROVE  PoolInv'
<1> DEFINE b == at[n]
           o == dir[n].log[Plan[b.p]]
           res == Append(b.res, o)
           caught == b.caught \/ o # "pass"
<1>1. RowAt(n, "log")
  BY DEF ReadLog
<1>2. /\ b \in AtSet /\ n \in DOMAIN Edits /\ script \in DOMAIN Plans /\ all_progs \in BOOLEAN
      /\ dir = [dir EXCEPT ![n] = dir[n]]
      /\ dir[n] = [rtl |-> dir[n].rtl, vvp |-> dir[n].vvp, log |-> dir[n].log]
  BY <1>1, Worker
<1>3. /\ b.step = "log" /\ dir[n].rtl = Mutated(n) /\ Anchored(n)
      /\ b.p \in 1..Len(Plan) /\ Len(Plan) \in Nat /\ Len(b.res) = b.p - 1
      /\ \A x \in b.vvps : x \in DOMAIN dir[n].vvp /\ dir[n].vvp[x] = Mutated(n)
      /\ b.vvps # {} => Intended(n) \cap Broken = {}
      /\ \A q \in 1..b.p - 1 : b.res[q] \in Shown(n, q)
      /\ b.caught <=> \E q \in 1..b.p - 1 : b.res[q] # "pass"
      /\ b.vvps # {} /\ o \in Shown(n, b.p)
  BY <1>1, Ready
<1>4. /\ b.res \in Seq(OutcomeNames) /\ b.caught \in BOOLEAN /\ caught \in BOOLEAN
      /\ b.p \in Nat \ {0} /\ Intended(n) \cap Broken = {}
  BY <1>2, <1>3 DEF AtSet
<1> HIDE DEF o
<1>5. /\ res \in Seq(OutcomeNames) /\ Len(res) = b.p
      /\ \A q \in 1..b.p : res[q] \in Shown(n, q)
      /\ caught <=> \E q \in 1..b.p : res[q] # "pass"
  <2>1. /\ o \in Shown(n, b.p) /\ Len(b.res) = b.p - 1
        /\ \A q \in 1..b.p - 1 : b.res[q] \in Shown(n, q)
        /\ b.caught <=> \E q \in 1..b.p - 1 : b.res[q] # "pass"
    BY <1>3
  <2> HIDE DEF b
  <2> QED
    BY <1>2, <1>4, <2>1, MoreResults
<1>6. /\ IF b.p = Len(Plan) \/ (caught /\ ~all_progs)
         THEN Return(n, Verdict(n, caught), res) /\ UNCHANGED at
         ELSE /\ at' = [at EXCEPT ![n] = [b EXCEPT !.step = "prog", !.p = @ + 1,
                                                   !.res = res, !.caught = caught]]
              /\ UNCHANGED <<fut, row>>
      /\ UNCHANGED dir
  BY DEF ReadLog, o
<1> HIDE DEF res, caught
<1>7. CASE b.p = Len(Plan) \/ (caught /\ ~all_progs)
  <2> DEFINE v == Verdict(n, caught)
  <2>1. v \in {"caught", "survived", "survived, expected"} /\ (v = "caught" <=> caught)
    BY <1>4 DEF Verdict, caught
  <2> HIDE DEF v
  <2>2. ~caught \/ all_progs => Len(res) = Len(Plan)
    BY <1>2, <1>5, <1>7
  <2>3. Len(res) \in 1..Len(Plan)
    BY <1>3, <1>5
  <2>4. caught \in BOOLEAN
    BY <1>4 DEF caught
  <2>5. v \in Verdicts /\ RowTrue(n, [verdict |-> v, res |-> res])
    BY <1>2, <1>3, <1>4, <1>5, <2>1, <2>2, <2>3, <2>4, VerdictTrue
  <2>6. Return(n, v, res) /\ UNCHANGED <<at, dir>>
    BY <1>6, <1>7 DEF v
  <2> QED
    BY <1>1, <1>5, <2>5, <2>6, Returned
<1>8. CASE ~(b.p = Len(Plan) \/ (caught /\ ~all_progs))
  <2> DEFINE a == [b EXCEPT !.step = "prog", !.p = @ + 1, !.res = res, !.caught = caught]
  <2>1. at' = [at EXCEPT ![n] = a] /\ UNCHANGED <<fut, row>> /\ dir' = [dir EXCEPT ![n] = dir[n]]
    BY <1>2, <1>6, <1>8
  <2>2. caught \in BOOLEAN /\ b.p + 1 \in Nat
    BY <1>4 DEF caught
  <2>3. /\ a \in AtSet /\ a.step = "prog" /\ a.p = b.p + 1 /\ a.vvps = b.vvps
        /\ a.res = res /\ a.caught = caught
    BY <1>2, <1>5, <2>2 DEF AtSet
  <2> HIDE DEF a
  <2>4. a.p \in 1..Len(Plan) /\ a.p - 1 = b.p
    BY <1>3, <1>8, <2>3
  <2>5. a.p \in DOMAIN Plan
    BY <1>2, <2>4, PlanFacts
  <2>6. AtWork(n, a, dir[n])
    BY <1>3, <1>4, <1>5, <2>3, <2>4, <2>5 DEF AtWork
  <2> QED
    BY <1>1, <1>2, <2>1, <2>3, <2>6, GoesOn
<1> QED
  BY <1>7, <1>8

\* dfpmis_mutants.py: one program, one verdict.
LEMMA ReadOnlyLogRight ==
    ASSUME PoolInv, Keep, script = "dfpmis", NEW n \in Rows, ReadOnlyLog(n)
    PROVE  PoolInv'
<1> DEFINE b == at[n]
           o == dir[n].log[Plan[1]]
           v == IF o = "pass" THEN "survived" ELSE "caught"
           z == <<>>
           s == Append(z, o)
<1>1. RowAt(n, "log")
  BY DEF ReadOnlyLog
<1>2. n \in DOMAIN Edits /\ script \in DOMAIN Plans /\ Len(Plan) = 1
  BY <1>1, Worker, PlanFacts
<1>3. /\ Anchored(n) /\ b.p \in 1..Len(Plan) /\ Intended(n) \cap Broken = {}
      /\ dir[n].log[Plan[b.p]] \in Shown(n, b.p)
  BY <1>1, Ready
<1>4. b.p = 1 /\ o \in Shown(n, 1)
  BY <1>2, <1>3
<1>5. Return(n, v, <<o>>) /\ UNCHANGED <<at, dir>>
  BY DEF ReadOnlyLog
<1>6. z \in Seq(OutcomeNames) /\ Len(z) = 0 /\ <<o>> = s
  OBVIOUS
<1> HIDE DEF o, z
<1>7. /\ s \in Seq(OutcomeNames) /\ Len(s) = 1
      /\ \A q \in 1..1 : s[q] \in Shown(n, q)
      /\ o # "pass" <=> \E q \in 1..1 : s[q] # "pass"
  <2>1. o \in OutcomeNames
    BY <1>4 DEF Shown, OutcomeNames
  <2>2. s \in Seq(OutcomeNames) /\ Len(s) = 1 /\ s[1] = o
    BY <1>6, <2>1, AppendProperties
  <2>3. \A q \in 1..1 : q = 1
    OBVIOUS
  <2> HIDE DEF s
  <2> QED
    BY <1>4, <2>2, <2>3
<1> HIDE DEF s
<1>8. v \in {"caught", "survived", "survived, expected"} /\ (v = "caught" <=> o # "pass")
  OBVIOUS
<1> HIDE DEF v
<1>9. v \in Verdicts /\ RowTrue(n, [verdict |-> v, res |-> s])
  <2>1. Len(s) \in 1..Len(Plan) /\ Len(s) = Len(Plan)
    BY <1>2, <1>7
  <2>2. /\ \A q \in 1..Len(s) : s[q] \in Shown(n, q)
        /\ o # "pass" <=> \E q \in 1..Len(s) : s[q] # "pass"
    BY <1>7
  <2> DEFINE caught == o # "pass"
  <2>3. /\ caught \in BOOLEAN /\ v = "caught" <=> caught
        /\ caught <=> \E q \in 1..Len(s) : s[q] # "pass"
    BY <1>8, <2>2
  <2> HIDE DEF caught
  <2> QED
    BY <1>2, <1>3, <1>7, <1>8, <2>1, <2>2, <2>3, VerdictTrue
<1> QED
  BY <1>1, <1>5, <1>6, <1>7, <1>9, Returned DEF s

----------------------------------------------------------------------------
(* The table *)

\* Every step of the three run() functions keeps the invariant.
LEMMA RowStep ==
    ASSUME PoolInv, NEW n \in Rows, WaRow(n) \/ Xc7Row(n) \/ DfpmisRow(n)
    PROVE  PoolInv'
<1>1. Keep /\ (Prepare(n) \/ ReadLog(n) \/ (script = "dfpmis" /\ ReadOnlyLog(n)))
  BY DEF WaRow, Xc7Row, DfpmisRow
<1>2. CASE Prepare(n)
  BY <1>1, <1>2, CopyRight, EditRight, BuildRight, SimulateRight DEF Prepare
<1>3. CASE ReadLog(n)
  BY <1>1, <1>3, ReadLogRight
<1>4. CASE script = "dfpmis" /\ ReadOnlyLog(n)
  BY <1>1, <1>4, ReadOnlyLogRight
<1> QED
  BY <1>1, <1>2, <1>3, <1>4

\* Steps of the main thread, which leave every row where it is.
LEMMA MainThread ==
    ASSUME PoolInv, KeepRows, main' \in MainSteps, main' # "assemble",
           fut' \in [Rows -> Futures],
           \A n \in Rows : fut'[n] = fut[n] \/ fut'[n] = "cancelled"
                             \/ (fut'[n] # "finished" /\ at[n] = Entry),
           printed' \in Seq(RowSet), Len(printed') <= Len(Names),
           \A i \in DOMAIN printed' : RowTrue(Names[i], printed'[i])
    PROVE  PoolInv'
<1>1. /\ session' = session /\ script' = script /\ all_progs' = all_progs
      /\ at' = at /\ row' = row /\ dir' = dir
  BY DEF KeepRows
<1>2. AtSet' = AtSet
  BY <1>1 DEF AtSet, Kinds, Plan
<1>3. PoolShape'
  BY <1>1, <1>2 DEF PoolInv, PoolShape
<1>4. ASSUME NEW m \in Rows PROVE RowRight(m, fut[m], at[m], dir[m], row[m])'
  <2> DEFINE b == at[m]
             e == dir[m]
             q == row[m]
             v == fut'[m]
  <2>1. at'[m] = b /\ dir'[m] = e /\ row'[m] = q
    BY <1>1
  <2>2. RowRight(m, fut[m], b, e, q)
    BY DEF PoolInv
  <2>3. v = fut[m] \/ v = "cancelled" \/ (v # "finished" /\ b = Entry)
    OBVIOUS
  <2> HIDE DEF b, e, q, v
  <2>5. /\ v \in {"none", "queued"} => b = Entry
        /\ v = "running" => AtWork(m, b, e)
        /\ v = "finished" => RowTrue(m, q)
    BY <2>2, <2>3 DEF RowRight, AtWork
  <2> QED
    BY <1>1, <2>1, <2>5, SameMeaning DEF RowRight, v
<1>5. RowsTrue'
  BY <1>1, SameMeaning DEF RowsTrue
<1> QED
  BY <1>3, <1>4, <1>5 DEF PoolInv

\* Before the rows are submitted none has begun.
LEMMA AssembleRight == ASSUME PoolInv, Assemble PROVE PoolInv'
<1>1. /\ KeepRows /\ printed' = printed /\ main = "assemble"
      /\ main' \in MainSteps /\ main' # "assemble"
  BY DEF Assemble, MainSteps
<1>2. printed' \in Seq(RowSet) /\ Len(printed') <= Len(Names)
      /\ \A i \in DOMAIN printed' : RowTrue(Names[i], printed'[i])
  BY <1>1 DEF PoolInv, PoolShape, RowsTrue
<1>3. \A n \in Rows : fut[n] = "none" /\ at[n] = Entry
  BY <1>1 DEF PoolInv, RowRight
<1>4. fut' \in [Rows -> Futures]
  BY DEF Assemble, PoolInv, PoolShape, Futures
<1>5. \A n \in Rows : fut'[n] = fut[n] \/ fut'[n] = "queued"
  BY DEF Assemble
<1> QED
  BY <1>1, <1>2, <1>3, <1>4, <1>5, MainThread

\* A row that starts stands before its first statement.
LEMMA StartRight == ASSUME PoolInv, StartRow PROVE PoolInv'
<1>1. PICK i \in DOMAIN Names : /\ fut[Names[i]] = "queued"
                                /\ fut' = [fut EXCEPT ![Names[i]] = "running"]
  BY DEF StartRow
<1>2. KeepRows /\ main' = main /\ printed' = printed
  BY DEF StartRow
<1>3. Names[i] \in Rows
  BY DEF Rows, ToSet
<1>4. main # "assemble" /\ at[Names[i]] = Entry
  BY <1>1, <1>3 DEF PoolInv, RowRight
<1>5. printed' \in Seq(RowSet) /\ Len(printed') <= Len(Names)
      /\ \A k \in DOMAIN printed' : RowTrue(Names[k], printed'[k])
  BY <1>2 DEF PoolInv, PoolShape, RowsTrue
<1>6. fut' \in [Rows -> Futures]
  BY <1>1 DEF PoolInv, PoolShape, Futures
<1>7. \A n \in Rows : fut'[n] = fut[n] \/ (fut'[n] = "running" /\ at[n] = Entry)
  BY <1>1, <1>3, <1>4 DEF PoolInv, PoolShape
<1>8. main' \in MainSteps /\ main' # "assemble"
  BY <1>2, <1>4 DEF PoolInv, PoolShape
<1> QED
  BY <1>2, <1>5, <1>6, <1>7, <1>8, MainThread

\* What ex.map yields is what the row returned, and rows are printed in the order of the
\* table; a row that is cancelled returns nothing.
LEMMA PrintRight == ASSUME PoolInv, PrintRow PROVE PoolInv'
<1> DEFINE n == Names[Len(printed) + 1]
<1>1. /\ main = "mapping" /\ Len(printed) < Len(Names) /\ KeepRows
      /\ \/ fut[n] = "finished" /\ printed' = Append(printed, row[n]) /\ UNCHANGED <<main, fut>>
         \/ /\ main' = "raising" /\ UNCHANGED printed
            /\ fut' = [m \in Rows |-> IF fut[m] = "queued" THEN "cancelled" ELSE fut[m]]
  BY DEF PrintRow
<1>2. /\ printed \in Seq(RowSet) /\ Len(printed) \in Nat /\ Len(Names) \in Nat
      /\ DOMAIN Names = 1..Len(Names)
  BY RowsAssumption DEF PoolInv, PoolShape
<1>3. n \in Rows
  BY <1>1, <1>2 DEF Rows, ToSet
<1>4. CASE fut[n] = "finished" /\ printed' = Append(printed, row[n]) /\ UNCHANGED <<main, fut>>
  <2>1. RowTrue(n, row[n]) /\ row[n] \in RowSet
    BY <1>3, <1>4 DEF PoolInv, PoolShape, RowRight
  <2>2. /\ printed' \in Seq(RowSet) /\ Len(printed') = Len(printed) + 1
        /\ DOMAIN printed' = 1..Len(printed) + 1
        /\ printed'[Len(printed) + 1] = row[n]
        /\ \A i \in 1..Len(printed) : printed'[i] = printed[i]
    <3> DEFINE r == row[n]
    <3>1. r \in RowSet /\ printed' = Append(printed, r)
      BY <1>4, <2>1
    <3> HIDE DEF r
    <3>2. /\ Append(printed, r) \in Seq(RowSet) /\ Len(Append(printed, r)) = Len(printed) + 1
          /\ DOMAIN Append(printed, r) = 1..Len(printed) + 1
          /\ Append(printed, r)[Len(printed) + 1] = r
          /\ \A i \in 1..Len(printed) : Append(printed, r)[i] = printed[i]
      BY <1>2, <3>1, AppendProperties
    <3> QED
      BY <3>1, <3>2 DEF r
  <2>3. \A i \in 1..Len(printed) : RowTrue(Names[i], printed[i])
    BY <1>2 DEF PoolInv, RowsTrue
  <2>4. \A i \in DOMAIN printed' : RowTrue(Names[i], printed'[i])
    <3> SUFFICES ASSUME NEW i \in DOMAIN printed' PROVE RowTrue(Names[i], printed'[i])
      OBVIOUS
    <3>1. CASE i = Len(printed) + 1
      BY <2>1, <2>2, <3>1
    <3>2. CASE i # Len(printed) + 1
      <4>1. i \in 1..Len(printed)
        BY <1>2, <2>2, <3>2
      <4> QED
        BY <2>2, <2>3, <4>1
    <3> QED
      BY <3>1, <3>2
  <2>5. fut' \in [Rows -> Futures] /\ main' \in MainSteps /\ main' # "assemble"
    BY <1>1, <1>4 DEF PoolInv, PoolShape
  <2>6. Len(printed') <= Len(Names)
    BY <1>1, <1>2, <2>2
  <2> QED
    BY <1>1, <1>4, <2>2, <2>4, <2>5, <2>6, MainThread
<1>5. CASE /\ main' = "raising" /\ UNCHANGED printed
           /\ fut' = [m \in Rows |-> IF fut[m] = "queued" THEN "cancelled" ELSE fut[m]]
  <2>1. fut' \in [Rows -> Futures] /\ \A m \in Rows : fut'[m] = fut[m] \/ fut'[m] = "cancelled"
    BY <1>5 DEF PoolInv, PoolShape, Futures
  <2>2. printed' \in Seq(RowSet) /\ Len(printed') <= Len(Names)
        /\ \A i \in DOMAIN printed' : RowTrue(Names[i], printed'[i])
    BY <1>5 DEF PoolInv, PoolShape, RowsTrue
  <2>3. main' \in MainSteps /\ main' # "assemble"
    BY <1>5 DEF MainSteps
  <2> QED
    BY <1>1, <2>1, <2>2, <2>3, MainThread
<1> QED
  BY <1>1, <1>4, <1>5

\* The end of the pool changes no row.
LEMMA ShutdownRight == ASSUME PoolInv, Shutdown PROVE PoolInv'
<1>1. KeepRows /\ fut' = fut /\ printed' = printed /\ main' \in MainSteps /\ main' # "assemble"
  BY DEF Shutdown, MainSteps
<1>2. fut' \in [Rows -> Futures]
  BY <1>1 DEF PoolInv, PoolShape
<1>3. printed' \in Seq(RowSet) /\ Len(printed') <= Len(Names)
      /\ \A i \in DOMAIN printed' : RowTrue(Names[i], printed'[i])
  BY <1>1 DEF PoolInv, PoolShape, RowsTrue
<1>4. \A n \in Rows : fut'[n] = fut[n]
  BY <1>1
<1> QED
  BY <1>1, <1>2, <1>3, <1>4, MainThread

----------------------------------------------------------------------------
(* A fresh start *)

\* A script that starts has printed nothing and begun no row, whatever is on the disk.
LEMMA FreshRight ==
    ASSUME script' \in DOMAIN Plans, all_progs' \in BOOLEAN, session' \in 1..Len(Sources),
           main' = "assemble", Fresh, dir' = [n \in Rows |-> dir'[n]],
           \A n \in Rows :
               dir'[n] = [rtl |-> dir'[n].rtl, vvp |-> dir'[n].vvp, log |-> dir'[n].log]
    PROVE  PoolInv'
<1>1. /\ fut' = [n \in Rows |-> "none"] /\ at' = [n \in Rows |-> Entry]
      /\ row' = [n \in Rows |-> NoRow] /\ printed' = <<>>
  BY DEF Fresh
<1>2. Entry \in AtSet' /\ NoRow \in RowSet
  <2>1. <<>> \in Seq(OutcomeNames)
    OBVIOUS
  <2> QED
    BY <2>1 DEF Entry, NoRow, AtSet, RowSet, Verdicts
<1>3. printed' \in Seq(RowSet) /\ Len(printed') = 0 /\ DOMAIN printed' = {}
  BY <1>1
<1>4. Len(Names) \in Nat
  BY RowsAssumption
<1>5. fut' \in [Rows -> Futures] /\ at' \in [Rows -> AtSet'] /\ row' \in [Rows -> RowSet]
  BY <1>1, <1>2 DEF Futures
<1>6. PoolShape'
  BY <1>3, <1>4, <1>5 DEF PoolShape, MainSteps
<1>7. \A n \in Rows : RowRight(n, fut[n], at[n], dir[n], row[n])'
  BY <1>1 DEF RowRight
<1>8. RowsTrue'
  BY <1>3 DEF RowsTrue
<1> QED
  BY <1>1, <1>6, <1>7, <1>8 DEF PoolInv

\* The first session.
LEMMA PoolFirst == ASSUME PoolInit PROVE PoolInv
<1>1. /\ fut = [n \in Rows |-> "none"] /\ at = [n \in Rows |-> Entry]
      /\ row = [n \in Rows |-> NoRow] /\ printed = <<>> /\ dir = [n \in Rows |-> Empty]
      /\ main = "assemble" /\ script \in DOMAIN Plans /\ all_progs \in BOOLEAN /\ session = 1
  BY DEF PoolInit
<1>2. Entry \in AtSet /\ NoRow \in RowSet
  <2>1. <<>> \in Seq(OutcomeNames)
    OBVIOUS
  <2> QED
    BY <2>1 DEF Entry, NoRow, AtSet, RowSet, Verdicts
<1>3. printed \in Seq(RowSet) /\ Len(printed) = 0 /\ DOMAIN printed = {}
  BY <1>1
<1>4. Len(Names) \in Nat
  BY RowsAssumption
<1>5. 1 \in 1..Len(Sources)
  <2>1. Sources \in Seq(ToSet(Sources)) /\ Sources # <<>>
    BY RowsAssumption DEF Sequence
  <2>2. Len(Sources) \in Nat /\ Len(Sources) # 0
    BY <2>1, EmptySeq
  <2> QED
    BY <2>2
<1>6. fut \in [Rows -> Futures] /\ at \in [Rows -> AtSet] /\ row \in [Rows -> RowSet]
  BY <1>1, <1>2 DEF Futures
<1>7. /\ dir = [n \in Rows |-> dir[n]]
      /\ \A n \in Rows : dir[n] = [rtl |-> dir[n].rtl, vvp |-> dir[n].vvp, log |-> dir[n].log]
  BY <1>1 DEF Empty
<1>8. PoolShape
  BY <1>1, <1>3, <1>4, <1>5, <1>6, <1>7 DEF PoolShape, MainSteps
<1>9. \A n \in Rows : fut[n] = "none" /\ at[n] = Entry
  BY <1>1
<1>10. \A n \in Rows : RowRight(n, fut[n], at[n], dir[n], row[n])
  BY <1>9 DEF RowRight
<1>11. RowsTrue
  BY <1>3 DEF RowsTrue
<1> QED
  BY <1>8, <1>9, <1>10, <1>11 DEF PoolInv

\* A script that is killed and started again: its directories stay, nothing else.
LEMMA KillRight == ASSUME PoolInv, KillAndRestart PROVE PoolInv'
<1>1. /\ Fresh /\ main' = "assemble" /\ session' = session + 1 /\ session < Len(Sources)
      /\ script' = script /\ all_progs' = all_progs /\ dir' = dir
  BY DEF KillAndRestart
<1>2. Len(Sources) \in Nat
  BY RowsAssumption DEF Sequence
<1>3. session' \in 1..Len(Sources)
  BY <1>1, <1>2 DEF PoolInv, PoolShape
<1>4. /\ dir' = [n \in Rows |-> dir'[n]]
      /\ \A n \in Rows :
             dir'[n] = [rtl |-> dir'[n].rtl, vvp |-> dir'[n].vvp, log |-> dir'[n].log]
      /\ script' \in DOMAIN Plans /\ all_progs' \in BOOLEAN
  BY <1>1 DEF PoolInv, PoolShape
<1> QED
  BY <1>1, <1>3, <1>4, FreshRight

\* Every step of the scripts, and a kill at any moment, keeps the invariant.
LEMMA PoolKeeps == ASSUME PoolInv, [PoolNext]_pool PROVE PoolInv'
<1>1. CASE \E n \in Rows : WaRow(n) \/ Xc7Row(n) \/ DfpmisRow(n)
  BY <1>1, RowStep
<1>2. CASE Assemble \/ StartRow \/ PrintRow \/ Shutdown
  BY <1>2, AssembleRight, StartRight, PrintRight, ShutdownRight
<1>3. CASE KillAndRestart
  BY <1>3, KillRight
<1>4. CASE UNCHANGED pool
  <2>1. /\ session' = session /\ script' = script /\ all_progs' = all_progs /\ main' = main
        /\ fut' = fut /\ at' = at /\ row' = row /\ dir' = dir /\ printed' = printed
    BY <1>4 DEF pool
  <2>2. AtSet' = AtSet
    BY <2>1 DEF AtSet, Kinds, Plan
  <2>3. PoolShape'
    BY <2>1, <2>2 DEF PoolInv, PoolShape
  <2>4. ASSUME NEW n \in Rows PROVE RowRight(n, fut[n], at[n], dir[n], row[n])'
    <3> DEFINE b == at[n]
               e == dir[n]
               q == row[n]
    <3>1. RowRight(n, fut[n], b, e, q) /\ at'[n] = b /\ dir'[n] = e /\ row'[n] = q
      BY <2>1 DEF PoolInv
    <3> HIDE DEF b, e, q
    <3> QED
      BY <2>1, <3>1, SameMeaning DEF RowRight
  <2>5. RowsTrue'
    BY <2>1, SameMeaning DEF PoolInv, RowsTrue
  <2> QED
    BY <2>1, <2>3, <2>4, <2>5 DEF PoolInv
<1> QED
  BY <1>1, <1>2, <1>3, <1>4 DEF PoolNext, Step

\* Every row's tree, benches, logs and results are those of the tree it is meant to
\* test, whatever other rows run beside it and whatever a killed session left: the
\* run() functions and the main() of the three scripts, for every table of rows.
THEOREM PoolInductive == PoolSpec => []PoolInv
<1>1. PoolInit => PoolInv
  BY PoolFirst
<1>2. PoolInv /\ [PoolNext]_pool => PoolInv'
  BY PoolKeeps
<1> QED
  BY <1>1, <1>2, PTL DEF PoolSpec

\* A printed verdict is true of its row and of the sources of the session
\* (wa_mutants.py:97-132, xc7_mutants.py:78-114, dfpmis_mutants.py:80-111).
THEOREM PoolPrintsTruth == PoolSpec => []RowsTrue
<1>1. PoolInv => RowsTrue
  BY DEF PoolInv
<1> QED
  BY <1>1, PoolInductive, PTL

===============================================================================
