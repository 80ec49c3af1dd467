-------------------------------- MODULE FuzzGen --------------------------------
(***************************************************************************)
(* tb/perf/fuzz/gen.py: the random programs of the differential runs, and  *)
(* what a processor does with them.  gen.py emits a program; two builds    *)
(* run it and what they dump is compared.                                  *)
(*                                                                         *)
(* Data is reduced to the places where this run differs from the run it is *)
(* compared with: d0-d6 ("d"), the loop counter d7, and the work area      *)
(* $2000-$2FFF in two parts, "lo" below $2C00 and "hi" from there on.      *)
(* Pointers never take data, so two runs access the same addresses.        *)
(***************************************************************************)
EXTENDS Naturals, SequencesExt

CONSTANTS Nops,       \* [nops]: the length of the main body
          Inner,      \* the length of a handler's or a subroutine's body
          TrapsUsed,  \* the TRAP numbers (0-2 in gen.py)
          MaxIrqs     \* bound: interrupts the bench raises

\* TRAP 15 is the way out of user mode.
ASSUME TrapsAssumption == TrapsUsed \subseteq 0..14

VARIABLES irq,      \* GEN_IRQ
          todo,     \* the generator: the bodies still to write
          left,     \* and the lines left of the first of them
          user,     \* its user[0]
          code,     \* per routine: the lines written
          cpu,      \* the processor: where it is, SR, both stacks
          irqs,     \* the interrupt handler's counter ($4000)
          bad,      \* the core under test has made a wrong store
          differ,   \* the places that differ
          dump      \* of what is dumped, what differs

vars == <<irq, todo, left, user, code, cpu, irqs, bad, differ, dump>>

Op(o) == [op |-> o]
To(o, r) == [op |-> o, to |-> r]
Main == <<"main", 0>>
Trp(t) == <<"trp", t>>
Sub(n) == <<"sub", n>>
Irq2 == <<"irq", 2>>
Subs == {r \in DOMAIN code : r[1] = "sub"}

TypeOK ==
  /\ {irq, user, bad, cpu.s, cpu.masked} \subseteq BOOLEAN
  /\ left \in 0..Nops /\ irqs \in 0..MaxIrqs
  /\ differ \subseteq {"lo", "hi", "d", "d7"} /\ dump \subseteq {"lo", "hi", "d"}
  /\ cpu.state \in {"run", "halt", "unexp", "irqnone"} /\ cpu.r \in DOMAIN code

-------------------------------------------------------------------------------
\* The generator.

\* body(): the random mix.  Stores, loads and read-modify-writes by the part they
\* touch, pairs through the stack, copy loops, and "alu" for all that computes
\* on registers or counts in the bench.
DataOps ==
  {[op |-> o, part |-> p] : o \in {"store", "load"}, p \in {"lo", "hi"}}
    \cup {Op("copy"), Op("push"), Op("alu")}

\* Depth 0 only; entering user mode and leaving it alternate.
ControlOps ==
  {To("trap", Trp(t)) : t \in TrapsUsed}
    \cup {IF user THEN To("trap", Trp(15)) ELSE Op("user")}
    \cup {To("bsr", Sub(Cardinality(Subs) + 1))}

\* The instructions of one random choice.
Lines(o) ==
  CASE o.op = "copy" -> <<Op("set_d7"), o>>
    [] o.op = "push" -> <<o, Op("pop")>>
    [] OTHER -> <<o>>

Body ==
  /\ todo # <<>> /\ left > 0
  /\ \E o \in DataOps \cup (IF todo[1] = Main THEN ControlOps ELSE {}) :
       /\ user' = CASE o.op = "user" -> TRUE
                    [] o.op = "trap" -> user /\ o.to # Trp(15)
                    [] OTHER -> user
       /\ IF o.op = "bsr"
          THEN /\ todo' = Append(todo, o.to)
               /\ code' = [r \in DOMAIN code \cup {o.to} |->
                            CASE r = o.to -> <<>>
                              [] r = Main -> Append(code[Main], o)
                              [] OTHER -> code[r]]
          ELSE /\ code' = [code EXCEPT ![todo[1]] = @ \o Lines(o)]
               /\ UNCHANGED todo
  /\ left' = left - 1
  /\ UNCHANGED <<irq, cpu, irqs, bad, differ, dump>>

\* The lines behind the main body.
Results == <<Op("dump"), Op("privileged"), Op("halt")>>
IrqsOff == IF irq THEN <<Op("mask"), Op("tst")>> ELSE <<>>

\* Mutant of Epilogue: a program that ends in user mode stays there.
EpilogueAsIs == IrqsOff \o Results

Epilogue ==
  (IF user THEN <<To("trap", Trp(15))>> ELSE <<>>) \o IrqsOff \o Results

\* A body is complete: the lines behind it; then the next one.
Close ==
  /\ todo # <<>> /\ left = 0
  /\ code' = [code EXCEPT ![todo[1]] =
                @ \o (CASE todo[1] = Main -> Epilogue
                        [] todo[1][1] = "trp" -> <<Op("rte")>>
                        [] OTHER -> <<Op("rts")>>)]
  /\ todo' = Tail(todo) /\ left' = IF Len(todo) > 1 THEN Inner ELSE 0
  /\ UNCHANGED <<irq, user, cpu, irqs, bad, differ, dump>>

-------------------------------------------------------------------------------
\* The processor.

Line == code[cpu.r][cpu.i]
Running == todo = <<>> /\ cpu.state = "run"

Step1(c) == [c EXCEPT !.i = @ + 1]
Jump(c, where) == [c EXCEPT !.r = where[1], !.i = where[2]]
Behind == <<cpu.r, cpu.i + 1>>

Stack == IF cpu.s THEN cpu.ss ELSE cpu.us
Set(c, stack) == IF cpu.s THEN [c EXCEPT !.ss = stack] ELSE [c EXCEPT !.us = stack]
Push(c, x) == Set(c, Append(Stack, x))
Top(kind) == Stack # <<>> /\ Last(Stack).is = kind
Pop(c) == Set(c, Front(Stack))

\* An exception: the frame goes on the supervisor stack, whatever the mode.
Except(c, target, back) ==
  [Jump(c, <<target, 1>>) EXCEPT
     !.s = TRUE,
     !.ss = Append(@, [is |-> "frame", s |-> c.s, masked |-> c.masked, back |-> back])]

\* A privilege violation, or a return through something that is no frame.
Unexpected(c) == [c EXCEPT !.state = "unexp"]

\* What may differ after a move from one place to another: the place may be the
\* one that differs, and it may be overwritten.
Move(src, dst) ==
  {differ, differ \ {dst}} \cup (IF src \in differ THEN {differ \cup {dst}} ELSE {})

Go == cpu' = Step1(cpu)
If(condition, c) == cpu' = IF condition THEN c ELSE Unexpected(cpu)

Data ==
  \/ /\ Line.op = "alu" /\ UNCHANGED <<differ, bad>> /\ Go
  \/ /\ Line.op = "load" /\ differ' \in Move(Line.part, "d") /\ UNCHANGED bad /\ Go
  \/ /\ Line.op = "store" /\ Go
     /\ \/ differ' \in Move("d", Line.part) /\ UNCHANGED bad
        \/ ~bad /\ ~irq /\ bad' = TRUE /\ differ' = differ \cup {Line.part}
  \/ /\ Line.op = "set_d7" /\ differ' = differ \ {"d7"} /\ UNCHANGED bad /\ Go
  \/ /\ Line.op = "copy" /\ UNCHANGED bad /\ Go
     /\ \E from, to \in {"lo", "hi"} :
          differ' \in IF "d7" \in differ THEN {(differ \ {"d7"}) \cup {to}}
                      ELSE Move(from, to)
  \/ /\ Line.op = "push" /\ UNCHANGED <<differ, bad>>
     /\ cpu' = Push(Step1(cpu), [is |-> "value", of |-> differ \cap {"d"}])
  \/ /\ Line.op = "pop" /\ UNCHANGED bad
     /\ differ' \in IF Top("value") /\ Last(Stack).of # {} THEN {differ, differ \cup {"d"}}
                    ELSE {differ}
     /\ If(Top("value"), Pop(Step1(cpu)))

Control ==
  /\ UNCHANGED <<differ, bad>>
  /\ \/ Line.op = "trap" /\ cpu' = Except(cpu, Line.to, Behind)
     \/ Line.op = "bsr" /\ cpu' = Jump(Push(cpu, [is |-> "return", to |-> Behind]), <<Line.to, 1>>)
     \/ Line.op = "rts" /\ If(Top("return"), Jump(Pop(cpu), Last(Stack).to))
     \/ Line.op = "user" /\ If(cpu.s, [Step1(cpu) EXCEPT !.s = FALSE])
     \/ /\ Line.op = "rte"
        /\ If(cpu.s /\ Top("frame"),
              [Jump(Pop(cpu), Last(Stack).back) EXCEPT !.s = Last(Stack).s,
                                                       !.masked = Last(Stack).masked])
     \/ /\ Line.op = "set_S"
        /\ If(Top("frame"), Set(Step1(cpu), Append(Front(Stack), [Last(Stack) EXCEPT !.s = TRUE])))

\* irq2: d0-d7/a0-a6 saved, stores to other pages checked, restored.
Registers == {"d", "d7"}

\* Mutant of Saved: the list stops at d6.
SavedToD6 == {"d"}

Saved == Registers

Handler ==
  /\ UNCHANGED bad
  /\ \/ /\ Line.op = "save" /\ UNCHANGED <<differ, irqs>>
        /\ cpu' = Push(Step1(cpu), [is |-> "regs", of |-> differ])
     \/ /\ Line.op = "work" /\ irqs' = irqs + 1
        /\ differ' = differ \cup Registers /\ Go
     \/ /\ Line.op = "restore" /\ UNCHANGED irqs
        /\ differ' = (differ \ Saved) \cup (Last(Stack).of \cap Saved)
        /\ If(Top("regs"), Pop(Step1(cpu)))

\* Interrupts off, one was taken, the results, the end.
Finish ==
  /\ UNCHANGED <<differ, bad, irqs>>
  /\ \/ Line.op = "mask" /\ If(cpu.s, [Step1(cpu) EXCEPT !.masked = TRUE]) /\ UNCHANGED dump
     \/ /\ Line.op = "tst" /\ UNCHANGED dump
        /\ cpu' = IF irqs = 0 THEN [cpu EXCEPT !.state = "irqnone"] ELSE Step1(cpu)
     \/ Line.op = "dump" /\ dump' = differ \cap {"lo", "d"} /\ Go
     \/ Line.op = "privileged" /\ If(cpu.s, Step1(cpu)) /\ UNCHANGED dump
     \/ Line.op = "halt" /\ cpu' = [cpu EXCEPT !.state = "halt"] /\ UNCHANGED dump

Execute ==
  /\ Running
  /\ \/ (Data \/ Control) /\ UNCHANGED <<irqs, dump>>
     \/ Handler /\ UNCHANGED dump
     \/ Finish
  /\ UNCHANGED <<irq, todo, left, user, code>>

\* The bench's timer (armed before the body and by each handler run) raises
\* level 2 between any two instructions.
Interrupt ==
  /\ Running /\ irq /\ ~cpu.masked /\ irqs < MaxIrqs
  /\ cpu' = [Except(cpu, Irq2, <<cpu.r, cpu.i>>) EXCEPT !.masked = TRUE]
  /\ UNCHANGED <<irq, todo, left, user, code, irqs, bad, differ, dump>>

-------------------------------------------------------------------------------

Init ==
  /\ irq \in BOOLEAN
  /\ todo = <<Main>> \o SetToSeq({Trp(t) : t \in TrapsUsed})
  /\ left = Nops /\ user = FALSE
  /\ code = [r \in {Main, Trp(15), Irq2} \cup {Trp(t) : t \in TrapsUsed} |->
               CASE r = Main -> <<>>
                 [] r = Trp(15) -> <<Op("set_S"), Op("rte")>>
                 [] r = Irq2 -> <<Op("save"), Op("work"), Op("restore"), Op("rte")>>
                 [] OTHER -> <<Op("alu")>>]
  /\ cpu = [state |-> "run", r |-> Main, i |-> 1, s |-> TRUE, masked |-> FALSE,
            ss |-> <<>>, us |-> <<>>]
  /\ irqs = 0 /\ bad = FALSE /\ differ = {} /\ dump = {}

Next == Body \/ Close \/ Execute \/ Interrupt
Spec == Init /\ [][Next]_vars /\ WF_vars(Next)

\* Every program the generator can write runs to its end on a right processor,
\* wherever interrupts land: no instruction of it is privileged in user mode, no
\* return finds something else on its stack, and it stops in supervisor mode
\* with both stacks empty (gen.py:76-92, 128, 144-151).
EveryProgramEnds ==
  /\ cpu.state # "unexp"
  /\ cpu.state = "halt" => cpu.s /\ cpu.ss = <<>> /\ cpu.us = <<>>

\* What a program dumps does not depend on when, or whether, it is interrupted:
\* two right builds with different timing dump the same (gen.py:152-175).
IrqInvisible ==
  cpu.state = "halt" /\ ~bad => dump = {}

\* gen.py:6-8, "At the end it copies the work area to $3000": what differs in the
\* work area $2000-$2FFF at the end is dumped.
DifferenceShows ==
  cpu.state = "halt" => differ \cap {"lo", "hi"} \subseteq dump

===============================================================================
