---- MODULE MCLeaves ----
(***************************************************************************)
(* Six parts that share no state with one another: the walker's clock      *)
(* bridge, the bus watchdog, the posted-page table, the two-write-port     *)
(* table, the 16-bit bus adapter and the interrupt path.  One run checks   *)
(* them all: each initial state picks a part, which then runs alone while  *)
(* the others rest in their own initial state, so the graph is the union   *)
(* of six.                                                                 *)
(*                                                                         *)
(* Two payloads in the RAM's window and one outside it, so that a stale or *)
(* garbled payload differs from the one expected.                          *)
(* A six-bit watchdog count (21 bits in the chip); every operand size from *)
(* even and odd starts in an 8-byte space that wraps; two 1-bit rows; a    *)
(* posted-page table of two entries under three pages; levels 1 and 7      *)
(* against masks 0 and 7.                                                  *)
(***************************************************************************)
EXTENDS WalkerCdc, BusTimeout, PostedPages, Ram2w, Bus16, Interrupts

VARIABLE part

Parts == {"walker", "timeout", "bus16", "ram2w", "pages", "irq"}

all == <<part, vars, timerVars, adapterVars, banks, postedVars, irqVars>>

\* A rests every part but p.
Only(p, A) ==
    /\ part = p /\ A /\ UNCHANGED part
    /\ IF p = "walker" THEN TRUE ELSE UNCHANGED vars
    /\ IF p = "timeout" THEN TRUE ELSE UNCHANGED timerVars
    /\ IF p = "bus16" THEN TRUE ELSE UNCHANGED adapterVars
    /\ IF p = "ram2w" THEN TRUE ELSE UNCHANGED banks
    /\ IF p = "pages" THEN TRUE ELSE UNCHANGED postedVars
    /\ IF p = "irq" THEN TRUE ELSE UNCHANGED irqVars

AllInit ==
    /\ part \in Parts
    /\ Init /\ TimerInit /\ AdapterInit /\ BanksInit /\ PostedInit /\ IrqInit
    \* a resting part has one initial state
    /\ part # "walker" => w_pay = CHOOSE pay \in Payload : TRUE
    /\ part # "bus16" => op = CHOOSE o \in Operands : TRUE
    /\ part # "ram2w" => in = CHOOSE i \in Inputs : TRUE

AllNext ==
    \/ Only("walker", Next)
    \/ Only("timeout", TimerNext)
    \/ Only("bus16", AdapterNext)
    \/ Only("ram2w", BanksNext)
    \/ Only("pages", PostedNext)
    \/ Only("irq", IrqNext)

\* Each part's own fairness while it runs: of a disjunction only the running
\* part's action can be enabled.
FairFirst ==
    \/ Only("walker", SomeSEdge)
    \/ Only("timeout", \E ce \in BOOLEAN : Clock(ce))
    \/ Only("bus16", Enabled1)
    \/ Only("irq", IrqProgress)
FairSecond ==
    \/ Only("walker", SomeMEdge)
    \/ Only("timeout", Done /\ Clock(TRUE))
    \/ Only("bus16", TargetAnswers)

\* Only the bridge has more than two fair actions.
WalkerFair ==
    /\ WF_all(Only("walker", Consume /\ SomeSEdge))
    /\ WF_all(Only("walker", ControllerAnswers))
    /\ WF_all(Only("walker", ReleaseS)) /\ WF_all(Only("walker", ReleaseM))

LeavesSpec ==
    AllInit /\ [][AllNext]_all /\ WF_all(FairFirst) /\ WF_all(FairSecond) /\ WalkerFair

----------------------------------------------------------------------------
(* The parts' properties are the modules' own, but for the one below.  They  *)
(* say of a resting part what its initial state satisfies.                   *)

(* Nothing waits forever: a request the watchdog guards ends though no one    *)
(* answers it (BusTimeout!RequestEnds), a request to the adapter is           *)
(* acknowledged or withdrawn (Bus16!OperandEnds), and an interrupt level kept *)
(* above the mask is taken (Interrupts!RequestTaken).  A resting part waits   *)
(* for nothing, so the running part's alone is at stake.                      *)
NothingWaitsForever ==
    []<>(/\ ~req
         /\ ~mem_req \/ mem_ack
         /\ \A l \in Levels \ {0, 7} : ipl_s1 # l \/ mask >= l)
====
