---- MODULE BusTimeout ----
(* rtl/compat/ap040_bus_timeout.v as the core-side stall watchdog of         *)
(* ap040_pipe_tg68k_compat.v: it counts the clocks the core's bus controller *)
(* holds mem_req without an answer and then reports an access error.         *)
(*                                                                           *)
(* The watchdog runs on every clock, the bus controller only on the enabled  *)
(* ones.  The answer (mem_ack, or the MMU's fault) is external: it may come  *)
(* at any clock or never, and stands until the controller takes it.          *)

EXTENDS Naturals

CONSTANT Limit    \* 2^COUNTER_BITS - 1, the count with every bit set

ASSUME LimitAssumption == Limit \in Nat

VARIABLES
    req,        \* mem_req
    complete,   \* mem_ack | mem_flt_mmu
    count, berr,
    waited      \* ghost: clocks this very request has stood unanswered (to Limit + 1)

timerVars == <<req, complete, count, berr, waited>>

TimerTypeOK ==
    /\ req \in BOOLEAN /\ complete \in BOOLEAN
    /\ count \in 0..Limit /\ berr \in BOOLEAN
    /\ waited \in 0..(Limit + 1)

TimerInit ==
    /\ req = FALSE /\ complete = FALSE
    /\ count = 0 /\ berr = FALSE
    /\ waited = 0

\* Mutants of Cleared: the request's fall, or its answer, does not clear.
ClearedByAnswer == complete
ClearedByFall == ~req

Cleared == ~req \/ complete

\* Mutant of Watchdog: the error is a one-clock pulse, the count wraps.
WatchdogPulse ==
    /\ count' = IF Cleared \/ count = Limit THEN 0 ELSE count + 1
    /\ berr' = (~Cleared /\ count = Limit)

Watchdog ==
    /\ count' = IF Cleared THEN 0
                ELSE IF berr \/ count = Limit THEN count ELSE count + 1
    /\ berr' = (~Cleared /\ (berr \/ count = Limit))

\* The bus controller's enabled clock: a request ends with its answer or the
\* watchdog's error, and the next one rises an enabled clock later at the earliest.
Done == req /\ (complete \/ berr)

BusController == IF req THEN req' = ~Done ELSE req' \in BOOLEAN

\* An answer belongs to the request that stands, and stands as long as it does.
Answer == complete' \in IF ~(req /\ req') THEN {FALSE}
                        ELSE IF complete THEN {TRUE} ELSE BOOLEAN

Wait == waited' = IF ~req \/ complete THEN 0
                  ELSE IF waited > Limit THEN waited ELSE waited + 1

Clock(ce) == /\ Watchdog
             /\ IF ce THEN BusController ELSE UNCHANGED req
             /\ Answer
             /\ Wait

Reset == /\ req' = FALSE /\ complete' = FALSE
         /\ count' = 0 /\ berr' = FALSE
         /\ waited' = 0

TimerNext == (\E ce \in BOOLEAN : Clock(ce)) \/ Reset

TimerSpec == TimerInit /\ [][TimerNext]_timerVars

\* The clock runs and the enable is not held off a finished request forever;
\* nothing is assumed of the answer.
TimerFairSpec ==
    /\ TimerSpec
    /\ WF_timerVars(\E ce \in BOOLEAN : Clock(ce))
    /\ WF_timerVars(Done /\ Clock(TRUE))

(***************************************************************************)
(* Properties                                                              *)
(***************************************************************************)

\* The count never runs ahead of the request that stands.
Counts == /\ req => count <= waited
          /\ req /\ berr => waited > Limit

TimerInv == TimerTypeOK /\ Counts

(* The watchdog's error is the standing request's own: no request is failed  *)
(* before it has been unanswered for the full count, and none by the error   *)
(* of the one before it.                                                     *)
FaultIsOwn == req /\ berr => waited > Limit

(* A request that no one ever answers still ends: nothing between the core   *)
(* and its ports can stall it for good.                                      *)
RequestEnds == req ~> ~req
====
