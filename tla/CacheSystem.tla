---- MODULE CacheSystem ----
(* The data cache between its neighbours: the core's one request at a time   *)
(* (an access, a CINV/CPUSH or a PTEST) with the table search of             *)
(* rtl/compat/ap040_mmu.v in front of it, the memory port, the walker's own  *)
(* port, and the strobes of the chipset and of the walker's writes           *)
(* (ap040_pipe_tg68k_compat.v).                                              *)
(*                                                                           *)
(* The levels of the table search are one table level and one page level;    *)
(* the translation itself is an attribute of the request (miss).  External   *)
(* are the memory, which answers a request a clock or more after it is up,   *)
(* and the chipset, whose write lands in memory in the clock of its strobe;  *)
(* two enabled clocks running never both have a chipset strobe.  An error of *)
(* a drain or of a push comes too late for the store it is of: post_err goes *)
(* to a debug output, and the error itself (berr) to whatever request the    *)
(* core has up by then.                                                      *)

EXTENDS Cache

CONSTANTS
    Ops,           \* requests: [kind, a, n, ci, cb, miss]
    Dma, Descs,    \* longwords the chipset writes; longwords that hold descriptors
    Errors,        \* bus errors of "demand" accesses and of "late" ones
    Works,         \* what the core does: "access", "cinv", "ptest"
    SweepRows      \* the last count of the MMU's pre-flush sweep (32)

ASSUME SystemAssumption ==
    /\ Dma \subseteq Addr /\ Descs \subseteq Addr /\ SweepRows \in Nat
    /\ Errors \subseteq {"demand", "late"} /\ Works \subseteq {"access", "cinv", "ptest"}
    /\ "late" \in Errors => "ptest" \notin Works
    /\ Ops \subseteq [kind : {"read", "write"}, a : Addr, n : 1..2,
                     ci : BOOLEAN, cb : BOOLEAN, miss : BOOLEAN]
    /\ \A o \in Ops : /\ Touched(o) \subseteq Addr
                      /\ o.cb => \A d \in Dma : d \div Beats # o.a \div Beats

NoOp == [kind |-> "read", a |-> 0, n |-> 1, ci |-> FALSE, cb |-> FALSE, miss |-> FALSE]

VARIABLES
    core, op,                     \* "none", "access", "cinv", "ptest"; the access
    wst, w_active, w_issued, w_req_wr, w_req_addr, sweep_cnt,
    walker_wr_d, wsnp,            \* the walker's own strobe
    s_last,                       \* a chipset strobe in the enabled clock before
    m_up,                         \* a request has been up for a clock
    mem,                          \* longwords of memory that hold their last value
    stale_read, stale_desc,       \* has a read, or a search, ever seen an old value?
    turn                          \* turned over by every quiet clock

mmuVars == <<wst, w_active, w_issued, w_req_wr, w_req_addr, sweep_cnt, walker_wr_d>>
vars == <<cacheVars, core, op, mmuVars, wsnp, s_last, m_up, mem, stale_read, stale_desc,
          turn>>

Init ==
    /\ CacheInit
    /\ core = "none" /\ op = NoOp
    /\ wst = "idle" /\ w_active = FALSE /\ w_issued = FALSE /\ w_req_wr = FALSE
    /\ w_req_addr = 0 /\ sweep_cnt = 0 /\ walker_wr_d = FALSE /\ wsnp = Nil
    /\ s_last = FALSE /\ m_up = FALSE /\ mem = Addr
    /\ stale_read = FALSE /\ stale_desc = FALSE /\ turn = FALSE

TypeOK ==
    /\ CacheTypeOK
    /\ core \in {"none", "access", "cinv", "ptest"} /\ op \in Ops \cup {NoOp} \cup
           {[o EXCEPT !.miss = FALSE] : o \in Ops}
    /\ wst \in {"idle", "sweep", "go", "tab", "utab", "page", "uc", "fill", "flt"}
    /\ w_req_addr \in Addr /\ wsnp \in Cell /\ mem \subseteq Addr
    /\ w_issued => w_active

walker_req == w_active /\ w_issued
walk_pend == w_active /\ ~w_issued
c_req == core = "access" /\ ~op.miss /\ wst = "idle"
walk_hold == post_busy \/ sweep_busy

(***************************************************************************)
(* The inputs of one clock: the enable, the chipset's strobe, the answers  *)
(* of the memory port and of the walker's.                                 *)
(***************************************************************************)

Late == c.dr.on \/ push_out
Answers(up) == IF ~up THEN {"none"}
               ELSE {"none", "ack"} \cup
                    (IF (IF Late THEN "late" ELSE "demand") \in Errors THEN {"err"} ELSE {})

InFlight == (IF c.dr.on THEN Touched(c.dr) ELSE {}) \cup
            (IF c.st_posted THEN Touched(c) ELSE {})

\* The posted store taken in this clock is the last value from here on.
Taken(i) == IF i.ce /\ c.cst = "IDLE" /\ Fsm(i).cst = "PASS" /\ Fsm(i).st_posted
            THEN Touched(op) ELSE {}

\* Longwords memory has the last value of after this clock ...
Landed(ce, snp, ans, w_ans) ==
    (IF snp # Nil THEN {snp} \ InFlight ELSE {}) \cup
    (IF ce /\ ans = "ack" /\ c.dr.on THEN Touched(c.dr) ELSE {}) \cup
    (IF ce /\ ans = "ack" /\ ~c.dr.on /\ push_out /\ pbuf[c.p.wb] = push_addr
     THEN {push_addr} ELSE {}) \cup
    (IF ce /\ ans = "ack" /\ ~c.dr.on /\ passing /\ op.kind = "write"
     THEN Touched(op) ELSE {}) \cup
    (IF ce /\ w_ans = "ack" /\ w_req_wr THEN {w_req_addr} ELSE {})

\* ... and the one a write-back has put an old value over.
Spoiled(ce, ans) == IF ce /\ ans = "ack" /\ ~c.dr.on /\ push_out /\
                       pbuf[c.p.wb] # push_addr
                    THEN {push_addr} ELSE {}

\* Of the landed ones, those that are new values: no copy made before is one.
Renewed(ce, snp, ans, w_ans) ==
    (IF snp # Nil THEN {snp} \ InFlight ELSE {}) \cup
    (IF ce /\ ans = "ack" /\ ~c.dr.on /\ passing /\ op.kind = "write"
     THEN Touched(op) ELSE {}) \cup
    (IF ce /\ w_ans = "ack" /\ w_req_wr THEN {w_req_addr} ELSE {})

CacheIn(ce, snp, ans, new) ==
    [ce |-> ce, req |-> c_req, op |-> op, cinv |-> core = "cinv",
     walk_busy |-> w_active, wk_pend |-> walk_pend, wk_addr |-> w_req_addr,
     stb |-> IF snp # Nil THEN snp ELSE wsnp, ans |-> ans, fresh |-> new,
     rdata |-> IF fill_addr \in mem THEN fill_addr ELSE Nil]

(***************************************************************************)
(* The core and the table search, on an enabled clock.                     *)
(***************************************************************************)

NewWork == \E k \in Works \cup {"none"} :
               core' = k /\ op' \in IF k = "access" THEN Ops ELSE {NoOp}

Released == core' = "none" /\ op' = NoOp
KeepWork == UNCHANGED <<core, op>>

\* The core's request ends with its answer, or with any bus error seen meanwhile.
CoreStep(ans, walked) ==
    CASE core = "none" -> NewWork
      [] core = "access" ->
             IF (c_req /\ c_ack(ans)) \/ ans = "err" \/ walked = "flt" THEN Released
             ELSE IF walked = "fill" THEN core' = core /\ op' = [op EXCEPT !.miss = FALSE]
             ELSE KeepWork
      [] core = "cinv" -> IF c.cinv_done THEN Released ELSE KeepWork
      [] core = "ptest" -> IF walked # "no" THEN Released ELSE KeepWork

Descriptor(state, wr) ==
    /\ wst' = state /\ w_active' = TRUE /\ w_issued' = FALSE /\ w_req_wr' = wr
    /\ w_req_addr' \in IF wr THEN {w_req_addr} ELSE Descs
    /\ sweep_cnt' = 0

Inactive(state) ==
    /\ wst' = state /\ w_active' = FALSE /\ w_issued' = FALSE /\ w_req_wr' = FALSE
    /\ UNCHANGED w_req_addr /\ sweep_cnt' = 0

SearchEnds ==
    /\ wst' = "idle" /\ w_active' = FALSE /\ w_issued' = FALSE /\ w_req_wr' = FALSE
    /\ w_req_addr' = 0 /\ sweep_cnt' = 0

StayMmu == UNCHANGED <<wst, w_active, w_issued, w_req_wr, w_req_addr, sweep_cnt>>

\* Mutant of StartSearch: the search does not wait for the draining store.
StartSearchAtOnce == IF core = "access" /\ op.miss THEN Descriptor("tab", FALSE) ELSE StayMmu

StartSearch ==
    IF core = "access" /\ op.miss /\ ~walk_hold THEN Descriptor("tab", FALSE)
    ELSE IF core = "ptest"
    THEN wst' = "sweep" /\ UNCHANGED <<w_active, w_issued, w_req_wr, w_req_addr, sweep_cnt>>
    ELSE StayMmu

\* An acknowledged descriptor: the next level, the used bit, the end, or invalid.
SearchStep ==
    CASE wst = "tab" -> \/ Inactive("flt") \/ Descriptor("utab", TRUE)
                        \/ Descriptor("page", FALSE)
      [] wst = "utab" -> Descriptor("page", FALSE)
      [] wst = "page" -> Inactive("flt") \/ Inactive("uc")
      [] wst = "fill" -> Inactive("fill")

MmuStep(w_ans, waits) ==
    CASE wst = "idle" -> StartSearch
      [] wst = "sweep" -> IF sweep_cnt = SweepRows THEN Inactive("go")
                          ELSE /\ sweep_cnt' = sweep_cnt + 1
                               /\ UNCHANGED <<wst, w_active, w_issued, w_req_wr, w_req_addr>>
      [] wst = "go" -> Descriptor("tab", FALSE)
      [] wst = "uc" -> Descriptor("fill", TRUE) \/ Inactive("fill")
      [] wst = "flt" -> SearchEnds
      [] wst = "fill" /\ ~w_active -> SearchEnds
      [] w_active -> IF walk_pend /\ ~waits
                     THEN w_issued' = TRUE /\ UNCHANGED <<wst, w_active, w_req_wr,
                                                          w_req_addr, sweep_cnt>>
                     ELSE IF w_ans = "ack" THEN SearchStep ELSE StayMmu

Walked == IF wst = "flt" THEN "flt" ELSE IF wst = "fill" /\ ~w_active THEN "fill" ELSE "no"

(***************************************************************************)
(* One clock.                                                              *)
(***************************************************************************)

\* A read that is answered, in this clock or from it, with an old value.
ServesStale(ce, i) ==
    ce /\ \/ LookHits(i) /\ dq[hit_way] # c.a
          \/ c.cst = "FILL" /\ i.ans = "ack" /\ fill_addr = c.a /\ i.rdata # c.a
          \/ passing /\ op.kind = "read" /\ i.ans = "ack" /\ ~(Touched(op) \subseteq mem)

Quiet(ce, snp, ans, w_ans) ==
    ce /\ snp = Nil /\ (m_req(c_req) /\ m_up => ans = "ack") /\ (walker_req => w_ans = "ack")

Clock(ce, snp, ans, w_ans) ==
    LET i0 == CacheIn(ce, snp, ans, Renewed(ce, snp, ans, w_ans))
        i == [i0 EXCEPT !.fresh = @ \cup Taken(i0)]
    IN  /\ CacheClock(i)
        /\ IF ce THEN CoreStep(ans, Walked) /\ MmuStep(w_ans, wk_wait(i))
           ELSE UNCHANGED <<core, op, wst, w_active, w_issued, w_req_wr, w_req_addr,
                            sweep_cnt>>
        /\ walker_wr_d' = (walker_req /\ w_req_wr)
        /\ wsnp' = IF walker_req /\ w_req_wr /\ ~walker_wr_d THEN w_req_addr
                   ELSE IF snp = Nil THEN Nil ELSE wsnp
        /\ s_last' = IF ce THEN snp # Nil ELSE s_last
        /\ m_up' = IF ce THEN m_req(c_req) /\ ans = "none" ELSE m_up
        /\ mem' = (mem \ (Taken(i) \cup Spoiled(ce, ans))) \cup
                  (Landed(ce, snp, ans, w_ans) \ Taken(i))
        /\ stale_read' = (stale_read \/ ServesStale(ce, i))
        /\ stale_desc' = \/ stale_desc
                         \/ ce /\ w_ans = "ack" /\ ~w_req_wr /\ w_req_addr \notin mem
        /\ turn' = (turn # Quiet(ce, snp, ans, w_ans))

\* A clock with the enable: answers come only to requests that are up.
Enabled(snp, ans, w_ans) ==
    /\ snp # Nil => ~s_last
    /\ ans \in Answers(m_req(c_req) /\ m_up)
    /\ w_ans \in IF walker_req THEN {"none", "ack"} ELSE {"none"}
    /\ Clock(TRUE, snp, ans, w_ans)

\* The enable is low: only a strobe can do anything.
Frozen(snp) == Clock(FALSE, snp, "none", "none")

Next ==
    \/ \E snp \in Dma \cup {Nil}, ans \in {"none", "ack", "err"}, w_ans \in {"none", "ack"} :
           Enabled(snp, ans, w_ans)
    \/ \E snp \in Dma : Frozen(snp)

Spec == Init /\ [][Next]_vars

\* Quiet clocks recur: the memory answers what is up, and no strobe disturbs.
FairSpec == Spec /\ WF_turn(turn' = ~turn)

(***************************************************************************)
(* Properties                                                              *)
(***************************************************************************)

(* No read the core makes is answered with a value older than the last one   *)
(* the core itself stored or the chipset has announced, whichever way it is  *)
(* answered: from a line, from a fill or past the cache.  With "late" errors *)
(* it says what ap040_cache.v:189-193 promises: after a lost store the core  *)
(* halts, so it never goes on with the value the store should have replaced. *)
ReadsLatest == ~stale_read

(* No table search reads a descriptor that is older than the last store to   *)
(* it (ap040_mmu.v:58 "A table search must not start until it has landed",   *)
(* ap040_cache.v:124).                                                       *)
DescriptorsLatest == ~stale_desc

(* The last value of every longword exists somewhere: in memory, in a dirty  *)
(* valid line, or in the posted store on its way.                            *)
InDirtyLine(a) == \E w \in db[SetOf(a)] \cap vb[SetOf(a)] :
                      /\ tags[SetOf(a)][w] = TagOf(a)
                      /\ cdata[SetOf(a)][w][WordOf(a)] = a
NothingLost == \A a \in Addr \ (mem \cup InFlight) : InDirtyLine(a)

(* A dirty way is valid, and no two valid ways of a set have one tag: what a *)
(* row clear, a fill and a merge leave when they meet.                       *)
RowsSane ==
    \A s \in Set : /\ db[s] \subseteq vb[s]
                   /\ \A v, w \in vb[s] : tags[s][v] = tags[s][w] => v = w

(* The cache and the walker never drive memory in one clock, and no sweep    *)
(* runs during a search (ap040_cache.v:111-123).                             *)
OnePortUser == /\ ~(walker_req /\ m_req(c_req))
               /\ ~(sweep_busy /\ w_active)

(* When a CINV/CPUSH is answered the bank is empty and every longword but    *)
(* the posted store's is in memory.                                          *)
SweptClean == c.cinv_done => /\ \A s \in Set : vb[s] = {} /\ db[s] = {}
                             /\ Addr \ mem \subseteq InFlight

(* Whatever the core asks for ends: no wait of the request, the drain, the   *)
(* push, the sweep and the walker on each other is circular, so that it is   *)
(* again and again without a request.                                        *)
WorkEnds == []<>(core = "none")
====
