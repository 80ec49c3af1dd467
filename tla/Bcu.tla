---- MODULE Bcu ----
(* rtl/ap040_pipe_bcu.v, the bus controller of the pipelined core, with the *)
(* rules of its clients that decide what it sees: WB and EX's stores         *)
(* (ap040_pipe_core.v, ap040_execute.v), EA-fetch's one outstanding data     *)
(* read with the data read path, store forwarding and late-operand dispatch  *)
(* (ap040_pipe_core.v, ap040_ea_fetch.v) and IF's fetch.                     *)
(*                                                                           *)
(* One step is one enabled clock edge (ce): every register takes its next    *)
(* value from the registers before the edge.  The production parameters      *)
(* POST = 0, MIX = 1, DONE_REG = 1, FWD = 1 are built in.                    *)
(*                                                                           *)
(* An access is [a, n]: byte address and bytes.  Every store has a number    *)
(* in program order, and byte k of store i is the value <<i, k>>, so that a  *)
(* byte of memory says which store wrote it and which byte of it.            *)

EXTENDS Naturals, Sequences, FiniteSets

CONSTANTS
    SB_N,        \* slots of the store FIFO
    Page,        \* bytes whose offset the overlap checks compare (4096)
    Bytes,       \* byte addresses
    StoreKinds,  \* the stores EA-fetch dispatches: [a, n, push, post]
    Reads,       \* the operand reads it issues: [id, a, n], id = 0 as no store
    MaxStores,   \* bound: stores in a behaviour
    PRECISE, DFP_MIS, MISPLIT,   \* parameters of the build
    TcE,         \* translation on: a page-crossing transfer is split
    Faults       \* the transfers that may fault: "sync", "post", "read"

Long == 4      \* bytes of a longword
Refill == 2    \* clocks after a flush before IF and ID have the new code in EA-calc

ASSUME BcuAssumption ==
    /\ SB_N \in Nat \ {0} /\ Page \in Nat \ {0} /\ MaxStores \in Nat
    /\ Page % Long = 0
    /\ Bytes \subseteq Nat
    /\ StoreKinds \subseteq [a : Nat, n : {1, 2, 4}, push : BOOLEAN, post : BOOLEAN]
    /\ Reads \subseteq [id : {0}, a : Nat, n : {1, 2, 4}]
    /\ \A s \in StoreKinds \cup Reads : s.a..(s.a + s.n - 1) \subseteq Bytes
    /\ {PRECISE, DFP_MIS, MISPLIT, TcE} \subseteq BOOLEAN

None == [id |-> 0, a |-> 0, n |-> 0]   \* no store, no access
NoLook == [on |-> FALSE]
NoXfer == [kind |-> "none"]
NoAns == [on |-> FALSE]
NoData == <<>>

VARIABLES
    \* EA-fetch and the stores in EX and WB
    ph,               \* "run", "exc" (P_EXC), "halt" (P_HALT)
    ex, ldx, wb,      \* EX's store, its load still answering, WB's store
    refill,           \* clocks until EA-calc has an instruction after a flush
    rdq, rd_drop,     \* the outstanding read (rd_pend, rd_a_q, rd_sz_q), dropped
    \* the bus controller
    st_done_q,        \* "none", "ok", "flt" (st_done_q with st_ferr_q)
    sb, sb_rp, sb_wp, sb_cnt,
    dq, look, ans,    \* the read slot, the read path's lookup, rd_ack with its data
    mem_req, xfer, st_err,
    mem,              \* memory as the port reads and writes it
    \* ghosts
    rdexp,            \* what the outstanding read must return
    rd_dead,          \* its instruction has been abandoned
    born, done, gone  \* stores so far; those in memory; those withdrawn

eaf == <<ph, ex, ldx, wb, refill, rdq, rd_drop>>
bcu == <<st_done_q, sb, sb_rp, sb_wp, sb_cnt, dq, look, ans, mem_req, xfer, st_err>>
ghosts == <<rdexp, rd_dead, born, done, gone>>
vars == <<eaf, bcu, mem, ghosts>>

Init ==
    /\ ph = "run" /\ ex = None /\ ldx = "none" /\ wb = None
    /\ refill = 0 /\ rdq = None /\ rd_drop = FALSE
    /\ st_done_q = "none"
    /\ sb = [i \in 0..SB_N - 1 |-> None] /\ sb_rp = 0 /\ sb_wp = 0 /\ sb_cnt = 0
    /\ dq = None /\ look = NoLook /\ ans = NoAns
    /\ mem_req = FALSE /\ xfer = NoXfer /\ st_err = FALSE
    /\ mem = [b \in Bytes |-> <<0, 0>>]
    /\ rdexp = NoData /\ rd_dead = FALSE
    /\ born = 0 /\ done = {} /\ gone = {}

(***************************************************************************)
(* Accesses                                                                *)
(***************************************************************************)

Touches(s) == s.a..(s.a + s.n - 1)

\* The longwords of the page offset an access touches first and last.
LwFirst(s) == (s.a % Page) \div Long
LwLast(s) == ((s.a + s.n - 1) % Page) \div Long
Longwords(s) == {LwFirst(s), LwLast(s)}

\* May the two meet: a longword of one is one of the other (an alias counts).
Lwo(s, r) == Longwords(s) \cap Longwords(r) # {}

\* Does store s hold every byte of r: one page, neither crossing it.
f_end(s) == (s.a + s.n - 1) % Page
\* Mutant of f_cov: the page is not compared.
f_cov_alias(s, r) == /\ f_end(s) >= s.a % Page /\ f_end(r) >= r.a % Page
                     /\ r.a % Page >= s.a % Page /\ f_end(r) <= f_end(s)
f_cov(s, r) == /\ s.a \div Page = r.a \div Page
               /\ f_end(s) >= s.a % Page /\ f_end(r) >= r.a % Page
               /\ r.a % Page >= s.a % Page /\ f_end(r) <= f_end(s)

\* The bytes of r taken out of store s.
f_ext(s, r) == [j \in 1..r.n |-> <<s.id, (r.a + j - 1) - s.a>>]

Fetched(m, r) == [j \in 1..r.n |-> m[r.a + j - 1]]

Crosses(s) == TcE /\ s.n > 1 /\ (s.a % Page) + s.n > Page
Misal(s) == MISPLIT /\ s.a % s.n # 0
WSplit(s) == MISPLIT /\ s.n = 4 /\ s.a % Long = 2
Splits(s) == Crosses(s) \/ Misal(s)

\* The second lookup of a misaligned read inside one page.
SpansTwo(r) == (r.a \div Long) # ((r.a + r.n - 1) \div Long)
InPage(r) == f_end(r) >= r.a % Page

(***************************************************************************)
(* What the registers say in this clock                                    *)
(***************************************************************************)

rd_pend == rdq # None
rd_ack == ans.on
older_store == ex # None
\* Mutant of sb_full: one too many.
sb_full_late == sb_cnt > SB_N
sb_full == sb_cnt = SB_N

ld_wait == ldx # "none" /\ ~(rd_ack /\ ldx = "fast")
wb_fault == wb # None /\ st_done_q = "flt"
wb_hold == wb # None /\ IF wb.post THEN sb_full ELSE st_done_q = "none"
ex_stall == wb_hold \/ ld_wait
sp_wait == wb # None /\ wb.post
sp_v == sp_wait /\ ~wb_hold
st_v == wb # None /\ ~wb.post
\* Mutant of older_st: a late-dispatched load's own store blocks its read.
older_st_own == older_store \/ wb # None
older_st == (older_store /\ ~(ldx # "none" /\ ~rd_ack)) \/ wb # None

wf_go == wb_fault /\ ph = "run"
wf_dbl == wb_fault /\ ph # "run"
cap_err == rd_pend /\ rd_ack /\ ans.err /\ ~rd_drop /\ ldx = "none"
ldx_err_go == ldx # "none" /\ rd_pend /\ rd_ack /\ ans.err /\ ~rd_drop /\ ph # "halt"

k_fifo == xfer.kind = "st" /\ xfer.fifo
sp_on == xfer.kind # "none" /\ xfer.split
\* Mutant of sb_busy: the FIFO forgotten.
sb_busy_port == mem_req /\ xfer.kind = "st"
sb_busy == sb_cnt # 0 \/ (mem_req /\ xfer.kind = "st")
sync_busy == sb_busy \/ ex # None \/ wb # None

\* FIFO slots from the newest entry to the oldest.
Newest(i) == (sb_wp + SB_N - i) % SB_N

(***************************************************************************)
(* The data read path and store forwarding                                 *)
(***************************************************************************)

st_quiet == ~older_store /\ wb = None /\ ~(mem_req /\ xfer.kind = "st" /\ ~k_fifo)
ex_st_iss(r) == ex # None /\ Lwo(ex, r)
wb_st_iss(r) == wb # None /\ Lwo(wb, r)
\* Mutant of ex_st_ans: the answer clock does not look at EX again.
ex_st_unseen == FALSE
ex_st_ans == ex # None /\ dq # None /\ Lwo(ex, dq)
st_quiet_i(r) == IF PRECISE THEN ~ex_st_iss(r) /\ ~wb_st_iss(r) ELSE st_quiet
st_quiet_a == IF PRECISE THEN ~ex_st_ans ELSE st_quiet

lk_hit(r) == \E i \in 0..SB_N - 1 : sb[i] # None /\ Lwo(sb[i], r)

\* The youngest store that may meet the read decides: it covers the read
\* whole and the read is forwarded from it, or nothing is.
Candidates == LET push == IF ex # None /\ ex.push THEN <<ex>> ELSE <<>>
                  inWb == IF wb # None THEN <<wb>> ELSE <<>>
              IN  push \o inWb \o [i \in 1..SB_N |-> sb[Newest(i)]]

fw(r) == LET meets == {i \in DOMAIN Candidates :
                           Candidates[i] # None /\ Lwo(Candidates[i], r)}
             youngest == Candidates[CHOOSE i \in meets : \A j \in meets : i <= j]
         IN  IF meets # {} /\ f_cov(youngest, r) THEN f_ext(youngest, r) ELSE NoData

\* The lookup launched with a read, against the registers before the edge.
Lookup(r) == [on |-> TRUE, m2 |-> FALSE,
              q1 |-> st_quiet_i(r),
              fq1 |-> (IF PRECISE THEN ~ex_st_iss(r) ELSE ~older_store) \/ (ex # None /\ ex.push),
              ovl |-> lk_hit(r), fwd |-> fw(r), data |-> Fetched(mem, r)]

dfp_look == look.on /\ ~look.m2
dfp_m2 == look.on /\ look.m2

\* path is what the cache and the MMU say of the lookup: "hit", "ram" (no hit,
\* but the location is RAM) or "miss".
d_rd_fwd(path) == /\ dfp_look /\ look.fq1
                  /\ IF PRECISE THEN ~ex_st_ans ELSE ~older_store
                  /\ path # "miss" /\ look.fwd # NoData
ReadyHit(path) == dfp_look /\ look.q1 /\ st_quiet_a /\ path = "hit" /\ ~look.ovl /\ ~d_rd_fwd(path)
d_rd_hold(path) == ReadyHit(path) /\ SpansTwo(dq)
d_rd_fast(path) == \/ ReadyHit(path) /\ ~SpansTwo(dq)
                   \/ dfp_m2 /\ st_quiet_a /\ path = "hit"

FastAnswer(path) == (d_rd_fwd(path) \/ d_rd_fast(path)) /\ dq # None

\* A misaligned read's second lookup: the second longword's bytes, later.
SecondLookup ==
    [look EXCEPT !.m2 = TRUE,
                 !.data = [j \in 1..dq.n |->
                              IF (dq.a + j - 1) \div Long = dq.a \div Long
                              THEN look.data[j] ELSE mem[dq.a + j - 1]]]

Paths == IF ~look.on THEN {"miss"}
         ELSE IF ~InPage(dq) THEN {"miss"}
         ELSE IF SpansTwo(dq) /\ ~DFP_MIS THEN {"miss", "ram"}
         ELSE {"miss", "ram", "hit"}

(***************************************************************************)
(* The port                                                                *)
(***************************************************************************)

idle == ~mem_req
go_sp == idle /\ sp_on
\* Mutant of go_fifo: the FIFO drains only while WB posts nothing.
go_fifo_quiet == idle /\ ~sp_on /\ sb_cnt # 0 /\ ~sp_wait
go_fifo == idle /\ ~sp_on /\ sb_cnt # 0
\* Mutant of go_sync: blind to the completion being registered.
go_sync_again == idle /\ ~sp_on /\ st_v /\ sb_cnt = 0
go_sync == idle /\ ~sp_on /\ st_v /\ st_done_q = "none" /\ sb_cnt = 0
go_rd(path) == /\ idle /\ ~sp_on /\ sb_cnt = 0 /\ ~st_v /\ ~older_st /\ dq # None
               /\ ~d_rd_fast(path) /\ ~d_rd_fwd(path) /\ ~d_rd_hold(path)
\* Mutant of if_may_go: a fetch may pass the store WB is posting.
if_may_pass == idle /\ ~sp_on /\ ~go_fifo /\ ~go_sync
\* A fetch gets the port: nor while WB holds a store it posts.
if_may_go == idle /\ ~sp_on /\ ~go_fifo /\ ~go_sync /\ ~sp_wait
go_if(path, f_req) == if_may_go /\ ~go_rd(path) /\ f_req

\* A transfer of access s: whole, or its first piece of w bytes.
Launch(kind, fifo, s) ==
    [kind |-> kind, fifo |-> fifo, id |-> s.id, a |-> s.a, n |-> s.n, split |-> Splits(s),
     w |-> IF ~Splits(s) THEN s.n ELSE IF WSplit(s) THEN 2 ELSE 1, i |-> 0, acc |-> <<>>]
LaunchFetch == [kind |-> "if", split |-> FALSE]

\* The piece on the bus, and whether it is the transfer's last.
Piece == [a |-> xfer.a + xfer.i * xfer.w, n |-> xfer.w]
\* Mutant of sp_fin: a split transfer always ends at its second piece.
sp_fin_two(answer) == ~sp_on \/ answer = "flt" \/ xfer.i = 1
sp_fin(answer) == ~sp_on \/ answer = "flt" \/ (xfer.i + 1) * xfer.w = xfer.n

Completes(answer, kind) == mem_req /\ answer # "none" /\ xfer.kind = kind /\ sp_fin(answer)
sync_done(answer) == Completes(answer, "st") /\ ~k_fifo
fifo_done(answer) == Completes(answer, "st") /\ k_fifo

MayFault == \/ xfer.kind = "rd" /\ "read" \in Faults
            \/ xfer.kind = "st" /\ xfer.fifo /\ "post" \in Faults
            \/ xfer.kind = "st" /\ ~xfer.fifo /\ "sync" \in Faults
Answers == {"none"} \cup (IF mem_req THEN {"ack"} ELSE {})
                    \cup (IF mem_req /\ MayFault THEN {"flt"} ELSE {})

Port(answer, path, f_req) ==
    /\ IF mem_req
       THEN /\ mem_req' = (answer = "none")
            /\ xfer' = IF answer = "none" THEN xfer
                       ELSE IF sp_fin(answer) THEN NoXfer
                       ELSE [xfer EXCEPT !.i = @ + 1,
                                         !.acc = IF xfer.kind = "rd" THEN @ \o Fetched(mem, Piece) ELSE @]
       ELSE /\ mem_req' = (go_sp \/ go_fifo \/ go_sync \/ go_rd(path) \/ go_if(path, f_req))
            /\ xfer' = CASE go_sp -> xfer
                         [] go_fifo -> Launch("st", TRUE, sb[sb_rp])
                         [] go_sync -> Launch("st", FALSE, wb)
                         [] go_rd(path) -> Launch("rd", FALSE, dq)
                         [] go_if(path, f_req) -> LaunchFetch
                         [] OTHER -> NoXfer
    /\ mem' = IF mem_req /\ answer = "ack" /\ xfer.kind = "st"
              THEN [b \in Bytes |-> IF b \in Touches(Piece) THEN <<xfer.id, b - xfer.a>> ELSE mem[b]]
              ELSE mem
    /\ st_err' = (st_err \/ (fifo_done(answer) /\ answer = "flt"))

\* DONE_REG: the synchronous store's completion, a clock later.
StDone(answer) ==
    st_done_q' = IF ~sync_done(answer) THEN "none" ELSE IF answer = "flt" THEN "flt" ELSE "ok"

\* The ring: WB's posted store in, the completed one out.
Fifo(answer) ==
    /\ sb' = [i \in 0..SB_N - 1 |->
                 IF fifo_done(answer) /\ i = sb_rp THEN None
                 ELSE IF sp_v /\ i = sb_wp THEN wb ELSE sb[i]]
    /\ sb_wp' = IF sp_v THEN (sb_wp + 1) % SB_N ELSE sb_wp
    /\ sb_rp' = IF fifo_done(answer) THEN (sb_rp + 1) % SB_N ELSE sb_rp
    /\ sb_cnt' = (sb_cnt + IF sp_v THEN 1 ELSE 0) - IF fifo_done(answer) THEN 1 ELSE 0

\* The read slot, the lookup beside it, and the answer.
Slot(answer, path, rd_req) ==
    /\ dq' = IF FastAnswer(path) \/ go_rd(path) THEN None
             ELSE IF rd_req # None THEN rd_req ELSE dq
    /\ look' = IF rd_req # None THEN Lookup(rd_req)
               ELSE IF d_rd_hold(path) THEN SecondLookup ELSE NoLook
    /\ ans' = IF Completes(answer, "rd")
              THEN [on |-> TRUE, err |-> answer = "flt",
                    data |-> IF answer = "flt" THEN NoData ELSE xfer.acc \o Fetched(mem, Piece)]
              ELSE IF FastAnswer(path)
              THEN [on |-> TRUE, err |-> FALSE,
                    data |-> IF d_rd_fwd(path) THEN look.fwd ELSE look.data]
              ELSE NoAns

(***************************************************************************)
(* EA-fetch, EX and WB                                                     *)
(***************************************************************************)

\* What EA-fetch may do in a clock.  Its store enters EX with no read of its
\* own outstanding (an abandoned one does not count), or as a late-operand
\* dispatch (LDX), whose own read is the outstanding one.
ldx_may == /\ ph = "run" /\ rd_pend /\ ~rd_ack /\ ~rd_drop /\ ldx = "none"
           /\ ~(DFP_MIS /\ SpansTwo(rdq))
may_dispatch == /\ ph # "halt" /\ refill = 0 /\ ~ex_stall /\ ~wf_go /\ ~wf_dbl /\ ~cap_err
                /\ ~rd_pend \/ rd_ack \/ rd_dead
\* Its read goes out with none outstanding, or, early (the next
\* instruction's), in the clock the last one is answered.
may_read == ph = "run" /\ refill = 0 /\ ~cap_err /\ (~rd_pend \/ rd_ack)

\* A flush with a younger read outstanding: WB's self-modifying-code refetch
\* (the micro-ops that redirect from EX let nothing read behind them).
may_flush == ph = "run" /\ wb # None

NewStore(k) == [id |-> born + 1, a |-> k.a, n |-> k.n, push |-> k.push, post |-> k.post]

\* EA-fetch dispatches store disp (None: no store) to EX, late (ldx_go) or not.
Pipeline(flush, disp, ldx_go, path) ==
    /\ wb' = IF wb_fault THEN None
             ELSE IF wb_hold THEN wb
             ELSE IF ld_wait \/ flush THEN None ELSE ex
    /\ ex' = IF flush \/ wf_go \/ ldx_err_go THEN None
             ELSE IF ex_stall THEN ex ELSE disp
    /\ refill' = IF flush THEN Refill ELSE IF refill > 0 THEN refill - 1 ELSE 0
    /\ ldx' = IF flush \/ wf_go THEN "none"
              ELSE IF ldx # "none" /\ rd_ack THEN "none"
              ELSE IF ldx_go THEN IF FastAnswer(path) THEN "fast" ELSE "slow"
              ELSE ldx

\* Read bookkeeping: a read still outstanding at a flush is dropped.
DropAtFlush(flush, rd_req) ==
    rd_drop' = IF (wf_go \/ flush) /\ rd_pend /\ ~rd_ack THEN TRUE
               ELSE IF rd_req = None /\ rd_ack THEN FALSE ELSE rd_drop

EaFetch(flush, rd_req, resume) ==
    /\ rdq' = IF rd_req # None THEN rd_req ELSE IF rd_ack THEN None ELSE rdq
    /\ DropAtFlush(flush, rd_req)
    /\ ph' = IF st_err \/ wf_dbl \/ (cap_err /\ ph = "exc") THEN "halt"
             ELSE IF wf_go \/ (~flush /\ ph = "run" /\ (ldx_err_go \/ cap_err)) THEN "exc"
             ELSE IF resume THEN "run" ELSE ph

(***************************************************************************)
(* Ghosts                                                                  *)
(***************************************************************************)

Stores(entering) == ({ex, wb, entering} \cup {sb[i] : i \in 0..SB_N - 1}) \ {None}
Withdrawn == IF st_done_q = "flt" THEN {wb} ELSE {}

\* Byte b as the program has it: the youngest store on the way, or memory.
Visible(stores, b) ==
    LET over == {s \in stores : b \in Touches(s)}
        last == CHOOSE s \in over : \A t \in over : t.id <= s.id
    IN  IF over = {} THEN mem[b] ELSE <<last.id, b - last.a>>

Ghosts(flush, rd_req, disp, answer) ==
    /\ rdexp' = IF rd_req # None
                THEN [j \in 1..rd_req.n |->
                         Visible(Stores(disp) \ Withdrawn, rd_req.a + j - 1)]
                ELSE IF rd_ack THEN NoData ELSE rdexp
    /\ rd_dead' = IF rd_req # None THEN wf_go \/ ldx_err_go
                  ELSE IF ~rd_pend \/ rd_ack THEN FALSE
                  ELSE rd_dead \/ wf_go \/ flush
    /\ born' = born + IF disp # None THEN 1 ELSE 0
    /\ done' = IF Completes(answer, "st") /\ answer = "ack" THEN done \cup {xfer.id} ELSE done
    /\ gone' = gone \cup (IF ex # None /\ (flush \/ wf_go \/ ldx_err_go \/ (wf_dbl /\ ~ex_stall))
                             THEN {ex.id} ELSE {})
                    \cup (IF wb_fault THEN {wb.id} ELSE {})
                    \cup (IF Completes(answer, "st") /\ answer = "flt" /\ k_fifo THEN {xfer.id} ELSE {})

(***************************************************************************)
(* One enabled clock                                                       *)
(***************************************************************************)

Clock(answer, path, f_req, flush, rd_req, disp, ldx_go, resume) ==
    /\ Port(answer, path, f_req)
    /\ StDone(answer)
    /\ Fifo(answer)
    /\ Slot(answer, path, rd_req)
    /\ Pipeline(flush, disp, ldx_go, path)
    /\ EaFetch(flush, rd_req, resume)
    /\ Ghosts(flush, rd_req, disp, answer)

FetchChoices == IF if_may_go THEN BOOLEAN ELSE {FALSE}
FlushChoices == IF may_flush THEN BOOLEAN ELSE {FALSE}
ReadChoices(flush) == IF may_read /\ ~flush THEN Reads \cup {None} ELSE {None}
\* What enters EX: nothing, a store, or a late-operand load with or without
\* a store of its own.
DispatchChoices(flush) ==
    {[late |-> FALSE, store |-> None]}
    \cup {[late |-> l, store |-> NewStore(k)] :
             l \in {FALSE}, k \in {k \in StoreKinds : may_dispatch /\ ~flush /\ born < MaxStores}}
    \cup (IF ldx_may /\ ~ex_stall /\ ~flush /\ ~wf_go
          THEN {[late |-> TRUE, store |-> None]}
               \cup {[late |-> TRUE, store |-> NewStore(k)] :
                        k \in {k \in StoreKinds : ~k.push /\ born < MaxStores}}
          ELSE {})
ResumeChoices == IF ph = "exc" /\ ~rd_pend THEN BOOLEAN ELSE {FALSE}

ClockWith(answer) ==
    \E path \in Paths, f_req \in FetchChoices, flush \in FlushChoices, resume \in ResumeChoices :
    \E rd_req \in ReadChoices(flush), d \in DispatchChoices(flush) :
        Clock(answer, path, f_req, flush, rd_req, d.store, d.late, resume)

Next == \E answer \in Answers : ClockWith(answer)

\* The clock enable comes again and the memory side answers every transfer:
\* a clock that leaves none waiting.  A transfer stands until its answer, so
\* it cannot be that such clocks cease while one waits.
Answering ==
    \E answer \in IF mem_req THEN Answers \ {"none"} ELSE Answers : ClockWith(answer)
Fairness == WF_vars(Answering)

Spec == Init /\ [][Next]_vars

FairSpec == Spec /\ Fairness

TypeOK ==
    /\ ph \in {"run", "exc", "halt"}
    /\ ldx \in {"none", "fast", "slow"} /\ refill \in 0..Refill
    /\ rd_drop \in BOOLEAN /\ mem_req \in BOOLEAN /\ st_err \in BOOLEAN /\ rd_dead \in BOOLEAN
    /\ st_done_q \in {"none", "ok", "flt"}
    /\ \A s \in Stores(None) : /\ s.id \in 1..born
                               /\ \E k \in StoreKinds : s.a = k.a /\ s.n = k.n /\ s.post = k.post
    /\ rdq \in Reads \cup {None} /\ dq \in Reads \cup {None}
    /\ sb_rp \in 0..SB_N - 1 /\ sb_wp \in 0..SB_N - 1 /\ sb_cnt \in 0..SB_N
    /\ xfer.kind \in {"none", "st", "rd", "if"}
    /\ \A b \in Bytes : mem[b] \in (0..born) \X (0..Long - 1)
    /\ born \in 0..MaxStores /\ done \subseteq 1..born /\ gone \subseteq 1..born

(***************************************************************************)
(* Properties                                                              *)
(***************************************************************************)

(* The ring is a queue: the valid slots are the sb_cnt ones from the read    *)
(* pointer on, and they hold posted stores in program order.                 *)
RingConsistent ==
    /\ {i \in 0..SB_N - 1 : sb[i] # None} = {(sb_rp + j) % SB_N : j \in 0..sb_cnt - 1}
    /\ sb_wp = (sb_rp + sb_cnt) % SB_N
    /\ \A j \in 1..sb_cnt - 1 :
          sb[(sb_rp + j - 1) % SB_N].id < sb[(sb_rp + j) % SB_N].id

(* A data read's answer holds, byte for byte, what the program's stores      *)
(* older than the read have written, whichever of forwarding, the read path  *)
(* or the port gave it, and whatever stores were on the way.                 *)
ReadsLatest ==
    rd_pend /\ rd_ack /\ ~ans.err /\ ~rd_drop /\ ~rd_dead /\ ~st_err /\ ph # "halt"
        => ans.data = rdexp

(* A fetch that gets the port reads code no store in WB or in the FIFO still *)
(* has to change: the refetch after self-modifying code sees the store.      *)
FetchSeesStores ==
    if_may_go /\ ~st_err =>
        \A b \in Bytes : Visible(((Stores(None) \ {ex}) \ Withdrawn), b) = mem[b]

(* Every store dispatched to EX is on the way in exactly one place, in       *)
(* memory exactly once, or withdrawn; and memory takes them in program order. *)
EveryStoreOnce ==
    LET live == {s.id : s \in Stores(None)}
        port == IF xfer.kind = "st" THEN {xfer.id} ELSE {}
    IN  /\ 1..born = done \cup gone \cup live
        /\ live \cap gone = {} /\ done \cap gone = {} /\ port \cap done = {}
        /\ \A i \in live \cap done : st_done_q = "ok" /\ i = wb.id
        /\ \A i \in done, j \in live \ done : i < j

(* When NOP, CINV or PFLUSH find nothing to wait for, no store of the        *)
(* program is missing from memory.                                           *)
SyncPoint == ~sync_busy /\ ~st_err => 1..born = done \cup gone

(* Every operand read is answered and WB is never held for ever, whatever    *)
(* stores, fetches and late dispatches meet it.                              *)
ReadsAnswered == rd_pend ~> rd_ack
StoresLeaveWb == wb # None ~> wb = None

(* A dropped read belongs to a flushed instruction.                          *)
DroppedIsAbandoned == rd_pend /\ rd_drop => rd_dead

(* The answer of an abandoned instruction's read is thrown away.             *)
AbandonedIsDropped == rd_pend /\ rd_ack /\ rd_dead => rd_drop
====
