---- MODULE BcuProofs ----
(***************************************************************************)
(* The store path of the bus controller, for every FIFO depth, page size,  *)
(* set of stores and reads and every build: the ring is a queue, every     *)
(* store reaches memory exactly once and in program order or is withdrawn, *)
(* a fetch finds in memory what WB and the FIFO have stored, and an        *)
(* operand read, forwarded or from memory, returns what the program's      *)
(* older stores have written.                                              *)
(***************************************************************************)
EXTENDS Bcu, Integers, SequenceTheorems, WellFoundedInduction, TLAPS

Slots == 0..SB_N - 1

\* One of the first m stores of the program, of one of the kinds.
Known(s, m) ==
    /\ s \in [id : 1..m, a : Nat, n : {1, 2, 4}, push : BOOLEAN, post : BOOLEAN]
    /\ [a |-> s.a, n |-> s.n, push |-> s.push, post |-> s.post] \in StoreKinds

Types ==
    /\ ph \in {"run", "exc", "halt"} /\ refill \in 0..Refill
    /\ ldx \in {"none", "fast", "slow"}
    /\ rd_drop \in BOOLEAN /\ mem_req \in BOOLEAN /\ st_err \in BOOLEAN /\ rd_dead \in BOOLEAN
    /\ st_done_q \in {"none", "ok", "flt"}
    /\ ex = None \/ Known(ex, born)
    /\ wb = None \/ Known(wb, born)
    /\ sb = [i \in Slots |-> sb[i]] /\ \A i \in Slots : sb[i] = None \/ Known(sb[i], born)
    /\ sb_rp \in Slots /\ sb_wp \in Slots /\ sb_cnt \in 0..SB_N
    /\ rdq \in Reads \cup {None} /\ dq \in Reads \cup {None}
    /\ mem \in [Bytes -> (0..born) \X (0..Long - 1)]
    /\ born \in 0..MaxStores /\ done \subseteq 1..born /\ gone \subseteq 1..born

\* What a transfer is launched for.
Access(s) == s.n \in {1, 2, 4} /\ s.a \in Nat

\* A transfer of an access: whole, or in pieces of w bytes.
Transfer(x) ==
    /\ x.kind \in {"st", "rd"} /\ x.a \in Nat
    /\ x = [kind |-> x.kind, fifo |-> x.fifo, id |-> x.id, a |-> x.a, n |-> x.n,
            split |-> x.split, w |-> x.w, i |-> x.i, acc |-> x.acc]
    /\ x.n \in {1, 2, 4} /\ x.w \in {1, 2, 4} /\ x.i \in 0..3
    /\ \/ x.w = x.n /\ x.i = 0
       \/ x.split /\ x.w = 1 /\ x.i < x.n
       \/ x.split /\ x.w = 2 /\ x.n = 4 /\ x.i < 2

\* What is on the port: nothing, a fetch, or an access.
XferOK ==
    /\ mem_req => xfer.kind # "none"
    /\ xfer = NoXfer \/ xfer = LaunchFetch \/ Transfer(xfer)

\* How far slot i is behind slot p.
Ahead(i, p) == IF i >= p THEN i - p ELSE i + SB_N - p

\* The valid slots are the cnt ones from rp on, in program order, and wp follows them.
IsRing(f, rp, wp, cnt) ==
    /\ wp = IF rp + cnt < SB_N THEN rp + cnt ELSE rp + cnt - SB_N
    /\ \A i \in Slots : f[i] # None <=> Ahead(i, rp) < cnt
    /\ \A i, j \in Slots : Ahead(i, rp) < Ahead(j, rp) /\ Ahead(j, rp) < cnt => f[i].id < f[j].id

Ring == IsRing(sb, sb_rp, sb_wp, sb_cnt)

\* The FIFO's stores are older than WB's, WB's older than EX's.
Order ==
    /\ \A i \in Slots : sb[i] # None => /\ wb # None => sb[i].id < wb.id
                                        /\ ex # None => sb[i].id < ex.id
    /\ wb # None /\ ex # None => wb.id < ex.id

\* The store on the port is the FIFO's oldest, or WB's own with an empty FIFO.
PortStore ==
    xfer.kind = "st" =>
        IF xfer.fifo
        THEN /\ sb_cnt > 0
             /\ xfer.id = sb[sb_rp].id /\ xfer.a = sb[sb_rp].a /\ xfer.n = sb[sb_rp].n
        ELSE /\ sb_cnt = 0 /\ wb # None /\ ~wb.post /\ st_done_q = "none"
             /\ xfer.id = wb.id /\ xfer.a = wb.a /\ xfer.n = wb.n

\* A registered completion is that of the synchronous store WB still holds.
Completion ==
    st_done_q # "none" =>
        /\ wb # None /\ ~wb.post /\ sb_cnt = 0
        /\ xfer.kind # "st"
        /\ st_done_q = "ok" => wb.id \in done

Live(i) == \/ ex # None /\ i = ex.id
           \/ wb # None /\ i = wb.id
           \/ \E k \in Slots : sb[k] # None /\ i = sb[k].id

\* Where every store is.
Accounts ==
    /\ \A i \in 1..born : i \in done \/ i \in gone \/ Live(i)
    /\ \A i \in 1..born : ~(i \in done /\ i \in gone) /\ ~(Live(i) /\ i \in gone)
    /\ \A i \in done : Live(i) => st_done_q = "ok" /\ i = wb.id
    /\ \A i \in done, j \in 1..born : Live(j) /\ j \notin done => i < j

\* A late load that counts on its answer gets it, and without an error; a read is
\* in the slot or on the port until it is answered.
Reading ==
    /\ ldx = "fast" => rd_ack /\ ~ans.err
    /\ dq # None \/ xfer.kind = "rd" => rd_pend /\ ~rd_ack
    /\ xfer.kind = "rd" => dq = None
    /\ ans.on \in BOOLEAN

StorePath == Types /\ XferOK /\ Ring /\ Order /\ PortStore /\ Completion /\ Accounts /\ Reading

\* The bytes of the store on the port that its pieces have written.
Written ==
    /\ xfer.kind = "st" =>
          \A b \in xfer.a..(xfer.a + xfer.i * xfer.w - 1) : mem[b] = <<xfer.id, b - xfer.a>>
    /\ st_done_q = "ok" => \A b \in Touches(wb) : mem[b] = <<wb.id, b - wb.a>>

----------------------------------------------------------------------------
\* A store is numbered, the lack of one with 0; a store stays known.
LEMMA KnownId ==
    ASSUME NEW m \in Nat, NEW s, s = None \/ Known(s, m)
    PROVE  s.id \in 0..m /\ (s # None => s.id >= 1)
    BY DEF Known, None

LEMMA KnownMore ==
    ASSUME NEW m \in Nat, NEW n \in Nat, m <= n, NEW s, Known(s, m)
    PROVE  Known(s, n)
<1>1. 1..m \subseteq 1..n
    OBVIOUS
<1> QED BY <1>1 DEF Known

\* One clock with its inputs chosen.
Step(answer, path, f_req, flush, rd_req, disp, late, resume) ==
    /\ answer \in Answers /\ path \in Paths /\ f_req \in BOOLEAN
    /\ flush \in FlushChoices /\ rd_req \in ReadChoices(flush)
    /\ [late |-> late, store |-> disp] \in DispatchChoices(flush)
    /\ f_req \in FetchChoices /\ resume \in ResumeChoices
    /\ Clock(answer, path, f_req, flush, rd_req, disp, late, resume)

LEMMA StepOfNext ==
    ASSUME Next
    PROVE  \E answer, path, f_req, flush, rd_req, disp, late, resume :
               Step(answer, path, f_req, flush, rd_req, disp, late, resume)
<1>1. PICK answer \in Answers : ClockWith(answer)
    BY DEF Next
<1>2. PICK path \in Paths, f_req \in FetchChoices, flush \in FlushChoices, resume \in ResumeChoices :
      \E rd_req \in ReadChoices(flush), d \in DispatchChoices(flush) :
          Clock(answer, path, f_req, flush, rd_req, d.store, d.late, resume)
    BY <1>1 DEF ClockWith
<1>3. PICK rd_req \in ReadChoices(flush), d \in DispatchChoices(flush) :
          Clock(answer, path, f_req, flush, rd_req, d.store, d.late, resume)
    BY <1>2
<1>4. d = [late |-> d.late, store |-> d.store]
    BY DEF DispatchChoices
<1>5. f_req \in BOOLEAN
    BY DEF FetchChoices
<1> QED BY <1>1, <1>2, <1>3, <1>4, <1>5 DEF Step

\* A store enters EX only in a clock in which EX moves on and nothing is thrown away.
LEMMA Dispatched ==
    ASSUME StorePath, NEW answer, NEW path, NEW f_req, NEW flush, NEW rd_req, NEW disp,
           NEW late, NEW resume,
           Step(answer, path, f_req, flush, rd_req, disp, late, resume),
           disp # None
    PROVE  /\ \E k \in StoreKinds : disp = NewStore(k)
           /\ born < MaxStores
           /\ ~ex_stall /\ ~flush /\ ~wf_go /\ ~wf_dbl /\ ~ldx_err_go
<1>1. [late |-> late, store |-> disp] \in DispatchChoices(flush)
    BY DEF Step
<1>2. CASE \E k \in StoreKinds : disp = NewStore(k) /\ may_dispatch /\ ~flush /\ born < MaxStores
  <2>1. ldx = "fast" => ~ans.err
    BY DEF StorePath, Reading
  <2> QED BY <1>2, <2>1 DEF may_dispatch, ldx_err_go, ex_stall, ld_wait, StorePath, Types
<1>3. CASE /\ ldx_may /\ ~ex_stall /\ ~flush /\ ~wf_go
           /\ \E k \in StoreKinds : disp = NewStore(k) /\ born < MaxStores
    BY <1>3 DEF ldx_may, ldx_err_go, wf_dbl, StorePath, Types
<1>4. PICK d \in DispatchChoices(flush) : d.store = disp
    BY <1>1
<1>5. \/ d = [late |-> FALSE, store |-> None]
      \/ \E k \in StoreKinds : d = [late |-> FALSE, store |-> NewStore(k)]
                               /\ may_dispatch /\ ~flush /\ born < MaxStores
      \/ d = [late |-> TRUE, store |-> None]
      \/ \E k \in StoreKinds : d = [late |-> TRUE, store |-> NewStore(k)]
                               /\ born < MaxStores /\ ldx_may /\ ~ex_stall /\ ~flush /\ ~wf_go
    BY DEF DispatchChoices
<1> QED BY <1>2, <1>3, <1>4, <1>5

\* What EX and WB do in a clock: WB holds, both move on, or WB empties.
LEMMA Moves ==
    ASSUME StorePath, NEW answer, NEW path, NEW f_req, NEW flush, NEW rd_req, NEW disp,
           NEW late, NEW resume,
           Step(answer, path, f_req, flush, rd_req, disp, late, resume)
    PROVE  /\ \/ wb_hold /\ wb' = wb /\ ex' \in {None, ex} /\ disp = None
              \/ ~wb_hold /\ ~wb_fault /\ wb' = ex /\ ex' = disp
              \/ ~wb_hold /\ wb' = None /\ ex' \in {None, ex} /\ disp = None
           /\ gone' = gone \cup (IF ex # None /\ ex' # ex /\ wb' # ex THEN {ex.id} ELSE {})
                           \cup (IF wb_fault THEN {wb.id} ELSE {})
                           \cup (IF fifo_done(answer) /\ answer = "flt" THEN {xfer.id} ELSE {})
<1> DEFINE out == flush \/ wf_go \/ ldx_err_go
           lost == ex # None /\ (flush \/ wf_go \/ ldx_err_go \/ (wf_dbl /\ ~ex_stall))
<1>1. /\ wb' = IF wb_fault THEN None ELSE IF wb_hold THEN wb
               ELSE IF ld_wait \/ flush THEN None ELSE ex
      /\ ex' = IF out THEN None ELSE IF ex_stall THEN ex ELSE disp
    BY DEF Step, Clock, Pipeline
<1>2. gone' = gone \cup (IF lost THEN {ex.id} ELSE {})
                   \cup (IF wb_fault THEN {wb.id} ELSE {})
                   \cup (IF fifo_done(answer) /\ answer = "flt" THEN {xfer.id} ELSE {})
    BY DEF Step, Clock, Ghosts, fifo_done
<1>3. disp # None => ~ex_stall /\ ~flush /\ ~wf_go /\ ~wf_dbl /\ ~ldx_err_go
    BY Dispatched
<1>4. ldx_err_go => ld_wait
    BY DEF ldx_err_go, ld_wait, StorePath, Reading
<1>5. wb_fault <=> wf_go \/ wf_dbl
    BY DEF wf_go, wf_dbl
<1>6. ex # None => ex # wb
    BY DEF StorePath, Types, Order, Known
<1>7. wb_fault => ~wb_hold
    BY DEF wb_fault, wb_hold, StorePath, Completion
<1>8. ex_stall <=> wb_hold \/ ld_wait
    BY DEF ex_stall
<1> HIDE DEF out
<1>9. CASE wb_hold
    BY <1>1, <1>2, <1>3, <1>5, <1>6, <1>7, <1>8, <1>9 DEF out
<1>10. CASE ~wb_hold /\ ~(wb_fault \/ ld_wait \/ flush)
  <2>1. ~out /\ ~ex_stall /\ ~lost
    BY <1>4, <1>5, <1>8, <1>10 DEF out
  <2> QED BY <1>1, <1>2, <1>10, <2>1
<1>11. CASE ~wb_hold /\ (wb_fault \/ ld_wait \/ flush)
  <2>1. wb' = None
    BY <1>1, <1>11
  <2>2. CASE out \/ ~ex_stall
    <3>1. ex' = None /\ disp = None
      BY <1>1, <1>3, <1>5, <1>8, <1>11, <2>2 DEF out
    <3>2. lost <=> ex # None
      BY <1>5, <1>8, <1>11, <2>2 DEF out
    <3> QED BY <1>2, <1>11, <2>1, <3>1, <3>2
  <2>3. CASE ~out /\ ex_stall
    <3>1. ex' = ex /\ disp = None /\ ~lost
      BY <1>1, <1>3, <2>3 DEF out
    <3> QED BY <1>2, <1>11, <2>1, <3>1
  <2> QED BY <2>2, <2>3
<1> QED BY <1>9, <1>10, <1>11

\* What the port does in a clock: nothing new, a launch, a piece, or the end.
LEMMA PortMoves ==
    ASSUME StorePath, NEW answer, NEW path, NEW f_req, NEW flush, NEW rd_req, NEW disp,
           NEW late, NEW resume,
           Step(answer, path, f_req, flush, rd_req, disp, late, resume)
    PROVE  /\ \/ ~mem_req /\ (mem_req' => sp_on) /\ xfer' = xfer
              \/ mem_req /\ mem_req' /\ answer = "none" /\ xfer' = xfer
              \/ /\ ~mem_req /\ ~sp_on /\ sb_cnt # 0 /\ mem_req'
                 /\ xfer' = Launch("st", TRUE, sb[sb_rp])
              \/ /\ ~mem_req /\ ~sp_on /\ go_sync /\ mem_req'
                 /\ xfer' = Launch("st", FALSE, wb)
              \/ /\ ~mem_req /\ ~sp_on /\ go_rd(path) /\ mem_req'
                 /\ xfer' = Launch("rd", FALSE, dq)
              \/ ~mem_req /\ ~sp_on /\ mem_req' /\ xfer' = LaunchFetch
              \/ ~mem_req /\ ~sp_on /\ ~mem_req' /\ xfer' = NoXfer
              \/ /\ mem_req /\ ~mem_req' /\ answer = "ack" /\ ~sp_fin(answer)
                 /\ xfer' = [xfer EXCEPT !.i = @ + 1,
                                !.acc = IF xfer.kind = "rd" THEN @ \o Fetched(mem, Piece) ELSE @]
              \/ /\ mem_req /\ ~mem_req' /\ answer \in {"ack", "flt"} /\ sp_fin(answer)
                 /\ xfer' = NoXfer
           /\ mem' = IF mem_req /\ answer = "ack" /\ xfer.kind = "st"
                     THEN [b \in Bytes |-> IF b \in Touches(Piece) THEN <<xfer.id, b - xfer.a>>
                                           ELSE mem[b]]
                     ELSE mem
           /\ answer \in {"none", "ack", "flt"}
<1>1. answer \in {"none", "ack", "flt"}
    BY DEF Step, Answers
<1>2. mem_req \in BOOLEAN
    BY DEF StorePath, Types
<1>3. mem' = IF mem_req /\ answer = "ack" /\ xfer.kind = "st"
             THEN [b \in Bytes |-> IF b \in Touches(Piece) THEN <<xfer.id, b - xfer.a>>
                                   ELSE mem[b]]
             ELSE mem
    BY DEF Step, Clock, Port
<1>4. CASE mem_req
  <2>1. /\ mem_req' = (answer = "none")
        /\ xfer' = IF answer = "none" THEN xfer
                   ELSE IF sp_fin(answer) THEN NoXfer
                   ELSE [xfer EXCEPT !.i = @ + 1,
                             !.acc = IF xfer.kind = "rd" THEN @ \o Fetched(mem, Piece) ELSE @]
    BY <1>4 DEF Step, Clock, Port
  <2>2. answer = "flt" => sp_fin(answer)
    BY DEF sp_fin
  <2>3. CASE answer = "none"
    BY <1>3, <1>4, <2>1, <2>3
  <2>4. CASE answer # "none" /\ sp_fin(answer)
    BY <1>1, <1>3, <1>4, <2>1, <2>4
  <2>5. CASE answer # "none" /\ ~sp_fin(answer)
    BY <1>1, <1>3, <1>4, <2>1, <2>2, <2>5
  <2> QED BY <2>3, <2>4, <2>5
<1>5. CASE ~mem_req
  <2>1. /\ mem_req' = (go_sp \/ go_fifo \/ go_sync \/ go_rd(path) \/ go_if(path, f_req))
        /\ xfer' = CASE go_sp -> xfer
                     [] go_fifo -> Launch("st", TRUE, sb[sb_rp])
                     [] go_sync -> Launch("st", FALSE, wb)
                     [] go_rd(path) -> Launch("rd", FALSE, dq)
                     [] go_if(path, f_req) -> LaunchFetch
                     [] OTHER -> NoXfer
    BY <1>5 DEF Step, Clock, Port
  <2>2. CASE sp_on
    <3>1. go_sp /\ ~go_fifo /\ ~go_sync /\ ~go_rd(path) /\ ~go_if(path, f_req)
      BY <1>5, <2>2 DEF go_sp, go_fifo, go_sync, go_rd, go_if, if_may_go, idle
    <3> QED BY <1>1, <1>3, <1>5, <2>1, <2>2, <3>1
  <2>3. CASE ~sp_on
    <3>1. ~go_sp /\ (go_fifo <=> sb_cnt # 0) /\ ~(go_fifo /\ go_sync) /\ ~(go_fifo /\ go_rd(path))
          /\ ~(go_sync /\ go_rd(path)) /\ ~(go_fifo /\ go_if(path, f_req))
          /\ ~(go_sync /\ go_if(path, f_req)) /\ ~(go_rd(path) /\ go_if(path, f_req))
      BY <1>5, <2>3 DEF go_sp, go_fifo, go_sync, go_rd, go_if, if_may_go, idle
    <3>2. CASE go_fifo
      BY <1>1, <1>3, <1>5, <2>1, <2>3, <3>1, <3>2
    <3>3. CASE go_sync
      BY <1>1, <1>3, <1>5, <2>1, <2>3, <3>1, <3>3
    <3>4. CASE go_rd(path)
      BY <1>1, <1>3, <1>5, <2>1, <2>3, <3>1, <3>4
    <3>5. CASE go_if(path, f_req)
      BY <1>1, <1>3, <1>5, <2>1, <2>3, <3>1, <3>5
    <3>6. CASE ~go_fifo /\ ~go_sync /\ ~go_rd(path) /\ ~go_if(path, f_req)
      BY <1>1, <1>3, <1>5, <2>1, <2>3, <3>1, <3>6
    <3> QED BY <3>2, <3>3, <3>4, <3>5, <3>6
  <2> QED BY <2>2, <2>3
<1> QED BY <1>2, <1>4, <1>5

\* A launched transfer is well formed.
LEMMA Launched ==
    ASSUME NEW kind \in {"st", "rd"}, NEW fifo, NEW s, Access(s)
    PROVE  Transfer(Launch(kind, fifo, s))
<1>1. WSplit(s) => s.n = 4
    BY DEF WSplit
<1> QED BY <1>1 DEF Launch, Transfer, Access

LEMMA XferStep ==
    ASSUME StorePath, NEW answer, NEW path, NEW f_req, NEW flush, NEW rd_req, NEW disp,
           NEW late, NEW resume,
           Step(answer, path, f_req, flush, rd_req, disp, late, resume)
    PROVE  XferOK'
<1>1. CASE xfer' = xfer /\ (mem_req' => mem_req \/ sp_on)
    BY <1>1 DEF StorePath, XferOK, Transfer, sp_on
<1>2. CASE xfer' = NoXfer /\ ~mem_req'
    BY <1>2 DEF XferOK
<1>3. CASE xfer' = LaunchFetch
    BY <1>3 DEF XferOK, LaunchFetch
<1>5. CASE /\ ~mem_req' /\ answer = "ack" /\ ~sp_fin(answer)
           /\ xfer' = [xfer EXCEPT !.i = @ + 1,
                          !.acc = IF xfer.kind = "rd" THEN @ \o Fetched(mem, Piece) ELSE @]
  <2> DEFINE acc == IF xfer.kind = "rd" THEN xfer.acc \o Fetched(mem, Piece) ELSE xfer.acc
  <2>1. xfer.kind # "none" /\ xfer.split /\ (xfer.i + 1) * xfer.w # xfer.n
    BY <1>5 DEF sp_fin, sp_on
  <2>2. Transfer(xfer)
    BY <2>1 DEF StorePath, XferOK, NoXfer, LaunchFetch
  <2>3. xfer' = [xfer EXCEPT !.i = xfer.i + 1, !.acc = acc]
    BY <1>5
  <2> HIDE DEF acc
  <2>4. xfer' = [kind |-> xfer.kind, fifo |-> xfer.fifo, id |-> xfer.id, a |-> xfer.a,
                 n |-> xfer.n, split |-> xfer.split, w |-> xfer.w, i |-> xfer.i + 1,
                 acc |-> acc]
    BY <2>2, <2>3 DEF Transfer
  <2>5. \/ xfer.w = 1 /\ xfer.i + 1 < xfer.n
        \/ xfer.w = 2 /\ xfer.n = 4 /\ xfer.i + 1 < 2
    BY <2>1, <2>2 DEF Transfer
  <2>6. Transfer(xfer')
    BY <2>1, <2>2, <2>4, <2>5 DEF Transfer
  <2> QED BY <1>5, <2>6 DEF XferOK
<1>6. sb_cnt # 0 => Access(sb[sb_rp])
  <2>1. sb_cnt # 0 => sb[sb_rp] # None
    BY DEF StorePath, Types, Ring, IsRing, Ahead, Slots
  <2> QED BY <2>1 DEF StorePath, Types, Known, Access
<1>7. wb # None => Access(wb)
    BY DEF StorePath, Types, Known, Access
<1>8. dq # None => Access(dq)
    BY BcuAssumption DEF StorePath, Types, Access
<1>9. (go_sync => wb # None) /\ (go_rd(path) => dq # None)
    BY DEF go_sync, go_rd, st_v
<1>10. Transfer(xfer') => XferOK'
    BY DEF XferOK, Transfer
<1>11. ASSUME sb_cnt # 0 PROVE Transfer(Launch("st", TRUE, sb[sb_rp]))
    BY <1>6, <1>11, Launched
<1>12. ASSUME go_sync PROVE Transfer(Launch("st", FALSE, wb))
    BY <1>7, <1>9, <1>12, Launched
<1>13. ASSUME go_rd(path) PROVE Transfer(Launch("rd", FALSE, dq))
    BY <1>8, <1>9, <1>13, Launched
<1> QED BY <1>1, <1>2, <1>3, <1>5, <1>10, <1>11, <1>12, <1>13, PortMoves

----------------------------------------------------------------------------
NextSlot(p) == IF p + 1 < SB_N THEN p + 1 ELSE 0

LEMMA NextIsModulo == ASSUME NEW p \in Slots PROVE (p + 1) % SB_N = NextSlot(p)
<1>1. SB_N \in Nat \ {0} /\ p \in 0..SB_N - 1
    BY BcuAssumption DEF Slots
<1>2. CASE p + 1 < SB_N
    BY <1>1, <1>2 DEF NextSlot
<1>3. CASE p + 1 = SB_N
    BY <1>1, <1>3 DEF NextSlot
<1> QED BY <1>1, <1>2, <1>3

\* A store younger than all of the ring goes in behind them.
LEMMA RingPush ==
    ASSUME NEW f, NEW rp \in Slots, NEW wp \in Slots, NEW cnt \in 0..SB_N, NEW s,
           f = [i \in Slots |-> f[i]], IsRing(f, rp, wp, cnt), cnt < SB_N, s # None,
           \A i \in Slots : f[i].id \in Nat, s.id \in Nat,
           \A i \in Slots : f[i] # None => f[i].id < s.id
    PROVE  IsRing([f EXCEPT ![wp] = s], rp, NextSlot(wp), cnt + 1)
<1> DEFINE g == [f EXCEPT ![wp] = s]
<1>1. SB_N \in Nat \ {0} /\ Slots = 0..SB_N - 1 /\ cnt \in Nat /\ cnt <= SB_N
    BY BcuAssumption DEF Slots
<1>2. \A i \in Slots : g[i] = IF i = wp THEN s ELSE f[i]
    OBVIOUS
<1>3. /\ wp = IF rp + cnt < SB_N THEN rp + cnt ELSE rp + cnt - SB_N
      /\ \A i \in Slots : f[i] # None <=> Ahead(i, rp) < cnt
    BY DEF IsRing
<1>4. \A i \in Slots : Ahead(i, rp) \in 0..SB_N - 1 /\ (Ahead(i, rp) = cnt <=> i = wp)
    BY SMTT(20), <1>1, <1>3 DEF Ahead
<1>5. NextSlot(wp) = IF rp + (cnt + 1) < SB_N THEN rp + (cnt + 1) ELSE rp + (cnt + 1) - SB_N
    BY SMTT(20), <1>1, <1>3 DEF NextSlot
<1> HIDE DEF g
<1>6. ASSUME NEW i \in Slots PROVE g[i] # None <=> Ahead(i, rp) < cnt + 1
  <2>1. Ahead(i, rp) \in 0..SB_N - 1 /\ (Ahead(i, rp) = cnt <=> i = wp)
    BY <1>4
  <2>2. Ahead(i, rp) < cnt + 1 <=> Ahead(i, rp) < cnt \/ i = wp
    BY <1>1, <2>1
  <2>3. g[i] # None <=> f[i] # None \/ i = wp
    BY <1>2, <1>3, <1>4
  <2> QED BY <1>3, <2>2, <2>3
<1>7. ASSUME NEW i \in Slots, NEW j \in Slots, Ahead(i, rp) < Ahead(j, rp), Ahead(j, rp) < cnt + 1
      PROVE  g[i].id < g[j].id
  <2> DEFINE a == Ahead(i, rp)
             b == Ahead(j, rp)
  <2>1. a \in Nat /\ b \in Nat /\ a < b /\ b < cnt + 1
    BY <1>1, <1>4, <1>7
  <2> HIDE DEF a, b
  <2>6. a < cnt
    BY <1>1, <2>1
  <2>2. i # wp
    BY <1>1, <1>4, <2>1, <2>6 DEF a
  <2>3. f[i] # None /\ g[i] = f[i]
    BY <1>2, <1>3, <2>6, <2>2 DEF a
  <2>4. CASE j = wp
    <3>1. g[j] = s
      BY <1>2, <2>4
    <3> QED BY <2>3, <3>1
  <2>5. CASE j # wp
    <3>1. Ahead(j, rp) # cnt
      BY <1>4, <2>5
    <3>2. Ahead(j, rp) < cnt
      BY <1>1, <2>1, <3>1 DEF b
    <3>3. g[j] = f[j]
      BY <1>2, <2>5
    <3> QED BY <1>7, <2>3, <3>2, <3>3 DEF IsRing
  <2> QED BY <2>4, <2>5
<1> QED BY <1>5, <1>6, <1>7 DEF IsRing, g

\* The oldest store leaves.
LEMMA RingPop ==
    ASSUME NEW f, NEW rp \in Slots, NEW wp \in Slots, NEW cnt \in 1..SB_N,
           f = [i \in Slots |-> f[i]], IsRing(f, rp, wp, cnt)
    PROVE  IsRing([f EXCEPT ![rp] = None], NextSlot(rp), wp, cnt - 1)
<1> DEFINE g == [f EXCEPT ![rp] = None]
           q == NextSlot(rp)
<1>1. SB_N \in Nat \ {0} /\ Slots = 0..SB_N - 1 /\ cnt \in Nat /\ cnt <= SB_N
    BY BcuAssumption DEF Slots
<1>2. \A i \in Slots : g[i] = IF i = rp THEN None ELSE f[i]
    OBVIOUS
<1>3. /\ wp = IF rp + cnt < SB_N THEN rp + cnt ELSE rp + cnt - SB_N
      /\ \A i \in Slots : f[i] # None <=> Ahead(i, rp) < cnt
    BY DEF IsRing
<1>4. q \in Slots /\ q = IF rp + 1 < SB_N THEN rp + 1 ELSE 0
    BY <1>1 DEF NextSlot
<1>5. wp = IF q + (cnt - 1) < SB_N THEN q + (cnt - 1) ELSE q + (cnt - 1) - SB_N
    BY <1>1, <1>3, <1>4
<1> HIDE DEF g, q
<1>6. ASSUME NEW i \in Slots
      PROVE  /\ Ahead(i, rp) \in 0..SB_N - 1
             /\ Ahead(i, q) = IF i = rp THEN SB_N - 1 ELSE Ahead(i, rp) - 1
             /\ (Ahead(i, rp) = 0) <=> (i = rp)
  <2>1. i \in 0..SB_N - 1 /\ rp \in 0..SB_N - 1 /\ q \in 0..SB_N - 1
    BY <1>1, <1>4
  <2>2. q = IF rp + 1 < SB_N THEN rp + 1 ELSE 0
    BY <1>4
  <2>3. Ahead(i, rp) \in 0..SB_N - 1 /\ (Ahead(i, rp) = 0 <=> i = rp)
    BY <1>1, <2>1 DEF Ahead
  <2>4. Ahead(i, q) = IF i = rp THEN SB_N - 1 ELSE Ahead(i, rp) - 1
    BY <1>1, <2>1, <2>2 DEF Ahead
  <2> QED BY <2>3, <2>4
<1>7. ASSUME NEW i \in Slots PROVE g[i] # None <=> Ahead(i, q) < cnt - 1
  <2>1. CASE i = rp
    <3>1. g[i] = None
      BY <1>2, <2>1
    <3>2. Ahead(i, q) = SB_N - 1
      BY <1>6, <2>1
    <3>3. ~(Ahead(i, q) < cnt - 1)
      BY <1>1, <3>2
    <3> QED BY <3>1, <3>3
  <2>2. CASE i # rp
    <3>1. g[i] = f[i] /\ (f[i] # None <=> Ahead(i, rp) < cnt)
      BY <1>2, <1>3, <2>2
    <3>2. Ahead(i, rp) \in Nat /\ Ahead(i, q) = Ahead(i, rp) - 1
      BY <1>6, <2>2
    <3> QED BY <3>1, <3>2
  <2> QED BY <2>1, <2>2
<1>8. ASSUME NEW i \in Slots, NEW j \in Slots, Ahead(i, q) < Ahead(j, q), Ahead(j, q) < cnt - 1
      PROVE  g[i].id < g[j].id
  <2>1. i # rp /\ j # rp /\ Ahead(i, rp) < Ahead(j, rp) /\ Ahead(j, rp) < cnt
    BY <1>1, <1>6, <1>8
  <2>2. g[i] = f[i] /\ g[j] = f[j]
    BY <1>2, <2>1
  <2> QED BY <2>1, <2>2 DEF IsRing
<1> QED BY <1>5, <1>7, <1>8 DEF IsRing, g, q

\* What the FIFO does in a clock.
LEMMA FifoMoves ==
    ASSUME StorePath, NEW answer, NEW path, NEW f_req, NEW flush, NEW rd_req, NEW disp,
           NEW late, NEW resume,
           Step(answer, path, f_req, flush, rd_req, disp, late, resume)
    PROVE  /\ sb' = [i \in Slots |-> IF fifo_done(answer) /\ i = sb_rp THEN None
                                     ELSE IF sp_v /\ i = sb_wp THEN wb ELSE sb[i]]
           /\ sb_wp' = IF sp_v THEN NextSlot(sb_wp) ELSE sb_wp
           /\ sb_rp' = IF fifo_done(answer) THEN NextSlot(sb_rp) ELSE sb_rp
           /\ sb_cnt' = (sb_cnt + IF sp_v THEN 1 ELSE 0) - IF fifo_done(answer) THEN 1 ELSE 0
           /\ sp_v <=> wb # None /\ wb.post /\ ~wb_hold
           /\ sp_v => sb_cnt < SB_N
           /\ fifo_done(answer) => sb_cnt > 0 /\ sb[sb_rp] # None /\ xfer.id = sb[sb_rp].id
           /\ sp_v /\ fifo_done(answer) => sb_rp # sb_wp
<1>1. SB_N \in Nat \ {0} /\ sb_rp \in 0..SB_N - 1 /\ sb_wp \in 0..SB_N - 1 /\ sb_cnt \in 0..SB_N
    BY BcuAssumption DEF StorePath, Types, Slots
<1>2. /\ sb' = [i \in 0..SB_N - 1 |-> IF fifo_done(answer) /\ i = sb_rp THEN None
                                      ELSE IF sp_v /\ i = sb_wp THEN wb ELSE sb[i]]
      /\ sb_wp' = IF sp_v THEN (sb_wp + 1) % SB_N ELSE sb_wp
      /\ sb_rp' = IF fifo_done(answer) THEN (sb_rp + 1) % SB_N ELSE sb_rp
      /\ sb_cnt' = (sb_cnt + IF sp_v THEN 1 ELSE 0) - IF fifo_done(answer) THEN 1 ELSE 0
    BY DEF Step, Clock, Fifo
<1>3. (sb_wp + 1) % SB_N = NextSlot(sb_wp) /\ (sb_rp + 1) % SB_N = NextSlot(sb_rp)
    BY <1>1, NextIsModulo DEF Slots
<1>4. sp_v <=> wb # None /\ wb.post /\ ~wb_hold
    BY DEF sp_v, sp_wait
<1>5. sp_v => sb_cnt < SB_N
    BY <1>1, <1>4 DEF wb_hold, sb_full
<1>6. ASSUME fifo_done(answer) PROVE sb_cnt > 0 /\ sb[sb_rp] # None /\ xfer.id = sb[sb_rp].id
  <2>1. xfer.kind = "st" /\ xfer.fifo
    BY <1>6 DEF fifo_done, Completes, k_fifo
  <2>2. sb_cnt > 0 /\ xfer.id = sb[sb_rp].id
    BY <2>1 DEF StorePath, PortStore
  <2>3. Ahead(sb_rp, sb_rp) = 0
    BY <1>1 DEF Ahead
  <2> QED BY <1>1, <2>2, <2>3 DEF StorePath, Ring, IsRing, Slots
<1>7. ASSUME sp_v, fifo_done(answer) PROVE sb_rp # sb_wp
    BY <1>1, <1>5, <1>6, <1>7 DEF StorePath, Ring, IsRing
<1> QED BY <1>2, <1>3, <1>4, <1>5, <1>6, <1>7 DEF Slots

LEMMA RingStep ==
    ASSUME StorePath, NEW answer, NEW path, NEW f_req, NEW flush, NEW rd_req, NEW disp,
           NEW late, NEW resume,
           Step(answer, path, f_req, flush, rd_req, disp, late, resume)
    PROVE  Ring'
<1> DEFINE in == [sb EXCEPT ![sb_wp] = wb]
<1>1. /\ SB_N \in Nat \ {0} /\ Slots = 0..SB_N - 1
      /\ sb_rp \in Slots /\ sb_wp \in Slots /\ sb_cnt \in 0..SB_N
      /\ sb = [i \in Slots |-> sb[i]] /\ IsRing(sb, sb_rp, sb_wp, sb_cnt)
    BY BcuAssumption DEF StorePath, Types, Slots, Ring
<1>2. ASSUME sp_v
      PROVE  /\ in = [i \in Slots |-> in[i]] /\ NextSlot(sb_wp) \in Slots
             /\ sb_cnt + 1 \in 0..SB_N
             /\ IsRing(in, sb_rp, NextSlot(sb_wp), sb_cnt + 1)
  <2>1. sb_cnt < SB_N /\ wb # None
    BY <1>2, FifoMoves
  <2>2. (\A i \in Slots : sb[i].id \in Nat) /\ wb.id \in Nat
    BY <2>1, KnownId DEF StorePath, Types
  <2>3. \A i \in Slots : sb[i] # None => sb[i].id < wb.id
    BY <2>1 DEF StorePath, Order
  <2>4. IsRing(in, sb_rp, NextSlot(sb_wp), sb_cnt + 1)
    BY <1>1, <2>1, <2>2, <2>3, RingPush
  <2>5. in = [i \in Slots |-> in[i]]
    BY <1>1
  <2>6. NextSlot(sb_wp) \in Slots /\ sb_cnt + 1 \in 0..SB_N
    BY <1>1, <2>1 DEF NextSlot
  <2> QED BY <2>4, <2>5, <2>6
<1>3. sb' = IF fifo_done(answer)
            THEN IF sp_v THEN [in EXCEPT ![sb_rp] = None] ELSE [sb EXCEPT ![sb_rp] = None]
            ELSE IF sp_v THEN in ELSE sb
    BY <1>1, FifoMoves
<1> HIDE DEF in
<1>4. CASE sp_v /\ fifo_done(answer)
  <2>1. IsRing([in EXCEPT ![sb_rp] = None], NextSlot(sb_rp), NextSlot(sb_wp), (sb_cnt + 1) - 1)
    <3>1. sb_cnt + 1 \in 1..SB_N
      BY <1>1, <1>2, <1>4
    <3> QED BY <1>1, <1>2, <1>4, <3>1, RingPop
  <2> QED BY <1>3, <1>4, <2>1, FifoMoves DEF Ring
<1>5. CASE sp_v /\ ~fifo_done(answer)
  <2>1. sb_cnt' = sb_cnt + 1
    BY <1>1, <1>5, FifoMoves
  <2> QED BY <1>2, <1>3, <1>5, <2>1, FifoMoves DEF Ring
<1>6. CASE ~sp_v /\ fifo_done(answer)
  <2>1. sb_cnt' = sb_cnt - 1 /\ sb_cnt \in 1..SB_N
    BY <1>1, <1>6, FifoMoves
  <2>2. IsRing([sb EXCEPT ![sb_rp] = None], NextSlot(sb_rp), sb_wp, sb_cnt - 1)
    BY <1>1, <2>1, RingPop
  <2> QED BY <1>3, <1>6, <2>1, <2>2, FifoMoves DEF Ring
<1>7. CASE ~sp_v /\ ~fifo_done(answer)
  <2>1. sb_cnt' = sb_cnt
    BY <1>1, <1>7, FifoMoves
  <2> QED BY <1>1, <1>3, <1>7, <2>1, FifoMoves DEF Ring
<1> QED BY <1>4, <1>5, <1>6, <1>7

\* A dispatched store is the next of the program.
LEMMA NewIsNext ==
    ASSUME StorePath, NEW answer, NEW path, NEW f_req, NEW flush, NEW rd_req, NEW disp,
           NEW late, NEW resume,
           Step(answer, path, f_req, flush, rd_req, disp, late, resume)
    PROVE  /\ born \in Nat /\ born' \in 0..MaxStores
           /\ disp # None => disp.id = born + 1 /\ born' = born + 1 /\ Known(disp, born + 1)
           /\ disp = None => born' = born
<1>1. born \in Nat /\ MaxStores \in Nat /\ born <= MaxStores
    BY BcuAssumption DEF StorePath, Types
<1>2. born' = born + IF disp # None THEN 1 ELSE 0
    BY DEF Step, Clock, Ghosts
<1>3. ASSUME disp # None
      PROVE  disp.id = born + 1 /\ Known(disp, born + 1) /\ born < MaxStores
  <2>1. PICK k \in StoreKinds : disp = NewStore(k)
    BY <1>3, Dispatched
  <2>2. k \in [a : Nat, n : {1, 2, 4}, push : BOOLEAN, post : BOOLEAN]
    BY BcuAssumption
  <2>3. k = [a |-> k.a, n |-> k.n, push |-> k.push, post |-> k.post]
    BY <2>2
  <2>4. born + 1 \in 1..born + 1
    BY <1>1
  <2>5. disp = [id |-> born + 1, a |-> k.a, n |-> k.n, push |-> k.push, post |-> k.post]
    BY <2>1 DEF NewStore
  <2>6. /\ disp.id = born + 1 /\ disp.a = k.a /\ disp.n = k.n
        /\ disp.push = k.push /\ disp.post = k.post
    BY <2>5
  <2>7. [a |-> disp.a, n |-> disp.n, push |-> disp.push, post |-> disp.post] \in StoreKinds
    BY <2>3, <2>6
  <2>8. disp \in [id : 1..born + 1, a : Nat, n : {1, 2, 4}, push : BOOLEAN, post : BOOLEAN]
    BY <2>2, <2>4, <2>5
  <2>9. born < MaxStores
    BY <1>3, Dispatched
  <2> QED BY <2>6, <2>7, <2>8, <2>9 DEF Known
<1> QED BY <1>1, <1>2, <1>3

\* Every place a store may be in afterwards.
LEMMA Places ==
    ASSUME StorePath, NEW answer, NEW path, NEW f_req, NEW flush, NEW rd_req, NEW disp,
           NEW late, NEW resume,
           Step(answer, path, f_req, flush, rd_req, disp, late, resume)
    PROVE  /\ \A i \in Slots : sb'[i] # None =>
                  \/ sb'[i] = sb[i] /\ sb[i] # None /\ ~(fifo_done(answer) /\ i = sb_rp)
                  \/ sb'[i] = wb /\ wb # None /\ wb.post /\ ~wb_hold /\ sp_v /\ i = sb_wp
           /\ \A i \in Slots : sb[i] # None /\ ~(fifo_done(answer) /\ i = sb_rp) => sb'[i] = sb[i]
           /\ sp_v => sb'[sb_wp] = wb
<1>1. sb_wp \in Slots /\ sb_rp \in Slots /\ sb_cnt \in 0..SB_N /\ SB_N \in Nat \ {0}
    BY BcuAssumption DEF StorePath, Types
<1>2. \A i \in Slots : sb'[i] = IF fifo_done(answer) /\ i = sb_rp THEN None
                                ELSE IF sp_v /\ i = sb_wp THEN wb ELSE sb[i]
    BY FifoMoves
<1>3. sp_v => sb[sb_wp] = None
  <2>1. ASSUME sp_v PROVE Ahead(sb_wp, sb_rp) = sb_cnt
    BY <1>1, <2>1, FifoMoves DEF StorePath, Ring, IsRing, Ahead, Slots
  <2> QED BY <1>1, <2>1 DEF StorePath, Ring, IsRing
<1> QED BY <1>1, <1>2, <1>3, FifoMoves

LEMMA OrderStep ==
    ASSUME StorePath, NEW answer, NEW path, NEW f_req, NEW flush, NEW rd_req, NEW disp,
           NEW late, NEW resume,
           Step(answer, path, f_req, flush, rd_req, disp, late, resume)
    PROVE  Order'
<1>1. /\ \A i \in Slots : sb[i].id \in 0..born
      /\ wb.id \in 0..born /\ ex.id \in 0..born /\ born \in Nat
    BY KnownId, NewIsNext DEF StorePath, Types
<1>2. /\ \A i \in Slots : sb[i] # None => /\ wb # None => sb[i].id < wb.id
                                          /\ ex # None => sb[i].id < ex.id
      /\ wb # None /\ ex # None => wb.id < ex.id
    BY DEF StorePath, Order
<1>3. disp # None => disp.id = born + 1
    BY NewIsNext
<1>4. wb' # None /\ ex' # None => wb'.id < ex'.id
    BY <1>1, <1>2, <1>3, Moves
<1>5. ASSUME NEW i \in Slots, sb'[i] # None
      PROVE  /\ wb' # None => sb'[i].id < wb'.id
             /\ ex' # None => sb'[i].id < ex'.id
  <2>1. CASE sb'[i] = sb[i] /\ sb[i] # None
    BY <1>1, <1>2, <1>3, <2>1, Moves
  <2>2. CASE sb'[i] = wb /\ wb # None /\ ~wb_hold
    BY <1>1, <1>2, <1>3, <2>2, Moves
  <2> QED BY <1>5, <2>1, <2>2, Places
<1> QED BY <1>4, <1>5 DEF Order

\* The store on the port goes on, or one is launched: the FIFO's oldest or WB's own.
LEMMA StoreOnPort ==
    ASSUME StorePath, NEW answer, NEW path, NEW f_req, NEW flush, NEW rd_req, NEW disp,
           NEW late, NEW resume,
           Step(answer, path, f_req, flush, rd_req, disp, late, resume),
           xfer'.kind = "st"
    PROVE  \/ /\ xfer.kind = "st" /\ ~Completes(answer, "st")
              /\ xfer'.fifo = xfer.fifo /\ xfer'.id = xfer.id
              /\ xfer'.a = xfer.a /\ xfer'.n = xfer.n /\ xfer'.w = xfer.w
              /\ \/ xfer'.i = xfer.i /\ (mem_req => answer = "none")
                 \/ xfer'.i = xfer.i + 1 /\ mem_req /\ answer = "ack"
           \/ /\ ~mem_req /\ sb_cnt # 0 /\ xfer'.fifo /\ xfer'.id = sb[sb_rp].id
              /\ xfer'.a = sb[sb_rp].a /\ xfer'.n = sb[sb_rp].n /\ xfer'.i = 0
           \/ /\ ~mem_req /\ go_sync /\ ~xfer'.fifo /\ xfer'.id = wb.id
              /\ xfer'.a = wb.a /\ xfer'.n = wb.n /\ xfer'.i = 0
<1>1. CASE xfer' = xfer /\ (~mem_req \/ answer = "none")
    BY <1>1 DEF Completes
<1>2. CASE ~mem_req /\ sb_cnt # 0 /\ xfer' = Launch("st", TRUE, sb[sb_rp])
    BY <1>2 DEF Launch
<1>3. CASE ~mem_req /\ go_sync /\ xfer' = Launch("st", FALSE, wb)
    BY <1>3 DEF Launch
<1>4. CASE xfer' = Launch("rd", FALSE, dq) \/ xfer' = LaunchFetch \/ xfer' = NoXfer
    BY <1>4 DEF Launch, LaunchFetch, NoXfer
<1>5. CASE /\ mem_req /\ answer = "ack" /\ ~sp_fin(answer)
           /\ xfer' = [xfer EXCEPT !.i = @ + 1,
                          !.acc = IF xfer.kind = "rd" THEN @ \o Fetched(mem, Piece) ELSE @]
  <2>1. Transfer(xfer)
    <3>1. xfer.kind # "none" /\ xfer.split
      BY <1>5 DEF sp_fin, sp_on
    <3> QED BY <3>1 DEF StorePath, XferOK, NoXfer, LaunchFetch
  <2> DEFINE acc == IF xfer.kind = "rd" THEN xfer.acc \o Fetched(mem, Piece) ELSE xfer.acc
  <2>2. xfer' = [xfer EXCEPT !.i = xfer.i + 1, !.acc = acc]
    BY <1>5
  <2> HIDE DEF acc
  <2>3. /\ xfer'.kind = xfer.kind /\ xfer'.fifo = xfer.fifo /\ xfer'.id = xfer.id
        /\ xfer'.a = xfer.a /\ xfer'.n = xfer.n /\ xfer'.w = xfer.w /\ xfer'.i = xfer.i + 1
    BY <2>1, <2>2 DEF Transfer
  <2>4. ~Completes(answer, "st")
    BY <1>5 DEF Completes
  <2> QED BY <1>5, <2>3, <2>4
<1> QED BY <1>1, <1>2, <1>3, <1>4, <1>5, PortMoves

LEMMA PortStoreStep ==
    ASSUME StorePath, NEW answer, NEW path, NEW f_req, NEW flush, NEW rd_req, NEW disp,
           NEW late, NEW resume,
           Step(answer, path, f_req, flush, rd_req, disp, late, resume)
    PROVE  PortStore'
<1> SUFFICES ASSUME xfer'.kind = "st"
             PROVE  IF xfer'.fifo
                    THEN /\ sb_cnt' > 0 /\ xfer'.id = sb'[sb_rp'].id
                         /\ xfer'.a = sb'[sb_rp'].a /\ xfer'.n = sb'[sb_rp'].n
                    ELSE /\ sb_cnt' = 0 /\ wb' # None /\ ~wb'.post /\ st_done_q' = "none"
                         /\ xfer'.id = wb'.id /\ xfer'.a = wb'.a /\ xfer'.n = wb'.n
    BY DEF PortStore
<1>1. sb_rp \in Slots /\ sb_cnt \in 0..SB_N /\ SB_N \in Nat
    BY BcuAssumption DEF StorePath, Types
<1>2. ~Completes(answer, "st")
    BY StoreOnPort DEF Completes
<1>3. ~fifo_done(answer) /\ st_done_q' = "none"
    BY <1>2 DEF fifo_done, sync_done, Step, Clock, StDone
<1>4. sb_rp' = sb_rp /\ sb_cnt' = IF sp_v THEN sb_cnt + 1 ELSE sb_cnt
    BY <1>1, <1>3, FifoMoves
<1>5. ASSUME sb_cnt > 0 PROVE sb'[sb_rp] = sb[sb_rp] /\ sb_cnt' > 0
  <2>1. sb[sb_rp] # None
    BY <1>1, <1>5 DEF StorePath, Ring, IsRing, Ahead, Slots
  <2>2. sb'[sb_rp] = sb[sb_rp]
    BY <1>1, <1>3, <2>1, Places
  <2> QED BY <1>1, <1>4, <1>5, <2>2
<1>6. ASSUME wb # None, ~wb.post, st_done_q = "none", sb_cnt = 0
      PROVE  wb' = wb /\ sb_cnt' = 0
  <2>1. wb_hold
    BY <1>6 DEF wb_hold
  <2>2. ~sp_v
    BY <1>6 DEF sp_v, sp_wait
  <2> QED BY <1>4, <1>6, <2>1, <2>2, Moves
<1>7. CASE /\ xfer.kind = "st"
           /\ xfer'.fifo = xfer.fifo /\ xfer'.id = xfer.id
           /\ xfer'.a = xfer.a /\ xfer'.n = xfer.n
  <2>1. CASE xfer.fifo
    BY <1>4, <1>5, <1>7, <2>1 DEF StorePath, PortStore
  <2>2. CASE ~xfer.fifo
    BY <1>3, <1>6, <1>7, <2>2 DEF StorePath, PortStore
  <2> QED BY <2>1, <2>2
<1>8. CASE /\ sb_cnt # 0 /\ xfer'.fifo /\ xfer'.id = sb[sb_rp].id
           /\ xfer'.a = sb[sb_rp].a /\ xfer'.n = sb[sb_rp].n
    BY <1>1, <1>4, <1>5, <1>8
<1>9. CASE /\ go_sync /\ ~xfer'.fifo /\ xfer'.id = wb.id
           /\ xfer'.a = wb.a /\ xfer'.n = wb.n
    BY <1>3, <1>6, <1>9 DEF go_sync, st_v
<1> QED BY <1>7, <1>8, <1>9, StoreOnPort

LEMMA CompletionStep ==
    ASSUME StorePath, NEW answer, NEW path, NEW f_req, NEW flush, NEW rd_req, NEW disp,
           NEW late, NEW resume,
           Step(answer, path, f_req, flush, rd_req, disp, late, resume)
    PROVE  Completion'
<1> SUFFICES ASSUME st_done_q' # "none"
             PROVE  /\ wb' # None /\ ~wb'.post /\ sb_cnt' = 0 /\ xfer'.kind # "st"
                    /\ st_done_q' = "ok" => wb'.id \in done'
    BY DEF Completion
<1>1. /\ sync_done(answer)
      /\ st_done_q' = IF answer = "flt" THEN "flt" ELSE "ok"
    BY DEF Step, Clock, StDone
<1>2. Completes(answer, "st") /\ ~xfer.fifo /\ xfer.kind = "st" /\ mem_req /\ answer # "none"
    BY <1>1 DEF sync_done, k_fifo, Completes
<1>3. sb_cnt = 0 /\ wb # None /\ ~wb.post /\ st_done_q = "none" /\ xfer.id = wb.id
    BY <1>2 DEF StorePath, PortStore
<1>4. wb_hold /\ ~sp_v
    BY <1>3 DEF wb_hold, sp_v, sp_wait
<1>5. ~fifo_done(answer)
    BY <1>2 DEF fifo_done, k_fifo
<1>6. wb' = wb /\ sb_cnt' = 0
    BY <1>3, <1>4, <1>5, Moves, FifoMoves
<1>7. xfer'.kind # "st"
    BY <1>2, StoreOnPort
<1>8. done' = IF answer = "ack" THEN done \cup {xfer.id} ELSE done
    BY <1>2 DEF Step, Clock, Ghosts
<1>9. answer \in {"none", "ack", "flt"}
    BY PortMoves
<1> QED BY <1>1, <1>2, <1>3, <1>6, <1>7, <1>8, <1>9

\* The read on the port goes on, or the slot's is launched.
LEMMA ReadOnPort ==
    ASSUME StorePath, NEW answer, NEW path, NEW f_req, NEW flush, NEW rd_req, NEW disp,
           NEW late, NEW resume,
           Step(answer, path, f_req, flush, rd_req, disp, late, resume),
           xfer'.kind = "rd"
    PROVE  \/ xfer.kind = "rd" /\ ~Completes(answer, "rd")
           \/ ~mem_req /\ go_rd(path)
<1>1. CASE xfer' = xfer /\ (~mem_req \/ answer = "none")
    BY <1>1 DEF Completes
<1>2. CASE xfer' = Launch("st", TRUE, sb[sb_rp]) \/ xfer' = Launch("st", FALSE, wb)
    BY <1>2 DEF Launch
<1>3. CASE ~mem_req /\ go_rd(path)
    BY <1>3
<1>4. CASE xfer' = LaunchFetch \/ xfer' = NoXfer
    BY <1>4 DEF LaunchFetch, NoXfer
<1>5. CASE /\ mem_req /\ answer = "ack" /\ ~sp_fin(answer)
           /\ xfer' = [xfer EXCEPT !.i = @ + 1,
                          !.acc = IF xfer.kind = "rd" THEN @ \o Fetched(mem, Piece) ELSE @]
  <2>1. Transfer(xfer)
    <3>1. xfer.kind # "none" /\ xfer.split
      BY <1>5 DEF sp_fin, sp_on
    <3> QED BY <3>1 DEF StorePath, XferOK, NoXfer, LaunchFetch
  <2> DEFINE acc == IF xfer.kind = "rd" THEN xfer.acc \o Fetched(mem, Piece) ELSE xfer.acc
  <2>2. xfer' = [xfer EXCEPT !.i = xfer.i + 1, !.acc = acc]
    BY <1>5
  <2> HIDE DEF acc
  <2>3. xfer'.kind = xfer.kind
    BY <2>1, <2>2 DEF Transfer
  <2> QED BY <1>5, <2>3 DEF Completes
<1> QED BY <1>1, <1>2, <1>3, <1>4, <1>5, PortMoves

\* What the read slot and the answer do in a clock.
LEMMA SlotMoves ==
    ASSUME StorePath, NEW answer, NEW path, NEW f_req, NEW flush, NEW rd_req, NEW disp,
           NEW late, NEW resume,
           Step(answer, path, f_req, flush, rd_req, disp, late, resume)
    PROVE  /\ rd_req \in Reads \cup {None}
           /\ rd_req # None => ~rd_pend \/ rd_ack
           /\ rdq' = IF rd_req # None THEN rd_req ELSE IF rd_ack THEN None ELSE rdq
           /\ dq' = IF FastAnswer(path) \/ go_rd(path) THEN None
                    ELSE IF rd_req # None THEN rd_req ELSE dq
           /\ FastAnswer(path) \/ go_rd(path) =>
                 dq # None /\ rd_pend /\ ~rd_ack /\ rd_req = None /\ ~Completes(answer, "rd")
           /\ ~(FastAnswer(path) /\ go_rd(path))
           /\ Completes(answer, "rd") => rd_pend /\ ~rd_ack /\ dq = None /\ rd_req = None
           /\ ans'.on = (Completes(answer, "rd") \/ FastAnswer(path))
           /\ FastAnswer(path) => ~ans'.err
<1>1. rd_req \in Reads \cup {None} /\ (rd_req # None => ~rd_pend \/ rd_ack)
    BY DEF Step, ReadChoices, may_read
<1>2. rdq' = IF rd_req # None THEN rd_req ELSE IF rd_ack THEN None ELSE rdq
    BY DEF Step, Clock, EaFetch
<1>3. dq' = IF FastAnswer(path) \/ go_rd(path) THEN None
            ELSE IF rd_req # None THEN rd_req ELSE dq
    BY DEF Step, Clock, Slot
<1>4. FastAnswer(path) \/ go_rd(path) => dq # None
    BY DEF FastAnswer, go_rd
<1>5. ~(FastAnswer(path) /\ go_rd(path))
    BY DEF FastAnswer, go_rd
<1>6. Completes(answer, "rd") => xfer.kind = "rd"
    BY DEF Completes
<1>7. /\ dq # None \/ xfer.kind = "rd" => rd_pend /\ ~rd_ack
      /\ xfer.kind = "rd" => dq = None
    BY DEF StorePath, Reading
<1>8. ans' = IF Completes(answer, "rd")
             THEN [on |-> TRUE, err |-> answer = "flt",
                   data |-> IF answer = "flt" THEN NoData ELSE xfer.acc \o Fetched(mem, Piece)]
             ELSE IF FastAnswer(path)
             THEN [on |-> TRUE, err |-> FALSE,
                   data |-> IF d_rd_fwd(path) THEN look.fwd ELSE look.data]
             ELSE NoAns
    BY DEF Step, Clock, Slot
<1>9. /\ ans'.on = (Completes(answer, "rd") \/ FastAnswer(path))
      /\ FastAnswer(path) => ~ans'.err
  <2>1. CASE Completes(answer, "rd")
    BY <1>4, <1>6, <1>7, <1>8, <2>1
  <2>2. CASE ~Completes(answer, "rd") /\ FastAnswer(path)
    BY <1>8, <2>2
  <2>3. CASE ~Completes(answer, "rd") /\ ~FastAnswer(path)
    BY <1>8, <2>3 DEF NoAns
  <2> QED BY <2>1, <2>2, <2>3
<1> QED BY <1>1, <1>2, <1>3, <1>4, <1>5, <1>6, <1>7, <1>9

LEMMA ReadingStep ==
    ASSUME StorePath, NEW answer, NEW path, NEW f_req, NEW flush, NEW rd_req, NEW disp,
           NEW late, NEW resume,
           Step(answer, path, f_req, flush, rd_req, disp, late, resume)
    PROVE  Reading'
<1>1. ldx' = "fast" => rd_ack' /\ ~ans'.err
  <2>1. ldx' = IF flush \/ wf_go THEN "none"
               ELSE IF ldx # "none" /\ rd_ack THEN "none"
               ELSE IF late THEN IF FastAnswer(path) THEN "fast" ELSE "slow"
               ELSE ldx
    BY DEF Step, Clock, Pipeline
  <2>2. ldx = "fast" => rd_ack
    BY DEF StorePath, Reading
  <2>3. ldx' = "fast" => FastAnswer(path)
    BY <2>1, <2>2
  <2> QED BY <2>3, SlotMoves DEF rd_ack
<1>2. dq' # None \/ xfer'.kind = "rd" => rdq' # None /\ ~ans'.on
  <2>1. dq # None \/ xfer.kind = "rd" => rd_pend /\ ~rd_ack
    BY DEF StorePath, Reading
  <2>2. CASE dq' # None
    <3>1. ~FastAnswer(path) /\ ~go_rd(path)
      BY <2>2, SlotMoves
    <3>2. CASE rd_req # None
      <4>1. ~Completes(answer, "rd") /\ rdq' = rd_req
        BY <3>2, SlotMoves
      <4> QED BY <3>1, <3>2, <4>1, SlotMoves
    <3>3. CASE rd_req = None
      <4>1. dq # None
        BY <2>2, <3>1, <3>3, SlotMoves
      <4>2. rdq' = rdq /\ rd_pend /\ ~Completes(answer, "rd")
        BY <2>1, <3>3, <4>1, SlotMoves
      <4> QED BY <3>1, <4>2, SlotMoves DEF rd_pend
    <3> QED BY <3>2, <3>3
  <2>3. CASE xfer'.kind = "rd"
    <3>1. CASE xfer.kind = "rd" /\ ~Completes(answer, "rd")
      <4>1. dq = None /\ rd_pend /\ ~rd_ack
        BY <3>1 DEF StorePath, Reading
      <4>2. ~FastAnswer(path) /\ rd_req = None
        BY <4>1, SlotMoves
      <4> QED BY <3>1, <4>1, <4>2, SlotMoves DEF rd_pend
    <3>2. CASE ~mem_req /\ go_rd(path)
      <4>1. rd_pend /\ ~rd_ack /\ rd_req = None /\ ~Completes(answer, "rd") /\ ~FastAnswer(path)
        BY <3>2, SlotMoves
      <4> QED BY <4>1, SlotMoves DEF rd_pend
    <3> QED BY <2>3, <3>1, <3>2, ReadOnPort
  <2> QED BY <2>2, <2>3
<1>3. xfer'.kind = "rd" => dq' = None
  <2>1. CASE xfer.kind = "rd"
    <3>1. dq = None /\ rd_pend /\ ~rd_ack
      BY <2>1 DEF StorePath, Reading
    <3> QED BY <3>1, SlotMoves
  <2>2. CASE go_rd(path)
    BY <2>2, SlotMoves
  <2> QED BY <2>1, <2>2, ReadOnPort
<1>4. ans'.on \in BOOLEAN
    BY SlotMoves
<1> QED BY <1>1, <1>2, <1>3, <1>4 DEF Reading, rd_ack, rd_pend

\* The store on the port is one of the program's; its piece lies inside it.
LEMMA PieceInside ==
    ASSUME StorePath, xfer.kind = "st"
    PROVE  /\ xfer.id \in 1..born /\ Transfer(xfer)
           /\ xfer.i * xfer.w \in Nat /\ xfer.i * xfer.w + xfer.w <= xfer.n
           /\ Touches(Piece) = (xfer.a + xfer.i * xfer.w)..(xfer.a + xfer.i * xfer.w + xfer.w - 1)
<1>1. Transfer(xfer)
    BY DEF StorePath, XferOK, NoXfer, LaunchFetch
<1>2. xfer.id \in 1..born
  <2>1. CASE xfer.fifo
    <3>1. sb_cnt > 0 /\ xfer.id = sb[sb_rp].id
      BY <2>1 DEF StorePath, PortStore
    <3>2. sb[sb_rp] # None /\ sb_rp \in Slots
      BY <3>1, BcuAssumption DEF StorePath, Types, Ring, IsRing, Ahead, Slots
    <3>3. Known(sb[sb_rp], born)
      BY <3>2 DEF StorePath, Types
    <3> QED BY <3>1, <3>3 DEF Known
  <2>2. CASE ~xfer.fifo
    <3>1. wb # None /\ xfer.id = wb.id
      BY <2>2 DEF StorePath, PortStore
    <3>2. Known(wb, born)
      BY <3>1 DEF StorePath, Types
    <3> QED BY <3>1, <3>2 DEF Known
  <2> QED BY <2>1, <2>2
<1>3. xfer.i * xfer.w \in Nat /\ xfer.i * xfer.w + xfer.w <= xfer.n
  <2>1. CASE xfer.w = xfer.n /\ xfer.i = 0
    BY <1>1, <2>1 DEF Transfer
  <2>2. CASE xfer.w = 1 /\ xfer.i < xfer.n
    BY <1>1, <2>2 DEF Transfer
  <2>3. CASE xfer.w = 2 /\ xfer.n = 4 /\ xfer.i < 2
    BY <1>1, <2>3 DEF Transfer
  <2> QED BY <1>1, <2>1, <2>2, <2>3 DEF Transfer
<1>4. Touches(Piece) = (xfer.a + xfer.i * xfer.w)..(xfer.a + xfer.i * xfer.w + xfer.w - 1)
    BY DEF Touches, Piece
<1> QED BY <1>1, <1>2, <1>3, <1>4

LEMMA MemStep ==
    ASSUME StorePath, NEW answer, NEW path, NEW f_req, NEW flush, NEW rd_req, NEW disp,
           NEW late, NEW resume,
           Step(answer, path, f_req, flush, rd_req, disp, late, resume)
    PROVE  mem' \in [Bytes -> (0..born') \X (0..Long - 1)]
<1>1. mem \in [Bytes -> (0..born) \X (0..Long - 1)]
    BY DEF StorePath, Types
<1>2. 0..born \subseteq 0..born'
    BY NewIsNext
<1>3. CASE mem_req /\ answer = "ack" /\ xfer.kind = "st"
  <2>1. mem' = [b \in Bytes |-> IF b \in Touches(Piece) THEN <<xfer.id, b - xfer.a>> ELSE mem[b]]
    BY <1>3, PortMoves
  <2>2. xfer.id \in 0..born'
    BY <1>2, <1>3, PieceInside
  <2>3. ASSUME NEW b \in Bytes, b \in Touches(Piece) PROVE b - xfer.a \in 0..Long - 1
    <3>1. /\ b \in (xfer.a + xfer.i * xfer.w)..(xfer.a + xfer.i * xfer.w + xfer.w - 1)
          /\ xfer.i * xfer.w \in Nat /\ xfer.i * xfer.w + xfer.w <= xfer.n /\ Transfer(xfer)
      BY <1>3, <2>3, PieceInside
    <3>2. xfer.a \in Nat /\ xfer.n \in {1, 2, 4} /\ xfer.w \in {1, 2, 4}
      BY <3>1 DEF Transfer
    <3> DEFINE p == xfer.i * xfer.w
    <3> HIDE DEF p
    <3>3. p \in Nat /\ p + xfer.w <= xfer.n /\ b \in (xfer.a + p)..(xfer.a + p + xfer.w - 1)
      BY <3>1 DEF p
    <3> QED BY <3>2, <3>3 DEF Long
  <2>4. ASSUME NEW b \in Bytes
        PROVE  (IF b \in Touches(Piece) THEN <<xfer.id, b - xfer.a>> ELSE mem[b])
                  \in (0..born') \X (0..Long - 1)
    <3>1. CASE b \in Touches(Piece)
      BY <2>2, <2>3, <3>1
    <3>2. CASE b \notin Touches(Piece)
      BY <1>1, <1>2, <3>2
    <3> QED BY <3>1, <3>2
  <2> QED BY <2>1, <2>4
<1>4. CASE ~(mem_req /\ answer = "ack" /\ xfer.kind = "st")
  <2>1. mem' = mem
    BY <1>4, PortMoves
  <2> QED BY <1>1, <1>2, <2>1
<1> QED BY <1>3, <1>4

LEMMA TypesStep ==
    ASSUME StorePath, NEW answer, NEW path, NEW f_req, NEW flush, NEW rd_req, NEW disp,
           NEW late, NEW resume,
           Step(answer, path, f_req, flush, rd_req, disp, late, resume)
    PROVE  Types'
<1>1. /\ ph \in {"run", "exc", "halt"} /\ refill \in 0..Refill
      /\ ldx \in {"none", "fast", "slow"}
      /\ rd_drop \in BOOLEAN /\ mem_req \in BOOLEAN /\ st_err \in BOOLEAN /\ rd_dead \in BOOLEAN
    BY DEF StorePath, Types
<1>2. born \in Nat /\ born' \in Nat /\ born' \in 0..MaxStores /\ born <= born'
    BY NewIsNext
<1>3. ph' \in {"run", "exc", "halt"} /\ rd_drop' \in BOOLEAN
    BY <1>1 DEF Step, Clock, EaFetch, DropAtFlush
<1>4. refill' \in 0..Refill
  <2>1. refill' = IF flush THEN Refill ELSE IF refill > 0 THEN refill - 1 ELSE 0
    BY DEF Step, Clock, Pipeline
  <2> QED BY <1>1, <2>1 DEF Refill
<1>5. ldx' \in {"none", "fast", "slow"}
    BY <1>1 DEF Step, Clock, Pipeline
<1>6. mem_req' \in BOOLEAN /\ st_err' \in BOOLEAN
    BY <1>1 DEF Step, Clock, Port
<1>7. rd_dead' \in BOOLEAN
    BY <1>1 DEF Step, Clock, Ghosts
<1>8. st_done_q' \in {"none", "ok", "flt"}
    BY DEF Step, Clock, StDone
<1>9. /\ ex = None \/ Known(ex, born')
      /\ wb = None \/ Known(wb, born')
      /\ \A i \in Slots : sb[i] = None \/ Known(sb[i], born')
    BY <1>2, KnownMore DEF StorePath, Types
<1>10. disp = None \/ Known(disp, born')
    BY NewIsNext
<1>11. ex' = None \/ Known(ex', born')
    BY <1>9, <1>10, Moves
<1>12. wb' = None \/ Known(wb', born')
    BY <1>9, Moves
<1>13. \A i \in Slots : sb'[i] = None \/ Known(sb'[i], born')
    BY <1>9, Places
<1>14. sb' = [i \in Slots |-> sb'[i]]
    BY FifoMoves
<1>15. sb_rp' \in Slots /\ sb_wp' \in Slots
  <2>1. \A p \in Slots : NextSlot(p) \in Slots
    BY BcuAssumption DEF NextSlot, Slots
  <2> QED BY <2>1, FifoMoves DEF StorePath, Types
<1>16. sb_cnt' \in 0..SB_N
    BY BcuAssumption, FifoMoves DEF StorePath, Types
<1>17. rdq' \in Reads \cup {None} /\ dq' \in Reads \cup {None}
    BY SlotMoves DEF StorePath, Types
<1>18. done' \subseteq 1..born'
  <2>1. done' = IF Completes(answer, "st") /\ answer = "ack" THEN done \cup {xfer.id} ELSE done
    BY DEF Step, Clock, Ghosts
  <2>2. Completes(answer, "st") => xfer.id \in 1..born
    BY PieceInside DEF Completes
  <2>3. done \subseteq 1..born /\ 1..born \subseteq 1..born'
    BY <1>2 DEF StorePath, Types
  <2> QED BY <2>1, <2>2, <2>3
<1>19. gone' \subseteq 1..born'
  <2>1. ex # None => ex.id \in 1..born
    BY DEF StorePath, Types, Known
  <2>2. wb_fault => wb.id \in 1..born
    BY DEF StorePath, Types, Known, wb_fault
  <2>3. fifo_done(answer) => xfer.id \in 1..born
    BY PieceInside DEF fifo_done, Completes
  <2>4. gone \subseteq 1..born /\ 1..born \subseteq 1..born'
    BY <1>2 DEF StorePath, Types
  <2> QED BY <2>1, <2>2, <2>3, <2>4, Moves
<1>20. mem' \in [Bytes -> (0..born') \X (0..Long - 1)]
    BY MemStep
<1> QED BY <1>2, <1>3, <1>4, <1>5, <1>6, <1>7, <1>8, <1>11, <1>12, <1>13, <1>14, <1>15,
           <1>16, <1>17, <1>18, <1>19, <1>20 DEF Types

\* The store on the port is the oldest of those on their way.
LEMMA PortIsOldest ==
    ASSUME StorePath, xfer.kind = "st"
    PROVE  /\ Live(xfer.id)
           /\ \A j \in 1..born : Live(j) => xfer.id <= j
           /\ ~xfer.fifo => wb # None /\ xfer.id = wb.id /\ st_done_q = "none"
           /\ ex # None => xfer.id < ex.id
<1>1. /\ \A i \in Slots : sb[i].id \in 0..born
      /\ wb.id \in 0..born /\ ex.id \in 0..born /\ born \in Nat
    BY KnownId DEF StorePath, Types
<1>2. /\ \A i \in Slots : sb[i] # None => /\ wb # None => sb[i].id < wb.id
                                          /\ ex # None => sb[i].id < ex.id
      /\ wb # None /\ ex # None => wb.id < ex.id
    BY DEF StorePath, Order
<1>3. CASE xfer.fifo
  <2>1. sb_cnt > 0 /\ xfer.id = sb[sb_rp].id
    BY <1>3 DEF StorePath, PortStore
  <2>2. SB_N \in Nat /\ sb_rp \in Slots /\ Slots = 0..SB_N - 1 /\ sb_cnt \in 0..SB_N
    BY BcuAssumption DEF StorePath, Types, Slots
  <2>3. Ahead(sb_rp, sb_rp) = 0
    BY <2>2 DEF Ahead
  <2>4. sb[sb_rp] # None
    BY <2>1, <2>2, <2>3 DEF StorePath, Ring, IsRing
  <2>5. ASSUME NEW k \in Slots, sb[k] # None PROVE xfer.id <= sb[k].id
    <3>1. CASE k = sb_rp
      BY <1>1, <2>1, <3>1
    <3>2. CASE k # sb_rp
      <4>1. Ahead(k, sb_rp) > 0
        BY <2>2, <3>2 DEF Ahead
      <4>2. sb[sb_rp].id < sb[k].id
        BY <2>2, <2>3, <2>5, <4>1 DEF StorePath, Ring, IsRing
      <4> QED BY <1>1, <2>1, <2>2, <4>2
    <3> QED BY <3>1, <3>2
  <2>6. ASSUME NEW j \in 1..born, Live(j) PROVE xfer.id <= j
    <3>1. CASE ex # None /\ j = ex.id
      BY <1>1, <1>2, <2>1, <2>2, <2>4, <3>1
    <3>2. CASE wb # None /\ j = wb.id
      BY <1>1, <1>2, <2>1, <2>2, <2>4, <3>2
    <3>3. CASE \E k \in Slots : sb[k] # None /\ j = sb[k].id
      BY <2>5, <3>3
    <3> QED BY <2>6, <3>1, <3>2, <3>3 DEF Live
  <2>7. Live(xfer.id)
    BY <2>1, <2>2, <2>4 DEF Live
  <2> QED BY <1>2, <1>3, <2>1, <2>2, <2>4, <2>6, <2>7
<1>4. CASE ~xfer.fifo
  <2>1. sb_cnt = 0 /\ wb # None /\ xfer.id = wb.id /\ st_done_q = "none"
    BY <1>4 DEF StorePath, PortStore
  <2>2. \A k \in Slots : sb[k] = None
    <3>1. \A k \in Slots : ~(Ahead(k, sb_rp) < 0)
      BY BcuAssumption DEF Ahead, Slots, StorePath, Types
    <3> QED BY <2>1, <3>1 DEF StorePath, Ring, IsRing
  <2>3. \A j \in 1..born : Live(j) => xfer.id <= j
    BY <1>1, <1>2, <2>1, <2>2 DEF Live
  <2> QED BY <1>2, <2>1, <2>3 DEF Live
<1> QED BY <1>3, <1>4

\* The stores a clock takes off the way.
Leaves(j, answer) ==
    \/ ex # None /\ ex' # ex /\ wb' # ex /\ j = ex.id
    \/ wb_fault /\ j = wb.id
    \/ st_done_q = "ok" /\ j = wb.id
    \/ fifo_done(answer) /\ j = xfer.id

\* What is on its way afterwards was before, or is the dispatched store.
LEMMA LiveAfter ==
    ASSUME StorePath, NEW answer, NEW path, NEW f_req, NEW flush, NEW rd_req, NEW disp,
           NEW late, NEW resume,
           Step(answer, path, f_req, flush, rd_req, disp, late, resume),
           NEW j \in Nat
    PROVE  Live(j)' <=> \/ disp # None /\ j = born + 1
                        \/ Live(j) /\ ~Leaves(j, answer)
<1>1. /\ \A i \in Slots : sb[i].id \in 0..born
      /\ wb.id \in 0..born /\ ex.id \in 0..born /\ born \in Nat
    BY KnownId, NewIsNext DEF StorePath, Types
<1>2. /\ \A i \in Slots : sb[i] # None => /\ wb # None => sb[i].id < wb.id
                                          /\ ex # None => sb[i].id < ex.id
      /\ wb # None /\ ex # None => wb.id < ex.id
    BY DEF StorePath, Order
<1>3. st_done_q # "none" => wb # None /\ ~wb.post /\ sb_cnt = 0 /\ ~wb_hold /\ ~sp_v
    BY FifoMoves DEF StorePath, Completion, wb_hold
<1>4. wb_fault <=> wb # None /\ st_done_q = "flt"
    BY DEF wb_fault
<1>5. disp # None => disp.id = born + 1
    BY NewIsNext
<1>6. fifo_done(answer) => /\ sb_rp \in Slots /\ sb[sb_rp] # None /\ xfer.id = sb[sb_rp].id
                           /\ \A k \in Slots \ {sb_rp} : sb[k] # None => sb[k].id # xfer.id
  <2>1. ASSUME fifo_done(answer) PROVE sb_rp \in Slots /\ sb[sb_rp] # None /\ xfer.id = sb[sb_rp].id
    BY <2>1, FifoMoves DEF StorePath, Types
  <2>2. ASSUME fifo_done(answer), NEW k \in Slots \ {sb_rp}, sb[k] # None
        PROVE  sb[k].id # xfer.id
    <3>1. SB_N \in Nat /\ sb_rp \in Slots /\ Slots = 0..SB_N - 1 /\ sb_cnt \in 0..SB_N
      BY BcuAssumption DEF StorePath, Types, Slots
    <3>2. Ahead(sb_rp, sb_rp) = 0 /\ Ahead(k, sb_rp) > 0
      BY <2>2, <3>1 DEF Ahead
    <3>3. Ahead(k, sb_rp) < sb_cnt
      BY <2>2 DEF StorePath, Ring, IsRing
    <3>4. sb[sb_rp].id < sb[k].id
      BY <2>2, <3>1, <3>2, <3>3 DEF StorePath, Ring, IsRing
    <3> QED BY <1>1, <2>1, <2>2, <3>1, <3>4
  <2> QED BY <2>1, <2>2
<1>7. ASSUME Live(j)' PROVE (disp # None /\ j = born + 1) \/ (Live(j) /\ ~Leaves(j, answer))
  <2>1. CASE ex' # None /\ j = ex'.id
    BY <1>1, <1>2, <1>3, <1>4, <1>5, <1>6, <2>1, Moves DEF Live, Leaves
  <2>2. CASE wb' # None /\ j = wb'.id
    BY <1>1, <1>2, <1>3, <1>4, <1>6, <2>2, Moves DEF Live, Leaves
  <2>3. CASE \E k \in Slots : sb'[k] # None /\ j = sb'[k].id
    <3>1. PICK k \in Slots : sb'[k] # None /\ j = sb'[k].id
      BY <2>3
    <3>2. CASE sb'[k] = sb[k] /\ sb[k] # None /\ ~(fifo_done(answer) /\ k = sb_rp)
      BY <1>1, <1>2, <1>3, <1>4, <1>6, <3>1, <3>2 DEF Live, Leaves
    <3>3. CASE sb'[k] = wb /\ wb # None /\ wb.post /\ ~wb_hold
      BY <1>1, <1>2, <1>3, <1>4, <1>6, <3>1, <3>3 DEF Live, Leaves
    <3> QED BY <3>1, <3>2, <3>3, Places
  <2> QED BY <1>7, <2>1, <2>2, <2>3 DEF Live
<1>8. ASSUME disp # None, j = born + 1 PROVE Live(j)'
  <2>1. ex' = disp
    BY <1>8, Moves
  <2> QED BY <1>5, <1>8, <2>1 DEF Live
<1>9. ASSUME Live(j), ~Leaves(j, answer) PROVE Live(j)'
  <2>1. CASE ex # None /\ j = ex.id
    BY <1>9, <2>1 DEF Live, Leaves
  <2>2. CASE wb # None /\ j = wb.id
    <3>1. CASE wb_hold
      BY <2>2, <3>1, Moves DEF Live
    <3>2. CASE ~wb_hold
      <4>1. wb.post
        BY <1>4, <1>9, <2>2, <3>2 DEF wb_hold, Leaves, StorePath, Types
      <4>2. sp_v
        BY <2>2, <3>2, <4>1, FifoMoves
      <4>3. sb'[sb_wp] = wb /\ sb_wp \in Slots
        BY <4>2, Places DEF StorePath, Types
      <4> QED BY <2>2, <4>3 DEF Live
    <3> QED BY <3>1, <3>2
  <2>3. CASE \E k \in Slots : sb[k] # None /\ j = sb[k].id
    <3>1. PICK k \in Slots : sb[k] # None /\ j = sb[k].id
      BY <2>3
    <3>2. ~(fifo_done(answer) /\ k = sb_rp)
      BY <1>6, <1>9, <3>1 DEF Leaves
    <3>3. sb'[k] = sb[k]
      BY <3>1, <3>2, Places
    <3> QED BY <3>1, <3>3 DEF Live
  <2> QED BY <1>9, <2>1, <2>2, <2>3 DEF Live
<1> QED BY <1>7, <1>8, <1>9

LEMMA AccountsStep ==
    ASSUME StorePath, NEW answer, NEW path, NEW f_req, NEW flush, NEW rd_req, NEW disp,
           NEW late, NEW resume,
           Step(answer, path, f_req, flush, rd_req, disp, late, resume)
    PROVE  Accounts'
<1> DEFINE stored == Completes(answer, "st") /\ answer = "ack"
           lost(j) == \/ ex # None /\ ex' # ex /\ wb' # ex /\ j = ex.id
                      \/ wb_fault /\ j = wb.id
                      \/ fifo_done(answer) /\ answer = "flt" /\ j = xfer.id
<1>1. /\ wb.id \in 0..born /\ ex.id \in 0..born /\ born \in Nat
      /\ ex # None => ex.id \in 1..born /\ Live(ex.id)
      /\ wb # None => wb.id \in 1..born /\ Live(wb.id)
      /\ wb # None /\ ex # None => wb.id < ex.id
    BY KnownId, NewIsNext DEF StorePath, Types, Order, Live
<1>2. /\ done' = IF stored THEN done \cup {xfer.id} ELSE done
      /\ done \subseteq 1..born /\ gone \subseteq 1..born
    BY DEF Step, Clock, Ghosts, StorePath, Types
<1>3. \A j : j \in gone' <=> j \in gone \/ lost(j)
    BY Moves
<1>4. /\ \A i \in 1..born : i \in done \/ i \in gone \/ Live(i)
      /\ \A i \in 1..born : ~(i \in done /\ i \in gone) /\ ~(Live(i) /\ i \in gone)
      /\ \A i \in done : Live(i) => st_done_q = "ok" /\ i = wb.id
      /\ \A i \in done, j \in 1..born : Live(j) /\ j \notin done => i < j
    BY DEF StorePath, Accounts
<1>5. st_done_q # "none" => /\ wb # None /\ ~stored /\ ~fifo_done(answer)
                            /\ st_done_q = "ok" => wb.id \in done
    BY DEF StorePath, Completion, Completes, fifo_done
<1>6. stored \/ fifo_done(answer) =>
          /\ xfer.kind = "st" /\ xfer.id \in 1..born /\ Live(xfer.id)
          /\ \A j \in 1..born : Live(j) => xfer.id <= j
          /\ ~fifo_done(answer) => wb # None /\ xfer.id = wb.id
          /\ ex # None => xfer.id < ex.id
  <2>1. stored \/ fifo_done(answer) => xfer.kind = "st" /\ Completes(answer, "st")
    BY DEF Completes, fifo_done
  <2>2. Completes(answer, "st") => (fifo_done(answer) <=> xfer.fifo)
    BY DEF fifo_done, k_fifo, Completes
  <2> QED BY <2>1, <2>2, PieceInside, PortIsOldest
<1>7. wb_fault <=> wb # None /\ st_done_q = "flt"
    BY DEF wb_fault
<1>8. /\ disp # None => born' = born + 1
      /\ disp = None => born' = born
    BY NewIsNext
<1>9. \A j \in Nat : Live(j)' <=> \/ disp # None /\ j = born + 1
                                  \/ Live(j) /\ ~Leaves(j, answer)
    BY LiveAfter
<1>10. \A j \in 1..born : Leaves(j, answer) <=> \/ lost(j)
                                                \/ st_done_q = "ok" /\ j = wb.id
                                                \/ fifo_done(answer) /\ j = xfer.id
    BY DEF Leaves
<1>11. fifo_done(answer) => answer = "flt" \/ stored
    BY PortMoves DEF fifo_done, Completes
<1>12. \A j \in 1..born : lost(j) => Live(j) /\ j \notin done
    BY <1>1, <1>4, <1>5, <1>6, <1>7
<1>13. stored => ~lost(xfer.id)
    BY <1>1, <1>5, <1>6, <1>7
<1>14. stored /\ ~fifo_done(answer) => st_done_q' = "ok" /\ wb' = wb
  <2>1. ASSUME stored, ~fifo_done(answer) PROVE sync_done(answer) /\ wb_hold
    <3>1. sync_done(answer) /\ xfer.kind = "st" /\ ~xfer.fifo
      BY <2>1 DEF sync_done, fifo_done, k_fifo, Completes
    <3> QED BY <3>1 DEF StorePath, PortStore, wb_hold
  <2> QED BY <2>1, Moves DEF Step, Clock, StDone
<1>15. \A j \in 1..born' : j \in 1..born \/ (disp # None /\ j = born + 1)
    BY <1>1, <1>8
<1>16. \A j \in Nat : lost(j) => j \in 1..born
    BY <1>1, <1>6, <1>7
<1> HIDE DEF stored, lost
<1>17. ASSUME NEW i \in 1..born' PROVE i \in done' \/ i \in gone' \/ Live(i)'
    BY <1>1, <1>2, <1>3, <1>4, <1>5, <1>6, <1>9, <1>10, <1>11, <1>15, <1>17
       DEF lost
<1>18. ASSUME NEW i \in 1..born' PROVE ~(i \in done' /\ i \in gone')
    BY <1>2, <1>3, <1>4, <1>6, <1>12, <1>13, <1>16, <1>18
<1>19. ASSUME NEW i \in 1..born' PROVE ~(Live(i)' /\ i \in gone')
    BY <1>1, <1>2, <1>3, <1>4, <1>9, <1>10, <1>15, <1>16, <1>19
<1>20. ASSUME NEW i \in done', Live(i)' PROVE st_done_q' = "ok" /\ i = wb'.id
    BY <1>1, <1>2, <1>4, <1>6, <1>9, <1>10, <1>14, <1>20
<1>21. ASSUME NEW i \in done', NEW j \in 1..born', Live(j)', j \notin done' PROVE i < j
    BY <1>1, <1>2, <1>4, <1>6, <1>9, <1>15, <1>21
<1> QED BY <1>17, <1>18, <1>19, <1>20, <1>21 DEF Accounts

LEMMA StepHolds == ASSUME StorePath, [Next]_vars PROVE StorePath'
<1>1. CASE Next
  <2>1. PICK answer, path, f_req, flush, rd_req, disp, late, resume :
            Step(answer, path, f_req, flush, rd_req, disp, late, resume)
    BY <1>1, StepOfNext
  <2> QED BY <2>1, TypesStep, XferStep, RingStep, OrderStep, PortStoreStep, CompletionStep,
             AccountsStep, ReadingStep DEF StorePath
<1>2. CASE UNCHANGED vars
    BY <1>2 DEF vars, eaf, bcu, ghosts, StorePath, Types, XferOK, Transfer, Ring, IsRing, Order,
                PortStore, Completion, Accounts, Live, Reading, rd_ack, rd_pend
<1> QED BY <1>1, <1>2

LEMMA InitHolds == ASSUME Init PROVE StorePath
<1>1. SB_N \in Nat \ {0} /\ MaxStores \in Nat /\ 0 \in Slots
    BY BcuAssumption DEF Slots
<1>2. Types
  <2>1. mem \in [Bytes -> (0..born) \X (0..Long - 1)]
    BY DEF Init, Long
  <2>2. sb = [i \in Slots |-> None]
    BY DEF Init, Slots
  <2>3. \A i \in Slots : sb[i] = None
    BY <2>2
  <2>4. sb = [i \in Slots |-> sb[i]]
    BY <2>2
  <2>5. born \in 0..MaxStores /\ done \subseteq 1..born /\ gone \subseteq 1..born
        /\ sb_rp \in Slots /\ sb_wp \in Slots /\ sb_cnt \in 0..SB_N
    BY <1>1 DEF Init
  <2>6. /\ ph = "run" /\ refill \in 0..Refill /\ ldx = "none" /\ st_done_q = "none"
        /\ rd_drop = FALSE /\ mem_req = FALSE /\ st_err = FALSE /\ rd_dead = FALSE
        /\ ex = None /\ wb = None /\ rdq = None /\ dq = None
    BY DEF Init, Refill
  <2> QED BY <2>1, <2>3, <2>4, <2>5, <2>6 DEF Types
<1>3. XferOK
    BY DEF Init, XferOK
<1>4. Ring
  <2>1. \A i \in Slots : sb[i] = None /\ ~(Ahead(i, sb_rp) < 0)
    BY <1>1 DEF Init, Ahead, Slots
  <2> QED BY <1>1, <2>1 DEF Init, Ring, IsRing, Ahead, Slots
<1>5. Order /\ PortStore /\ Completion /\ Reading
    BY DEF Init, Order, PortStore, Completion, Reading, NoXfer, NoAns, rd_ack, rd_pend, Slots
<1>6. Accounts
    BY <1>1 DEF Init, Accounts, Live, Slots
<1> QED BY <1>2, <1>3, <1>4, <1>5, <1>6 DEF StorePath

\* The store path's invariant holds in every state (ap040_pipe_bcu.v).
THEOREM BcuInductive == Spec => []StorePath
<1>1. Init => StorePath
    BY InitHolds
<1>2. StorePath /\ [Next]_vars => StorePath'
    BY StepHolds
<1> QED BY <1>1, <1>2, PTL DEF Spec

----------------------------------------------------------------------------
\* The store path keeps to its types: every store on its way is one EA-fetch
\* dispatched, every byte of memory one of a store or of the start.
THEOREM BcuTypes == Spec => []TypeOK
<1>1. ASSUME StorePath PROVE TypeOK
  <2>1. ASSUME NEW s \in Stores(None)
        PROVE  /\ s.id \in 1..born
               /\ \E k \in StoreKinds : s.a = k.a /\ s.n = k.n /\ s.post = k.post
    <3>1. Known(s, born)
      BY <1>1, <2>1 DEF Stores, StorePath, Types, Slots
    <3> DEFINE k == [a |-> s.a, n |-> s.n, push |-> s.push, post |-> s.post]
    <3>2. s.id \in 1..born /\ k \in StoreKinds
      BY <3>1 DEF Known
    <3>3. k.a = s.a /\ k.n = s.n /\ k.post = s.post
      OBVIOUS
    <3> HIDE DEF k
    <3> QED BY <3>2, <3>3
  <2>2. xfer.kind \in {"none", "st", "rd", "if"}
    BY <1>1 DEF StorePath, XferOK, NoXfer, LaunchFetch, Transfer
  <2>3. \A b \in Bytes : mem[b] \in (0..born) \X (0..Long - 1)
    BY <1>1 DEF StorePath, Types
  <2> QED BY <1>1, <2>1, <2>2, <2>3 DEF StorePath, Types, TypeOK, Slots
<1> QED BY <1>1, BcuInductive, PTL

\* Counting on from the read pointer and counting back are inverse.
LEMMA SlotAt ==
    ASSUME NEW p \in Slots, NEW j \in 0..SB_N - 1
    PROVE  (p + j) % SB_N \in Slots /\ Ahead((p + j) % SB_N, p) = j
<1>1. SB_N \in Nat \ {0} /\ p \in 0..SB_N - 1
    BY BcuAssumption DEF Slots
<1>2. (p + j) % SB_N = IF p + j < SB_N THEN p + j ELSE p + j - SB_N
    BY <1>1
<1> QED BY <1>1, <1>2 DEF Ahead, Slots

LEMMA SlotOf ==
    ASSUME NEW p \in Slots, NEW i \in Slots
    PROVE  Ahead(i, p) \in 0..SB_N - 1 /\ (p + Ahead(i, p)) % SB_N = i
<1>1. SB_N \in Nat \ {0} /\ p \in 0..SB_N - 1 /\ i \in 0..SB_N - 1
    BY BcuAssumption DEF Slots
<1>2. CASE i >= p
    BY <1>1, <1>2 DEF Ahead
<1>3. CASE ~(i >= p)
  <2>1. Ahead(i, p) = i + SB_N - p
    BY <1>3 DEF Ahead
  <2>2. (i + SB_N) % SB_N = i
    BY <1>1
  <2> QED BY <1>1, <1>3, <2>1, <2>2
<1> QED BY <1>2, <1>3

\* The FIFO is a queue in program order: its valid slots are the sb_cnt ones from
\* the read pointer on (ap040_pipe_bcu.v, sb_rp, sb_wp, sb_cnt).
THEOREM BcuRing == Spec => []RingConsistent
<1>1. ASSUME StorePath PROVE RingConsistent
  <2>1. SB_N \in Nat \ {0} /\ Slots = 0..SB_N - 1 /\ sb_rp \in Slots /\ sb_cnt \in 0..SB_N
    BY <1>1, BcuAssumption DEF StorePath, Types, Slots
  <2>2. ASSUME NEW j \in 0..sb_cnt - 1
        PROVE  (sb_rp + j) % SB_N \in Slots /\ Ahead((sb_rp + j) % SB_N, sb_rp) = j
    <3>1. j \in 0..SB_N - 1
      BY <2>1
    <3> QED BY <2>1, <3>1, SlotAt
  <2>3. \A i \in Slots : Ahead(i, sb_rp) \in 0..SB_N - 1 /\ (sb_rp + Ahead(i, sb_rp)) % SB_N = i
    BY <2>1, SlotOf
  <2>4. \A i \in Slots : sb[i] # None <=> Ahead(i, sb_rp) < sb_cnt
    BY <1>1 DEF StorePath, Ring, IsRing
  <2>5. {i \in 0..SB_N - 1 : sb[i] # None} = {(sb_rp + j) % SB_N : j \in 0..sb_cnt - 1}
    <3>1. ASSUME NEW i \in Slots, sb[i] # None
          PROVE  \E j \in 0..sb_cnt - 1 : i = (sb_rp + j) % SB_N
      <4> DEFINE j == Ahead(i, sb_rp)
      <4>1. j \in 0..SB_N - 1 /\ (sb_rp + j) % SB_N = i /\ j < sb_cnt
        BY <2>3, <2>4, <3>1
      <4> HIDE DEF j
      <4>2. j \in 0..sb_cnt - 1
        BY <2>1, <4>1
      <4> QED BY <4>1, <4>2
    <3>2. ASSUME NEW j \in 0..sb_cnt - 1
          PROVE  (sb_rp + j) % SB_N \in Slots /\ sb[(sb_rp + j) % SB_N] # None
      <4> DEFINE i == (sb_rp + j) % SB_N
      <4>1. i \in Slots /\ Ahead(i, sb_rp) = j
        BY <2>2
      <4> HIDE DEF i
      <4>2. Ahead(i, sb_rp) < sb_cnt
        BY <2>1, <4>1
      <4>3. sb[i] # None
        BY <2>4, <4>1, <4>2
      <4> QED BY <4>1, <4>3 DEF i
    <3> QED BY <2>1, <3>1, <3>2
  <2>6. sb_wp = (sb_rp + sb_cnt) % SB_N
    BY <1>1, <2>1 DEF StorePath, Ring, IsRing
  <2>7. ASSUME NEW j \in 1..sb_cnt - 1
        PROVE  sb[(sb_rp + j - 1) % SB_N].id < sb[(sb_rp + j) % SB_N].id
    <3> DEFINE i == (sb_rp + (j - 1)) % SB_N
               k == (sb_rp + j) % SB_N
    <3>1. j \in 0..sb_cnt - 1 /\ j - 1 \in 0..sb_cnt - 1
      BY <2>1
    <3>2. i \in Slots /\ k \in Slots /\ Ahead(i, sb_rp) = j - 1 /\ Ahead(k, sb_rp) = j
      BY <2>2, <3>1
    <3> HIDE DEF i, k
    <3>3. sb[i].id < sb[k].id
      <4>1. Ahead(i, sb_rp) < Ahead(k, sb_rp) /\ Ahead(k, sb_rp) < sb_cnt
        BY <2>1, <3>1, <3>2
      <4> QED BY <1>1, <3>2, <4>1 DEF StorePath, Ring, IsRing
    <3>4. sb_rp + j - 1 = sb_rp + (j - 1)
      BY <2>1
    <3> QED BY <3>3, <3>4 DEF i, k
  <2> QED BY <2>5, <2>6, <2>7 DEF RingConsistent
<1> QED BY <1>1, BcuInductive, PTL

\* The numbers of the stores on their way.
LEMMA LiveIds ==
    ASSUME StorePath, NEW j
    PROVE  /\ (\E s \in Stores(None) : j = s.id) <=> Live(j)
           /\ Live(j) => j \in 1..born
<1>1. (\E s \in Stores(None) : j = s.id) <=> Live(j)
    BY DEF Stores, Live, Slots
<1>2. Live(j) => j \in 1..born
    BY DEF Live, StorePath, Types, Known
<1> QED BY <1>1, <1>2

\* Every store reaches memory exactly once, in program order, or is withdrawn; until
\* then it is in exactly one place (ap040_pipe_bcu.v, ap040_execute.v's stores).
THEOREM BcuEveryStoreOnce == Spec => []EveryStoreOnce
<1>1. ASSUME StorePath PROVE EveryStoreOnce
  <2> DEFINE live == {s.id : s \in Stores(None)}
             port == IF xfer.kind = "st" THEN {xfer.id} ELSE {}
  <2>1. \A j : j \in live <=> Live(j)
    BY <1>1, LiveIds
  <2>2. \A j : Live(j) => j \in 1..born
    BY <1>1, LiveIds
  <2>3. done \subseteq 1..born /\ gone \subseteq 1..born
    BY <1>1 DEF StorePath, Types
  <2>4. /\ \A i \in 1..born : i \in done \/ i \in gone \/ Live(i)
        /\ \A i \in 1..born : ~(i \in done /\ i \in gone) /\ ~(Live(i) /\ i \in gone)
        /\ \A i \in done : Live(i) => st_done_q = "ok" /\ i = wb.id
        /\ \A i \in done, j \in 1..born : Live(j) /\ j \notin done => i < j
    BY <1>1 DEF StorePath, Accounts
  <2>5. port \cap done = {}
    <3>1. ASSUME xfer.kind = "st" PROVE xfer.id \notin done
      <4>1. Live(xfer.id)
        BY <1>1, <3>1, PortIsOldest
      <4>2. st_done_q # "ok"
        BY <1>1, <3>1 DEF StorePath, Completion
      <4> QED BY <2>4, <4>1, <4>2
    <3> QED BY <3>1
  <2> HIDE DEF live, port
  <2>6. 1..born = done \cup gone \cup live
    BY <2>1, <2>2, <2>3, <2>4
  <2>7. live \cap gone = {} /\ done \cap gone = {}
    BY <2>1, <2>2, <2>3, <2>4
  <2>8. \A i \in live \cap done : st_done_q = "ok" /\ i = wb.id
    BY <2>1, <2>4
  <2>9. \A i \in done, j \in live \ done : i < j
    BY <2>1, <2>2, <2>4
  <2> QED BY <2>5, <2>6, <2>7, <2>8, <2>9 DEF EveryStoreOnce, live, port
<1> QED BY <1>1, BcuInductive, PTL

\* When sync_busy is off, no store of the program is missing from memory
\* (ap040_pipe_bcu.v: NOP, CINV and PFLUSH wait for it).
THEOREM BcuSyncPoint == Spec => []SyncPoint
<1>1. ASSUME StorePath PROVE SyncPoint
  <2>1. SUFFICES ASSUME ~sync_busy PROVE 1..born = done \cup gone
    BY DEF SyncPoint
  <2>2. ex = None /\ wb = None /\ sb_cnt = 0
    BY <2>1 DEF sync_busy, sb_busy
  <2>3. \A k \in Slots : sb[k] = None
    <3>1. \A k \in Slots : ~(Ahead(k, sb_rp) < 0)
      BY <1>1, BcuAssumption DEF Ahead, Slots, StorePath, Types
    <3> QED BY <1>1, <2>2, <3>1 DEF StorePath, Ring, IsRing
  <2>4. \A i \in 1..born : ~Live(i)
    BY <2>2, <2>3 DEF Live
  <2> QED BY <1>1, <2>4 DEF StorePath, Accounts, Types
<1> QED BY <1>1, BcuInductive, PTL

----------------------------------------------------------------------------
\* The bytes of a store are bytes of memory.
LEMMA StoreInMemory ==
    ASSUME NEW m \in Nat, NEW s, Known(s, m), NEW b \in s.a..(s.a + s.n - 1)
    PROVE  b \in Bytes
<1> DEFINE k == [a |-> s.a, n |-> s.n, push |-> s.push, post |-> s.post]
<1>1. k \in StoreKinds /\ k.a = s.a /\ k.n = s.n
    BY DEF Known
<1> HIDE DEF k
<1>2. k.a..(k.a + k.n - 1) \subseteq Bytes
    BY <1>1, BcuAssumption
<1> QED BY <1>1, <1>2

\* The store on the port is known.
LEMMA PortKnown ==
    ASSUME StorePath, xfer.kind = "st"
    PROVE  \E s : Known(s, born) /\ s.a = xfer.a /\ s.n = xfer.n
<1>1. CASE xfer.fifo
  <2>1. sb_cnt > 0 /\ xfer.a = sb[sb_rp].a /\ xfer.n = sb[sb_rp].n
    BY <1>1 DEF StorePath, PortStore
  <2>2. sb[sb_rp] # None /\ sb_rp \in Slots
    BY <2>1, BcuAssumption DEF StorePath, Types, Ring, IsRing, Ahead, Slots
  <2>3. Known(sb[sb_rp], born)
    BY <2>2 DEF StorePath, Types
  <2> QED BY <2>1, <2>3
<1>2. CASE ~xfer.fifo
  <2>1. wb # None /\ xfer.a = wb.a /\ xfer.n = wb.n
    BY <1>2 DEF StorePath, PortStore
  <2>2. Known(wb, born)
    BY <2>1 DEF StorePath, Types
  <2> QED BY <2>1, <2>2
<1> QED BY <1>1, <1>2

\* An acknowledged piece adds its bytes to those written.
LEMMA PieceWritten ==
    ASSUME StorePath, Written, NEW answer, NEW path, NEW f_req, NEW flush, NEW rd_req, NEW disp,
           NEW late, NEW resume,
           Step(answer, path, f_req, flush, rd_req, disp, late, resume),
           mem_req, answer = "ack", xfer.kind = "st",
           NEW b \in xfer.a..(xfer.a + (xfer.i * xfer.w + xfer.w) - 1)
    PROVE  mem'[b] = <<xfer.id, b - xfer.a>>
<1> DEFINE p == xfer.i * xfer.w
<1>1. /\ p \in Nat /\ p + xfer.w <= xfer.n
      /\ Touches(Piece) = (xfer.a + p)..(xfer.a + p + xfer.w - 1)
      /\ Transfer(xfer)
    BY PieceInside
<1>2. \A c \in xfer.a..(xfer.a + p - 1) : mem[c] = <<xfer.id, c - xfer.a>>
    BY DEF Written
<1>3. b \in xfer.a..(xfer.a + (p + xfer.w) - 1)
    OBVIOUS
<1> HIDE DEF p
<1>4. xfer.a \in Nat /\ xfer.n \in {1, 2, 4} /\ xfer.w \in {1, 2, 4}
    BY <1>1 DEF Transfer
<1>5. b \in Bytes
  <2>1. PICK s : Known(s, born) /\ s.a = xfer.a /\ s.n = xfer.n
    BY PortKnown
  <2>2. p \in Nat /\ p + xfer.w <= xfer.n
    BY <1>1
  <2> DEFINE a == xfer.a n == xfer.n w == xfer.w
  <2>3. b \in a..(a + n - 1)
    <3>1. a \in Int /\ n \in Int /\ w \in Int
      BY <1>4
    <3>2. b \in a..(a + (p + w) - 1)
      BY <1>3
    <3>3. p \in Nat /\ p + w <= n
      BY <2>2
    <3> HIDE DEF a, n, w
    <3> QED BY <3>1, <3>2, <3>3
  <2>4. born \in Nat
    BY NewIsNext
  <2>5. b \in s.a..(s.a + s.n - 1)
    BY <2>1, <2>3
  <2> QED BY <2>1, <2>4, <2>5, StoreInMemory
<1>6. mem' = [c \in Bytes |-> IF c \in Touches(Piece) THEN <<xfer.id, c - xfer.a>> ELSE mem[c]]
    BY PortMoves
<1>7. b \in Touches(Piece) \/ b \in xfer.a..(xfer.a + p - 1)
    BY <1>1, <1>3, <1>4
<1> QED BY <1>2, <1>5, <1>6, <1>7

LEMMA WrittenStep ==
    ASSUME StorePath, Written, NEW answer, NEW path, NEW f_req, NEW flush, NEW rd_req, NEW disp,
           NEW late, NEW resume,
           Step(answer, path, f_req, flush, rd_req, disp, late, resume)
    PROVE  Written'
<1>1. ASSUME xfer'.kind = "st", NEW b \in xfer'.a..(xfer'.a + xfer'.i * xfer'.w - 1)
      PROVE  mem'[b] = <<xfer'.id, b - xfer'.a>>
  <2>1. CASE /\ xfer.kind = "st" /\ xfer'.id = xfer.id /\ xfer'.a = xfer.a /\ xfer'.w = xfer.w
             /\ xfer'.i = xfer.i /\ (mem_req => answer = "none")
    <3>1. mem' = mem
      BY <2>1, PortMoves
    <3> QED BY <1>1, <2>1, <3>1 DEF Written
  <2>2. CASE /\ xfer.kind = "st" /\ xfer'.id = xfer.id /\ xfer'.a = xfer.a /\ xfer'.w = xfer.w
             /\ xfer'.i = xfer.i + 1 /\ mem_req /\ answer = "ack"
    <3>1. Transfer(xfer)
      BY <2>2, PieceInside
    <3>2. (xfer.i + 1) * xfer.w = xfer.i * xfer.w + xfer.w
      BY <3>1 DEF Transfer
    <3>3. b \in xfer.a..(xfer.a + (xfer.i * xfer.w + xfer.w) - 1)
      BY <1>1, <2>2, <3>2
    <3> QED BY <2>2, <3>3, PieceWritten
  <2>3. CASE xfer'.i = 0
    <3>1. XferOK'
      BY XferStep
    <3>2. Transfer(xfer')
      BY <1>1, <3>1 DEF XferOK, NoXfer, LaunchFetch
    <3>3. xfer'.a \in Nat /\ xfer'.i * xfer'.w = 0
      BY <2>3, <3>2 DEF Transfer
    <3> QED BY <1>1, <3>3
  <2> QED BY <1>1, <2>1, <2>2, <2>3, StoreOnPort
<1>2. ASSUME st_done_q' = "ok", NEW b \in Touches(wb')
      PROVE  mem'[b] = <<wb'.id, b - wb'.a>>
  <2>1. sync_done(answer) /\ answer # "flt"
    BY <1>2 DEF Step, Clock, StDone
  <2>2. answer = "ack" /\ mem_req /\ xfer.kind = "st" /\ ~xfer.fifo /\ sp_fin(answer)
    BY <2>1, PortMoves DEF sync_done, k_fifo, Completes
  <2>3. wb # None /\ ~wb.post /\ st_done_q = "none"
        /\ xfer.id = wb.id /\ xfer.a = wb.a /\ xfer.n = wb.n
    BY <2>2 DEF StorePath, PortStore
  <2>4. wb' = wb
    <3>1. wb_hold
      BY <2>3 DEF wb_hold
    <3> QED BY <3>1, Moves
  <2>5. Transfer(xfer)
    BY <2>2, PieceInside
  <2>6. xfer.i * xfer.w + xfer.w = xfer.n
    <3>1. ~xfer.split \/ (xfer.i + 1) * xfer.w = xfer.n
      BY <2>2 DEF sp_fin, sp_on
    <3>2. CASE xfer.w = xfer.n /\ xfer.i = 0
      BY <2>5, <3>2 DEF Transfer
    <3>3. CASE xfer.split /\ (xfer.i + 1) * xfer.w = xfer.n
      BY <2>5, <3>3 DEF Transfer
    <3> QED BY <2>5, <3>1, <3>2, <3>3 DEF Transfer
  <2>7. b \in xfer.a..(xfer.a + (xfer.i * xfer.w + xfer.w) - 1)
    BY <1>2, <2>3, <2>4, <2>6 DEF Touches
  <2>8. mem'[b] = <<xfer.id, b - xfer.a>>
    BY <2>2, <2>7, PieceWritten
  <2> QED BY <2>3, <2>4, <2>8
<1> QED BY <1>1, <1>2 DEF Written

\* The pieces of a split store are all of it: what memory has acknowledged of the store
\* on the port is there, and a registered completion means every byte is
\* (ap040_pipe_bcu.v, the split and st_done_q).
THEOREM BcuWritten == Spec => []Written
<1>1. Init => Written
    BY DEF Init, Written, NoXfer
<1>2. StorePath /\ Written /\ [Next]_vars => Written'
  <2>1. CASE StorePath /\ Written /\ Next
    <3>1. PICK answer, path, f_req, flush, rd_req, disp, late, resume :
              Step(answer, path, f_req, flush, rd_req, disp, late, resume)
      BY <2>1, StepOfNext
    <3> QED BY <2>1, <3>1, WrittenStep
  <2>2. CASE Written /\ UNCHANGED vars
    BY <2>2 DEF vars, bcu, eaf, ghosts, Written, Touches
  <2> QED BY <2>1, <2>2
<1> QED BY <1>1, <1>2, BcuInductive, PTL DEF Spec

\* A fetch that gets the port finds in memory what WB and the FIFO stored: the
\* refetch after self-modifying code sees the store (ap040_pipe_bcu.v, if_may_go).
THEOREM BcuFetchSeesStores == Spec => []FetchSeesStores
<1>1. ASSUME StorePath, Written PROVE FetchSeesStores
  <2> DEFINE S == (Stores(None) \ {ex}) \ Withdrawn
  <2>1. SUFFICES ASSUME if_may_go, NEW b \in Bytes PROVE Visible(S, b) = mem[b]
    BY DEF FetchSeesStores
  <2>2. idle /\ sb_cnt = 0 /\ ~go_sync /\ ~sp_wait /\ ~sp_on
    BY <2>1, BcuAssumption DEF if_may_go, go_fifo, StorePath, Types
  <2>3. \A k \in Slots : sb[k] = None
    <3>1. \A k \in Slots : ~(Ahead(k, sb_rp) < 0)
      BY SMTT(20), <1>1, BcuAssumption DEF Ahead, Slots, StorePath, Types
    <3> QED BY <1>1, <2>2, <3>1 DEF StorePath, Ring, IsRing
  <2>4. \A s \in S : s = wb /\ wb # None /\ wb \notin Withdrawn
    BY <2>3 DEF Stores, Slots
  <2>5. CASE S = {}
    BY <2>5 DEF Visible
  <2>6. CASE S # {}
    <3>1. wb # None /\ wb \notin Withdrawn /\ S = {wb}
      BY <2>4, <2>6
    <3>2. st_done_q = "ok"
      BY <1>1, <2>2, <3>1 DEF sp_wait, go_sync, st_v, Withdrawn, StorePath, Types
    <3>3. \A c \in Touches(wb) : mem[c] = <<wb.id, c - wb.a>>
      BY <1>1, <3>2 DEF Written
    <3> DEFINE over == {s \in S : b \in Touches(s)}
    <3> HIDE DEF S
    <3>4. CASE b \in Touches(wb)
      <4>1. over = {wb}
        BY <3>1, <3>4
      <4>2. wb.id \in Nat
        BY <1>1, <3>1, KnownId DEF StorePath, Types
      <4>3. (CHOOSE s \in over : \A t \in over : t.id <= s.id) = wb
        BY <4>1, <4>2
      <4>4. Visible(S, b) = <<wb.id, b - wb.a>>
        BY <4>1, <4>3 DEF Visible
      <4> QED BY <3>3, <3>4, <4>4
    <3>5. CASE b \notin Touches(wb)
      <4>1. over = {}
        BY <3>1, <3>5
      <4> QED BY <4>1 DEF Visible
    <3> QED BY <3>4, <3>5
  <2> QED BY <2>5, <2>6
<1> QED BY <1>1, BcuInductive, BcuWritten, PTL

----------------------------------------------------------------------------
(* Operand reads. *)

\* A read whose answer counts.
Follows == rd_pend /\ ~rd_drop /\ ~rd_dead /\ ~st_err /\ ph # "halt"

\* The stores on the way that are older than the outstanding read: a late
\* load's own store, in EX with it, is not.
Older == {s \in Stores(None) : s = ex => ldx = "none"}

\* Byte b with the stores of S over memory m has value v.
Shown(m, S, b, v) ==
    \/ \E s \in S : /\ b \in Touches(s) /\ v = <<s.id, b - s.a>>
                    /\ \A t \in S : b \in Touches(t) => t.id <= s.id
    \/ v = m[b] /\ \A t \in S : b \notin Touches(t)

LookFields == {"on", "m2", "q1", "fq1", "ovl", "fwd", "data"}

\* The registers that hold the read agree on it.
Outstanding ==
    /\ ldx # "none" => rd_pend
    /\ dq # None => dq = rdq
    /\ look = NoLook \/ (dq # None /\ look.on /\ DOMAIN look = LookFields)
    /\ rd_pend => rdexp = [j \in 1..rdq.n |-> rdexp[j]]

\* Until it is answered, what it must return is what the older stores and memory show.
Expected ==
    Follows /\ ~rd_ack /\ st_done_q # "flt" =>
        \A j \in 1..rdq.n : Shown(mem, Older, rdq.a + j - 1, rdexp[j])

\* What the lookup holds is right, as far as EX does not hold a store it has not seen.
LookedUp ==
    Follows /\ look.on =>
        IF look.m2 THEN look.data = rdexp
        ELSE LET unseen == ex # None /\ Lwo(ex, rdq)
             IN  /\ look.fq1 /\ look.fwd # NoData /\ ~unseen => look.fwd = rdexp
                 /\ look.q1 /\ ~look.ovl /\ ~unseen => look.data = rdexp
                 /\ look.q1 /\ ~look.ovl => \A s \in Stores(None) \ {ex} : ~Lwo(s, rdq)

\* A read on the port has no older store on the way, and the pieces it has are right.
PortRead ==
    Follows /\ xfer.kind = "rd" =>
        /\ xfer.a = rdq.a /\ xfer.n = rdq.n /\ Older = {}
        /\ xfer.acc = [k \in 1..xfer.i * xfer.w |-> rdexp[k]]

ReadOrder == Outstanding /\ Expected /\ LookedUp /\ PortRead /\ ReadsLatest

----------------------------------------------------------------------------
\* A non-empty set of numbers has a least one; a bounded one has a largest.
LEMMA Least == ASSUME NEW T, T \subseteq Nat, T # {} PROVE \E x \in T : \A y \in T : x <= y
<1>1. PICK x \in T : \A y \in T : ~(<<y, x>> \in OpToRel(<, Nat))
    BY NatLessThanWellFounded, WFMin
<1>2. \A y \in T : ~(y < x)
    BY <1>1 DEF OpToRel
<1> QED BY <1>2

LEMMA Largest ==
    ASSUME NEW m \in Nat, NEW T, T \subseteq 0..m, T # {}
    PROVE  \E x \in T : \A y \in T : y <= x
<1> DEFINE U == {m - x : x \in T}
<1>1. U \subseteq Nat /\ U # {}
  <2>1. PICK y \in T : TRUE
    OBVIOUS
  <2>2. m - y \in U
    OBVIOUS
  <2>3. ASSUME NEW z \in T PROVE m - z \in Nat
    OBVIOUS
  <2> QED BY <2>2, <2>3
<1>2. PICK u \in U : \A v \in U : u <= v
    BY <1>1, Least
<1>3. PICK x \in T : u = m - x
    OBVIOUS
<1>4. ASSUME NEW y \in T PROVE y <= x
  <2>1. m - y \in U
    OBVIOUS
  <2>2. m - x <= m - y
    BY <1>2, <1>3, <2>1
  <2> QED BY <2>2
<1> QED BY <1>4

\* A page address is quotient and remainder, and only one such pair.
LEMMA Pages ==
    ASSUME NEW x \in Nat
    PROVE  /\ x \div Page \in Nat /\ x % Page \in 0..Page - 1
           /\ x = Page * (x \div Page) + (x % Page)
    BY BcuAssumption

LEMMA PageUnique ==
    ASSUME NEW q \in Nat, NEW m \in 0..Page - 1
    PROVE  (Page * q + m) % Page = m /\ (Page * q + m) \div Page = q
<1> DEFINE x == Page * q + m
           p == x \div Page
           n == x % Page
<1>1. Page \in Nat \ {0} /\ Page * q \in Nat
    BY BcuAssumption
<1>2. p \in Nat /\ n \in 0..Page - 1 /\ x = Page * p + n
    BY <1>1, Pages
<1> HIDE DEF p, n
<1>3. CASE p > q
  <2>1. Page * p >= Page * (q + 1)
    BY <1>1, <1>2, <1>3
  <2>2. Page * (q + 1) = Page * q + Page
    BY <1>1
  <2> QED BY <1>1, <1>2, <2>1, <2>2
<1>4. CASE p < q
  <2>1. Page * q >= Page * (p + 1)
    BY <1>1, <1>2, <1>4
  <2>2. Page * (p + 1) = Page * p + Page
    BY <1>1, <1>2
  <2> QED BY <1>1, <1>2, <2>1, <2>2
<1> QED BY <1>1, <1>2, <1>3, <1>4 DEF p, n

\* The page offsets of two bytes of one longword are of one longword too.
LEMMA SameLongword ==
    ASSUME NEW x \in Nat, NEW y \in Nat, x \div Long = y \div Long
    PROVE  (x % Page) \div Long = (y % Page) \div Long
<1> DEFINE q == x \div Page
           m == x % Page
           P == Page \div Long
           k == m \div 4
           e == m % 4
           f == y % 4
<1>1. Page \in Nat \ {0} /\ P \in Nat /\ Page = 4 * P
    BY BcuAssumption DEF Long
<1>2. q \in Nat /\ m \in 0..Page - 1 /\ x = Page * q + m
    BY Pages
<1>3. k \in Nat /\ e \in 0..3 /\ m = 4 * k + e
    BY <1>2
<1>4. f \in 0..3 /\ y = 4 * (y \div 4) + f
    OBVIOUS
<1>5. Page * q = 4 * (P * q) /\ P * q \in Nat
    BY <1>1, <1>2
<1> HIDE DEF q, m, P, k, e, f
<1>6. x = 4 * (P * q + k) + e
    BY <1>2, <1>3, <1>5
<1>7. x \div 4 = P * q + k
    BY <1>3, <1>5, <1>6
<1>8. y = Page * q + (4 * k + f)
    BY <1>3, <1>4, <1>5, <1>7 DEF Long
<1>9. 4 * k + f \in 0..Page - 1
    BY <1>1, <1>2, <1>3, <1>4
<1>10. y % Page = 4 * k + f
    BY <1>2, <1>8, <1>9, PageUnique
<1>11. (4 * k + f) \div 4 = k /\ (4 * k + e) \div 4 = k
    BY <1>3, <1>4
<1> QED BY <1>3, <1>10, <1>11 DEF m, Long

\* Two accesses with a byte in common have a longword in common.
LEMMA SharedByte ==
    ASSUME NEW s, NEW r, Access(s), Access(r), NEW b \in Touches(s), b \in Touches(r)
    PROVE  Lwo(s, r)
<1> DEFINE w(x) == (x % Page) \div Long
<1>1. ASSUME NEW t, Access(t), b \in Touches(t) PROVE w(b) \in Longwords(t)
  <2>1. t.a \in Nat /\ t.a + t.n - 1 \in Nat /\ b \in t.a..(t.a + t.n - 1) /\ t.n \in {1, 2, 4}
    BY <1>1 DEF Access, Touches
  <2>2. b \div Long = t.a \div Long \/ b \div Long = (t.a + t.n - 1) \div Long
    BY <2>1 DEF Long
  <2>3. w(b) = w(t.a) \/ w(b) = w(t.a + t.n - 1)
    BY <2>1, <2>2, SameLongword
  <2> QED BY <2>3 DEF Longwords, LwFirst, LwLast
<1> QED BY <1>1 DEF Lwo

\* A store that covers a read holds all of its bytes.
LEMMA Covers ==
    ASSUME NEW s, NEW r, Access(s), Access(r), f_cov(s, r)
    PROVE  Touches(r) \subseteq Touches(s)
<1>1. ASSUME NEW t, Access(t), f_end(t) >= t.a % Page
      PROVE  t.a + t.n - 1 = Page * (t.a \div Page) + f_end(t)
  <2> DEFINE q == t.a \div Page
             m == t.a % Page
             n == t.n - 1
  <2>1. q \in Nat /\ m \in 0..Page - 1 /\ t.a = Page * q + m
    BY <1>1, Pages DEF Access
  <2>2. n \in 0..3 /\ Page \in Nat /\ Page >= 4 /\ Page * q \in Nat
    BY <1>1, <2>1, BcuAssumption DEF Access, Long
  <2>3. t.a + t.n - 1 = Page * q + (m + n)
    <3>1. t.n \in Nat /\ t.n - 1 = n
      BY <1>1 DEF Access
    <3> HIDE DEF q, m, n
    <3> QED BY <2>1, <2>2, <3>1
  <2>4. f_end(t) = (Page * q + (m + n)) % Page
    BY <2>3 DEF f_end
  <2>5. f_end(t) >= m
    BY <1>1
  <2> HIDE DEF q, m, n
  <2>6. CASE m + n < Page
    <3> DEFINE e == m + n
    <3>0. e \in 0..Page - 1
      BY <2>1, <2>2, <2>6
    <3> HIDE DEF e
    <3>2. (Page * q + e) % Page = e
      BY <2>1, <3>0, PageUnique
    <3>1. (Page * q + (m + n)) % Page = m + n
      BY <3>2 DEF e
    <3> QED BY <2>3, <2>4, <3>1 DEF q
  <2>7. CASE m + n >= Page
    <3>1. Page * q + (m + n) = Page * (q + 1) + (m + n - Page)
      BY <2>1, <2>2
    <3>2. m + n - Page \in 0..Page - 1 /\ q + 1 \in Nat
      BY <2>1, <2>2, <2>7
    <3>3. (Page * q + (m + n)) % Page = m + n - Page
      BY <3>1, <3>2, PageUnique
    <3> QED BY <2>1, <2>2, <2>4, <2>5, <3>3
  <2> QED BY <2>1, <2>2, <2>6, <2>7
<1>2. s.a = Page * (s.a \div Page) + (s.a % Page) /\ r.a = Page * (r.a \div Page) + (r.a % Page)
  <2>1. ASSUME NEW x \in Nat PROVE x = Page * (x \div Page) + (x % Page)
    BY Pages
  <2>2. s.a \in Nat /\ r.a \in Nat
    BY DEF Access
  <2> QED BY <2>1, <2>2
<1>3. s.a + s.n - 1 = Page * (s.a \div Page) + f_end(s)
      /\ r.a + r.n - 1 = Page * (r.a \div Page) + f_end(r)
    BY <1>1 DEF f_cov
<1> DEFINE ms == s.a % Page
           mr == r.a % Page
           q == Page * (s.a \div Page)
           es == f_end(s)
           er == f_end(r)
<1>4. s.a = q + ms /\ r.a = q + mr /\ s.a + s.n - 1 = q + es /\ r.a + r.n - 1 = q + er
      /\ mr >= ms /\ er <= es
  <2>1. s.a \div Page = r.a \div Page /\ mr >= ms /\ er <= es
    BY DEF f_cov
  <2>2. s.a = q + ms /\ s.a + s.n - 1 = q + es
    BY <1>2, <1>3
  <2>3. r.a = q + mr /\ r.a + r.n - 1 = q + er
    BY <1>2, <1>3, <2>1
  <2> QED BY <2>1, <2>2, <2>3
<1>5. {ms, mr, q, es, er} \subseteq Nat
    BY Pages, BcuAssumption DEF Access, f_end
<1> HIDE DEF ms, mr, q, es, er
<1>6. r.a >= s.a /\ r.a + r.n - 1 <= s.a + s.n - 1
    BY <1>4, <1>5
<1> QED BY <1>6 DEF Touches, Access

----------------------------------------------------------------------------
\* The program's view of a byte is what its youngest store or memory shows.
LEMMA VisibleIsShown ==
    ASSUME NEW m \in Nat, NEW S, \A s \in S : s.id \in 0..m, NEW b
    PROVE  Shown(mem, S, b, Visible(S, b))
<1> DEFINE over == {s \in S : b \in Touches(s)}
           ids == {s.id : s \in over}
<1>1. CASE over = {}
    BY <1>1 DEF Shown, Visible
<1>2. CASE over # {}
  <2>1. ids \subseteq 0..m /\ ids # {}
    BY <1>2
  <2>2. PICK x \in ids : \A y \in ids : y <= x
    BY <2>1, Largest
  <2>3. PICK s \in over : s.id = x
    OBVIOUS
  <2>4. \A t \in over : t.id <= s.id
    BY <2>2, <2>3
  <2> DEFINE last == CHOOSE u \in over : \A t \in over : t.id <= u.id
  <2>5. last \in over /\ \A t \in over : t.id <= last.id
    BY <2>4
  <2>6. Visible(S, b) = <<last.id, b - last.a>>
    BY <1>2 DEF Visible
  <2> QED BY <2>5, <2>6 DEF Shown
<1> QED BY <1>1, <1>2

\* The stores on the way, one by one.
LEMMA OnTheWay ==
    ASSUME NEW entering, NEW s
    PROVE  s \in Stores(entering) <=> /\ s # None
                                      /\ \/ s = ex \/ s = wb \/ s = entering
                                         \/ \E i \in Slots : s = sb[i]
    BY DEF Stores, Slots

LEMMA KnownOnTheWay ==
    ASSUME StorePath, NEW s \in Stores(None)
    PROVE  Known(s, born) /\ born \in Nat /\ s.id \in 1..born /\ Live(s.id)
<1>1. Known(s, born) /\ Live(s.id)
    BY OnTheWay DEF StorePath, Types, Live
<1>2. born \in Nat
    BY BcuAssumption DEF StorePath, Types
<1> QED BY <1>1, <1>2 DEF Known

\* In a clock without fault or flush every store stays on the way, but for one that
\* has reached memory; that one is older than those that stay.
LEMMA StoresMove ==
    ASSUME StorePath, Written, NEW answer, NEW path, NEW f_req, NEW flush, NEW rd_req, NEW disp,
           NEW late, NEW resume,
           Step(answer, path, f_req, flush, rd_req, disp, late, resume),
           ~wb_fault, ~flush, ~ldx_err_go, ~st_err'
    PROVE  /\ ex' = (IF ex_stall THEN ex ELSE disp) /\ (ex_stall => disp = None)
           /\ \A s \in Stores(None)' : s \in Stores(disp)
           /\ \A s \in Stores(disp) : s \notin Stores(None)' =>
                  /\ s # ex /\ s # disp
                  /\ \A t \in Stores(None)' : s.id < t.id
                  /\ \A b \in Touches(s) : mem'[b] = <<s.id, b - s.a>>
<1>1. ~wf_go /\ ~wf_dbl
    BY DEF wf_go, wf_dbl
<1>2. /\ ex' = IF ex_stall THEN ex ELSE disp
      /\ wb' = IF wb_hold THEN wb ELSE IF ld_wait THEN None ELSE ex
      /\ ex_stall <=> wb_hold \/ ld_wait
    BY <1>1 DEF Step, Clock, Pipeline, ex_stall
<1>3. disp # None => ~ex_stall
    BY Dispatched
<1>4. /\ \A i \in Slots : sb'[i] # None =>
             \/ sb'[i] = sb[i] /\ sb[i] # None /\ ~(fifo_done(answer) /\ i = sb_rp)
             \/ sb'[i] = wb /\ wb # None /\ wb.post /\ ~wb_hold /\ sp_v /\ i = sb_wp
      /\ \A i \in Slots : sb[i] # None /\ ~(fifo_done(answer) /\ i = sb_rp) => sb'[i] = sb[i]
      /\ sp_v => sb'[sb_wp] = wb
    BY Places
<1>5. ASSUME NEW s \in Stores(None)' PROVE s \in Stores(disp)
  <2>1. s # None /\ (s = ex' \/ s = wb' \/ \E i \in Slots : s = sb'[i])
    BY <1>5 DEF Stores, Slots
  <2>2. CASE s = ex' \/ s = wb'
    BY <1>2, <2>1, <2>2, OnTheWay
  <2>3. CASE \E i \in Slots : s = sb'[i]
    BY <1>4, <2>1, <2>3, OnTheWay
  <2> QED BY <2>1, <2>2, <2>3
<1>6. ASSUME NEW s, s # None, s = ex \/ s = disp PROVE s \in Stores(None)'
  <2>1. s = ex' \/ s = wb'
    BY <1>2, <1>3, <1>6
  <2> QED BY <1>6, <2>1 DEF Stores
<1>7. ASSUME wb # None, wb \notin Stores(None)'
      PROVE  /\ st_done_q = "ok" /\ ~wb.post
             /\ \A t \in Stores(None)' : wb.id < t.id
             /\ \A b \in Touches(wb) : mem'[b] = <<wb.id, b - wb.a>>
  <2>1. ~wb_hold
    BY <1>2, <1>7 DEF Stores
  <2>2. ~wb.post
    <3>1. ASSUME wb.post PROVE wb \in Stores(None)'
      <4>1. sp_v
        BY <1>7, <2>1, <3>1, FifoMoves
      <4>2. wb = sb'[sb_wp] /\ sb_wp \in 0..SB_N - 1
        BY <1>4, <4>1 DEF StorePath, Types, Slots
      <4> QED BY <1>7, <4>2 DEF Stores
    <3> QED BY <1>7, <3>1
  <2>3. st_done_q = "ok"
    BY <1>7, <2>1, <2>2 DEF wb_hold, wb_fault, StorePath, Types
  <2>4. sb_cnt = 0 /\ xfer.kind # "st"
    BY <2>3 DEF StorePath, Completion
  <2>5. mem' = mem
    BY <2>4, PortMoves
  <2>6. \A i \in Slots : sb[i] = None
    BY <2>4, BcuAssumption DEF StorePath, Types, Ring, IsRing, Ahead, Slots
  <2>7. \A t \in Stores(None)' : wb.id < t.id
    <3>1. ASSUME NEW t \in Stores(None)' PROVE wb.id < t.id
      <4>1. t # None /\ (t = ex \/ t = disp)
        BY <1>5, <1>7, <2>6, <3>1, OnTheWay
      <4>2. CASE t = ex
        BY <1>7, <4>1, <4>2 DEF StorePath, Order
      <4>3. CASE t = disp
        <5>1. disp.id = born + 1 /\ born \in Nat
          BY <4>1, <4>3, NewIsNext
        <5>2. wb.id \in 0..born
          BY <5>1, KnownId DEF StorePath, Types
        <5> QED BY <4>3, <5>1, <5>2
      <4> QED BY <4>1, <4>2, <4>3
    <3> QED BY <3>1
  <2> QED BY <2>2, <2>3, <2>5, <2>7 DEF Written
<1>8. ASSUME NEW i \in Slots, sb[i] # None, sb[i] \notin Stores(None)'
      PROVE  /\ \A t \in Stores(None)' : sb[i].id < t.id
             /\ \A b \in Touches(sb[i]) : mem'[b] = <<sb[i].id, b - sb[i].a>>
             /\ sb[i] # ex
  <2>1. fifo_done(answer) /\ i = sb_rp
    <3>1. ASSUME sb'[i] = sb[i] PROVE FALSE
      BY <1>8, <3>1 DEF Stores, Slots
    <3> QED BY <1>4, <1>8, <3>1
  <2>2. /\ mem_req /\ xfer.kind = "st" /\ sp_fin(answer) /\ xfer.fifo
        /\ xfer.id = sb[i].id /\ xfer.a = sb[i].a /\ xfer.n = sb[i].n
    BY <2>1 DEF fifo_done, Completes, k_fifo, StorePath, PortStore
  <2>3. answer = "ack"
    <3>1. answer \in {"none", "ack", "flt"} /\ answer # "none"
      BY <2>1, PortMoves DEF fifo_done, Completes
    <3>2. answer # "flt"
      BY <2>1 DEF Step, Clock, Port
    <3> QED BY <3>1, <3>2
  <2>4. \A b \in Touches(sb[i]) : mem'[b] = <<sb[i].id, b - sb[i].a>>
    <3>1. Transfer(xfer)
      BY <2>2, PieceInside
    <3>2. xfer.i * xfer.w + xfer.w = xfer.n
      <4>1. CASE xfer.split
        <5>1. (xfer.i + 1) * xfer.w = xfer.n
          BY <2>2, <2>3, <4>1 DEF sp_fin, sp_on
        <5> QED BY <3>1, <5>1 DEF Transfer
      <4>2. CASE ~xfer.split
        BY <3>1, <4>2 DEF Transfer
      <4> QED BY <4>1, <4>2
    <3>3. \A b \in xfer.a..(xfer.a + (xfer.i * xfer.w + xfer.w) - 1) :
              mem'[b] = <<xfer.id, b - xfer.a>>
      BY <2>2, <2>3, PieceWritten
    <3> QED BY <2>2, <3>2, <3>3 DEF Touches
  <2>5. \A t \in Stores(None)' : sb[i].id < t.id
    <3>1. ASSUME NEW t \in Stores(None)' PROVE sb[i].id < t.id
      <4>1. t \in Stores(disp) /\ t # None
        BY <1>5, <3>1 DEF Stores
      <4>2. CASE t = disp
        <5>1. disp.id = born + 1 /\ born \in Nat
          BY <4>1, <4>2, NewIsNext
        <5>2. sb[i].id \in 0..born
          BY <5>1, KnownId DEF StorePath, Types
        <5> QED BY <4>2, <5>1, <5>2
      <4>3. CASE t # disp
        <5>1. t \in Stores(None)
          BY <4>1, <4>3, OnTheWay
        <5>2. Live(t.id) /\ t.id \in 1..born
          BY <5>1, KnownOnTheWay
        <5>3. xfer.id <= t.id
          BY <2>2, <5>2, PortIsOldest
        <5>4. Live(t.id)'
          BY <3>1 DEF Stores, Live, Slots
        <5>5. ~Leaves(t.id, answer) \/ (disp # None /\ t.id = born + 1)
          BY <5>2, <5>4, LiveAfter
        <5>7. xfer.id \in 1..born /\ born \in Nat
          BY <2>2, <5>1, PieceInside, KnownOnTheWay
        <5>8. t.id # born + 1
          BY <5>2, <5>7
        <5>6. t.id # xfer.id
          BY <2>1, <5>5, <5>8 DEF Leaves
        <5> QED BY <2>2, <5>2, <5>3, <5>6, <5>7
      <4> QED BY <4>2, <4>3
    <3> QED BY <3>1
  <2>6. sb[i] # ex
    BY <1>6, <1>8
  <2> QED BY <2>4, <2>5, <2>6
<1>9. ASSUME NEW s \in Stores(disp), s \notin Stores(None)'
      PROVE  /\ s # ex /\ s # disp
             /\ \A t \in Stores(None)' : s.id < t.id
             /\ \A b \in Touches(s) : mem'[b] = <<s.id, b - s.a>>
  <2>1. s # None /\ s # ex /\ s # disp
    BY <1>6, <1>9, OnTheWay
  <2>2. s = wb \/ \E i \in Slots : s = sb[i]
    BY <1>9, <2>1, OnTheWay
  <2>3. CASE s = wb
    BY <1>7, <1>9, <2>1, <2>3
  <2>4. CASE \E i \in Slots : s = sb[i]
    BY <1>8, <1>9, <2>1, <2>4
  <2> QED BY <2>1, <2>2, <2>3, <2>4
<1> QED BY <1>2, <1>3, <1>5, <1>9

\* Memory changes only under a store on the way that EX does not hold.
LEMMA MemoryMoves ==
    ASSUME StorePath, NEW answer, NEW path, NEW f_req, NEW flush, NEW rd_req, NEW disp,
           NEW late, NEW resume,
           Step(answer, path, f_req, flush, rd_req, disp, late, resume),
           NEW b \in Bytes, mem'[b] # mem[b]
    PROVE  \E s \in Stores(None) : s # ex /\ b \in Touches(s)
<1>1. /\ mem_req /\ answer = "ack" /\ xfer.kind = "st"
      /\ mem' = [c \in Bytes |-> IF c \in Touches(Piece) THEN <<xfer.id, c - xfer.a>> ELSE mem[c]]
    BY PortMoves
<1>2. b \in Touches(Piece)
    BY <1>1
<1>3. b \in xfer.a..(xfer.a + xfer.n - 1)
  <2> DEFINE p == xfer.i * xfer.w
  <2>1. /\ p \in Nat /\ p + xfer.w <= xfer.n /\ Transfer(xfer)
        /\ Touches(Piece) = (xfer.a + p)..(xfer.a + p + xfer.w - 1)
    BY <1>1, PieceInside
  <2>2. xfer.a \in Nat /\ xfer.n \in Nat /\ xfer.w \in Nat
    BY <2>1 DEF Transfer
  <2> HIDE DEF p
  <2> QED BY SMTT(20), <1>2, <2>1, <2>2
<1>4. CASE xfer.fifo
  <2>1. sb_cnt > 0 /\ xfer.a = sb[sb_rp].a /\ xfer.n = sb[sb_rp].n
    BY <1>1, <1>4 DEF StorePath, PortStore
  <2>2. sb[sb_rp] # None /\ sb_rp \in Slots
    BY <2>1, BcuAssumption DEF StorePath, Types, Ring, IsRing, Ahead, Slots
  <2>3. ex # None => sb[sb_rp].id < ex.id
    BY <2>2 DEF StorePath, Order
  <2>4. ex # None => ex.id \in Nat
    BY DEF StorePath, Types, Known
  <2>5. sb[sb_rp] # ex
    BY <2>2, <2>3, <2>4
  <2> QED BY <1>3, <2>1, <2>2, <2>5, OnTheWay DEF Touches
<1>5. CASE ~xfer.fifo
  <2>1. wb # None /\ xfer.a = wb.a /\ xfer.n = wb.n
    BY <1>1, <1>5 DEF StorePath, PortStore
  <2>2. ex # None => wb.id < ex.id /\ ex.id \in Nat
    BY <2>1 DEF StorePath, Order, Types, Known
  <2>3. wb # ex
    BY <2>1, <2>2
  <2> QED BY <1>3, <2>1, <2>3, OnTheWay DEF Touches
<1> QED BY <1>4, <1>5

\* The read of before is still the outstanding one; a new one has gone out.
StillRead(late, disp) ==
    /\ Follows /\ ~rd_ack /\ rdq' = rdq /\ rdexp' = rdexp
    /\ ldx = "none" /\ ~late => ldx' = "none" /\ disp = None
    /\ ldx # "none" \/ late => ldx' # "none"

NewRead(rd_req, late, disp) ==
    /\ rdq' = rd_req /\ ldx' = "none" /\ ~late /\ ~rd_ack'
    /\ look' = Lookup(rd_req) /\ dq' = rd_req
    /\ \A j \in 1..rd_req.n : rdexp'[j] = Visible(Stores(disp) \ Withdrawn, rd_req.a + j - 1)

\* What a read that still counts afterwards says of the clock.
LEMMA FollowsAfter ==
    ASSUME StorePath, Outstanding, NEW answer, NEW path, NEW f_req, NEW flush, NEW rd_req,
           NEW disp, NEW late, NEW resume,
           Step(answer, path, f_req, flush, rd_req, disp, late, resume),
           Follows'
    PROVE  /\ ~wb_fault /\ ~flush /\ ~ldx_err_go /\ ~st_err /\ ph # "halt"
           /\ rd_req = None => StillRead(late, disp)
           /\ rd_req # None => NewRead(rd_req, late, disp)
<1>1. /\ rdq' # None /\ ~rd_drop' /\ ~rd_dead' /\ ~st_err' /\ ph' # "halt"
    BY DEF Follows, rd_pend
<1>2. /\ rdq' = IF rd_req # None THEN rd_req ELSE IF rd_ack THEN None ELSE rdq
      /\ rd_req # None => ~rd_pend \/ rd_ack
    BY SlotMoves
<1>3. ~st_err
    BY <1>1 DEF Step, Clock, Port
<1>4. ~wf_dbl /\ ph # "halt"
  <2>1. ph' = IF st_err \/ wf_dbl \/ (cap_err /\ ph = "exc") THEN "halt"
              ELSE IF wf_go \/ (~flush /\ ph = "run" /\ (ldx_err_go \/ cap_err)) THEN "exc"
              ELSE IF resume THEN "run" ELSE ph
    BY DEF Step, Clock, EaFetch
  <2>2. ph = "halt" => ~wf_go /\ ~resume
    BY DEF wf_go, Step, ResumeChoices
  <2> QED BY <1>1, <2>1, <2>2
<1>5. /\ ldx' = IF flush \/ wf_go THEN "none"
                ELSE IF ldx # "none" /\ rd_ack THEN "none"
                ELSE IF late THEN IF FastAnswer(path) THEN "fast" ELSE "slow"
                ELSE ldx
      /\ rd_dead' = IF rd_req # None THEN wf_go \/ ldx_err_go
                    ELSE IF ~rd_pend \/ rd_ack THEN FALSE
                    ELSE rd_dead \/ wf_go \/ flush
      /\ rd_drop' = IF (wf_go \/ flush) /\ rd_pend /\ ~rd_ack THEN TRUE
                    ELSE IF rd_req = None /\ rd_ack THEN FALSE ELSE rd_drop
      /\ rdexp' = IF rd_req # None
                  THEN [j \in 1..rd_req.n |-> Visible(Stores(disp) \ Withdrawn, rd_req.a + j - 1)]
                  ELSE IF rd_ack THEN NoData ELSE rdexp
      /\ look' = IF rd_req # None THEN Lookup(rd_req)
                 ELSE IF d_rd_hold(path) THEN SecondLookup ELSE NoLook
    BY DEF Step, Clock, Pipeline, Ghosts, EaFetch, DropAtFlush, Slot
<1>6. rd_req # None => ~flush
    BY DEF Step, ReadChoices
<1>7. late => ldx_may
  <2>1. PICK d \in DispatchChoices(flush) : d.late = late
    BY DEF Step
  <2>2. d.late => ldx_may
    BY DEF DispatchChoices
  <2> QED BY <2>1, <2>2
<1>8. disp # None => late \/ ~rd_pend \/ rd_ack \/ rd_dead
  <2>1. PICK d \in DispatchChoices(flush) : d.late = late /\ d.store = disp
    BY DEF Step
  <2> QED BY <2>1 DEF DispatchChoices, may_dispatch
<1>9. CASE rd_req = None
  <2>1. rd_pend /\ ~rd_ack /\ rdq' = rdq
    BY <1>1, <1>2, <1>9 DEF rd_pend
  <2>2. ~wf_go /\ ~flush /\ ~rd_dead /\ ~rd_drop
    BY <1>1, <1>5, <1>9, <2>1
  <2> QED BY <1>1, <1>3, <1>4, <1>5, <1>7, <1>8, <1>9, <2>1, <2>2
          DEF StillRead, Follows, wf_go, wf_dbl, ldx_err_go
<1>10. CASE rd_req # None
  <2>1. ~wf_go /\ ~ldx_err_go /\ ~flush
    BY <1>1, <1>5, <1>6, <1>10
  <2>2. ldx # "none" => rd_ack
    BY <1>2, <1>10 DEF Outstanding
  <2>3. ~late
    BY <1>2, <1>7, <1>10 DEF ldx_may
  <2>4. ~FastAnswer(path) /\ ~go_rd(path) /\ ~Completes(answer, "rd")
    BY <1>10, SlotMoves
  <2>6. \A j \in 1..rd_req.n : rdexp'[j] = Visible(Stores(disp) \ Withdrawn, rd_req.a + j - 1)
    BY <1>5, <1>10
  <2>5. dq' = rd_req /\ ~rd_ack'
    <3>1. dq' = rd_req
      BY <1>10, <2>4, SlotMoves
    <3>2. ans'.on = FALSE
      BY <2>4, SlotMoves
    <3> QED BY <3>1, <3>2 DEF rd_ack
  <2> QED BY <1>1, <1>2, <1>3, <1>4, <1>5, <1>10, <2>1, <2>2, <2>3, <2>5, <2>6 DEF NewRead, wf_go, wf_dbl
<1> QED BY <1>9, <1>10

\* What a byte shows outlives the clock: the store that leaves is in memory by then.
LEMMA ShownKept ==
    ASSUME StorePath, Written, NEW answer, NEW path, NEW f_req, NEW flush, NEW rd_req, NEW disp,
           NEW late, NEW resume,
           Step(answer, path, f_req, flush, rd_req, disp, late, resume),
           ~wb_fault, ~flush, ~ldx_err_go, ~st_err',
           NEW S, S \subseteq Stores(disp), \A s \in Stores(None) : s # ex => s \in S,
           NEW T, T = S \cap Stores(None)',
           NEW b \in Bytes, NEW v, Shown(mem, S, b, v)
    PROVE  Shown(mem', T, b, v)
<1>1. \A s \in S : s \notin T => /\ \A t \in T : s.id < t.id
                                 /\ b \in Touches(s) => mem'[b] = <<s.id, b - s.a>>
    BY StoresMove
<1>2. \A s \in S : s.id \in Nat
  <2>1. ASSUME NEW s \in S PROVE s.id \in Nat
    <3>1. s \in Stores(None) \/ (s = disp /\ disp # None)
      BY OnTheWay
    <3> QED BY <3>1, KnownOnTheWay, NewIsNext
  <2> QED BY <2>1
<1>3. CASE \E s \in S : /\ b \in Touches(s) /\ v = <<s.id, b - s.a>>
                        /\ \A t \in S : b \in Touches(t) => t.id <= s.id
  <2>1. PICK s \in S : /\ b \in Touches(s) /\ v = <<s.id, b - s.a>>
                       /\ \A t \in S : b \in Touches(t) => t.id <= s.id
    BY <1>3
  <2>2. CASE s \in T
    BY <2>1, <2>2 DEF Shown
  <2>3. CASE s \notin T
    <3>1. \A t \in T : b \notin Touches(t)
      <4>1. ASSUME NEW t \in T, b \in Touches(t) PROVE FALSE
        <5>1. s.id < t.id /\ t.id <= s.id /\ s.id \in Nat /\ t.id \in Nat
          BY <1>1, <1>2, <2>1, <2>3, <4>1
        <5> QED BY <5>1
      <4> QED BY <4>1
    <3> QED BY <1>1, <2>1, <2>3, <3>1 DEF Shown
  <2> QED BY <2>2, <2>3
<1>4. CASE v = mem[b] /\ \A t \in S : b \notin Touches(t)
  <2>1. mem'[b] = mem[b]
    BY <1>4, MemoryMoves
  <2> QED BY <1>4, <2>1 DEF Shown
<1> QED BY <1>3, <1>4 DEF Shown

LEMMA ReadBytes ==
    ASSUME NEW r \in Reads
    PROVE  /\ Access(r) /\ r # None /\ r.n \in 1..4 /\ r.id = 0
           /\ \A j \in 1..r.n : r.a + j - 1 \in Bytes /\ r.a + j - 1 \in Touches(r)
<1>1. r \in [id : {0}, a : Nat, n : {1, 2, 4}]
    BY BcuAssumption
<1>2. r.a..(r.a + r.n - 1) \subseteq Bytes
    BY BcuAssumption
<1>3. \A j \in 1..r.n : r.a + j - 1 \in r.a..(r.a + r.n - 1)
    BY <1>1
<1> QED BY <1>1, <1>2, <1>3 DEF Access, Touches, None

\* While the read is outstanding no store older than it comes in.
LEMMA OlderStep ==
    ASSUME StorePath, Written, Outstanding, NEW answer, NEW path, NEW f_req, NEW flush,
           NEW rd_req, NEW disp, NEW late, NEW resume,
           Step(answer, path, f_req, flush, rd_req, disp, late, resume),
           Follows', rd_req = None
    PROVE  /\ Older' = Older \cap Stores(None)' /\ Older \subseteq Stores(disp)
           /\ \A s \in Stores(None) : s # ex => s \in Older
<1>1. ~wb_fault /\ ~flush /\ ~ldx_err_go /\ ~st_err'
    BY FollowsAfter DEF Follows
<1>2. Older' = {s \in Stores(None)' : s = ex' => ldx' = "none"}
    BY DEF Older
<1>3. /\ ~rd_ack
      /\ ldx = "none" /\ ~late => ldx' = "none" /\ disp = None
      /\ ldx # "none" \/ late => ldx' # "none"
    BY FollowsAfter DEF StillRead
<1>4. /\ ex' = (IF ex_stall THEN ex ELSE disp) /\ (ex_stall => disp = None)
      /\ \A s \in Stores(None)' : s \in Stores(disp)
    BY <1>1, StoresMove
<1>5. disp # None => disp \notin Stores(None)
  <2>1. ASSUME disp # None, disp \in Stores(None) PROVE FALSE
    <3>1. disp.id = born + 1 /\ born \in Nat /\ disp.id \in 1..born
      BY <2>1, KnownOnTheWay, NewIsNext
    <3> QED BY <3>1
  <2> QED BY <2>1
<1>6. /\ \A s : s \in Stores(disp) /\ s # disp => s \in Stores(None)
      /\ \A s \in Stores(None) : s # None /\ s \in Stores(disp)
    BY OnTheWay
<1>7. Older' = Older \cap Stores(None)'
  <2>1. CASE ldx = "none" /\ ~late
    BY <1>2, <1>3, <1>4, <2>1 DEF Older
  <2>2. CASE ldx # "none"
    <3>1. ex' = ex /\ disp = None /\ ldx' # "none"
      BY <1>3, <1>4, <2>2 DEF ex_stall, ld_wait
    <3> QED BY <1>2, <1>4, <2>2, <3>1 DEF Older
  <2>3. CASE ldx = "none" /\ late
    <3>1. PICK d \in DispatchChoices(flush) : d.late = late
      BY DEF Step
    <3>2. d.late => ~ex_stall
      BY DEF DispatchChoices
    <3>3. ex' = disp /\ ldx' # "none"
      BY <1>3, <1>4, <2>3, <3>1, <3>2
    <3>4. Older = Stores(None)
      BY <2>3 DEF Older
    <3> QED BY <1>2, <1>4, <1>5, <1>6, <3>3, <3>4
  <2> QED BY <2>1, <2>2, <2>3
<1> QED BY <1>6, <1>7 DEF Older

LEMMA ExpectedStep ==
    ASSUME StorePath, Written, Outstanding, Expected, NEW answer, NEW path, NEW f_req, NEW flush,
           NEW rd_req, NEW disp, NEW late, NEW resume,
           Step(answer, path, f_req, flush, rd_req, disp, late, resume)
    PROVE  Expected'
<1> SUFFICES ASSUME Follows', ~rd_ack', st_done_q' # "flt", NEW k \in 1..rdq'.n
             PROVE  Shown(mem', Older', rdq'.a + k - 1, rdexp'[k])
    BY DEF Expected
<1>1. /\ ~wb_fault /\ ~flush /\ ~ldx_err_go /\ ~st_err'
    BY FollowsAfter DEF Follows
<1>2. Older' = {s \in Stores(None)' : s = ex' => ldx' = "none"}
    BY DEF Older
<1>3. rdq' \in Reads
    BY SlotMoves DEF Follows, rd_pend, StorePath, Types
<1>4. rdq'.a + k - 1 \in Bytes
    BY <1>3, ReadBytes
<1>5. CASE rd_req # None
  <2>1. /\ rdq' = rd_req /\ ldx' = "none"
        /\ \A j \in 1..rd_req.n : rdexp'[j] = Visible(Stores(disp) \ Withdrawn, rd_req.a + j - 1)
    <3>1. NewRead(rd_req, late, disp)
      BY <1>5, FollowsAfter
    <3> QED BY <3>1 DEF NewRead
  <2>2. Withdrawn = {}
    BY <1>1 DEF Withdrawn, wb_fault, StorePath, Completion
  <2> DEFINE S == Stores(disp)
  <2>3. rdexp'[k] = Visible(S, rdq'.a + k - 1)
    BY <2>1, <2>2
  <2>4. \A s \in S : s.id \in 0..born'
    <3>1. ASSUME NEW s \in S PROVE s.id \in 0..born'
      <4>1. s \in Stores(None) \/ (s = disp /\ disp # None)
        BY OnTheWay
      <4> QED BY <4>1, KnownOnTheWay, NewIsNext
    <3> QED BY <3>1
  <2>5. born' \in Nat
    BY NewIsNext
  <2> HIDE DEF S
  <2>6. Shown(mem, S, rdq'.a + k - 1, rdexp'[k])
    BY <2>3, <2>4, <2>5, VisibleIsShown
  <2>7. Older' = S \cap Stores(None)'
    BY <1>1, <1>2, <2>1, StoresMove DEF S
  <2>8. \A s \in Stores(None) : s \in S
    BY OnTheWay DEF S
  <2> QED BY <1>1, <1>4, <2>6, <2>7, <2>8, ShownKept DEF S
<1>6. CASE rd_req = None
  <2>1. Follows /\ ~rd_ack /\ rdq' = rdq /\ rdexp' = rdexp
    BY <1>6, FollowsAfter DEF StillRead
  <2>2. Shown(mem, Older, rdq'.a + k - 1, rdexp'[k])
    BY <1>1, <2>1 DEF Expected, wb_fault, StorePath, Completion
  <2>3. /\ Older' = Older \cap Stores(None)' /\ Older \subseteq Stores(disp)
        /\ \A s \in Stores(None) : s # ex => s \in Older
    BY <1>6, OlderStep
  <2> QED BY <1>1, <1>4, <2>2, <2>3, ShownKept
<1> QED BY <1>5, <1>6

\* The clock between the two lookups of a misaligned read.
LEMMA HoldKeeps ==
    ASSUME StorePath, Outstanding, NEW answer, NEW path, NEW f_req, NEW flush, NEW rd_req,
           NEW disp, NEW late, NEW resume,
           Step(answer, path, f_req, flush, rd_req, disp, late, resume),
           rd_req = None, d_rd_hold(path)
    PROVE  /\ dq # None /\ dq' # None /\ look.on /\ ~look.m2
           /\ SecondLookup.on /\ SecondLookup.m2 /\ DOMAIN SecondLookup = LookFields
           /\ SecondLookup.data = [j \in 1..dq.n |->
                                     IF (dq.a + j - 1) \div Long = dq.a \div Long
                                     THEN look.data[j] ELSE mem[dq.a + j - 1]]
<1>1. look.on /\ ~look.m2 /\ SpansTwo(dq) /\ ~d_rd_fwd(path)
    BY DEF d_rd_hold, ReadyHit, dfp_look
<1>2. dq # None /\ DOMAIN look = LookFields
    BY <1>1 DEF Outstanding, NoLook
<1>3. ~FastAnswer(path) /\ ~go_rd(path)
    BY <1>1 DEF FastAnswer, d_rd_fast, dfp_m2, go_rd
<1>4. dq' # None
    BY <1>2, <1>3, SlotMoves
<1> DEFINE two == [j \in 1..dq.n |-> IF (dq.a + j - 1) \div Long = dq.a \div Long
                                     THEN look.data[j] ELSE mem[dq.a + j - 1]]
<1>5. SecondLookup = [look EXCEPT !.m2 = TRUE, !.data = two]
    BY DEF SecondLookup
<1> HIDE DEF two
<1>6. SecondLookup.on /\ SecondLookup.m2 /\ DOMAIN SecondLookup = LookFields /\ SecondLookup.data = two
    BY <1>1, <1>2, <1>5 DEF LookFields
<1> QED BY <1>1, <1>2, <1>4, <1>6 DEF two

LEMMA OutstandingStep ==
    ASSUME StorePath, Outstanding, NEW answer, NEW path, NEW f_req, NEW flush, NEW rd_req,
           NEW disp, NEW late, NEW resume,
           Step(answer, path, f_req, flush, rd_req, disp, late, resume)
    PROVE  Outstanding'
<1>1. /\ ldx' = IF flush \/ wf_go THEN "none"
                ELSE IF ldx # "none" /\ rd_ack THEN "none"
                ELSE IF late THEN IF FastAnswer(path) THEN "fast" ELSE "slow"
                ELSE ldx
      /\ look' = IF rd_req # None THEN Lookup(rd_req)
                 ELSE IF d_rd_hold(path) THEN SecondLookup ELSE NoLook
      /\ rdexp' = IF rd_req # None
                  THEN [j \in 1..rd_req.n |-> Visible(Stores(disp) \ Withdrawn, rd_req.a + j - 1)]
                  ELSE IF rd_ack THEN NoData ELSE rdexp
    BY DEF Step, Clock, Pipeline, Ghosts, Slot
<1>2. late => rd_pend /\ ~rd_ack
  <2>1. PICK d \in DispatchChoices(flush) : d.late = late
    BY DEF Step
  <2>2. d.late => rd_pend /\ ~rd_ack
    BY DEF DispatchChoices, ldx_may
  <2> QED BY <2>1, <2>2
<1>3. ldx' # "none" => rd_pend'
  <2>1. ldx' # "none" => rd_pend /\ ~rd_ack
    BY <1>1, <1>2 DEF Outstanding
  <2>2. rd_pend /\ ~rd_ack => rdq' # None
    BY SlotMoves DEF rd_pend
  <2> QED BY <2>1, <2>2 DEF rd_pend
<1>4. dq' # None => dq' = rdq'
  <2>1. ASSUME dq' # None, rd_req = None PROVE dq' = rdq'
    <3>1. dq' = dq
      BY <2>1, SlotMoves
    <3>2. rd_pend /\ ~rd_ack /\ dq = rdq
      BY <2>1, <3>1 DEF StorePath, Reading, Outstanding
    <3>3. rdq' = rdq
      BY <2>1, <3>2, SlotMoves
    <3> QED BY <3>1, <3>2, <3>3
  <2>2. ASSUME dq' # None, rd_req # None PROVE dq' = rdq'
    BY <2>2, SlotMoves
  <2> QED BY <2>1, <2>2
<1>5. look' = NoLook \/ (dq' # None /\ look'.on /\ DOMAIN look' = LookFields)
  <2>1. CASE rd_req # None
    <3>1. look' = Lookup(rd_req)
      BY <1>1, <2>1
    <3>2. ~FastAnswer(path) /\ ~go_rd(path)
      BY <2>1, SlotMoves
    <3>3. dq' # None
      BY <2>1, <3>2, SlotMoves
    <3> QED BY <3>1, <3>3 DEF Lookup, LookFields
  <2>2. CASE rd_req = None /\ d_rd_hold(path)
    <3>1. dq' # None
      BY <2>2, HoldKeeps
    <3> QED BY <1>1, <2>2, <3>1, HoldKeeps
  <2>3. CASE rd_req = None /\ ~d_rd_hold(path)
    BY <1>1, <2>3
  <2> QED BY <2>1, <2>2, <2>3
<1>6. rdq' # None => rdexp' = [j \in 1..rdq'.n |-> rdexp'[j]]
  <2>1. CASE rd_req # None
    <3>1. rdq' = rd_req
      BY <2>1, SlotMoves
    <3> QED BY <1>1, <2>1, <3>1
  <2>2. CASE rd_req = None
    <3>1. ASSUME rdq' # None PROVE rdq' = rdq /\ ~rd_ack
      BY <2>2, <3>1, SlotMoves
    <3> QED BY <1>1, <2>2, <3>1 DEF Outstanding, rd_pend
  <2> QED BY <2>1, <2>2
<1> QED BY <1>3, <1>4, <1>5, <1>6 DEF Outstanding, rd_pend

----------------------------------------------------------------------------
\* The FIFO's slots from the newest entry back.
LEMMA NewestIs ==
    ASSUME NEW wp \in Slots, NEW i \in 1..SB_N
    PROVE  (wp + SB_N - i) % SB_N = IF i <= wp THEN wp - i ELSE wp + SB_N - i
<1>1. SB_N \in Nat \ {0} /\ wp \in 0..SB_N - 1 /\ i \in 1..SB_N
    BY BcuAssumption DEF Slots
<1>2. CASE i <= wp
    BY <1>1, <1>2
<1>3. CASE i > wp
    BY <1>1, <1>3
<1> QED BY <1>1, <1>2, <1>3

LEMMA NewestFirst ==
    ASSUME StorePath
    PROVE  /\ \A i \in 1..SB_N : Newest(i) \in Slots
           /\ \A k \in Slots : \E i \in 1..SB_N : Newest(i) = k
           /\ \A i, j \in 1..SB_N : i < j /\ sb[Newest(j)] # None =>
                                        sb[Newest(j)].id < sb[Newest(i)].id
<1>1. SB_N \in Nat \ {0} /\ sb_wp \in 0..SB_N - 1 /\ sb_rp \in 0..SB_N - 1 /\ sb_cnt \in 0..SB_N
    BY BcuAssumption DEF StorePath, Types, Slots
<1>2. \A i \in 1..SB_N : Newest(i) = IF i <= sb_wp THEN sb_wp - i ELSE sb_wp + SB_N - i
    BY <1>1, NewestIs DEF Newest, Slots
<1>3. sb_wp = IF sb_rp + sb_cnt < SB_N THEN sb_rp + sb_cnt ELSE sb_rp + sb_cnt - SB_N
    BY DEF StorePath, Ring, IsRing
<1>4. \A i \in 1..SB_N : Newest(i) \in 0..SB_N - 1
    BY <1>1, <1>2
<1>5. ASSUME NEW k \in 0..SB_N - 1 PROVE \E i \in 1..SB_N : Newest(i) = k
  <2> DEFINE i == IF k < sb_wp THEN sb_wp - k ELSE sb_wp + SB_N - k
  <2>1. i \in 1..SB_N /\ (IF i <= sb_wp THEN sb_wp - i ELSE sb_wp + SB_N - i) = k
    BY <1>1
  <2> HIDE DEF i
  <2> QED BY <1>2, <2>1
<1>6. ASSUME NEW i \in 1..SB_N
      PROVE  Ahead(Newest(i), sb_rp) = IF i <= sb_cnt THEN sb_cnt - i ELSE sb_cnt + SB_N - i
    BY <1>1, <1>2, <1>3 DEF Ahead
<1>7. ASSUME NEW i \in 1..SB_N, NEW j \in 1..SB_N, i < j, sb[Newest(j)] # None
      PROVE  sb[Newest(j)].id < sb[Newest(i)].id
  <2>1. Ahead(Newest(j), sb_rp) < sb_cnt
    BY <1>4, <1>7 DEF StorePath, Ring, IsRing, Slots
  <2>2. j <= sb_cnt
    BY <1>1, <1>6, <2>1
  <2>3. Ahead(Newest(j), sb_rp) < Ahead(Newest(i), sb_rp) /\ Ahead(Newest(i), sb_rp) < sb_cnt
    BY <1>1, <1>6, <1>7, <2>2
  <2> QED BY <1>4, <2>3 DEF StorePath, Ring, IsRing, Slots
<1> QED BY <1>4, <1>5, <1>7 DEF Slots

LEMMA OneLong == ASSUME NEW S, NEW x \in S
                 PROVE  <<x>> \in Seq(S) /\ Len(<<x>>) = 1 /\ <<x>>[1] = x
    OBVIOUS

\* The candidates are the stores on the way, the youngest first; of EX's only a push.
LEMMA CandidatesAre ==
    ASSUME StorePath
    PROVE  /\ DOMAIN Candidates \subseteq Nat
           /\ \A i \in DOMAIN Candidates : Candidates[i] # None =>
                  Candidates[i] \in Stores(None)
           /\ \A i, j \in DOMAIN Candidates : i < j /\ Candidates[i] # None /\ Candidates[j] # None
                  => Candidates[j].id <= Candidates[i].id
           /\ \A s \in Stores(None) : s # ex \/ ex.push =>
                  \E i \in DOMAIN Candidates : Candidates[i] = s
<1> DEFINE U == {ex, wb} \cup {sb[k] : k \in Slots}
           push == IF ex # None /\ ex.push THEN <<ex>> ELSE <<>>
           inWb == IF wb # None THEN <<wb>> ELSE <<>>
           fifo == [i \in 1..SB_N |-> sb[Newest(i)]]
           p == IF ex # None /\ ex.push THEN 1 ELSE 0
           w == IF wb # None THEN 1 ELSE 0
           two == push \o inWb
           C == two \o fifo
<1>1. SB_N \in Nat /\ \A i \in 1..SB_N : Newest(i) \in Slots
    BY BcuAssumption, NewestFirst
<1>2. push \in Seq(U) /\ Len(push) = p /\ (p = 1 => push[1] = ex)
  <2>1. ex \in U
    OBVIOUS
  <2> HIDE DEF U
  <2>2. CASE ex # None /\ ex.push
    BY <2>1, <2>2, OneLong
  <2>3. CASE ~(ex # None /\ ex.push)
    BY <2>3, EmptySeq
  <2> QED BY <2>2, <2>3
<1>3. inWb \in Seq(U) /\ Len(inWb) = w /\ (w = 1 => inWb[1] = wb)
  <2>1. wb \in U
    OBVIOUS
  <2> HIDE DEF U
  <2>2. CASE wb # None
    BY <2>1, <2>2, OneLong
  <2>3. CASE wb = None
    BY <2>3, EmptySeq
  <2> QED BY <2>2, <2>3
<1>4. fifo \in Seq(U) /\ Len(fifo) = SB_N
    BY <1>1, IsASeq
<1>5. Candidates = C
    BY DEF Candidates
<1>6. p \in {0, 1} /\ w \in {0, 1}
    OBVIOUS
<1> HIDE DEF push, inWb, fifo, U, p, w
<1>7. /\ two \in Seq(U) /\ Len(two) = p + w
      /\ \A i \in 1..p + w : two[i] = IF i <= p THEN push[i] ELSE inWb[i - p]
    BY <1>2, <1>3, ConcatProperties
<1> HIDE DEF two
<1>8. /\ C \in Seq(U) /\ Len(C) = p + w + SB_N
      /\ \A i \in 1..p + w + SB_N : C[i] = IF i <= p + w THEN two[i] ELSE fifo[i - (p + w)]
    BY <1>4, <1>7, ConcatProperties
<1> HIDE DEF C
<1>9. DOMAIN C = 1..p + w + SB_N
    BY <1>8, LenProperties
<1>10. ASSUME NEW i \in 1..p + w + SB_N
       PROVE  C[i] = IF i <= p THEN ex ELSE IF i <= p + w THEN wb ELSE sb[Newest(i - (p + w))]
  <2>1. CASE i <= p
    BY <1>2, <1>6, <1>7, <1>8, <2>1
  <2>2. CASE i > p /\ i <= p + w
    BY <1>3, <1>6, <1>7, <1>8, <2>2
  <2>3. CASE i > p + w
    <3>1. i - (p + w) \in 1..SB_N
      BY <1>1, <1>6, <2>3
    <3>2. C[i] = fifo[i - (p + w)]
      BY <1>1, <1>6, <1>8, <2>3
    <3> QED BY <1>6, <2>3, <3>1, <3>2 DEF fifo
  <2> QED BY <1>6, <2>1, <2>2, <2>3
<1> HIDE DEF C
<1>11. (p = 1 <=> ex # None /\ ex.push) /\ (w = 1 <=> wb # None)
    BY DEF p, w
<1>12. ASSUME NEW i \in DOMAIN C, C[i] # None PROVE C[i] \in Stores(None)
  <2>1. C[i] = ex \/ C[i] = wb \/ \E k \in Slots : C[i] = sb[k]
    <3>1. CASE i > p + w
      <4>1. i - (p + w) \in 1..SB_N /\ C[i] = sb[Newest(i - (p + w))]
        BY <1>1, <1>6, <1>9, <1>10, <1>12, <3>1
      <4> QED BY <1>1, <4>1
    <3>2. CASE ~(i > p + w)
      BY <1>1, <1>6, <1>9, <1>10, <1>12, <3>2
    <3> QED BY <3>1, <3>2
  <2> QED BY <1>12, <2>1, OnTheWay
<1>13. ASSUME NEW i \in DOMAIN C, NEW j \in DOMAIN C, i < j, C[i] # None, C[j] # None
       PROVE  C[j].id <= C[i].id
  <2>1. i \in Nat /\ j \in Nat /\ i >= 1 /\ j <= p + w + SB_N /\ i \in 1..p + w + SB_N
        /\ j \in 1..p + w + SB_N
    BY <1>1, <1>6, <1>9, <1>13
  <2>2. /\ \A k \in Slots : sb[k].id \in Nat
        /\ wb.id \in Nat /\ ex.id \in Nat
    <3>1. born \in Nat
      BY BcuAssumption DEF StorePath, Types
    <3> QED BY <3>1, KnownId DEF StorePath, Types
  <2>3. CASE i > p + w
    <3> DEFINE k == i - (p + w)
               l == j - (p + w)
    <3>1. k \in 1..SB_N /\ l \in 1..SB_N /\ k < l
      BY <1>1, <1>6, <1>13, <2>1, <2>3
    <3>2. C[i] = sb[Newest(k)] /\ C[j] = sb[Newest(l)]
      BY <1>1, <1>6, <1>10, <1>13, <2>1, <2>3
    <3> HIDE DEF k, l
    <3>3. sb[Newest(l)].id < sb[Newest(k)].id
      BY <1>13, <3>1, <3>2, NewestFirst
    <3>4. sb[Newest(l)].id \in Nat /\ sb[Newest(k)].id \in Nat
      BY <1>1, <2>2, <3>1
    <3> QED BY <3>2, <3>3, <3>4
  <2>4. CASE i <= p + w /\ j > p + w
    <3>1. j - (p + w) \in 1..SB_N /\ C[j] = sb[Newest(j - (p + w))]
      BY <1>1, <1>6, <1>10, <2>1, <2>4
    <3>2. PICK k \in Slots : C[j] = sb[k]
      BY <1>1, <3>1
    <3>3. C[i] = ex \/ C[i] = wb
      BY <1>6, <1>10, <2>1, <2>4
    <3>4. sb[k].id < C[i].id
      BY <1>13, <3>2, <3>3 DEF StorePath, Order
    <3>5. sb[k].id \in Nat /\ C[i].id \in Nat
      BY <2>2, <3>3
    <3> QED BY <3>2, <3>4, <3>5
  <2>5. CASE j <= p + w
    <3>1. i = 1 /\ j = 2 /\ p = 1 /\ w = 1
      BY <1>6, <1>13, <2>1, <2>5
    <3>2. C[i] = ex /\ C[j] = wb
      BY <1>10, <2>1, <3>1
    <3>3. wb.id < ex.id
      BY <1>13, <3>2 DEF StorePath, Order
    <3> QED BY <2>2, <3>2, <3>3
  <2> QED BY <1>6, <2>1, <2>3, <2>4, <2>5
<1>14. ASSUME NEW s \in Stores(None), s # ex \/ ex.push PROVE \E i \in DOMAIN C : C[i] = s
  <2>1. s # None /\ (s = ex \/ s = wb \/ \E k \in Slots : s = sb[k])
    BY OnTheWay
  <2>2. CASE s = ex
    <3>1. p = 1
      BY <1>11, <1>14, <2>1, <2>2
    <3>2. 1 \in 1..p + w + SB_N
      BY <1>1, <1>6, <3>1
    <3>3. C[1] = ex
      BY <1>10, <3>1, <3>2
    <3> QED BY <1>9, <2>2, <3>2, <3>3
  <2>3. CASE s = wb
    <3>1. w = 1
      BY <1>11, <2>1, <2>3
    <3>2. p + 1 \in 1..p + w + SB_N /\ ~(p + 1 <= p) /\ p + 1 <= p + w
      BY <1>1, <1>6, <3>1
    <3>3. C[p + 1] = wb
      BY <1>10, <3>2
    <3> QED BY <1>9, <2>3, <3>2, <3>3
  <2>4. CASE \E k \in Slots : s = sb[k]
    <3>1. PICK i \in 1..SB_N : s = sb[Newest(i)]
      BY <2>4, NewestFirst
    <3>2. /\ p + w + i \in 1..p + w + SB_N /\ (p + w + i) - (p + w) = i
          /\ ~(p + w + i <= p) /\ ~(p + w + i <= p + w)
      BY <1>1, <1>6
    <3>3. C[p + w + i] = sb[Newest(i)]
      BY <1>10, <3>2
    <3> QED BY <1>9, <3>1, <3>2, <3>3
  <2> QED BY <2>1, <2>2, <2>3, <2>4
<1>15. DOMAIN C \subseteq Nat
    BY <1>1, <1>6, <1>9
<1> QED BY <1>5, <1>12, <1>13, <1>14, <1>15

LEMMA UniqueIds ==
    ASSUME StorePath, NEW s \in Stores(None), NEW t \in Stores(None), s.id = t.id
    PROVE  s = t
<1>1. /\ \A i \in Slots : sb[i].id \in Nat
      /\ wb.id \in Nat /\ ex.id \in Nat
  <2>1. born \in Nat
    BY BcuAssumption DEF StorePath, Types
  <2> QED BY <2>1, KnownId DEF StorePath, Types
<1>2. /\ \A i \in Slots : sb[i] # None => /\ wb # None => sb[i].id < wb.id
                                          /\ ex # None => sb[i].id < ex.id
      /\ wb # None /\ ex # None => wb.id < ex.id
    BY DEF StorePath, Order
<1>3. ASSUME NEW i \in Slots, NEW j \in Slots, sb[i] # None, sb[j] # None, sb[i].id = sb[j].id
      PROVE  i = j
  <2>1. SB_N \in Nat /\ sb_rp \in Slots
    BY BcuAssumption DEF StorePath, Types
  <2>2. Ahead(i, sb_rp) < sb_cnt /\ Ahead(j, sb_rp) < sb_cnt
    BY <1>3 DEF StorePath, Ring, IsRing
  <2>3. ~(Ahead(i, sb_rp) < Ahead(j, sb_rp)) /\ ~(Ahead(j, sb_rp) < Ahead(i, sb_rp))
    <3>1. sb[i].id \in Nat /\ sb[j].id \in Nat
      BY <1>1
    <3>2. ~(sb[i].id < sb[j].id) /\ ~(sb[j].id < sb[i].id)
      BY <1>3, <3>1
    <3> QED BY <2>2, <3>2 DEF StorePath, Ring, IsRing
  <2> QED BY <2>1, <2>3 DEF Ahead, Slots
<1>4. /\ s # None /\ (s = ex \/ s = wb \/ \E i \in Slots : s = sb[i])
      /\ t # None /\ (t = ex \/ t = wb \/ \E i \in Slots : t = sb[i])
    BY OnTheWay
<1>5. ASSUME NEW i \in Slots, s = sb[i] PROVE t = s
  <2>1. t # ex /\ t # wb
    BY <1>1, <1>2, <1>4, <1>5
  <2>2. PICK j \in Slots : t = sb[j]
    BY <1>4, <2>1
  <2> QED BY <1>3, <1>4, <1>5, <2>2
<1>6. ASSUME NEW i \in Slots, t = sb[i] PROVE t = s
  <2>1. s # ex /\ s # wb
    BY <1>1, <1>2, <1>4, <1>6
  <2> QED BY <1>4, <1>5, <2>1
<1>7. CASE s \in {ex, wb} /\ t \in {ex, wb}
    BY <1>1, <1>2, <1>4, <1>7
<1> QED BY <1>4, <1>5, <1>6, <1>7

\* A forwarded read comes out of the youngest store it may meet, which covers it.
LEMMA Forwarded ==
    ASSUME StorePath, NEW r, fw(r) # NoData
    PROVE  \E y \in Stores(None) :
               /\ f_cov(y, r) /\ fw(r) = f_ext(y, r)
               /\ \A s \in Stores(None) : (s # ex \/ ex.push) /\ Lwo(s, r) => s.id <= y.id
<1> DEFINE meets == {i \in DOMAIN Candidates : Candidates[i] # None /\ Lwo(Candidates[i], r)}
           first == CHOOSE i \in meets : \A j \in meets : i <= j
<1>1. meets # {} /\ f_cov(Candidates[first], r) /\ fw(r) = f_ext(Candidates[first], r)
    BY DEF fw
<1>2. meets \subseteq Nat
    BY CandidatesAre
<1>3. first \in meets /\ \A j \in meets : first <= j
  <2> HIDE DEF meets
  <2>1. \E i \in meets : \A j \in meets : i <= j
    BY <1>1, <1>2, Least
  <2> QED BY <2>1
<1> HIDE DEF first
<1>4. Candidates[first] \in Stores(None)
    BY <1>3, CandidatesAre
<1>5. ASSUME NEW s \in Stores(None), s # ex \/ ex.push, Lwo(s, r)
      PROVE  s.id <= Candidates[first].id
  <2>1. PICK i \in DOMAIN Candidates : Candidates[i] = s
    BY <1>5, CandidatesAre
  <2>2. i \in meets
    BY <1>5, <2>1, OnTheWay
  <2>3. CASE i = first
    BY <2>1, <2>3, <1>4, KnownOnTheWay
  <2>4. CASE i # first
    <3>1. first < i
      BY <1>2, <1>3, <2>2, <2>4
    <3>2. Candidates[i].id <= Candidates[first].id
      BY <1>3, <2>2, <3>1, CandidatesAre
    <3> QED BY <2>1, <3>2
  <2> QED BY <2>3, <2>4
<1> QED BY <1>1, <1>4, <1>5

\* The lookup launched with a read that goes out in this clock.
LEMMA NewLookup ==
    ASSUME StorePath, Written, Outstanding, NEW answer, NEW path, NEW f_req, NEW flush,
           NEW rd_req, NEW disp, NEW late, NEW resume,
           Step(answer, path, f_req, flush, rd_req, disp, late, resume),
           Follows', rd_req # None
    PROVE  LookedUp'
<1>1. /\ rdq' = rd_req /\ look' = Lookup(rd_req)
      /\ \A j \in 1..rd_req.n : rdexp'[j] = Visible(Stores(disp) \ Withdrawn, rd_req.a + j - 1)
  <2>1. NewRead(rd_req, late, disp)
    BY FollowsAfter
  <2> QED BY <2>1 DEF NewRead
<1>2. ~wb_fault /\ ~flush /\ ~ldx_err_go /\ ~st_err'
    BY FollowsAfter DEF Follows
<1>3. rd_req \in Reads
    BY SlotMoves
<1>4. rdexp' = [j \in 1..rd_req.n |-> rdexp'[j]]
    BY <1>1, OutstandingStep DEF Outstanding, Follows
<1>5. Withdrawn = {}
    BY <1>2 DEF Withdrawn, wb_fault, StorePath, Completion
<1>6. /\ ex' = (IF ex_stall THEN ex ELSE disp) /\ (ex_stall => disp = None)
      /\ \A s \in Stores(None)' : s \in Stores(disp)
    BY <1>2, StoresMove
<1>7. /\ \A s \in Stores(disp) : s \in Stores(None) \/ (s = disp /\ disp # None)
      /\ \A s \in Stores(None) : s \in Stores(disp) /\ s # None
    BY OnTheWay
<1>8. \A s \in Stores(disp) : s.id \in 0..born' /\ Access(s)
  <2>1. ASSUME NEW s \in Stores(disp) PROVE s.id \in 0..born' /\ Access(s)
    <3>1. CASE s \in Stores(None)
      <4>1. Known(s, born) /\ s.id \in 1..born
        BY <3>1, KnownOnTheWay
      <4>2. born \in Nat /\ born' \in Nat /\ born <= born'
        BY NewIsNext
      <4> QED BY <4>1, <4>2 DEF Known, Access
    <3>2. CASE s = disp /\ disp # None
      <4>1. Known(s, born + 1) /\ s.id = born + 1 /\ born' = born + 1 /\ born \in Nat
        BY <3>2, NewIsNext
      <4> QED BY <4>1 DEF Known, Access
    <3> QED BY <1>7, <3>1, <3>2
  <2> QED BY <2>1
<1>9. born' \in Nat
    BY NewIsNext
<1> DEFINE unseen == ex' # None /\ Lwo(ex', rd_req)
           S == Stores(disp)
<1>10. \A j \in 1..rd_req.n : Shown(mem, S, rd_req.a + j - 1, rdexp'[j])
  <2> HIDE DEF S
  <2>1. \A j \in 1..rd_req.n : rdexp'[j] = Visible(S, rd_req.a + j - 1)
    BY <1>1, <1>5 DEF S
  <2>2. \A s \in S : s.id \in 0..born'
    BY <1>8 DEF S
  <2> QED BY <1>9, <2>1, <2>2, VisibleIsShown
<1>11. ASSUME ~unseen, disp # None PROVE ~Lwo(disp, rd_req)
    BY <1>6, <1>11
<1>12. Access(rd_req) /\ \A j \in 1..rd_req.n : rd_req.a + j - 1 \in Touches(rd_req)
    BY <1>3, ReadBytes
<1>13. ASSUME Lookup(rd_req).fq1, fw(rd_req) # NoData, ~unseen PROVE fw(rd_req) = rdexp'
  <2>1. PICK y \in Stores(None) :
            /\ f_cov(y, rd_req) /\ fw(rd_req) = f_ext(y, rd_req)
            /\ \A s \in Stores(None) : (s # ex \/ ex.push) /\ Lwo(s, rd_req) => s.id <= y.id
    BY <1>13, Forwarded
  <2>2. Touches(rd_req) \subseteq Touches(y)
    BY <1>7, <1>8, <1>12, <2>1, Covers
  <2>3. ASSUME NEW t \in S, NEW b \in Touches(rd_req), b \in Touches(t)
        PROVE  t \in Stores(None) /\ t.id <= y.id
    <3>1. Lwo(t, rd_req)
      BY <1>8, <1>12, <2>3, SharedByte
    <3>2. t \in Stores(None)
      BY <1>7, <1>11, <1>13, <3>1
    <3>3. t # ex \/ ex.push
      <4>1. CASE PRECISE
        BY <1>7, <1>13, <3>1, <3>2, <4>1 DEF Lookup, ex_st_iss
      <4>2. CASE ~PRECISE
        BY <1>7, <1>13, <3>2, <4>2 DEF Lookup, older_store
      <4> QED BY <4>1, <4>2
    <3> QED BY <2>1, <3>1, <3>2, <3>3
  <2>4. ASSUME NEW j \in 1..rd_req.n PROVE rdexp'[j] = <<y.id, (rd_req.a + j - 1) - y.a>>
    <3> DEFINE b == rd_req.a + j - 1
    <3>1. b \in Touches(rd_req) /\ b \in Touches(y) /\ y \in S
      BY <1>7, <1>12, <2>2
    <3>2. Shown(mem, S, b, rdexp'[j])
      BY <1>10
    <3> HIDE DEF b, S
    <3>3. PICK s \in S : /\ b \in Touches(s) /\ rdexp'[j] = <<s.id, b - s.a>>
                         /\ \A t \in S : b \in Touches(t) => t.id <= s.id
      BY <3>1, <3>2 DEF Shown
    <3>4. s \in Stores(None) /\ s.id <= y.id /\ y.id <= s.id
      BY <2>3, <3>1, <3>3
    <3>5. s.id \in Nat /\ y.id \in Nat
      BY <3>4, KnownOnTheWay
    <3>6. s = y
      BY <3>4, <3>5, UniqueIds
    <3> QED BY <3>3, <3>6 DEF b
  <2>5. f_ext(y, rd_req) = [j \in 1..rd_req.n |-> <<y.id, (rd_req.a + j - 1) - y.a>>]
    BY DEF f_ext
  <2> QED BY <1>4, <2>1, <2>4, <2>5
<1>14. ASSUME Lookup(rd_req).q1, ~Lookup(rd_req).ovl
       PROVE  \A s \in Stores(None) : ~Lwo(s, rd_req)
  <2>1. ~lk_hit(rd_req) /\ st_quiet_i(rd_req)
    BY <1>14 DEF Lookup
  <2>2. (ex # None => ~Lwo(ex, rd_req)) /\ (wb # None => ~Lwo(wb, rd_req))
    BY <2>1 DEF st_quiet_i, st_quiet, ex_st_iss, wb_st_iss, older_store
  <2>3. \A i \in Slots : sb[i] # None => ~Lwo(sb[i], rd_req)
    BY <2>1 DEF lk_hit, Slots
  <2> QED BY <2>2, <2>3, OnTheWay
<1>15. ASSUME Lookup(rd_req).q1, ~Lookup(rd_req).ovl, ~unseen PROVE Fetched(mem, rd_req) = rdexp'
  <2>1. \A s \in S : ~Lwo(s, rd_req)
    BY <1>7, <1>11, <1>14, <1>15
  <2>2. ASSUME NEW j \in 1..rd_req.n PROVE rdexp'[j] = mem[rd_req.a + j - 1]
    <3>1. Shown(mem, S, rd_req.a + j - 1, rdexp'[j])
      BY <1>10
    <3>2. \A s \in S : rd_req.a + j - 1 \notin Touches(s)
      BY <1>8, <1>12, <2>1, SharedByte
    <3> HIDE DEF S
    <3> QED BY <3>1, <3>2 DEF Shown
  <2>3. Fetched(mem, rd_req) = [j \in 1..rd_req.n |-> mem[rd_req.a + j - 1]]
    BY DEF Fetched
  <2> QED BY <1>4, <2>2, <2>3
<1>16. ASSUME Lookup(rd_req).q1, ~Lookup(rd_req).ovl, NEW s \in Stores(None)', s # ex'
       PROVE  ~Lwo(s, rd_req)
    BY <1>6, <1>7, <1>14, <1>16
<1>17. /\ ~look'.m2 /\ look'.fwd = fw(rd_req) /\ look'.data = Fetched(mem, rd_req)
       /\ look'.fq1 = Lookup(rd_req).fq1 /\ look'.q1 = Lookup(rd_req).q1
       /\ look'.ovl = Lookup(rd_req).ovl
    BY <1>1 DEF Lookup
<1>18. Lwo(ex', rdq') = Lwo(ex', rd_req)
    BY <1>1
<1> QED BY <1>1, <1>13, <1>15, <1>16, <1>17, <1>18 DEF LookedUp

\* With nothing on the way that may meet it, the read must return what memory has.
LEMMA NothingMeets ==
    ASSUME StorePath, Outstanding, Expected, Follows, ~rd_ack, ~wb_fault,
           \A s \in Older : ~Lwo(s, rdq)
    PROVE  \A j \in 1..rdq.n : rdexp[j] = mem[rdq.a + j - 1]
<1>1. rdq \in Reads
    BY DEF Follows, rd_pend, StorePath, Types
<1>2. ASSUME NEW j \in 1..rdq.n PROVE rdexp[j] = mem[rdq.a + j - 1]
  <2>1. Shown(mem, Older, rdq.a + j - 1, rdexp[j])
    BY DEF Expected, wb_fault, StorePath, Completion
  <2>2. Access(rdq) /\ rdq.a + j - 1 \in Touches(rdq)
    BY <1>1, ReadBytes
  <2>3. \A s \in Older : Access(s)
    BY KnownOnTheWay DEF Older, Known, Access
  <2>4. \A s \in Older : rdq.a + j - 1 \notin Touches(s)
    BY <2>2, <2>3, SharedByte
  <2> QED BY <2>1, <2>4 DEF Shown
<1> QED BY <1>2

\* An answer the read path gives in this clock is right.
LEMMA ReadyIsRight ==
    ASSUME StorePath, Outstanding, LookedUp, Follows, dq # None, NEW path, ReadyHit(path)
    PROVE  /\ look.data = rdexp
           /\ \A s \in Stores(None) : ~Lwo(s, rdq)
<1>1. look.on /\ ~look.m2 /\ look.q1 /\ ~look.ovl /\ st_quiet_a
    BY DEF ReadyHit, dfp_look
<1>2. dq = rdq
    BY DEF Outstanding
<1>3. ~(ex # None /\ Lwo(ex, rdq))
    BY <1>1, <1>2 DEF st_quiet_a, ex_st_ans, st_quiet, older_store
<1>4. ex \in Stores(None) => ex # None
    BY OnTheWay
<1> QED BY <1>1, <1>3, <1>4 DEF LookedUp

LEMMA LookedUpStep ==
    ASSUME StorePath, Written, Outstanding, Expected, LookedUp, NEW answer, NEW path, NEW f_req,
           NEW flush, NEW rd_req, NEW disp, NEW late, NEW resume,
           Step(answer, path, f_req, flush, rd_req, disp, late, resume)
    PROVE  LookedUp'
<1>1. CASE ~(Follows' /\ look'.on)
    BY <1>1 DEF LookedUp
<1>2. CASE Follows' /\ rd_req # None
    BY <1>2, NewLookup
<1>3. CASE Follows' /\ look'.on /\ rd_req = None
  <2>1. look' = IF d_rd_hold(path) THEN SecondLookup ELSE NoLook
    BY <1>3 DEF Step, Clock, Slot
  <2>2. d_rd_hold(path) /\ look' = SecondLookup
    BY <1>3, <2>1 DEF NoLook
  <2>3. Follows /\ ~rd_ack /\ rdq' = rdq /\ rdexp' = rdexp /\ ~wb_fault
    BY <1>3, FollowsAfter DEF StillRead
  <2>4. dq # None /\ dq = rdq
    BY <1>3, <2>2, HoldKeeps DEF Outstanding
  <2>5. ReadyHit(path)
    BY <2>2 DEF d_rd_hold
  <2>6. /\ look.data = rdexp
        /\ \A s \in Stores(None) : ~Lwo(s, rdq)
    BY <2>3, <2>4, <2>5, ReadyIsRight
  <2>7. \A j \in 1..rdq.n : rdexp[j] = mem[rdq.a + j - 1]
    BY <2>3, <2>6, NothingMeets DEF Older
  <2>8. rdexp = [j \in 1..rdq.n |-> rdexp[j]]
    BY <2>3 DEF Outstanding, Follows
  <2>9. look'.data = [j \in 1..rdq.n |-> IF (rdq.a + j - 1) \div Long = rdq.a \div Long
                                         THEN look.data[j] ELSE mem[rdq.a + j - 1]]
    BY <1>3, <2>2, <2>4, HoldKeeps
  <2>10. look'.data = rdexp
    BY <2>6, <2>7, <2>8, <2>9
  <2>11. look'.m2
    BY <1>3, <2>2, HoldKeeps
  <2> QED BY <2>3, <2>10, <2>11 DEF LookedUp
<1> QED BY <1>1, <1>2, <1>3

\* The first n values of f.
Upto(f, n) == [k \in 1..n |-> f[k]]

\* The values a transfer has and those of its next piece.
LEMMA NextPiece ==
    ASSUME NEW p \in Nat, NEW w \in Nat, NEW f, NEW g, g = Upto(g, w),
           \A j \in 1..w : g[j] = f[p + j]
    PROVE  Upto(f, p) \o g = Upto(f, p + w)
<1> DEFINE S == {f[k] : k \in 1..p + w}
           h == Upto(f, p)
           all == Upto(f, p + w)
<1>1. \A k \in 1..p + w : f[k] \in S
    OBVIOUS
<1> HIDE DEF S
<1>2. h \in Seq(S) /\ Len(h) = p
    BY <1>1 DEF Upto
<1>3. all \in Seq(S) /\ Len(all) = p + w
    BY <1>1 DEF Upto
<1>4. g \in Seq(S) /\ Len(g) = w
  <2>1. ASSUME NEW j \in 1..w PROVE g[j] \in S
    BY <1>1
  <2> QED BY <2>1 DEF Upto
<1>5. \A k \in 1..p : h[k] = f[k]
    BY DEF Upto
<1>6. \A k \in 1..p + w : all[k] = f[k]
    BY DEF Upto
<1> HIDE DEF h, all
<1>7. /\ h \o g \in Seq(S) /\ Len(h \o g) = p + w
      /\ \A k \in 1..p + w : (h \o g)[k] = IF k <= p THEN h[k] ELSE g[k - p]
  <2>1. /\ h \o g \in Seq(S) /\ Len(h \o g) = Len(h) + Len(g)
        /\ \A k \in 1..Len(h) + Len(g) : (h \o g)[k] = IF k <= Len(h) THEN h[k] ELSE g[k - Len(h)]
    BY <1>2, <1>4, ConcatProperties
  <2> QED BY <1>2, <1>4, <2>1
<1> DEFINE hg == h \o g
<1>8. \A k \in 1..p + w : hg[k] = IF k <= p THEN h[k] ELSE g[k - p]
    BY <1>7
<1> HIDE DEF hg
<1>9. ASSUME NEW k \in 1..p + w PROVE hg[k] = all[k]
  <2>1. CASE k <= p
    BY <1>5, <1>6, <1>8, <2>1
  <2>2. CASE ~(k <= p)
    <3> DEFINE j == k - p
    <3>1. j \in 1..w /\ p + j = k
      BY <2>2
    <3>2. hg[k] = g[j]
      BY <1>8, <2>2
    <3> HIDE DEF j
    <3>3. g[j] = f[k]
      BY <3>1
    <3>4. all[k] = f[k]
      BY <1>6
    <3> QED BY <3>2, <3>3, <3>4
  <2> QED BY <2>1, <2>2
<1>10. hg = all
    BY <1>3, <1>7, <1>9, SeqEqual DEF hg
<1> QED BY <1>10 DEF h, all, hg

\* The piece of a read on the port.
LEMMA ReadPiece ==
    ASSUME StorePath, Outstanding, Expected, PortRead, Follows, xfer.kind = "rd", ~wb_fault
    PROVE  /\ Transfer(xfer) /\ xfer.i * xfer.w \in Nat /\ xfer.i * xfer.w + xfer.w <= xfer.n
           /\ xfer.acc \o Fetched(mem, Piece) = [k \in 1..xfer.i * xfer.w + xfer.w |-> rdexp[k]]
<1>1. Transfer(xfer)
    BY DEF StorePath, XferOK, NoXfer, LaunchFetch
<1>2. xfer.i * xfer.w \in Nat /\ xfer.i * xfer.w + xfer.w <= xfer.n
  <2>1. CASE xfer.w = xfer.n /\ xfer.i = 0
    BY <1>1, <2>1 DEF Transfer
  <2>2. CASE xfer.w = 1 /\ xfer.i < xfer.n
    BY <1>1, <2>2 DEF Transfer
  <2>3. CASE xfer.w = 2 /\ xfer.n = 4 /\ xfer.i < 2
    BY <1>1, <2>3 DEF Transfer
  <2> QED BY <1>1, <2>1, <2>2, <2>3 DEF Transfer
<1>3. /\ xfer.a = rdq.a /\ xfer.n = rdq.n /\ Older = {}
      /\ xfer.acc = [k \in 1..xfer.i * xfer.w |-> rdexp[k]]
    BY DEF PortRead
<1>4. ~rd_ack
    BY DEF StorePath, Reading
<1>5. \A j \in 1..rdq.n : rdexp[j] = mem[rdq.a + j - 1]
    BY <1>3, <1>4, NothingMeets
<1> DEFINE p == xfer.i * xfer.w
           w == xfer.w
           g == Fetched(mem, Piece)
<1>6. g = [j \in 1..w |-> mem[(xfer.a + p) + j - 1]]
    BY DEF Fetched, Piece
<1>7. w \in Nat /\ xfer.a \in Nat /\ xfer.n \in Nat
    BY <1>1 DEF Transfer
<1> HIDE DEF p, w, g
<1>8. p \in Nat /\ p + w <= rdq.n
    BY <1>2, <1>3 DEF p, w
<1>9. ASSUME NEW j \in 1..w PROVE g[j] = rdexp[p + j]
  <2>1. p + j \in 1..rdq.n /\ rdq.a + (p + j) - 1 = (xfer.a + p) + j - 1
    BY <1>3, <1>7, <1>8
  <2> QED BY <1>5, <1>6, <2>1
<1>10. g = Upto(g, w)
    BY <1>6 DEF Upto
<1>11. Upto(rdexp, p) \o g = Upto(rdexp, p + w)
    BY <1>7, <1>8, <1>9, <1>10, NextPiece
<1>12. xfer.acc = Upto(rdexp, p)
    BY <1>3 DEF p, Upto
<1>13. xfer.acc \o g = Upto(rdexp, p + w)
    BY <1>11, <1>12
<1> QED BY <1>1, <1>2, <1>13 DEF p, w, g, Upto

\* A read goes to the port with no older store on the way.
LEMMA PortIsQuiet ==
    ASSUME StorePath, Outstanding, NEW path, go_rd(path)
    PROVE  Older = {}
<1>1. sb_cnt = 0 /\ ~older_st
    BY DEF go_rd
<1>2. \A i \in Slots : sb[i] = None
    BY <1>1, BcuAssumption DEF StorePath, Types, Ring, IsRing, Ahead, Slots
<1>3. wb = None /\ (ex = None \/ ldx # "none")
    BY <1>1 DEF older_st, older_store
<1> QED BY <1>2, <1>3, OnTheWay DEF Older

LEMMA PortReadStep ==
    ASSUME StorePath, Written, Outstanding, Expected, PortRead, NEW answer, NEW path, NEW f_req,
           NEW flush, NEW rd_req, NEW disp, NEW late, NEW resume,
           Step(answer, path, f_req, flush, rd_req, disp, late, resume)
    PROVE  PortRead'
<1> SUFFICES ASSUME Follows', xfer'.kind = "rd"
             PROVE  /\ xfer'.a = rdq'.a /\ xfer'.n = rdq'.n /\ Older' = {}
                    /\ xfer'.acc = [k \in 1..xfer'.i * xfer'.w |-> rdexp'[k]]
    BY DEF PortRead
<1>1. \/ xfer.kind = "rd" /\ ~Completes(answer, "rd")
      \/ ~mem_req /\ go_rd(path)
    BY ReadOnPort
<1>2. rd_req = None
  <2>1. rd_pend /\ ~rd_ack
    BY <1>1 DEF go_rd, StorePath, Reading
  <2> QED BY <2>1, SlotMoves
<1>3. Follows /\ ~rd_ack /\ rdq' = rdq /\ rdexp' = rdexp /\ ~wb_fault
    BY <1>2, FollowsAfter DEF StillRead
<1>4. Older = {}
    BY <1>1, <1>3, PortIsQuiet DEF PortRead
<1>5. Older' = {}
    BY <1>2, <1>4, OlderStep
<1>6. CASE xfer' = xfer /\ xfer.kind = "rd"
    BY <1>3, <1>5, <1>6 DEF PortRead
<1>7. CASE ~mem_req /\ ~sp_on /\ go_rd(path) /\ xfer' = Launch("rd", FALSE, dq)
  <2>1. dq = rdq
    BY <1>7 DEF go_rd, Outstanding
  <2>2. xfer'.a = rdq.a /\ xfer'.n = rdq.n /\ xfer'.i = 0 /\ xfer'.acc = <<>> /\ xfer'.w \in Nat
    <3>1. rdq.n \in Nat
      BY BcuAssumption DEF Follows, rd_pend, StorePath, Types, None
    <3> QED BY <1>7, <2>1, <3>1 DEF Launch
  <2>3. 1..xfer'.i * xfer'.w = {}
    BY <2>2
  <2>4. <<>> = [k \in {} |-> rdexp[k]]
    OBVIOUS
  <2> QED BY <1>3, <1>5, <2>2, <2>3, <2>4
<1>8. CASE /\ mem_req /\ answer = "ack" /\ ~sp_fin(answer)
           /\ xfer' = [xfer EXCEPT !.i = @ + 1,
                          !.acc = IF xfer.kind = "rd" THEN @ \o Fetched(mem, Piece) ELSE @]
  <2> DEFINE acc == IF xfer.kind = "rd" THEN xfer.acc \o Fetched(mem, Piece) ELSE xfer.acc
  <2>1. xfer' = [xfer EXCEPT !.i = xfer.i + 1, !.acc = acc]
    BY <1>8
  <2>2. xfer.kind # "none" /\ xfer.split
    BY <1>8 DEF sp_fin, sp_on
  <2>3. Transfer(xfer)
    BY <2>2 DEF StorePath, XferOK, NoXfer, LaunchFetch
  <2> HIDE DEF acc
  <2>4. /\ xfer'.kind = xfer.kind /\ xfer'.a = xfer.a /\ xfer'.n = xfer.n /\ xfer'.w = xfer.w
        /\ xfer'.i = xfer.i + 1 /\ xfer'.acc = acc
    BY <2>1, <2>3 DEF Transfer
  <2>5. acc = [k \in 1..xfer.i * xfer.w + xfer.w |-> rdexp[k]]
    BY <1>3, <2>4, ReadPiece DEF acc
  <2>6. xfer'.i * xfer'.w = xfer.i * xfer.w + xfer.w
    BY <2>3, <2>4 DEF Transfer
  <2> QED BY <1>3, <1>5, <2>4, <2>5, <2>6 DEF PortRead
<1>9. CASE xfer' = Launch("st", TRUE, sb[sb_rp]) \/ xfer' = Launch("st", FALSE, wb)
    BY <1>9 DEF Launch
<1>10. CASE xfer' = LaunchFetch \/ xfer' = NoXfer
    BY <1>10 DEF LaunchFetch, NoXfer
<1>11. CASE xfer' = xfer
    BY <1>6, <1>11
<1> QED BY <1>7, <1>8, <1>9, <1>10, <1>11, PortMoves

\* An answer given in this clock is right, whichever way it comes.
LEMMA AnswerFromPort ==
    ASSUME StorePath, Outstanding, Expected, PortRead, Follows, ~wb_fault,
           NEW answer, answer \in Answers, answer # "flt", Completes(answer, "rd")
    PROVE  xfer.acc \o Fetched(mem, Piece) = rdexp
<1>1. xfer.kind = "rd" /\ sp_fin(answer) /\ answer = "ack"
    BY DEF Completes, Answers
<1>2. /\ Transfer(xfer)
      /\ xfer.acc \o Fetched(mem, Piece) = [k \in 1..xfer.i * xfer.w + xfer.w |-> rdexp[k]]
    BY <1>1, ReadPiece
<1>3. xfer.i * xfer.w + xfer.w = xfer.n
  <2>1. ~xfer.split \/ (xfer.i + 1) * xfer.w = xfer.n
    BY <1>1 DEF sp_fin, sp_on
  <2>2. CASE xfer.w = xfer.n /\ xfer.i = 0
    BY <1>2, <2>2 DEF Transfer
  <2>3. CASE xfer.split /\ (xfer.i + 1) * xfer.w = xfer.n
    BY <1>2, <2>3 DEF Transfer
  <2> QED BY <1>2, <2>1, <2>2, <2>3 DEF Transfer
<1>4. xfer.n = rdq.n
    BY <1>1 DEF PortRead
<1>5. rdexp = [k \in 1..rdq.n |-> rdexp[k]]
    BY DEF Outstanding, Follows
<1> QED BY <1>2, <1>3, <1>4, <1>5

LEMMA AnswerFromPath ==
    ASSUME StorePath, Outstanding, LookedUp, Follows, NEW path, FastAnswer(path)
    PROVE  (IF d_rd_fwd(path) THEN look.fwd ELSE look.data) = rdexp
<1>1. dq # None /\ dq = rdq
    BY DEF FastAnswer, Outstanding
<1>2. CASE d_rd_fwd(path)
  <2>1. look.on /\ ~look.m2 /\ look.fq1 /\ look.fwd # NoData
    BY <1>2 DEF d_rd_fwd, dfp_look
  <2>2. ~(ex # None /\ Lwo(ex, rdq))
    BY <1>1, <1>2 DEF d_rd_fwd, ex_st_ans, older_store
  <2> QED BY <1>2, <2>1, <2>2 DEF LookedUp
<1>3. CASE ~d_rd_fwd(path) /\ ReadyHit(path)
    BY <1>1, <1>3, ReadyIsRight
<1>4. CASE ~d_rd_fwd(path) /\ ~ReadyHit(path)
  <2>1. look.on /\ look.m2
    BY <1>4 DEF FastAnswer, d_rd_fast, dfp_m2
  <2> QED BY <1>4, <2>1 DEF LookedUp
<1> QED BY <1>2, <1>3, <1>4

LEMMA ReadsLatestStep ==
    ASSUME StorePath, Outstanding, Expected, LookedUp, PortRead, NEW answer, NEW path, NEW f_req,
           NEW flush, NEW rd_req, NEW disp, NEW late, NEW resume,
           Step(answer, path, f_req, flush, rd_req, disp, late, resume)
    PROVE  ReadsLatest'
<1> SUFFICES ASSUME Follows', rd_ack', ~ans'.err PROVE ans'.data = rdexp'
    BY DEF ReadsLatest, Follows, rd_pend, rd_ack
<1>1. Completes(answer, "rd") \/ FastAnswer(path)
    BY SlotMoves DEF rd_ack
<1>2. rd_req = None
    BY <1>1, SlotMoves
<1>3. ~wb_fault /\ StillRead(late, disp)
    BY <1>2, FollowsAfter
<1>4. Follows /\ rdexp' = rdexp
    BY <1>3 DEF StillRead
<1>5. ans' = IF Completes(answer, "rd")
             THEN [on |-> TRUE, err |-> answer = "flt",
                   data |-> IF answer = "flt" THEN NoData ELSE xfer.acc \o Fetched(mem, Piece)]
             ELSE IF FastAnswer(path)
             THEN [on |-> TRUE, err |-> FALSE,
                   data |-> IF d_rd_fwd(path) THEN look.fwd ELSE look.data]
             ELSE NoAns
    BY DEF Step, Clock, Slot
<1>6. CASE Completes(answer, "rd")
  <2>1. answer # "flt" /\ ans'.data = xfer.acc \o Fetched(mem, Piece)
    BY <1>5, <1>6
  <2>2. answer \in Answers
    BY DEF Step
  <2> QED BY <1>3, <1>4, <1>6, <2>1, <2>2, AnswerFromPort
<1>7. CASE ~Completes(answer, "rd") /\ FastAnswer(path)
  <2>1. ans'.data = IF d_rd_fwd(path) THEN look.fwd ELSE look.data
    BY <1>5, <1>7
  <2> QED BY <1>4, <1>7, <2>1, AnswerFromPath
<1> QED BY <1>1, <1>6, <1>7

LEMMA ReadOrderInit == ASSUME Init PROVE ReadOrder
<1>1. ~rd_pend /\ ~rd_ack /\ ldx = "none" /\ dq = None /\ look = NoLook
    BY DEF Init, rd_pend, rd_ack, NoAns
<1> QED BY <1>1 DEF ReadOrder, Outstanding, Expected, LookedUp, PortRead, ReadsLatest, Follows

LEMMA ReadOrderStep == ASSUME StorePath, Written, ReadOrder, [Next]_vars PROVE ReadOrder'
<1>1. CASE Next
  <2>1. PICK answer, path, f_req, flush, rd_req, disp, late, resume :
            Step(answer, path, f_req, flush, rd_req, disp, late, resume)
    BY <1>1, StepOfNext
  <2>2. Outstanding /\ Expected /\ LookedUp /\ PortRead
    BY DEF ReadOrder
  <2>3. Outstanding'
    BY <2>1, <2>2, OutstandingStep
  <2>4. Expected'
    BY <2>1, <2>2, ExpectedStep
  <2>5. LookedUp'
    BY <2>1, <2>2, LookedUpStep
  <2>6. PortRead'
    BY <2>1, <2>2, PortReadStep
  <2>7. ReadsLatest'
    BY <2>1, <2>2, ReadsLatestStep
  <2> QED BY <2>3, <2>4, <2>5, <2>6, <2>7 DEF ReadOrder
<1>2. CASE UNCHANGED vars
  <2> USE <1>2 DEF vars, bcu, eaf, ghosts
  <2>1. Follows' = Follows /\ rd_pend' = rd_pend /\ rd_ack' = rd_ack
    BY DEF Follows, rd_pend, rd_ack
  <2>2. Stores(None)' = Stores(None)
    BY DEF Stores
  <2>3. Older' = Older
    BY <2>2 DEF Older
  <2>4. Outstanding'
    BY <2>1 DEF ReadOrder, Outstanding
  <2>5. Expected'
    BY <2>1, <2>3 DEF ReadOrder, Expected
  <2>6. LookedUp'
    BY <2>1, <2>2 DEF ReadOrder, LookedUp
  <2>7. PortRead'
    BY <2>1, <2>3 DEF ReadOrder, PortRead
  <2>8. ReadsLatest'
    BY <2>1 DEF ReadOrder, ReadsLatest
  <2> QED BY <2>4, <2>5, <2>6, <2>7, <2>8 DEF ReadOrder
<1> QED BY <1>1, <1>2 DEF vars

\* While a read is outstanding its lookup, its piece on the port and memory agree
\* with the stores older than it (ap040_pipe_core.v, the data read path;
\* ap040_pipe_bcu.v, the read slot and go_rd).
THEOREM BcuReadOrder == Spec => []ReadOrder
<1>1. Init => ReadOrder
    BY ReadOrderInit
<1>2. StorePath /\ Written /\ ReadOrder /\ [Next]_vars => ReadOrder'
    BY ReadOrderStep
<1> QED BY <1>1, <1>2, BcuInductive, BcuWritten, PTL DEF Spec

\* A data read's answer holds, byte for byte, what the program's stores older than
\* the read have written, whether it is forwarded from a store on the way, read on
\* the data read path or fetched by the port (ap040_pipe_core.v, d_rd_fwd, d_rd_fast;
\* ap040_pipe_bcu.v, go_rd and rd_ack).
THEOREM BcuReadsLatest == Spec => []ReadsLatest
<1>1. ReadOrder => ReadsLatest
    BY DEF ReadOrder
<1> QED BY <1>1, BcuReadOrder, PTL
====
