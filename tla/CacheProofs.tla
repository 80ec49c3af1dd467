---- MODULE CacheProofs ----
(***************************************************************************)
(* The data cache between the core, the table search, the memory port and  *)
(* the strobes, for every number of sets, ways, words of a line and        *)
(* longwords of memory, every set of requests and of strobed longwords.    *)
(***************************************************************************)
EXTENDS CacheSystem, Integers, WellFoundedInduction, TLAPS

Tag == 0..(Space \div (Beats * Sets)) - 1
OpSet == Ops \cup {NoOp} \cup {[o EXCEPT !.miss = FALSE] : o \in Ops}

States == {"IDLE", "LOOK", "FERR", "WINV", "FILL", "TAGW", "PASS", "SWEEP", "PUSH", "WLOOK"}
Fields == {"cst", "ack", "a", "n", "way", "beat", "st_chk", "st_posted", "r_cb", "dr", "sil",
           "winv", "set2", "err_hold", "ci_chk", "ci_inv", "p", "wk_chk", "wl_ph", "cnt",
           "cinv_done", "post_err"}

\* A drain, a push, and the FSM's registers.
Drain(d) == d \in [on : BOOLEAN, a : Addr, n : 1..2] /\ Touched(d) \subseteq Addr
Pushing(p) ==
    /\ DOMAIN p = {"set", "mask", "way", "out", "rb", "wb", "req", "ret", "tag"}
    /\ p.set \in Set /\ p.mask \subseteq Way /\ p.way \in Way /\ p.out \in BOOLEAN
    /\ p.rb \in 0..Beats /\ p.wb \in Word /\ p.req \in BOOLEAN
    /\ p.ret \in {"IDLE", "LOOK", "SWEEP"} /\ p.tag \in Tag
Regs(r) ==
    /\ DOMAIN r = Fields /\ r.cst \in States
    /\ r.ack \in BOOLEAN /\ r.st_chk \in BOOLEAN /\ r.st_posted \in BOOLEAN /\ r.r_cb \in BOOLEAN
    /\ r.winv \in BOOLEAN /\ r.err_hold \in BOOLEAN /\ r.ci_chk \in BOOLEAN
    /\ r.wk_chk \in BOOLEAN /\ r.wl_ph \in BOOLEAN /\ r.cinv_done \in BOOLEAN
    /\ r.post_err \in BOOLEAN
    /\ r.a \in Addr /\ r.n \in 1..2 /\ Touched(r) \subseteq Addr
    /\ Drain(r.dr) /\ r.way \in Way /\ r.beat \in Word
    /\ r.sil \in Set \cup {Nil} /\ r.ci_inv \in Set \cup {Nil} /\ r.set2 \in Set
    /\ Pushing(r.p) /\ r.cnt \in 0..2 * Sets - 1

Tables ==
    /\ vb \in [Set -> SUBSET Way] /\ db \in [Set -> SUBSET Way] /\ rr \in [Set -> Way]
    /\ tags \in [Set -> [Way -> Tag]] /\ cdata \in [Set -> [Way -> [Word -> Cell]]]
    /\ vq \subseteq Way /\ rq \in Way /\ tq \in [Way -> Tag] /\ dq \in [Way -> Cell]
    /\ pbuf \in [Word -> Cell]
    /\ fill_snooped \in BOOLEAN /\ look_snooped \in BOOLEAN /\ st_snooped \in BOOLEAN

Search ==
    /\ wst \in {"idle", "sweep", "go", "tab", "utab", "page", "uc", "fill", "flt"}
    /\ w_active \in BOOLEAN /\ w_issued \in BOOLEAN /\ w_req_wr \in BOOLEAN
    /\ w_req_addr \in Addr /\ sweep_cnt \in Nat /\ walker_wr_d \in BOOLEAN
    /\ wst \in {"tab", "utab", "page"} => w_active
    /\ w_active => wst \in {"tab", "utab", "page", "fill"}
    /\ w_issued => w_active

Others ==
    /\ core \in {"none", "access", "cinv", "ptest"} /\ op \in OpSet
    /\ wsnp \in Cell /\ s_last \in BOOLEAN /\ m_up \in BOOLEAN /\ mem \subseteq Addr
    /\ stale_read \in BOOLEAN /\ stale_desc \in BOOLEAN /\ turn \in BOOLEAN

Types == Regs(c) /\ Tables /\ Search /\ Others

\* One clock with its inputs chosen; i is what the cache's pins show in it.
Inputs(i, ce, snp, ans, w_ans) ==
    /\ i.ce = ce /\ i.req = c_req /\ i.op = op /\ i.cinv = (core = "cinv")
    /\ i.walk_busy = w_active /\ i.wk_pend = walk_pend /\ i.wk_addr = w_req_addr
    /\ i.stb = IF snp # Nil THEN snp ELSE wsnp
    /\ i.ans = ans /\ i.rdata = IF fill_addr \in mem THEN fill_addr ELSE Nil
    /\ i.fresh = Renewed(ce, snp, ans, w_ans) \cup Taken(i)
    /\ ce \in BOOLEAN /\ snp \in Dma \cup {Nil} /\ ans \in {"none", "ack", "err"}
    /\ w_ans \in {"none", "ack"}
    /\ ans # "none" => ce /\ m_req(c_req) /\ m_up
    /\ ans = "err" => (IF Late THEN "late" ELSE "demand") \in Errors
    /\ w_ans = "ack" => ce /\ walker_req
    /\ ce /\ snp # Nil => ~s_last

Step(i, ce, snp, ans, w_ans) ==
    /\ Inputs(i, ce, snp, ans, w_ans)
    /\ CacheClock(i)
    /\ IF ce THEN CoreStep(ans, Walked) /\ MmuStep(w_ans, wk_wait(i))
       ELSE UNCHANGED <<core, op, wst, w_active, w_issued, w_req_wr, w_req_addr, sweep_cnt>>
    /\ walker_wr_d' = (walker_req /\ w_req_wr)
    /\ wsnp' = IF walker_req /\ w_req_wr /\ ~walker_wr_d THEN w_req_addr
               ELSE IF snp = Nil THEN Nil ELSE wsnp
    /\ s_last' = IF ce THEN snp # Nil ELSE s_last
    /\ m_up' = IF ce THEN m_req(c_req) /\ ans = "none" ELSE m_up
    /\ mem' = (mem \ (Taken(i) \cup Spoiled(ce, ans))) \cup
              (Landed(ce, snp, ans, w_ans) \ Taken(i))
    /\ stale_read' = (stale_read \/ ServesStale(ce, i))
    /\ stale_desc' = \/ stale_desc
                     \/ ce /\ w_ans = "ack" /\ ~w_req_wr /\ w_req_addr \notin mem
    /\ turn' = (turn # Quiet(ce, snp, ans, w_ans))

LEMMA TakenSame ==
    ASSUME NEW i, NEW j, i.ce = j.ce, i.req = j.req, i.op = j.op, i.cinv = j.cinv,
           i.walk_busy = j.walk_busy, i.wk_pend = j.wk_pend, i.wk_addr = j.wk_addr,
           i.stb = j.stb, i.ans = j.ans
    PROVE  Taken(i) = Taken(j)
<1>1. Base(i) = Base(j)
    BY DEF Base, ci_inv, snoop_wr, s_stb, SnoopsSet, store_inv, StoreClears, Asked, need_push,
           Cinv, fill_err_inv
<1>2. c.cst = "IDLE" => Idle(i) = Idle(j)
    BY <1>1 DEF Idle, wk_push, Cinv, need_push, Asked, PushForAccess, AcceptWrite, AcceptUpdate,
           AcceptStore, AcceptBypass, AcceptRead
<1>3. c.cst = "IDLE" => Fsm(i) = Fsm(j)
    BY <1>2 DEF Fsm
<1> QED BY <1>3 DEF Taken

LEMMA StepOfClock ==
    ASSUME NEW ce \in BOOLEAN, NEW snp \in Dma \cup {Nil}, NEW ans \in {"none", "ack", "err"},
           NEW w_ans \in {"none", "ack"}, Clock(ce, snp, ans, w_ans),
           ans # "none" => ce /\ m_req(c_req) /\ m_up,
           ans = "err" => (IF Late THEN "late" ELSE "demand") \in Errors,
           w_ans = "ack" => ce /\ walker_req,
           ce /\ snp # Nil => ~s_last
    PROVE  \E i : Step(i, ce, snp, ans, w_ans)
<1> DEFINE i0 == CacheIn(ce, snp, ans, Renewed(ce, snp, ans, w_ans))
           i == [i0 EXCEPT !.fresh = @ \cup Taken(i0)]
<1>1. /\ i.ce = ce /\ i.req = c_req /\ i.op = op /\ i.cinv = (core = "cinv")
      /\ i.walk_busy = w_active /\ i.wk_pend = walk_pend /\ i.wk_addr = w_req_addr
      /\ i.stb = (IF snp # Nil THEN snp ELSE wsnp)
      /\ i.ans = ans /\ i.rdata = (IF fill_addr \in mem THEN fill_addr ELSE Nil)
      /\ i.fresh = Renewed(ce, snp, ans, w_ans) \cup Taken(i0)
    BY DEF CacheIn
<1>2. Taken(i) = Taken(i0)
  <2>1. /\ i.ce = i0.ce /\ i.req = i0.req /\ i.op = i0.op /\ i.cinv = i0.cinv
        /\ i.walk_busy = i0.walk_busy /\ i.wk_pend = i0.wk_pend /\ i.wk_addr = i0.wk_addr
        /\ i.stb = i0.stb /\ i.ans = i0.ans
    BY DEF CacheIn
  <2> QED BY <2>1, TakenSame
<1>3. Inputs(i, ce, snp, ans, w_ans)
    BY <1>1, <1>2 DEF Inputs
<1>4. Step(i, ce, snp, ans, w_ans)
    BY <1>3 DEF Step, Clock
<1> QED BY <1>4

LEMMA StepOfNext ==
    ASSUME Next
    PROVE  \E i, ce, snp, ans, w_ans : Step(i, ce, snp, ans, w_ans)
<1>1. CASE \E snp \in Dma \cup {Nil}, ans \in {"none", "ack", "err"}, w_ans \in {"none", "ack"} :
               Enabled(snp, ans, w_ans)
  <2>1. PICK snp \in Dma \cup {Nil}, ans \in {"none", "ack", "err"}, w_ans \in {"none", "ack"} :
            Enabled(snp, ans, w_ans)
    BY <1>1
  <2>2. /\ ans # "none" => m_req(c_req) /\ m_up
        /\ ans = "err" => (IF Late THEN "late" ELSE "demand") \in Errors
        /\ w_ans = "ack" => walker_req
        /\ snp # Nil => ~s_last
    BY <2>1 DEF Enabled, Answers
  <2> QED BY <2>1, <2>2, StepOfClock DEF Enabled
<1>2. CASE \E snp \in Dma : Frozen(snp)
  <2>1. PICK snp \in Dma : Frozen(snp)
    BY <1>2
  <2> QED BY <2>1, StepOfClock DEF Frozen
<1> QED BY <1>1, <1>2 DEF Next

----------------------------------------------------------------------------
\* Quotient and remainder, and only one such pair.
LEMMA Divided ==
    ASSUME NEW d \in Nat \ {0}, NEW x \in Nat
    PROVE  x \div d \in Nat /\ x % d \in 0..d - 1 /\ x = d * (x \div d) + (x % d)
    OBVIOUS

LEMMA DividedOnce ==
    ASSUME NEW d \in Nat \ {0}, NEW q \in Nat, NEW r \in 0..d - 1
    PROVE  (d * q + r) \div d = q /\ (d * q + r) % d = r
<1> DEFINE x == d * q + r
           p == x \div d
           m == x % d
<1>1. x \in Nat
    OBVIOUS
<1>2. p \in Nat /\ m \in 0..d - 1 /\ x = d * p + m
    BY <1>1, Divided
<1> HIDE DEF p, m
<1>3. CASE p > q
  <2>1. d * p >= d * (q + 1) /\ d * (q + 1) = d * q + d
    BY <1>2, <1>3
  <2> QED BY <1>2, <2>1
<1>4. CASE p < q
  <2>1. d * q >= d * (p + 1) /\ d * (p + 1) = d * p + d
    BY <1>2, <1>4
  <2> QED BY <1>2, <2>1
<1> QED BY <1>2, <1>3, <1>4 DEF p, m

LEMMA Sizes == /\ Sets \in Nat \ {0} /\ Ways \in Nat \ {0} /\ Beats \in Nat \ {0}
               /\ Space \in Nat \ {0} /\ Beats * Sets \in Nat \ {0}
               /\ Space = (Beats * Sets) * (Space \div (Beats * Sets))
               /\ Space \div (Beats * Sets) \in Nat \ {0}
<1>1. /\ Sets \in Nat \ {0} /\ Ways \in Nat \ {0} /\ Beats \in Nat \ {0} /\ Space \in Nat \ {0}
      /\ Space % (Sets * Beats) = 0
    BY CacheAssumption
<1>2. Beats * Sets \in Nat \ {0} /\ Beats * Sets = Sets * Beats
    BY <1>1
<1> DEFINE d == Beats * Sets
<1>3. d \in Nat \ {0} /\ Space % d = 0
    BY <1>1, <1>2
<1> HIDE DEF d
<1>4. Space \div d \in Nat /\ Space = d * (Space \div d)
    BY <1>1, <1>3, Divided
<1>5. Space \div d # 0
    BY <1>1, <1>3, <1>4
<1> QED BY <1>1, <1>2, <1>4, <1>5 DEF d

LEMMA NilIsNone == Nil \notin Addr /\ Nil \notin Set /\ 0 \in Addr /\ 0 \in Set /\ 0 \in Word /\ 0 \in Way /\ 0 \in Tag
<1>1. Sets <= Space
  <2> DEFINE q == Space \div (Beats * Sets)
  <2>1. q \in Nat \ {0} /\ Space = (Beats * Sets) * q
    BY Sizes
  <2> HIDE DEF q
  <2>2. Sets <= Beats * Sets
    BY Sizes
  <2>3. Beats * Sets <= (Beats * Sets) * q
    BY <2>1, Sizes
  <2> QED BY <2>1, <2>2, <2>3, Sizes
<1> QED BY <1>1, Sizes DEF Nil, Addr, Set, Word, Way, Tag

\* The fields of an address, and the address of its fields.
LEMMA PartsOf ==
    ASSUME NEW t \in Nat, NEW s \in Set, NEW b \in Word
    PROVE  /\ WordOf(AddrOf(t, s, b)) = b /\ SetOf(AddrOf(t, s, b)) = s
           /\ TagOf(AddrOf(t, s, b)) = t /\ AddrOf(t, s, b) \in Nat
           /\ AddrOf(t, s, b) \div Beats = t * Sets + s
<1> DEFINE r == t * Sets + s
           a == AddrOf(t, s, b)
<1>1. r \in Nat /\ a = Beats * r + b /\ r = Sets * t + s
    BY Sizes DEF AddrOf, Set, Word
<1> HIDE DEF r, a
<1>2. a % Beats = b /\ a \div Beats = r
    BY <1>1, Sizes, DividedOnce DEF Word
<1>3. r % Sets = s
    BY <1>1, Sizes, DividedOnce DEF Set
<1>4. a = (Beats * Sets) * t + (Beats * s + b) /\ Beats * s + b \in 0..(Beats * Sets) - 1
  <2>1. Beats * r = (Beats * Sets) * t + Beats * s
    BY <1>1, Sizes DEF Set
  <2>2. Beats * s <= Beats * (Sets - 1) /\ Beats * (Sets - 1) = Beats * Sets - Beats
    BY Sizes DEF Set
  <2>3. Beats * s \in Nat /\ b \in 0..Beats - 1 /\ Beats * Sets \in Nat
    BY Sizes DEF Set, Word
  <2> QED BY <1>1, <2>1, <2>2, <2>3, Sizes
<1>5. a \div (Beats * Sets) = t
    BY <1>4, Sizes, DividedOnce
<1>6. a \in Nat
    BY <1>1, Sizes DEF Word
<1> QED BY <1>1, <1>2, <1>3, <1>5, <1>6 DEF WordOf, SetOf, TagOf, a, r

LEMMA InSpace ==
    ASSUME NEW t \in Tag, NEW s \in Set, NEW b \in Word
    PROVE  AddrOf(t, s, b) \in Addr
<1> DEFINE q == Space \div (Beats * Sets)
           K == Beats * Sets
<1>1. q \in Nat /\ Space = K * q /\ K \in Nat \ {0} /\ t \in 0..q - 1
    BY Sizes DEF Tag
<1>2. AddrOf(t, s, b) = K * t + (Beats * s + b)
  <2>1. (t * Sets + s) * Beats = (Beats * Sets) * t + Beats * s
    BY Sizes DEF Set, Tag
  <2> QED BY <2>1, Sizes DEF AddrOf, Set, Word, Tag
<1>3. Beats * s + b \in 0..K - 1
  <2>1. Beats * s <= Beats * (Sets - 1) /\ Beats * (Sets - 1) = Beats * Sets - Beats
    BY Sizes DEF Set
  <2>2. Beats * s \in Nat /\ b \in 0..Beats - 1
    BY Sizes DEF Set, Word
  <2> QED BY <2>1, <2>2, Sizes
<1> DEFINE e == Beats * s + b
<1> HIDE DEF q, K, e
<1>4. e \in 0..K - 1 /\ AddrOf(t, s, b) = K * t + e
    BY <1>2, <1>3 DEF e
<1>5. K * (t + 1) <= K * q /\ K * (t + 1) = K * t + K
    BY <1>1
<1>6. K * t \in Nat
    BY <1>1
<1> QED BY <1>1, <1>4, <1>5, <1>6 DEF Addr

LEMMA AddrParts ==
    ASSUME NEW a \in Addr
    PROVE  /\ WordOf(a) \in Word /\ SetOf(a) \in Set /\ TagOf(a) \in Tag
           /\ AddrOf(TagOf(a), SetOf(a), WordOf(a)) = a
<1> DEFINE r == a \div Beats
           t == r \div Sets
<1>1. a \in Nat /\ a < Space
    BY Sizes DEF Addr
<1>2. r \in Nat /\ a % Beats \in Word /\ a = Beats * r + (a % Beats)
    BY <1>1, Sizes, Divided DEF Word
<1>3. t \in Nat /\ r % Sets \in Set /\ r = Sets * t + (r % Sets)
  <2> HIDE DEF r
  <2> QED BY <1>2, Sizes, Divided DEF Set
<1>4. WordOf(a) \in Word /\ SetOf(a) \in Set
    BY <1>2, <1>3 DEF WordOf, SetOf
<1> HIDE DEF r, t
<1>5. a = AddrOf(t, SetOf(a), WordOf(a))
  <2>1. SetOf(a) = r % Sets /\ WordOf(a) = a % Beats
    BY DEF SetOf, WordOf, r
  <2>2. r = t * Sets + SetOf(a)
    BY <1>3, <1>4, <2>1, Sizes DEF Set
  <2>3. a = r * Beats + WordOf(a)
    BY <1>2, <1>4, <2>1, Sizes DEF Word
  <2> QED BY <2>2, <2>3 DEF AddrOf
<1>6. TagOf(a) = t
    BY <1>3, <1>4, <1>5, PartsOf
<1>7. t \in Tag
  <2> DEFINE q == Space \div (Beats * Sets)
             K == Beats * Sets
  <2>1. q \in Nat /\ Space = K * q /\ K \in Nat \ {0}
    BY Sizes
  <2>2. K * t <= a
    <3>1. a = (Beats * Sets) * t + (Beats * SetOf(a) + WordOf(a))
      <4>1. (t * Sets + SetOf(a)) * Beats = (Beats * Sets) * t + Beats * SetOf(a)
        BY <1>3, <1>4, Sizes DEF Set
      <4> QED BY <1>3, <1>4, <1>5, <4>1, Sizes DEF AddrOf, Set, Word
    <3>2. Beats * SetOf(a) \in Nat /\ WordOf(a) \in Nat /\ (Beats * Sets) * t \in Nat
      BY <1>3, <1>4, Sizes DEF Set, Word
    <3> QED BY <1>1, <3>1, <3>2
  <2> HIDE DEF q, K
  <2>3. CASE t >= q
    <3>1. K * q <= K * t /\ K * t \in Nat
      BY <1>3, <2>1, <2>3
    <3> QED BY <1>1, <2>1, <2>2, <3>1
  <2>4. CASE ~(t >= q)
    BY <1>3, <2>1, <2>4 DEF Tag, q
  <2> QED BY <2>3, <2>4
<1> QED BY <1>4, <1>5, <1>6, <1>7

\* The least of some ways.
LEMMA LowestWay ==
    ASSUME NEW m, m \subseteq Way, m # {}
    PROVE  LowWay(m) \in m
<1>1. m \subseteq Nat
    BY Sizes DEF Way
<1>2. PICK x \in m : \A y \in m : ~(<<y, x>> \in OpToRel(<, Nat))
    BY <1>1, NatLessThanWellFounded, WFMin
<1>3. \A y \in m : ~(y < x)
    BY <1>1, <1>2 DEF OpToRel
<1>4. \A y \in m : x <= y
    BY <1>1, <1>3
<1> QED BY <1>4 DEF LowWay

----------------------------------------------------------------------------
(* Types *)

\* An access.
Access(o) ==
    /\ o \in [kind : {"read", "write"}, a : Addr, n : 1..2, ci : BOOLEAN, cb : BOOLEAN,
              miss : BOOLEAN]
    /\ Touched(o) \subseteq Addr
    /\ o.cb => \A d \in Dma : d \div Beats # o.a \div Beats

LEMMA OpsAreAccesses == ASSUME NEW o \in OpSet PROVE Access(o) \/ o = NoOp
<1>1. CASE o \in Ops
    BY <1>1, SystemAssumption DEF Access
<1>2. ASSUME NEW q \in Ops, o = [q EXCEPT !.miss = FALSE] PROVE Access(o)
  <2>1. Access(q)
    BY SystemAssumption DEF Access
  <2>2. /\ o.kind = q.kind /\ o.a = q.a /\ o.n = q.n /\ o.ci = q.ci /\ o.cb = q.cb
        /\ o \in [kind : {"read", "write"}, a : Addr, n : 1..2, ci : BOOLEAN, cb : BOOLEAN,
                  miss : BOOLEAN]
    BY <1>2, <2>1 DEF Access
  <2> QED BY <2>1, <2>2 DEF Access, Touched
<1> QED BY <1>1, <1>2 DEF OpSet

LEMMA OpType ==
    ASSUME NEW o \in OpSet
    PROVE  /\ o \in [kind : {"read", "write"}, a : Addr, n : 1..2, ci : BOOLEAN, cb : BOOLEAN,
                     miss : BOOLEAN]
           /\ Touched(o) \subseteq Addr
<1>1. CASE Access(o)
    BY <1>1 DEF Access
<1>2. CASE o = NoOp
  <2>1. 0 \in Addr
    BY NilIsNone
  <2> QED BY <1>2, <2>1 DEF NoOp, Touched
<1> QED BY <1>1, <1>2, OpsAreAccesses

\* What the pins can show.
Pins(i) ==
    /\ i.ce \in BOOLEAN /\ i.req \in BOOLEAN /\ i.cinv \in BOOLEAN /\ i.walk_busy \in BOOLEAN
    /\ i.wk_pend \in BOOLEAN /\ i.wk_addr \in Addr /\ i.stb \in Cell
    /\ i.ans \in {"none", "ack", "err"} /\ i.rdata \in Cell
    /\ i.op \in OpSet

LEMMA PinsOf ==
    ASSUME Types, NEW i, NEW ce, NEW snp, NEW ans, NEW w_ans, Inputs(i, ce, snp, ans, w_ans)
    PROVE  Pins(i)
<1>1. i.stb \in Cell /\ i.rdata \in Cell
    BY SystemAssumption DEF Inputs, Types, Others, Cell
<1>2. c_req \in BOOLEAN /\ walk_pend \in BOOLEAN
    BY DEF c_req, walk_pend, Types, Search
<1> QED BY <1>1, <1>2 DEF Inputs, Pins, Types, Others, Search

LEMMA SetOfNat == ASSUME NEW a \in Nat PROVE SetOf(a) \in Set /\ (SetOf(a) + 1) % Sets \in Set
<1>1. a \div Beats \in Nat
    BY Sizes
<1> DEFINE r == a \div Beats
<1> HIDE DEF r
<1>2. r % Sets \in 0..Sets - 1
    BY <1>1, Sizes DEF r
<1> DEFINE q == r % Sets
<1> HIDE DEF q
<1>3. q \in 0..Sets - 1 /\ (q + 1) % Sets \in 0..Sets - 1
    BY <1>2, Sizes DEF q
<1> QED BY <1>2, <1>3 DEF SetOf, Set, q, r

LEMMA BaseRegs ==
    ASSUME Regs(c), NEW i, Pins(i)
    PROVE  Regs(Base(i))
<1>1. Drain(NoDrain)
    BY NilIsNone DEF NoDrain, Drain, Touched
<1>2. i.op.a \in Nat /\ SetOf(i.op.a) \in Set
    BY OpType, SetOfNat DEF Pins, Addr
<1> DEFINE dr == IF c.dr.on /\ i.ans # "none" THEN NoDrain ELSE c.dr
           sil == IF snoop_wr(i) /\ StoreClears(i) THEN SetOf(i.op.a)
                  ELSE IF s_stb(i) THEN c.sil ELSE Nil
           ci == IF ci_inv(i) THEN Nil ELSE c.ci_inv
           perr == c.dr.on /\ i.ans = "err"
           chk == c.wk_chk /\ i.wk_pend
<1>3. /\ Drain(dr) /\ sil \in Set \cup {Nil} /\ ci \in Set \cup {Nil} /\ perr \in BOOLEAN
      /\ chk \in BOOLEAN
    BY <1>1, <1>2 DEF Regs, Pins, Drain
<1>4. Base(i) = [c EXCEPT !.ack = FALSE, !.cinv_done = FALSE, !.post_err = perr, !.wk_chk = chk,
                          !.ci_inv = ci, !.dr = dr, !.sil = sil]
    BY DEF Base
<1> HIDE DEF dr, sil, ci, perr, chk
<1> QED BY <1>3, <1>4 DEF Regs, Fields, Touched

\* What an enabled clock does in every state, and the two ways the FSM answers.
LEMMA BaseKeeps ==
    ASSUME Regs(c), NEW i
    PROVE  /\ Base(i).cst = c.cst /\ Base(i).a = c.a /\ Base(i).n = c.n /\ Base(i).way = c.way
           /\ Base(i).beat = c.beat /\ Base(i).st_chk = c.st_chk
           /\ Base(i).st_posted = c.st_posted /\ Base(i).r_cb = c.r_cb
           /\ Base(i).winv = c.winv /\ Base(i).set2 = c.set2
           /\ Base(i).err_hold = c.err_hold /\ Base(i).ci_chk = c.ci_chk /\ Base(i).p = c.p
           /\ Base(i).wl_ph = c.wl_ph /\ Base(i).cnt = c.cnt
           /\ Base(i).ack = FALSE /\ Base(i).cinv_done = FALSE
<1> QED BY DEF Base, Regs, Fields

LEMMA AnswerRegs ==
    ASSUME NEW b, Regs(b)
    PROVE  /\ Regs([b EXCEPT !.ack = TRUE]) /\ Regs([b EXCEPT !.cinv_done = TRUE, !.cnt = 0])
<1>1. 0 \in 0..2 * Sets - 1
    BY Sizes
<1> QED BY <1>1 DEF Regs, Fields, Touched

LEMMA IdleRegs ==
    ASSUME NEW b, Regs(b)
    PROVE  Regs(ToIdle(b))
<1>1. 0..(0 + 1 - 1) \subseteq Addr
    BY NilIsNone
<1> QED BY <1>1, NilIsNone DEF ToIdle, Regs, Fields, States, Touched

LEMMA PushRegs ==
    ASSUME NEW b, Regs(b), NEW set \in Set, NEW mask, mask \subseteq Way, mask # {},
           NEW ret \in {"IDLE", "LOOK", "SWEEP"}
    PROVE  Regs(StartPush(b, set, mask, ret))
<1> DEFINE q == [NoPush EXCEPT !.set = set, !.mask = mask, !.way = LowWay(mask), !.ret = ret]
<1>1. Pushing(q)
  <2>1. LowWay(mask) \in Way
    BY LowestWay
  <2>2. 0 \in 0..Beats
    BY Sizes
  <2> QED BY <2>1, <2>2, NilIsNone DEF NoPush, Pushing
<1> HIDE DEF q
<1>2. StartPush(b, set, mask, ret) = [b EXCEPT !.cst = "PUSH", !.p = q]
    BY DEF StartPush, q
<1> QED BY <1>1, <1>2 DEF Regs, Fields, States, Touched

LEMMA AcceptRegs ==
    ASSUME Regs(c), Tables, NEW i, Pins(i)
    PROVE  Regs(Idle(i))
<1> DEFINE b == [Base(i) EXCEPT !.err_hold = @ /\ i.req]
           o == i.op
<1>1. Regs(b)
  <2>1. Regs(Base(i))
    BY BaseRegs
  <2> DEFINE e == Base(i).err_hold /\ i.req
             r == Base(i)
  <2>2. e \in BOOLEAN /\ b = [r EXCEPT !.err_hold = e] /\ Regs(r)
    BY <2>1 DEF Regs, Pins
  <2> HIDE DEF e, r, b
  <2> QED BY <2>2 DEF Regs, Fields, Touched
<1> HIDE DEF b
<1>2. /\ o \in [kind : {"read", "write"}, a : Addr, n : 1..2, ci : BOOLEAN, cb : BOOLEAN,
                miss : BOOLEAN]
      /\ Touched(o) \subseteq Addr
    BY OpType DEF Pins
<1>3. SetOf(o.a) \in Set /\ NextSet(o.a) \in Set /\ Crosses(o) \in BOOLEAN /\ Posts(o) \in BOOLEAN
    BY <1>2, SetOfNat DEF Addr, NextSet, Crosses, Posts
<1>4. Regs([b EXCEPT !.cst = "WLOOK", !.wl_ph = FALSE, !.p.set = SetOf(i.wk_addr)])
  <2> DEFINE q == [b.p EXCEPT !.set = SetOf(i.wk_addr)]
  <2>1. SetOf(i.wk_addr) \in Set
    BY AddrParts DEF Pins
  <2>2. Pushing(q)
    BY <1>1, <2>1 DEF Regs, Pushing
  <2>3. [b EXCEPT !.cst = "WLOOK", !.wl_ph = FALSE, !.p.set = SetOf(i.wk_addr)]
            = [b EXCEPT !.cst = "WLOOK", !.wl_ph = FALSE, !.p = q]
    OBVIOUS
  <2> HIDE DEF q
  <2> QED BY <1>1, <2>2, <2>3 DEF Regs, Fields, States, Touched
<1>5. Regs([b EXCEPT !.cst = "SWEEP", !.cnt = 0])
  <2>1. 0 \in 0..2 * Sets - 1
    BY Sizes
  <2> QED BY <1>1, <2>1 DEF Regs, Fields, States, Touched
<1>6. ASSUME need_push(i) PROVE Regs(PushForAccess(b, i))
  <2>1. /\ db[SetOf(o.a)] \subseteq Way /\ db[NextSet(o.a)] \subseteq Way
        /\ db[SetOf(o.a)] # {} \/ db[NextSet(o.a)] # {}
    BY <1>3, <1>6 DEF Tables, need_push
  <2> QED BY <1>1, <1>3, <2>1, PushRegs DEF PushForAccess
<1>7. Regs(AcceptUpdate(b, i))
    BY <1>1, <1>2 DEF AcceptUpdate, Regs, Fields, States, Touched
<1>8. Regs(AcceptStore(b, i))
    BY <1>1, <1>2, <1>3 DEF AcceptStore, Regs, Fields, States, Touched
<1>9. Regs(AcceptBypass(b, i))
    BY <1>1, <1>2 DEF AcceptBypass, Regs, Fields, States, Touched
<1>10. Regs(AcceptRead(b, i))
  <2>1. o.a..(o.a + 1 - 1) \subseteq Addr
    BY <1>2 DEF Addr
  <2> QED BY <1>1, <1>2, <2>1 DEF AcceptRead, Regs, Fields, States, Touched
<1>11. Regs(AcceptWrite(b, i))
    BY <1>1, <1>7, <1>8 DEF AcceptWrite
<1>12. Idle(i) = IF wk_push(i) /\ ~c.dr.on
                 THEN [b EXCEPT !.cst = "WLOOK", !.wl_ph = FALSE, !.p.set = SetOf(i.wk_addr)]
                 ELSE IF Cinv(i) /\ ~i.walk_busy THEN [b EXCEPT !.cst = "SWEEP", !.cnt = 0]
                 ELSE IF need_push(i) THEN PushForAccess(b, i)
                 ELSE IF ~Asked(i) \/ c.err_hold THEN b
                 ELSE IF i.op.kind = "write" THEN AcceptWrite(b, i)
                 ELSE IF c.ci_inv # Nil THEN b
                 ELSE IF Bypass(i.op) THEN IF c.dr.on THEN b ELSE AcceptBypass(b, i)
                 ELSE AcceptRead(b, i)
    BY DEF Idle, b
<1> QED BY <1>1, <1>4, <1>5, <1>6, <1>9, <1>10, <1>11, <1>12

LEMMA PassRegs ==
    ASSUME Regs(c), Tables, NEW i, Pins(i)
    PROVE  Regs(Pass(i))
<1> DEFINE busyB == s_stb(i) \/ c.sil # Nil
           wi == c.winv /\ busyB
           ci == IF c.ci_chk /\ look_hit THEN SetOf(c.a) ELSE Base(i).ci_inv
           sil == IF c.st_chk /\ st_snooped THEN SetOf(c.a) ELSE Base(i).sil
           r == Base(i)
           b == [r EXCEPT !.winv = wi, !.ci_chk = FALSE, !.st_chk = FALSE, !.ci_inv = ci,
                          !.sil = sil, !.st_posted = FALSE, !.r_cb = FALSE]
           left == IF c.winv /\ busyB THEN [b EXCEPT !.cst = "WINV"] ELSE ToIdle(b)
           dr == [on |-> TRUE, a |-> c.a, n |-> c.n]
<1>1. Regs(r) /\ r.winv = c.winv
    BY BaseRegs, BaseKeeps
<1>2. wi \in BOOLEAN /\ ci \in Set \cup {Nil} /\ sil \in Set \cup {Nil} /\ Drain(dr)
  <2>1. SetOf(c.a) \in Set
    BY AddrParts DEF Regs
  <2>2. Drain(dr)
    BY DEF Drain, Regs, Touched
  <2> QED BY <1>1, <2>1, <2>2 DEF Regs
<1>3. Pass(i) = IF c.st_posted /\ c.r_cb /\ st_merge(i) THEN ToIdle(b)
                ELSE IF c.st_posted THEN [left EXCEPT !.dr = dr]
                ELSE IF i.ans = "err" THEN [left EXCEPT !.err_hold = TRUE]
                ELSE IF i.ans = "ack" THEN left
                ELSE b
    BY <1>1 DEF Pass
<1> HIDE DEF busyB, wi, ci, sil, r, dr
<1>4. Regs(b)
    BY <1>1, <1>2 DEF Regs, Fields, Touched
<1> HIDE DEF b
<1>5. Regs(left)
    BY <1>4, IdleRegs DEF Regs, Fields, States, Touched
<1> HIDE DEF left
<1>6. Regs([left EXCEPT !.dr = dr]) /\ Regs([left EXCEPT !.err_hold = TRUE])
    BY <1>2, <1>5 DEF Regs, Fields, Touched
<1> QED BY <1>3, <1>4, <1>5, <1>6, IdleRegs

LEMMA LookRegs ==
    ASSUME Regs(c), Tables, NEW i, Pins(i)
    PROVE  Regs(Look(i))
<1>1. Regs(Base(i))
    BY BaseRegs
<1> DEFINE b == Base(i)
<1> HIDE DEF b
<1>2. Regs(b)
    BY <1>1 DEF b
<1>3. Regs([ToIdle(b) EXCEPT !.ack = TRUE])
    BY <1>2, IdleRegs, AnswerRegs
<1>4. ASSUME rq \in db[SetOf(c.a)] PROVE Regs(StartPush(b, SetOf(c.a), {rq}, "LOOK"))
  <2>1. SetOf(c.a) \in Set /\ rq \in Way
    BY AddrParts DEF Regs, Tables
  <2> QED BY <1>2, <2>1, PushRegs
<1>5. Regs([b EXCEPT !.cst = "FILL", !.way = rq, !.beat = 0])
    BY <1>2, NilIsNone DEF Regs, Fields, States, Tables, Touched
<1>6. Look(i) = IF LookHits(i) THEN [ToIdle(b) EXCEPT !.ack = TRUE]
                ELSE IF c.dr.on THEN b
                ELSE IF rq \in db[SetOf(c.a)]
                THEN IF i.walk_busy THEN b ELSE StartPush(b, SetOf(c.a), {rq}, "LOOK")
                ELSE [b EXCEPT !.cst = "FILL", !.way = rq, !.beat = 0]
    BY DEF Look, b
<1> QED BY <1>2, <1>3, <1>4, <1>5, <1>6

LEMMA FillRegs ==
    ASSUME Regs(c), NEW i, Pins(i)
    PROVE  /\ Regs(Fill(i)) /\ Regs([ToIdle(Base(i)) EXCEPT !.ack = TRUE]) /\ Regs(Ferr(i))
           /\ Regs(Winv(i))
<1> DEFINE b == Base(i)
<1>1. Regs(b) /\ b.beat = c.beat /\ b.err_hold = c.err_hold
    BY BaseRegs, BaseKeeps
<1>2. /\ Fill(i) = IF i.ans = "err" THEN [b EXCEPT !.cst = "FERR", !.err_hold = TRUE]
                   ELSE IF i.ans = "none" THEN b
                   ELSE IF c.beat = Beats - 1 THEN [b EXCEPT !.cst = "TAGW"]
                   ELSE [b EXCEPT !.beat = @ + 1]
      /\ Ferr(i) = IF snoop_wr(i) THEN [b EXCEPT !.err_hold = @ /\ i.req]
                   ELSE ToIdle([b EXCEPT !.err_hold = @ /\ i.req])
      /\ Winv(i) = IF s_stb(i) \/ c.sil # Nil THEN b ELSE ToIdle([b EXCEPT !.winv = FALSE])
    BY DEF Fill, Ferr, Winv
<1> HIDE DEF b
<1>3. Regs([b EXCEPT !.cst = "FERR", !.err_hold = TRUE]) /\ Regs([b EXCEPT !.cst = "TAGW"])
    BY <1>1 DEF Regs, Fields, States, Touched
<1>4. ASSUME c.beat # Beats - 1 PROVE Regs([b EXCEPT !.beat = @ + 1])
  <2>1. b.beat + 1 \in Word
    BY <1>1, <1>4, Sizes DEF Regs, Word
  <2> QED BY <1>1, <2>1 DEF Regs, Fields, Touched
<1>5. Regs([b EXCEPT !.err_hold = @ /\ i.req]) /\ Regs([b EXCEPT !.winv = FALSE])
    BY <1>1 DEF Regs, Fields, Pins, Touched
<1>6. Regs([ToIdle(b) EXCEPT !.ack = TRUE])
    BY <1>1, IdleRegs, AnswerRegs
<1>7. Regs(Fill(i))
    BY <1>1, <1>2, <1>3, <1>4
<1>8. Regs(Ferr(i)) /\ Regs(Winv(i))
    BY <1>1, <1>2, <1>5, IdleRegs
<1> QED BY <1>6, <1>7, <1>8 DEF b

LEMMA SweepRegs ==
    ASSUME Regs(c), Tables, NEW i, Pins(i), c.cst \in {"SWEEP", "WLOOK"}
    PROVE  Regs(Sweep(i)) /\ Regs(Wlook(i))
<1> DEFINE b == Base(i)
<1>1. Regs(b) /\ b.cnt = c.cnt /\ b.p = c.p
    BY BaseRegs, BaseKeeps
<1>2. /\ Sweep(i) = IF sweep_push
                    THEN IF c.dr.on \/ i.walk_busy THEN b
                         ELSE StartPush(b, c.cnt, db[c.cnt], "SWEEP")
                    ELSE IF sweep_last THEN [ToIdle(b) EXCEPT !.cinv_done = TRUE, !.cnt = 0]
                    ELSE [b EXCEPT !.cnt = @ + 1]
      /\ Wlook(i) = IF ~c.wl_ph THEN [b EXCEPT !.wl_ph = TRUE]
                    ELSE IF wl_match(i) # {}
                    THEN StartPush([b EXCEPT !.wk_chk = TRUE, !.wl_ph = FALSE], c.p.set,
                                   wl_match(i), "IDLE")
                    ELSE ToIdle([[b EXCEPT !.wk_chk = TRUE, !.wl_ph = FALSE] EXCEPT !.p = NoPush])
    BY DEF Sweep, Wlook
<1> HIDE DEF b
<1>3. ASSUME sweep_push PROVE Regs(StartPush(b, c.cnt, db[c.cnt], "SWEEP"))
  <2>1. c.cnt \in Set /\ db[c.cnt] # {} /\ db[c.cnt] \subseteq Way
    BY <1>3, Sizes DEF sweep_push, sweep_hit, Regs, Set, Tables
  <2> QED BY <1>1, <2>1, PushRegs
<1>4. Regs([ToIdle(b) EXCEPT !.cinv_done = TRUE, !.cnt = 0])
    BY <1>1, IdleRegs, AnswerRegs
<1>5. ASSUME ~sweep_last PROVE Regs([b EXCEPT !.cnt = @ + 1])
  <2>1. b.cnt + 1 \in 0..2 * Sets - 1
    BY <1>1, <1>5, Sizes DEF Regs, sweep_last
  <2> QED BY <1>1, <2>1 DEF Regs, Fields, Touched
<1> DEFINE d == [b EXCEPT !.wk_chk = TRUE, !.wl_ph = FALSE]
<1>6. Regs(d) /\ Regs([b EXCEPT !.wl_ph = TRUE])
    BY <1>1 DEF Regs, Fields, Touched
<1> HIDE DEF d
<1>7. ASSUME wl_match(i) # {} PROVE Regs(StartPush(d, c.p.set, wl_match(i), "IDLE"))
  <2>1. c.p.set \in Set /\ wl_match(i) \subseteq Way
    BY DEF wl_match, Tables, Regs, Pushing
  <2> QED BY <1>6, <1>7, <2>1, PushRegs
<1>8. Regs([d EXCEPT !.p = NoPush])
  <2>1. Pushing(NoPush)
    BY Sizes, NilIsNone DEF NoPush, Pushing
  <2> QED BY <1>6, <2>1 DEF Regs, Fields, Touched
<1>9. Regs(Sweep(i))
    BY <1>1, <1>2, <1>3, <1>4, <1>5
<1>10. Wlook(i) = IF ~c.wl_ph THEN [b EXCEPT !.wl_ph = TRUE]
                  ELSE IF wl_match(i) # {} THEN StartPush(d, c.p.set, wl_match(i), "IDLE")
                  ELSE ToIdle([d EXCEPT !.p = NoPush])
    BY <1>2 DEF d
<1>11. Regs(Wlook(i))
    BY <1>6, <1>7, <1>8, <1>10, IdleRegs
<1> QED BY <1>9, <1>11

LEMMA PushEndRegs ==
    ASSUME NEW b, Regs(b), Regs(c), c.cst = "PUSH"
    PROVE  Regs(PushEnds(b))
<1>1. Pushing(NoPush) /\ c.p.ret \in States
    BY Sizes, NilIsNone DEF NoPush, Pushing, Regs, States
<1> QED BY <1>1 DEF PushEnds, Regs, Fields, Touched

LEMMA PushStateRegs ==
    ASSUME Regs(c), Tables, NEW i, Pins(i), c.cst = "PUSH"
    PROVE  Regs(Push(i))
<1> DEFINE b == Base(i)
           rest == c.p.mask \ {c.p.way}
           q1 == [c.p EXCEPT !.rb = @ + 1]
           q2 == [c.p EXCEPT !.out = TRUE, !.req = TRUE, !.wb = 0, !.rb = 0, !.tag = tq[c.p.way]]
           q3 == [c.p EXCEPT !.req = FALSE, !.wb = @ + 1]
           q4 == [c.p EXCEPT !.req = TRUE]
<1>1. Regs(b) /\ b.p = c.p
    BY BaseRegs, BaseKeeps
<1>2. Push(i) = IF ~c.p.out
                THEN IF c.p.rb < Beats THEN [b EXCEPT !.p = q1] ELSE [b EXCEPT !.p = q2]
                ELSE IF c.p.req /\ i.ans = "err" THEN PushEnds([b EXCEPT !.post_err = TRUE])
                ELSE IF c.p.req /\ i.ans = "ack"
                THEN IF c.p.wb < Beats - 1 THEN [b EXCEPT !.p = q3]
                     ELSE IF rest = {} THEN PushEnds(b)
                     ELSE StartPush(b, c.p.set, rest, c.p.ret)
                ELSE [b EXCEPT !.p = q4]
  <2>1. /\ [b EXCEPT !.p.rb = @ + 1] = [b EXCEPT !.p = q1]
        /\ [b EXCEPT !.p.out = TRUE, !.p.req = TRUE, !.p.wb = 0, !.p.rb = 0,
                     !.p.tag = tq[c.p.way]] = [b EXCEPT !.p = q2]
        /\ [b EXCEPT !.p.req = FALSE, !.p.wb = @ + 1] = [b EXCEPT !.p = q3]
        /\ [b EXCEPT !.p.req = TRUE] = [b EXCEPT !.p = q4]
    BY <1>1
  <2> QED BY <2>1 DEF Push
<1>3. c.p.rb < Beats => Pushing(q1)
    BY Sizes DEF Pushing, Regs
<1>4. Pushing(q2)
  <2>1. tq[c.p.way] \in Tag /\ 0 \in 0..Beats
    BY Sizes DEF Tables, Regs, Pushing
  <2> QED BY <2>1, NilIsNone DEF Pushing, Regs
<1>5. c.p.wb < Beats - 1 => Pushing(q3)
    BY Sizes DEF Pushing, Regs, Word
<1>6. Pushing(q4)
    BY DEF Pushing, Regs
<1>7. c.p.set \in Set /\ rest \subseteq Way /\ c.p.ret \in {"IDLE", "LOOK", "SWEEP"}
    BY DEF Regs, Pushing
<1> HIDE DEF b, q1, q2, q3, q4, rest
<1>8. ASSUME NEW q, Pushing(q) PROVE Regs([b EXCEPT !.p = q])
    BY <1>1, <1>8 DEF Regs, Fields, Touched
<1>9. Regs([b EXCEPT !.post_err = TRUE])
    BY <1>1 DEF Regs, Fields, Touched
<1>10. rest # {} => Regs(StartPush(b, c.p.set, rest, c.p.ret))
    BY <1>1, <1>7, PushRegs
<1>11. Regs(PushEnds(b)) /\ Regs(PushEnds([b EXCEPT !.post_err = TRUE]))
    BY <1>1, <1>9, PushEndRegs
<1> QED BY <1>2, <1>3, <1>4, <1>5, <1>6, <1>8, <1>10, <1>11

LEMMA FsmRegs ==
    ASSUME Regs(c), Tables, NEW i, Pins(i)
    PROVE  Regs(Fsm(i))
<1>1. CASE c.cst = "IDLE"
    BY <1>1, AcceptRegs DEF Fsm
<1>2. CASE c.cst = "PASS"
    BY <1>2, PassRegs DEF Fsm
<1>3. CASE c.cst = "LOOK"
    BY <1>3, LookRegs DEF Fsm
<1>4. CASE c.cst \in {"FILL", "TAGW", "FERR", "WINV"}
    BY <1>4, FillRegs DEF Fsm
<1>5. CASE c.cst \in {"SWEEP", "WLOOK"}
    BY <1>5, SweepRegs DEF Fsm
<1>6. CASE c.cst = "PUSH"
    BY <1>6, PushStateRegs DEF Fsm
<1> QED BY <1>1, <1>2, <1>3, <1>4, <1>5, <1>6 DEF Regs, States

LEMMA HitWayIn ==
    ASSUME vq \subseteq Way, look_hit
    PROVE  hit_way \in vq /\ tq[hit_way] = TagOf(c.a) /\ hit_way \in Way
<1>1. hits \subseteq Way /\ hits # {}
    BY DEF hits, look_hit
<1>2. hit_way \in hits
    BY <1>1, LowestWay DEF hit_way
<1> QED BY <1>2 DEF hits

LEMMA TagTypes ==
    ASSUME Regs(c), Tables, NEW i, Pins(i), TagStep(i)
    PROVE  vb' \in [Set -> SUBSET Way] /\ rr' \in [Set -> Way] /\ tags' \in [Set -> [Way -> Tag]]
<1>1. c.way \in Way /\ TagOf(c.a) \in Tag /\ 0 \in Way /\ 0 \in Tag
    BY AddrParts, NilIsNone DEF Regs
<1>2. (rq + 1) % Ways \in Way
    BY Sizes DEF Tables, Way
<1>3. vb' \in [Set -> SUBSET Way]
    BY <1>1 DEF TagStep, Tables
<1>4. rr' \in [Set -> Way]
    BY <1>1, <1>2 DEF TagStep, Tables
<1>5. tags' \in [Set -> [Way -> Tag]]
  <2>1. [tq EXCEPT ![c.way] = TagOf(c.a)] \in [Way -> Tag] /\ [w \in Way |-> 0] \in [Way -> Tag]
    BY <1>1 DEF Tables
  <2> QED BY <2>1 DEF TagStep, Tables
<1> QED BY <1>3, <1>4, <1>5

LEMMA DirtyTypes ==
    ASSUME Regs(c), Tables, NEW i, Pins(i), DirtyStep(i)
    PROVE  db' \in [Set -> SUBSET Way]
<1>1. SetOf(c.a) \in Set /\ c.p.set \in Set
    BY AddrParts DEF Regs, Pushing
<1>2. st_merge(i) => hit_way \in Way
    BY HitWayIn DEF st_merge, Tables
<1> QED BY <1>1, <1>2 DEF DirtyStep, Tables

LEMMA AgedIn == ASSUME NEW i, NEW v \in Cell PROVE Aged(i, v) \in Cell
    BY DEF Aged, Cell

LEMMA DataTypes ==
    ASSUME Regs(c), Tables, NEW i, Pins(i), DataStep(i)
    PROVE  cdata' \in [Set -> [Way -> [Word -> Cell]]]
<1> DEFINE f == [cdata EXCEPT ![SetOf(c.a)][c.way][c.beat] = i.rdata]
           g == [cdata EXCEPT ![SetOf(c.a)][hit_way][WordOf(c.a)] = c.a]
           cd == IF i.ce /\ c.cst = "FILL" /\ i.ans = "ack" THEN f
                 ELSE IF i.ce /\ st_merge(i) THEN g ELSE cdata
           live(s, w) == \/ w \in vb'[s]
                         \/ c'.cst \in {"FILL", "TAGW"} /\ SetOf(c'.a) = s /\ c'.way = w
<1>1. /\ SetOf(c.a) \in Set /\ WordOf(c.a) \in Word /\ c.way \in Way /\ c.beat \in Word
      /\ c.a \in Cell /\ i.rdata \in Cell /\ cdata \in [Set -> [Way -> [Word -> Cell]]]
    BY AddrParts DEF Regs, Pins, Tables, Cell
<1>2. f \in [Set -> [Way -> [Word -> Cell]]]
    BY <1>1
<1>3. st_merge(i) => g \in [Set -> [Way -> [Word -> Cell]]]
  <2>1. st_merge(i) => hit_way \in Way
    BY HitWayIn DEF st_merge, Tables
  <2> QED BY <1>1, <2>1
<1> HIDE DEF f, g
<1>4. cd \in [Set -> [Way -> [Word -> Cell]]]
    BY <1>1, <1>2, <1>3
<1>5. cdata' = [s \in Set |-> [w \in Way |-> [b \in Word |->
                   IF live(s, w) THEN Aged(i, cd[s][w][b]) ELSE Nil]]]
    BY DEF DataStep, f, g
<1> HIDE DEF cd, live
<1>6. \A s \in Set, w \in Way, b \in Word : Aged(i, cd[s][w][b]) \in Cell
    BY <1>4, AgedIn
<1>7. Nil \in Cell
    BY DEF Cell
<1> QED BY <1>5, <1>6, <1>7

LEMMA ImageTypes ==
    ASSUME Regs(c), Tables, NEW i, Pins(i), ImageStep(i)
    PROVE  /\ vq' \subseteq Way /\ rq' \in Way /\ tq' \in [Way -> Tag] /\ dq' \in [Way -> Cell]
           /\ pbuf' \in [Word -> Cell]
<1> DEFINE row == IF tag_we(i) THEN tag_widx ELSE tag_ridx(i)
           push_rd == c.cst = "PUSH" /\ ~c.p.out /\ c.p.rb < Beats
           s == IF push_rd THEN c.p.set ELSE SetOf(i.op.a)
           b == IF push_rd THEN c.p.rb ELSE WordOf(i.op.a)
           used == c'.cst \in {"LOOK", "PASS", "TAGW", "WLOOK", "PUSH"}
<1>1. row \in Set
  <2>1. SetOf(c.a) \in Set /\ SetOf(i.op.a) \in Set /\ c.p.set \in Set
    BY AddrParts, OpType DEF Regs, Pins, Pushing
  <2>2. c.cst = "SWEEP" /\ tag_we(i) => c.cnt \in Set
    BY Sizes DEF Regs, tag_we, FillValid, sweep_hit, Set
  <2> QED BY <2>1, <2>2 DEF tag_widx, tag_ridx
<1>2. s \in Set /\ b \in Word
  <2>1. SetOf(i.op.a) \in Set /\ WordOf(i.op.a) \in Word /\ c.p.set \in Set
    BY AddrParts, OpType DEF Pins, Regs, Pushing
  <2>2. push_rd => c.p.rb \in Word
    BY Sizes DEF Regs, Pushing, Word
  <2> QED BY <2>1, <2>2
<1>3. /\ vq' = (IF used THEN vb[row] ELSE {}) /\ rq' = (IF used THEN rr[row] ELSE 0)
      /\ tq' = (IF used THEN tags[row] ELSE [w \in Way |-> 0])
    BY DEF ImageStep
<1>4. vq' \subseteq Way /\ rq' \in Way /\ tq' \in [Way -> Tag]
  <2> HIDE DEF row, used
  <2> QED BY <1>1, <1>3, NilIsNone DEF Tables
<1>5. dq' = [w \in Way |->
                IF i.ce /\ (push_rd \/ rd_accept(i) \/ wr_accept_upd(i))
                THEN Aged(i, cdata[s][w][b])
                ELSE IF i.ce /\ c.cst \notin {"PUSH", "LOOK"} THEN Nil
                ELSE Aged(i, dq[w])]
    BY DEF ImageStep
<1> HIDE DEF row, s, b, used, push_rd
<1>6. \A w \in Way : Aged(i, cdata[s][w][b]) \in Cell /\ Aged(i, dq[w]) \in Cell
    BY <1>2, AgedIn DEF Tables
<1>7. dq' \in [Way -> Cell]
    BY <1>5, <1>6 DEF Cell
<1>8. pbuf' = IF ~i.ce THEN [k \in Word |-> Aged(i, pbuf[k])]
              ELSE IF c.cst # "PUSH" THEN [k \in Word |-> Nil]
              ELSE [k \in Word |-> Aged(i, IF ~c.p.out /\ c.p.rb = k + 1
                                           THEN dq[c.p.way] ELSE pbuf[k])]
    BY DEF ImageStep
<1>9. \A k \in Word : /\ Aged(i, pbuf[k]) \in Cell
                      /\ Aged(i, IF ~c.p.out /\ c.p.rb = k + 1
                                 THEN dq[c.p.way] ELSE pbuf[k]) \in Cell
    BY AgedIn DEF Tables, Regs, Pushing
<1>10. pbuf' \in [Word -> Cell]
    BY <1>8, <1>9 DEF Cell
<1> QED BY <1>4, <1>7, <1>10

LEMMA TableTypes ==
    ASSUME Regs(c), Tables, NEW i, Pins(i), CacheClock(i)
    PROVE  Regs(c)' /\ Tables'
<1>1. Regs(c')
    BY FsmRegs DEF CacheClock, Pins
<1>2. Regs(c)'
    BY <1>1 DEF Regs
<1>3. fill_snooped' \in BOOLEAN /\ look_snooped' \in BOOLEAN /\ st_snooped' \in BOOLEAN
    BY DEF CacheClock, SnoopFlags, Tables
<1> QED BY <1>2, <1>3, TagTypes, DirtyTypes, DataTypes, ImageTypes DEF CacheClock, Tables

LEMMA SearchTypes ==
    ASSUME Types, NEW w_ans \in {"none", "ack"}, NEW waits, MmuStep(w_ans, waits),
           walker_wr_d' \in BOOLEAN
    PROVE  Search'
<1>1. Search /\ Descs \subseteq Addr /\ 0 \in Addr
    BY SystemAssumption, NilIsNone DEF Types
<1>2. ASSUME NEW st \in {"tab", "utab", "page", "fill"}, NEW wr \in BOOLEAN, Descriptor(st, wr)
      PROVE  Search'
    BY <1>1, <1>2 DEF Descriptor, Search
<1>3. ASSUME NEW st \in {"go", "uc", "fill", "flt"}, Inactive(st) PROVE Search'
    BY <1>1, <1>3 DEF Inactive, Search
<1>4. ASSUME SearchEnds PROVE Search'
    BY <1>1, <1>4 DEF SearchEnds, Search
<1>5. ASSUME StayMmu PROVE Search'
    BY <1>1, <1>5 DEF StayMmu, Search
<1>6. CASE wst = "idle"
  <2>1. StartSearch
    BY <1>1, <1>6 DEF MmuStep, Search
  <2>2. CASE Descriptor("tab", FALSE)
    BY <2>2, <1>2
  <2>3. CASE StayMmu
    BY <2>3, <1>5
  <2>4. CASE wst' = "sweep" /\ UNCHANGED <<w_active, w_issued, w_req_wr, w_req_addr, sweep_cnt>>
    BY <1>1, <1>6, <2>4 DEF Search
  <2> QED BY <2>1, <2>2, <2>3, <2>4 DEF StartSearch
<1>7. CASE wst = "sweep"
  <2>1. CASE sweep_cnt = SweepRows
    <3>1. Inactive("go")
      BY <1>1, <1>7, <2>1 DEF MmuStep, Search
    <3> QED BY <1>3, <3>1
  <2>2. CASE sweep_cnt # SweepRows
    <3>1. /\ sweep_cnt' = sweep_cnt + 1
          /\ UNCHANGED <<wst, w_active, w_issued, w_req_wr, w_req_addr>>
      BY <1>1, <1>7, <2>2 DEF MmuStep, Search
    <3>2. sweep_cnt' \in Nat
      BY <1>1, <3>1 DEF Search
    <3> QED BY <1>1, <1>7, <3>1, <3>2 DEF Search
  <2> QED BY <2>1, <2>2
<1>8. CASE wst = "go"
    BY <1>1, <1>2, <1>8 DEF MmuStep, Search
<1>9. CASE wst = "uc"
    BY <1>1, <1>2, <1>3, <1>9 DEF MmuStep, Search
<1>10. CASE wst = "flt"
    BY <1>1, <1>4, <1>10 DEF MmuStep, Search
<1>11. CASE wst = "fill" /\ ~w_active
    BY <1>1, <1>4, <1>11 DEF MmuStep, Search
<1>12. CASE w_active
  <2>1. MmuStep(w_ans, waits) =>
            IF walk_pend /\ ~waits
            THEN w_issued' = TRUE /\ UNCHANGED <<wst, w_active, w_req_wr, w_req_addr, sweep_cnt>>
            ELSE IF w_ans = "ack" THEN SearchStep ELSE StayMmu
    BY <1>1, <1>12 DEF MmuStep, Search
  <2>2. CASE w_issued' = TRUE /\ UNCHANGED <<wst, w_active, w_req_wr, w_req_addr, sweep_cnt>>
    BY <1>1, <1>12, <2>2 DEF Search
  <2>3. CASE SearchStep
    <3>1. wst \in {"tab", "utab", "page", "fill"}
      BY <1>1, <1>12 DEF Search
    <3> QED BY <1>2, <1>3, <2>3, <3>1 DEF SearchStep
  <2> QED BY <2>1, <2>2, <2>3, <1>5
<1> QED BY <1>1, <1>6, <1>7, <1>8, <1>9, <1>10, <1>11, <1>12 DEF Search

LEMMA CoreTypes ==
    ASSUME Types, NEW ans, CoreStep(ans, Walked)
    PROVE  core' \in {"none", "access", "cinv", "ptest"} /\ op' \in OpSet
<1>1. Ops \subseteq OpSet /\ NoOp \in OpSet /\ 0 \in Addr /\ Works \subseteq {"access", "cinv", "ptest"}
    BY SystemAssumption, NilIsNone DEF OpSet
<1>2. [op EXCEPT !.miss = FALSE] \in OpSet
  <2>1. CASE op \in Ops
    BY <2>1 DEF OpSet
  <2>2. CASE op = NoOp
    <3>1. op.miss = FALSE
      BY <2>2 DEF NoOp
    <3>2. op \in [kind : {"read", "write"}, a : Addr, n : 1..2, ci : BOOLEAN, cb : BOOLEAN,
                  miss : BOOLEAN]
      BY <1>1, <2>2, OpType
    <3>3. [op EXCEPT !.miss = FALSE] = op
      BY <3>1, <3>2
    <3> QED BY <3>3 DEF Types, Others
  <2>3. ASSUME NEW q \in Ops, op = [q EXCEPT !.miss = FALSE]
        PROVE  [op EXCEPT !.miss = FALSE] \in OpSet
    <3>1. [op EXCEPT !.miss = FALSE] = op
      BY <2>3, SystemAssumption
    <3> QED BY <3>1 DEF Types, Others
  <2> QED BY <2>1, <2>2, <2>3 DEF Types, Others, OpSet
<1> QED BY <1>1, <1>2 DEF CoreStep, NewWork, Released, KeepWork, Types, Others

LEMMA LandedIn ==
    ASSUME Types, NEW ce, NEW snp \in Dma \cup {Nil}, NEW ans, NEW w_ans
    PROVE  Landed(ce, snp, ans, w_ans) \subseteq Addr
<1>1. Dma \subseteq Addr /\ Touched(op) \subseteq Addr /\ Touched(c.dr) \subseteq Addr
      /\ w_req_addr \in Addr
    BY SystemAssumption, OpType DEF Types, Regs, Drain, Others, Search
<1>2. push_addr \in Addr
    BY InSpace DEF push_addr, Types, Regs, Pushing
<1> QED BY <1>1, <1>2 DEF Landed

LEMMA TypesStep ==
    ASSUME Types, NEW i, NEW ce, NEW snp, NEW ans, NEW w_ans, Step(i, ce, snp, ans, w_ans)
    PROVE  Types'
<1>1. Pins(i)
    BY PinsOf DEF Step
<1>2. Regs(c)' /\ Tables'
    BY <1>1, TableTypes DEF Step, Types
<1>3. /\ ce \in BOOLEAN /\ snp \in Dma \cup {Nil} /\ w_ans \in {"none", "ack"}
      /\ IF ce THEN CoreStep(ans, Walked) /\ MmuStep(w_ans, wk_wait(i))
         ELSE UNCHANGED <<core, op, wst, w_active, w_issued, w_req_wr, w_req_addr, sweep_cnt>>
      /\ walker_wr_d' = (walker_req /\ w_req_wr)
    BY DEF Step, Inputs
<1>4. walker_wr_d' \in BOOLEAN
    BY <1>3 DEF walker_req
<1>5. Search'
  <2>1. CASE ce
    BY <1>3, <1>4, <2>1, SearchTypes
  <2>2. CASE ~ce
    BY <1>3, <1>4, <2>2 DEF Types, Search
  <2> QED BY <2>1, <2>2
<1>6. core' \in {"none", "access", "cinv", "ptest"} /\ op' \in OpSet
  <2>1. CASE ce
    BY <1>3, <2>1, CoreTypes
  <2>2. CASE ~ce
    BY <1>3, <2>2 DEF Types, Others
  <2> QED BY <2>1, <2>2
<1>7. wsnp' \in Cell
    BY DEF Step, Types, Others, Search, Cell
<1>8. mem' \subseteq Addr
  <2>1. Landed(ce, snp, ans, w_ans) \subseteq Addr
    BY <1>3, LandedIn
  <2> QED BY <2>1 DEF Step, Types, Others
<1>9. s_last' \in BOOLEAN /\ m_up' \in BOOLEAN
    BY DEF Step, Types, Others, m_req
<1>10. stale_read' \in BOOLEAN /\ stale_desc' \in BOOLEAN /\ turn' \in BOOLEAN
    BY DEF Step, Types, Others
<1> QED BY <1>2, <1>5, <1>6, <1>7, <1>8, <1>9, <1>10 DEF Types, Others

LEMMA TypesInit == Init => Types
<1> SUFFICES ASSUME Init PROVE Types
    OBVIOUS
<1>1. 0 \in Addr /\ 0 \in Set /\ 0 \in Word /\ 0 \in Way /\ 0 \in Tag /\ Nil \in Cell /\ 0 \in 0..Beats
      /\ 0 \in 0..2 * Sets - 1 /\ Touched(NoDrain) \subseteq Addr /\ 0..(0 + 1 - 1) \subseteq Addr
    BY NilIsNone, Sizes DEF Cell, Touched, NoDrain
<1>2. Drain(NoDrain) /\ Pushing(NoPush)
    BY <1>1 DEF Drain, Pushing, NoDrain, NoPush
<1>3. Regs(c)
    BY <1>1, <1>2 DEF Init, CacheInit, Regs, Fields, States, Touched
<1>4. Tables
    BY <1>1 DEF Init, CacheInit, Tables
<1>5. Search
    BY <1>1 DEF Init, Search
<1>6. Others
    BY <1>1 DEF Init, Others, OpSet, Cell
<1> QED BY <1>3, <1>4, <1>5, <1>6 DEF Types

LEMMA TypesStutter == Types /\ UNCHANGED vars => Types'
    BY DEF Types, Regs, Tables, Search, Others, vars, cacheVars, mmuVars, OpSet

(* The registers, the tables and the search keep their ranges: no set, way,  *)
(* beat or sweep count runs over its end, and no longword outside memory is  *)
(* addressed, whatever is asked for and strobed.                             *)
THEOREM CacheTyped == Spec => []TypeOK
<1>1. Types /\ [Next]_vars => Types'
  <2> SUFFICES ASSUME Types, [Next]_vars PROVE Types'
    OBVIOUS
  <2>1. CASE Next
    BY <2>1, StepOfNext, TypesStep
  <2>2. CASE UNCHANGED vars
    BY <2>2, TypesStutter
  <2> QED BY <2>1, <2>2
<1>2. Types => TypeOK
  <2> SUFFICES ASSUME Types PROVE TypeOK
    OBVIOUS
  <2>1. Tag \subseteq Addr
    <3> DEFINE q == Space \div (Beats * Sets)
               K == Beats * Sets
    <3>1. q \in Nat \ {0} /\ K \in Nat \ {0} /\ Space \in Nat /\ Space = K * q
      BY Sizes
    <3> HIDE DEF q, K
    <3>2. q <= K * q
      BY <3>1
    <3> QED BY <3>1, <3>2 DEF Tag, Addr, q
  <2>2. CacheTypeOK
    BY <2>1 DEF Types, Regs, Tables, Pushing, Drain, States, CacheTypeOK
  <2> QED BY <2>2 DEF Types, Others, Search, OpSet, TypeOK
<1> QED BY <1>1, <1>2, TypesInit, PTL DEF Spec

----------------------------------------------------------------------------
(* What an enabled clock does to the registers, one operator for each way    *)
(* out of a state of the FSM: r is the record after it.                      *)

DrAfter(i) == IF c.dr.on /\ i.ans # "none" THEN NoDrain ELSE c.dr
SilAfter(i) == IF snoop_wr(i) /\ StoreClears(i) THEN SetOf(i.op.a)
               ELSE IF s_stb(i) THEN c.sil ELSE Nil
CiAfter(i) == IF ci_inv(i) THEN Nil ELSE c.ci_inv

Bus(i, r) == r.dr = DrAfter(i) /\ r.sil = SilAfter(i) /\ r.ci_inv = CiAfter(i)
Chk(i, r) == r.wk_chk = (c.wk_chk /\ i.wk_pend)
Told(r, ack, done) == r.ack = ack /\ r.cinv_done = done
KeepAt(r) == r.a = c.a /\ r.n = c.n /\ r.way = c.way /\ r.beat = c.beat /\ r.set2 = c.set2
ClearAt(r) == r.a = 0 /\ r.n = 1 /\ r.way = 0 /\ r.beat = 0 /\ r.set2 = 0
KeepStore(r) == /\ r.st_chk = c.st_chk /\ r.st_posted = c.st_posted /\ r.r_cb = c.r_cb
                /\ r.winv = c.winv /\ r.ci_chk = c.ci_chk
KeepSeq(r) == r.p = c.p /\ r.wl_ph = c.wl_ph /\ r.cnt = c.cnt
Keep(i, r) == Bus(i, r) /\ Chk(i, r) /\ KeepAt(r) /\ KeepStore(r) /\ KeepSeq(r)
Back(i, r) == /\ r.cst = "IDLE" /\ Bus(i, r) /\ Chk(i, r) /\ ClearAt(r) /\ KeepStore(r)
              /\ KeepSeq(r)

Waits(i, r) ==
    /\ c.cst \in {"IDLE", "LOOK", "FILL", "FERR", "WINV", "SWEEP"} /\ r.cst = c.cst
    /\ c.cst = "LOOK" => ~LookHits(i)
    /\ c.cst = "FILL" => i.ans = "none"
    /\ c.cst = "FERR" => snoop_wr(i)
    /\ c.cst = "WINV" => s_stb(i) \/ c.sil # Nil
    /\ c.cst = "SWEEP" => sweep_push
    /\ Told(r, FALSE, FALSE) /\ Keep(i, r)

\* C_IDLE.
Looks(i, r) == /\ c.cst = "IDLE" /\ wk_push(i) /\ ~c.dr.on /\ r.cst = "WLOOK" /\ r.wl_ph = FALSE
               /\ r.p = [c.p EXCEPT !.set = SetOf(i.wk_addr)]
               /\ r.cnt = c.cnt /\ Told(r, FALSE, FALSE) /\ Bus(i, r) /\ Chk(i, r)
               /\ KeepAt(r) /\ KeepStore(r)
Sweeps(i, r) == /\ c.cst = "IDLE" /\ Cinv(i) /\ ~i.walk_busy
                /\ r.cst = "SWEEP" /\ r.cnt = 0 /\ r.p = c.p /\ r.wl_ph = c.wl_ph
                /\ Told(r, FALSE, FALSE) /\ Bus(i, r) /\ Chk(i, r) /\ KeepAt(r) /\ KeepStore(r)
FirstPush(set, mask, ret) ==
    [NoPush EXCEPT !.set = set, !.mask = mask, !.way = LowWay(mask), !.ret = ret]
Begins(i, r, set, mask, ret) ==
    /\ r.cst = "PUSH" /\ r.p = FirstPush(set, mask, ret) /\ r.cnt = c.cnt
    /\ Told(r, FALSE, FALSE) /\ Bus(i, r) /\ KeepAt(r) /\ KeepStore(r)
Writes(i, r) == /\ c.cst = "IDLE" /\ need_push(i) /\ r.wl_ph = c.wl_ph /\ Chk(i, r)
                /\ \E s \in {SetOf(i.op.a), NextSet(i.op.a)} :
                       db[s] # {} /\ Begins(i, r, s, db[s], "IDLE")
Taking(i) == c.cst = "IDLE" /\ Asked(i) /\ ~c.err_hold /\ ~need_push(i)
             /\ ~(Cinv(i) /\ ~i.walk_busy)
Updates(i, r) == /\ Taking(i) /\ c.sil = Nil /\ ~c.dr.on /\ Update(i.op)
                 /\ r.cst = "PASS" /\ r.a = i.op.a /\ r.n = i.op.n /\ r.way = c.way
                 /\ r.beat = c.beat /\ r.set2 = c.set2
                 /\ r.r_cb = i.op.cb /\ r.st_chk = TRUE /\ r.winv = FALSE
                 /\ r.st_posted = TRUE /\ r.ci_chk = c.ci_chk
                 /\ Told(r, TRUE, FALSE) /\ Bus(i, r) /\ Chk(i, r) /\ KeepSeq(r)
Stores(i, r) == /\ Taking(i) /\ c.sil = Nil /\ ~c.dr.on /\ i.op.kind = "write" /\ ~Update(i.op)
                /\ r.cst = "PASS" /\ r.a = i.op.a /\ r.n = i.op.n /\ r.way = c.way
                /\ r.beat = c.beat /\ r.set2 = NextSet(i.op.a)
                /\ r.winv = Crosses(i.op) /\ r.st_posted = Posts(i.op)
                /\ r.st_chk = c.st_chk /\ r.r_cb = c.r_cb /\ r.ci_chk = c.ci_chk
                /\ Told(r, Posts(i.op), FALSE) /\ Bus(i, r) /\ Chk(i, r) /\ KeepSeq(r)
Bypasses(i, r) == /\ Taking(i) /\ i.op.kind = "read" /\ Bypass(i.op) /\ c.ci_inv = Nil
                  /\ ~c.dr.on
                  /\ r.cst = "PASS" /\ r.a = i.op.a /\ r.n = i.op.n /\ r.way = c.way
                  /\ r.beat = c.beat /\ r.set2 = c.set2
                  /\ r.st_chk = c.st_chk /\ r.st_posted = c.st_posted /\ r.r_cb = c.r_cb
                  /\ r.winv = c.winv /\ r.ci_chk = i.op.ci
                  /\ Told(r, FALSE, FALSE) /\ Bus(i, r) /\ Chk(i, r) /\ KeepSeq(r)
Reads(i, r) == /\ Taking(i) /\ i.op.kind = "read" /\ ~Bypass(i.op) /\ c.ci_inv = Nil
               /\ r.cst = "LOOK" /\ r.a = i.op.a /\ r.n = 1 /\ r.way = c.way
               /\ r.beat = c.beat /\ r.set2 = c.set2
               /\ Told(r, FALSE, FALSE) /\ Bus(i, r) /\ Chk(i, r) /\ KeepStore(r) /\ KeepSeq(r)
IdleMoves(i, r) == \/ Waits(i, r) \/ Looks(i, r) \/ Sweeps(i, r) \/ Writes(i, r)
                   \/ Updates(i, r) \/ Stores(i, r) \/ Bypasses(i, r) \/ Reads(i, r)

\* C_PASS.
PortBusy(i) == s_stb(i) \/ c.sil # Nil
PassBus(i, r) ==
    /\ r.ci_inv = (IF c.ci_chk /\ look_hit THEN SetOf(c.a) ELSE CiAfter(i))
    /\ r.sil = (IF c.st_chk /\ st_snooped THEN SetOf(c.a) ELSE SilAfter(i))
    /\ Chk(i, r) /\ KeepSeq(r)
    /\ r.ci_chk = FALSE /\ r.st_chk = FALSE /\ r.st_posted = FALSE /\ r.r_cb = FALSE
    /\ r.winv = (c.winv /\ PortBusy(i)) /\ Told(r, FALSE, FALSE)
Leaves(i, r) == IF c.winv /\ PortBusy(i) THEN r.cst = "WINV" /\ KeepAt(r)
                ELSE r.cst = "IDLE" /\ ClearAt(r)
Merges(i, r) == /\ c.cst = "PASS" /\ c.st_posted /\ c.r_cb /\ st_merge(i)
                /\ PassBus(i, r) /\ r.dr = DrAfter(i) /\ r.cst = "IDLE" /\ ClearAt(r)
Drains(i, r) == /\ c.cst = "PASS" /\ c.st_posted /\ ~(c.r_cb /\ st_merge(i))
                /\ PassBus(i, r) /\ r.dr = [on |-> TRUE, a |-> c.a, n |-> c.n] /\ Leaves(i, r)
Passes(i, r) == /\ c.cst = "PASS" /\ ~c.st_posted /\ i.ans # "none"
                /\ PassBus(i, r) /\ r.dr = DrAfter(i) /\ Leaves(i, r)
Stays(i, r) == /\ c.cst = "PASS" /\ ~c.st_posted /\ i.ans = "none"
               /\ PassBus(i, r) /\ r.dr = DrAfter(i) /\ r.cst = "PASS" /\ KeepAt(r)
PassMoves(i, r) == Merges(i, r) \/ Drains(i, r) \/ Passes(i, r) \/ Stays(i, r)

\* The read path, the row clears and the sweep.
Hits(i, r) == LookHits(i) /\ Back(i, r) /\ Told(r, TRUE, FALSE)
Evicts(i, r) == /\ c.cst = "LOOK" /\ ~LookHits(i) /\ ~c.dr.on /\ rq \in db[SetOf(c.a)]
                /\ ~i.walk_busy /\ r.wl_ph = c.wl_ph /\ Chk(i, r)
                /\ Begins(i, r, SetOf(c.a), {rq}, "LOOK")
Misses(i, r) == /\ c.cst = "LOOK" /\ ~LookHits(i) /\ ~c.dr.on /\ rq \notin db[SetOf(c.a)]
                /\ r.cst = "FILL" /\ r.a = c.a /\ r.n = c.n /\ r.way = rq /\ r.beat = 0
                /\ r.set2 = c.set2 /\ Told(r, FALSE, FALSE)
                /\ Bus(i, r) /\ Chk(i, r) /\ KeepStore(r) /\ KeepSeq(r)
Beaten(i, r) == /\ c.cst = "FILL" /\ i.ans = "ack" /\ c.beat # Beats - 1 /\ r.cst = "FILL"
                /\ r.a = c.a /\ r.n = c.n /\ r.way = c.way /\ r.beat = c.beat + 1
                /\ r.set2 = c.set2 /\ Told(r, FALSE, FALSE)
                /\ Bus(i, r) /\ Chk(i, r) /\ KeepStore(r) /\ KeepSeq(r)
Filled(i, r) == /\ c.cst = "FILL" /\ i.ans = "ack" /\ c.beat = Beats - 1 /\ r.cst = "TAGW"
                /\ Told(r, FALSE, FALSE) /\ Keep(i, r)
Fails(i, r) == /\ c.cst = "FILL" /\ i.ans = "err" /\ r.cst = "FERR"
               /\ Told(r, FALSE, FALSE) /\ Keep(i, r)
Tags(i, r) == c.cst = "TAGW" /\ Back(i, r) /\ Told(r, TRUE, FALSE)
Recovers(i, r) == c.cst = "FERR" /\ ~snoop_wr(i) /\ Back(i, r) /\ Told(r, FALSE, FALSE)
Clears(i, r) == /\ c.cst = "WINV" /\ ~s_stb(i) /\ c.sil = Nil /\ r.cst = "IDLE" /\ ClearAt(r)
                /\ r.st_chk = c.st_chk /\ r.st_posted = c.st_posted /\ r.r_cb = c.r_cb
                /\ r.winv = FALSE /\ r.ci_chk = c.ci_chk
                /\ Told(r, FALSE, FALSE) /\ Bus(i, r) /\ Chk(i, r) /\ KeepSeq(r)
Empties(i, r) == /\ sweep_push /\ ~c.dr.on /\ ~i.walk_busy /\ r.wl_ph = c.wl_ph /\ Chk(i, r)
                 /\ Begins(i, r, c.cnt, db[c.cnt], "SWEEP")
Ends(i, r) == /\ c.cst = "SWEEP" /\ ~sweep_push /\ sweep_last /\ r.cst = "IDLE" /\ ClearAt(r)
              /\ r.cnt = 0 /\ r.p = c.p /\ r.wl_ph = c.wl_ph
              /\ Told(r, FALSE, TRUE) /\ Bus(i, r) /\ Chk(i, r) /\ KeepStore(r)
Counts(i, r) == /\ c.cst = "SWEEP" /\ ~sweep_push /\ ~sweep_last /\ r.cst = "SWEEP"
                /\ r.cnt = c.cnt + 1 /\ r.p = c.p /\ r.wl_ph = c.wl_ph /\ KeepAt(r)
                /\ Told(r, FALSE, FALSE) /\ Bus(i, r) /\ Chk(i, r) /\ KeepStore(r)
LineMoves(i, r) == \/ Waits(i, r) \/ Hits(i, r) \/ Evicts(i, r) \/ Misses(i, r) \/ Beaten(i, r)
                   \/ Filled(i, r) \/ Fails(i, r) \/ Tags(i, r) \/ Recovers(i, r)
                   \/ Clears(i, r) \/ Empties(i, r) \/ Ends(i, r) \/ Counts(i, r)

\* C_WLOOK and C_PUSH.
Rereads(i, r) == /\ c.cst = "WLOOK" /\ ~c.wl_ph /\ r.cst = "WLOOK" /\ r.wl_ph = TRUE
               /\ r.p = c.p /\ r.cnt = c.cnt /\ Told(r, FALSE, FALSE) /\ Bus(i, r) /\ Chk(i, r)
               /\ KeepAt(r) /\ KeepStore(r)
Found(i, r) == /\ c.cst = "WLOOK" /\ c.wl_ph /\ wl_match(i) # {} /\ r.wl_ph = FALSE /\ r.wk_chk = TRUE
               /\ Begins(i, r, c.p.set, wl_match(i), "IDLE")
Absent(i, r) == /\ c.cst = "WLOOK" /\ c.wl_ph /\ wl_match(i) = {} /\ r.wl_ph = FALSE /\ r.wk_chk = TRUE
                /\ r.cst = "IDLE" /\ r.p = NoPush /\ r.cnt = c.cnt
                /\ Told(r, FALSE, FALSE) /\ Bus(i, r) /\ ClearAt(r) /\ KeepStore(r)
Pushes(i, r) == /\ c.cst = "PUSH" /\ r.wl_ph = c.wl_ph /\ r.cnt = c.cnt
                /\ Told(r, FALSE, FALSE) /\ Bus(i, r) /\ Chk(i, r) /\ KeepAt(r) /\ KeepStore(r)
Fetches(i, r) == /\ Pushes(i, r) /\ ~c.p.out /\ c.p.rb < Beats /\ r.cst = "PUSH"
                 /\ r.p = [c.p EXCEPT !.rb = @ + 1]
Opens(i, r) == /\ Pushes(i, r) /\ ~c.p.out /\ c.p.rb = Beats /\ r.cst = "PUSH"
               /\ r.p = [c.p EXCEPT !.out = TRUE, !.req = TRUE, !.wb = 0, !.rb = 0,
                                    !.tag = tq[c.p.way]]
Breaks(i, r) == /\ Pushes(i, r) /\ push_out /\ i.ans = "err" /\ r.cst = c.p.ret /\ r.p = NoPush
Moves(i, r) == /\ Pushes(i, r) /\ push_out /\ i.ans = "ack" /\ c.p.wb < Beats - 1
               /\ r.cst = "PUSH" /\ r.p = [c.p EXCEPT !.req = FALSE, !.wb = @ + 1]
Finishes(i, r) == /\ Pushes(i, r) /\ push_out /\ i.ans = "ack" /\ c.p.wb = Beats - 1
                  /\ c.p.mask \ {c.p.way} = {} /\ r.cst = c.p.ret /\ r.p = NoPush
Another(i, r) == /\ Pushes(i, r) /\ push_out /\ i.ans = "ack" /\ c.p.wb = Beats - 1
                 /\ c.p.mask \ {c.p.way} # {} /\ r.cst = "PUSH"
                 /\ r.p = FirstPush(c.p.set, c.p.mask \ {c.p.way}, c.p.ret)
Raises(i, r) == /\ Pushes(i, r) /\ c.p.out /\ (c.p.req => i.ans = "none") /\ r.cst = "PUSH"
                /\ r.p = [c.p EXCEPT !.req = TRUE]
PushMoves(i, r) == \/ Rereads(i, r) \/ Found(i, r) \/ Absent(i, r)
                   \/ Fetches(i, r) \/ Opens(i, r) \/ Breaks(i, r) \/ Moves(i, r)
                   \/ Finishes(i, r) \/ Another(i, r) \/ Raises(i, r)

LEMMA BaseBus ==
    ASSUME Regs(c), NEW i
    PROVE  Bus(i, Base(i)) /\ Chk(i, Base(i)) /\ DOMAIN Base(i) = Fields
<1> QED BY DEF Base, Regs, Fields, Bus, Chk, DrAfter, SilAfter, CiAfter

Ready(i, b) == /\ DOMAIN b = Fields /\ Bus(i, b) /\ KeepAt(b) /\ KeepStore(b)
               /\ b.cnt = c.cnt /\ Told(b, FALSE, FALSE)

LEMMA PushFields ==
    ASSUME NEW i, NEW b, Ready(i, b), NEW set, NEW mask, NEW ret
    PROVE  /\ Begins(i, StartPush(b, set, mask, ret), set, mask, ret)
           /\ StartPush(b, set, mask, ret).wl_ph = b.wl_ph
           /\ StartPush(b, set, mask, ret).wk_chk = b.wk_chk
<1> DEFINE q == FirstPush(set, mask, ret)
           r == [b EXCEPT !.cst = "PUSH", !.p = q]
<1>1. StartPush(b, set, mask, ret) = r
    BY DEF StartPush, FirstPush
<1> HIDE DEF q
<1>2. /\ r.cst = "PUSH" /\ r.p = q /\ r.cnt = c.cnt /\ Told(r, FALSE, FALSE) /\ Bus(i, r)
      /\ KeepAt(r) /\ KeepStore(r) /\ r.wl_ph = b.wl_ph /\ r.wk_chk = b.wk_chk
    BY DEF Fields, Bus, Told, KeepAt, KeepStore, Ready
<1> HIDE DEF r
<1> QED BY <1>1, <1>2 DEF Begins, q

LEMMA IdleCases ==
    ASSUME Regs(c), NEW i, Pins(i), c.cst = "IDLE"
    PROVE  IdleMoves(i, Idle(i))
<1> DEFINE b == [Base(i) EXCEPT !.err_hold = @ /\ i.req]
           o == i.op
<1>1. /\ DOMAIN b = Fields /\ b.cst = "IDLE" /\ Bus(i, b) /\ Chk(i, b) /\ Told(b, FALSE, FALSE)
      /\ KeepAt(b) /\ KeepStore(b) /\ KeepSeq(b)
  <2> DEFINE e == Base(i)
             h == Base(i).err_hold /\ i.req
  <2>1. /\ b = [e EXCEPT !.err_hold = h] /\ Bus(i, e) /\ Chk(i, e) /\ DOMAIN e = Fields
        /\ e.cst = "IDLE" /\ Told(e, FALSE, FALSE) /\ KeepAt(e) /\ KeepStore(e) /\ KeepSeq(e)
    BY BaseBus, BaseKeeps DEF Told, KeepAt, KeepStore, KeepSeq
  <2> HIDE DEF b, e, h
  <2> QED BY <2>1 DEF Fields, Bus, Chk, Told, KeepAt, KeepStore, KeepSeq
<1>2. Idle(i) = IF wk_push(i) /\ ~c.dr.on
                THEN [b EXCEPT !.cst = "WLOOK", !.wl_ph = FALSE, !.p.set = SetOf(i.wk_addr)]
                ELSE IF Cinv(i) /\ ~i.walk_busy THEN [b EXCEPT !.cst = "SWEEP", !.cnt = 0]
                ELSE IF need_push(i) THEN PushForAccess(b, i)
                ELSE IF ~Asked(i) \/ c.err_hold THEN b
                ELSE IF i.op.kind = "write" THEN AcceptWrite(b, i)
                ELSE IF c.ci_inv # Nil THEN b
                ELSE IF Bypass(i.op) THEN IF c.dr.on THEN b ELSE AcceptBypass(b, i)
                ELSE AcceptRead(b, i)
    BY DEF Idle, b
<1> HIDE DEF b
<1>3. Waits(i, b)
    BY <1>1 DEF Waits, Keep
<1>4. ASSUME wk_push(i), ~c.dr.on
      PROVE  Looks(i, [b EXCEPT !.cst = "WLOOK", !.wl_ph = FALSE, !.p.set = SetOf(i.wk_addr)])
  <2> DEFINE q == [c.p EXCEPT !.set = SetOf(i.wk_addr)]
             r == [b EXCEPT !.cst = "WLOOK", !.wl_ph = FALSE, !.p = q]
  <2>1. [b EXCEPT !.cst = "WLOOK", !.wl_ph = FALSE, !.p.set = SetOf(i.wk_addr)] = r
    BY <1>1 DEF KeepSeq
  <2> HIDE DEF q
  <2>2. /\ r.cst = "WLOOK" /\ r.wl_ph = FALSE /\ r.p = q /\ r.cnt = c.cnt /\ Told(r, FALSE, FALSE)
        /\ Bus(i, r) /\ Chk(i, r) /\ KeepAt(r) /\ KeepStore(r)
    BY <1>1 DEF Fields, Bus, Chk, Told, KeepAt, KeepStore, KeepSeq
  <2> HIDE DEF r
  <2> QED BY <1>4, <2>1, <2>2 DEF Looks, q
<1>5. ASSUME Cinv(i), ~i.walk_busy
      PROVE  Sweeps(i, [b EXCEPT !.cst = "SWEEP", !.cnt = 0])
    BY <1>1, <1>5 DEF Sweeps, Fields, Bus, Chk, Told, KeepAt, KeepStore, KeepSeq
<1>6. ASSUME need_push(i) PROVE Writes(i, PushForAccess(b, i))
  <2> DEFINE s == IF db[SetOf(o.a)] # {} THEN SetOf(o.a) ELSE NextSet(o.a)
  <2>1. db[s] # {} /\ s \in {SetOf(o.a), NextSet(o.a)}
    BY <1>6 DEF need_push
  <2>2. PushForAccess(b, i) = StartPush(b, s, db[s], "IDLE")
    BY DEF PushForAccess
  <2> HIDE DEF s
  <2> DEFINE r == StartPush(b, s, db[s], "IDLE")
  <2>3. Ready(i, b)
    BY <1>1 DEF Ready, KeepSeq
  <2>4. Begins(i, r, s, db[s], "IDLE") /\ r.wl_ph = b.wl_ph /\ r.wk_chk = b.wk_chk
    BY <2>3, PushFields
  <2>5. /\ Begins(i, PushForAccess(b, i), s, db[s], "IDLE")
        /\ PushForAccess(b, i).wl_ph = b.wl_ph /\ PushForAccess(b, i).wk_chk = b.wk_chk
    BY <2>2, <2>4
  <2> QED BY <1>1, <1>6, <2>1, <2>5 DEF Writes, Chk, KeepSeq
<1> DEFINE taking == /\ ~(Cinv(i) /\ ~i.walk_busy) /\ ~need_push(i) /\ Asked(i) /\ ~c.err_hold
<1>7. ASSUME taking, i.op.kind = "write" PROVE IdleMoves(i, AcceptWrite(b, i))
  <2>1. ASSUME c.sil = Nil, ~c.dr.on, Update(i.op) PROVE Updates(i, AcceptUpdate(b, i))
    BY <1>1, <1>7, <2>1 DEF AcceptUpdate, Updates, Taking, Fields, Bus, Chk, Told, KeepAt,
           KeepStore, KeepSeq
  <2>2. ASSUME c.sil = Nil, ~c.dr.on, ~Update(i.op) PROVE Stores(i, AcceptStore(b, i))
    BY <1>1, <1>7, <2>2 DEF AcceptStore, Stores, Taking, Fields, Bus, Chk, Told, KeepAt,
           KeepStore, KeepSeq
  <2> QED BY <1>3, <2>1, <2>2 DEF AcceptWrite, IdleMoves
<1>8. ASSUME taking, i.op.kind # "write", Bypass(i.op), c.ci_inv = Nil, ~c.dr.on
      PROVE  Bypasses(i, AcceptBypass(b, i))
  <2>1. i.op.kind = "read"
    BY <1>8, OpType DEF Pins
  <2> QED BY <1>1, <1>8, <2>1 DEF AcceptBypass, Bypasses, Taking, Fields, Bus, Chk, Told, KeepAt,
           KeepStore, KeepSeq
<1>9. ASSUME taking, i.op.kind # "write", ~Bypass(i.op), c.ci_inv = Nil
      PROVE  Reads(i, AcceptRead(b, i))
  <2>1. i.op.kind = "read"
    BY <1>9, OpType DEF Pins
  <2> QED BY <1>1, <1>9, <2>1 DEF AcceptRead, Reads, Taking, Fields, Bus, Chk, Told, KeepAt,
           KeepStore, KeepSeq
<1> QED BY <1>2, <1>3, <1>4, <1>5, <1>6, <1>7, <1>8, <1>9 DEF IdleMoves

LEMMA PassCases ==
    ASSUME Regs(c), NEW i, Pins(i), c.cst = "PASS"
    PROVE  PassMoves(i, Pass(i))
<1> DEFINE busyB == s_stb(i) \/ c.sil # Nil
           wi == c.winv /\ busyB
           ci == IF c.ci_chk /\ look_hit THEN SetOf(c.a) ELSE Base(i).ci_inv
           sil == IF c.st_chk /\ st_snooped THEN SetOf(c.a) ELSE Base(i).sil
           e == Base(i)
           b == [e EXCEPT !.winv = wi, !.ci_chk = FALSE, !.st_chk = FALSE, !.ci_inv = ci,
                          !.sil = sil, !.st_posted = FALSE, !.r_cb = FALSE]
           left == IF c.winv /\ busyB THEN [b EXCEPT !.cst = "WINV"] ELSE ToIdle(b)
           dr == [on |-> TRUE, a |-> c.a, n |-> c.n]
<1>1. e.winv = c.winv
    BY BaseKeeps
<1>2. Pass(i) = IF c.st_posted /\ c.r_cb /\ st_merge(i) THEN ToIdle(b)
                ELSE IF c.st_posted THEN [left EXCEPT !.dr = dr]
                ELSE IF i.ans = "err" THEN [left EXCEPT !.err_hold = TRUE]
                ELSE IF i.ans = "ack" THEN left
                ELSE b
    BY <1>1 DEF Pass
<1>3. /\ ci = (IF c.ci_chk /\ look_hit THEN SetOf(c.a) ELSE CiAfter(i))
      /\ sil = (IF c.st_chk /\ st_snooped THEN SetOf(c.a) ELSE SilAfter(i))
      /\ wi = (c.winv /\ PortBusy(i)) /\ busyB = PortBusy(i)
    BY BaseBus DEF Bus, PortBusy
<1>4. /\ Bus(i, e) /\ Chk(i, e) /\ DOMAIN e = Fields
      /\ e.cst = "PASS" /\ Told(e, FALSE, FALSE) /\ KeepAt(e) /\ KeepStore(e) /\ KeepSeq(e)
    BY BaseBus, BaseKeeps DEF Told, KeepAt, KeepStore, KeepSeq
<1> HIDE DEF busyB, wi, ci, sil, e, dr
<1>5. /\ DOMAIN b = Fields /\ PassBus(i, b) /\ b.dr = DrAfter(i) /\ b.cst = "PASS" /\ KeepAt(b)
    BY <1>3, <1>4 DEF Fields, Bus, Chk, Told, KeepAt, KeepSeq, PassBus
<1> HIDE DEF b
<1>6. /\ DOMAIN left = Fields /\ PassBus(i, left) /\ left.dr = DrAfter(i) /\ Leaves(i, left)
  <2> DEFINE l == [b EXCEPT !.cst = "WINV"]
             k == ToIdle(b)
  <2>1. /\ DOMAIN l = Fields /\ PassBus(i, l) /\ l.dr = DrAfter(i) /\ l.cst = "WINV" /\ KeepAt(l)
    BY <1>5 DEF Fields, KeepAt, PassBus, Chk, KeepSeq, Told
  <2>2. /\ DOMAIN k = Fields /\ PassBus(i, k) /\ k.dr = DrAfter(i) /\ k.cst = "IDLE" /\ ClearAt(k)
    BY <1>5 DEF Fields, ClearAt, PassBus, Chk, KeepSeq, Told, ToIdle
  <2> HIDE DEF l, k
  <2>3. left = IF c.winv /\ busyB THEN l ELSE k
    BY DEF l, k
  <2> QED BY <1>3, <2>1, <2>2, <2>3 DEF Leaves
<1> HIDE DEF left
<1>7. /\ PassBus(i, ToIdle(b)) /\ ToIdle(b).dr = DrAfter(i) /\ ToIdle(b).cst = "IDLE"
      /\ ClearAt(ToIdle(b))
    BY <1>5 DEF Fields, ClearAt, PassBus, Chk, KeepSeq, Told, ToIdle
<1>8. /\ PassBus(i, [left EXCEPT !.dr = dr]) /\ [left EXCEPT !.dr = dr].dr = dr
      /\ Leaves(i, [left EXCEPT !.dr = dr])
    BY <1>6 DEF Fields, ClearAt, PassBus, Chk, KeepSeq, Told, KeepAt, Leaves
<1>9. /\ PassBus(i, [left EXCEPT !.err_hold = TRUE])
      /\ [left EXCEPT !.err_hold = TRUE].dr = DrAfter(i)
      /\ Leaves(i, [left EXCEPT !.err_hold = TRUE])
    BY <1>6 DEF Fields, ClearAt, PassBus, Chk, KeepSeq, Told, KeepAt, Leaves
<1>10. CASE c.st_posted /\ c.r_cb /\ st_merge(i)
    BY <1>2, <1>7, <1>10 DEF PassMoves, Merges
<1>11. CASE c.st_posted /\ ~(c.r_cb /\ st_merge(i))
    BY <1>2, <1>8, <1>11 DEF PassMoves, Drains, dr
<1>12. CASE ~c.st_posted /\ i.ans = "err"
    BY <1>2, <1>9, <1>12 DEF PassMoves, Passes
<1>13. CASE ~c.st_posted /\ i.ans = "ack"
    BY <1>2, <1>6, <1>13 DEF PassMoves, Passes
<1>14. CASE ~c.st_posted /\ i.ans = "none"
    BY <1>2, <1>5, <1>14 DEF PassMoves, Stays
<1> QED BY <1>10, <1>11, <1>12, <1>13, <1>14 DEF Pins

LEMMA LineCases ==
    ASSUME Regs(c), NEW i, Pins(i), c.cst \in {"LOOK", "FILL", "TAGW", "FERR", "WINV", "SWEEP"}
    PROVE  LineMoves(i, Fsm(i))
<1> DEFINE b == Base(i)
           k == ToIdle(b)
<1>1. /\ DOMAIN b = Fields /\ b.cst = c.cst /\ Bus(i, b) /\ Chk(i, b) /\ Told(b, FALSE, FALSE)
      /\ KeepAt(b) /\ KeepStore(b) /\ KeepSeq(b) /\ b.beat = c.beat
    BY BaseBus, BaseKeeps DEF Told, KeepAt, KeepStore, KeepSeq
<1>2. /\ c.cst = "LOOK" => Fsm(i) = IF LookHits(i) THEN [k EXCEPT !.ack = TRUE]
                ELSE IF c.dr.on THEN b
                ELSE IF rq \in db[SetOf(c.a)]
                THEN IF i.walk_busy THEN b ELSE StartPush(b, SetOf(c.a), {rq}, "LOOK")
                ELSE [b EXCEPT !.cst = "FILL", !.way = rq, !.beat = 0]
      /\ c.cst = "FILL" => Fsm(i) = IF i.ans = "err" THEN [b EXCEPT !.cst = "FERR", !.err_hold = TRUE]
                ELSE IF i.ans = "none" THEN b
                ELSE IF c.beat = Beats - 1 THEN [b EXCEPT !.cst = "TAGW"]
                ELSE [b EXCEPT !.beat = @ + 1]
      /\ c.cst = "TAGW" => Fsm(i) = [k EXCEPT !.ack = TRUE]
      /\ c.cst = "FERR" => Fsm(i) = IF snoop_wr(i) THEN [b EXCEPT !.err_hold = @ /\ i.req]
                   ELSE ToIdle([b EXCEPT !.err_hold = @ /\ i.req])
      /\ c.cst = "WINV" => Fsm(i) = IF s_stb(i) \/ c.sil # Nil THEN b
                                    ELSE ToIdle([b EXCEPT !.winv = FALSE])
      /\ c.cst = "SWEEP" => Fsm(i) = IF sweep_push
                    THEN IF c.dr.on \/ i.walk_busy THEN b
                         ELSE StartPush(b, c.cnt, db[c.cnt], "SWEEP")
                    ELSE IF sweep_last THEN [k EXCEPT !.cinv_done = TRUE, !.cnt = 0]
                    ELSE [b EXCEPT !.cnt = @ + 1]
    BY DEF Fsm, Look, Fill, Ferr, Winv, Sweep
<1> HIDE DEF b
<1>3. /\ DOMAIN k = Fields /\ Back(i, k) /\ k.cinv_done = FALSE
    BY <1>1 DEF Fields, Bus, Chk, ClearAt, KeepStore, KeepSeq, Back, ToIdle, Told
<1> HIDE DEF k
<1>4. Back(i, [k EXCEPT !.ack = TRUE]) /\ Told([k EXCEPT !.ack = TRUE], TRUE, FALSE)
    BY <1>3 DEF Fields, Bus, Chk, ClearAt, KeepStore, KeepSeq, Back, Told
<1>5. CASE c.cst = "LOOK"
  <2>1. ASSUME c.dr.on \/ i.walk_busy, ~LookHits(i) PROVE Waits(i, b)
    BY <1>1, <1>5, <2>1 DEF Waits, Keep
  <2>2. ASSUME ~LookHits(i), ~c.dr.on, rq \in db[SetOf(c.a)], ~i.walk_busy
        PROVE  Evicts(i, StartPush(b, SetOf(c.a), {rq}, "LOOK"))
    <3> DEFINE r == StartPush(b, SetOf(c.a), {rq}, "LOOK")
    <3>1. Ready(i, b)
      BY <1>1 DEF Ready, KeepSeq
    <3>2. Begins(i, r, SetOf(c.a), {rq}, "LOOK") /\ r.wl_ph = b.wl_ph /\ r.wk_chk = b.wk_chk
      BY <3>1, PushFields
    <3> HIDE DEF r
    <3>3. Evicts(i, r)
      BY <1>1, <1>5, <2>2, <3>2 DEF Evicts, Chk, KeepSeq
    <3> QED BY <3>3 DEF r
  <2>3. ASSUME ~LookHits(i), ~c.dr.on, rq \notin db[SetOf(c.a)]
        PROVE  Misses(i, [b EXCEPT !.cst = "FILL", !.way = rq, !.beat = 0])
    BY <1>1, <1>5, <2>3 DEF Misses, Fields, Bus, Chk, Told, KeepAt, KeepStore, KeepSeq
  <2>4. LookHits(i) => Hits(i, [k EXCEPT !.ack = TRUE])
    BY <1>4 DEF Hits
  <2> QED BY <1>2, <1>5, <2>1, <2>2, <2>3, <2>4 DEF LineMoves
<1>6. CASE c.cst = "FILL"
  <2>1. i.ans = "none" => Waits(i, b)
    BY <1>1, <1>6 DEF Waits, Keep
  <2>2. i.ans = "err" => Fails(i, [b EXCEPT !.cst = "FERR", !.err_hold = TRUE])
    BY <1>1, <1>6 DEF Fails, Keep, Fields, Bus, Chk, Told, KeepAt, KeepStore, KeepSeq
  <2>3. i.ans = "ack" /\ c.beat = Beats - 1 => Filled(i, [b EXCEPT !.cst = "TAGW"])
    BY <1>1, <1>6 DEF Filled, Keep, Fields, Bus, Chk, Told, KeepAt, KeepStore, KeepSeq
  <2>4. i.ans = "ack" /\ c.beat # Beats - 1 => Beaten(i, [b EXCEPT !.beat = @ + 1])
    BY <1>1, <1>6 DEF Beaten, Fields, Bus, Chk, Told, KeepAt, KeepStore, KeepSeq
  <2> QED BY <1>2, <1>6, <2>1, <2>2, <2>3, <2>4 DEF LineMoves, Pins
<1>7. CASE c.cst = "TAGW"
    BY <1>2, <1>4, <1>7 DEF Tags, LineMoves
<1>8. CASE c.cst = "FERR"
  <2> DEFINE d == [b EXCEPT !.err_hold = @ /\ i.req]
  <2>1. /\ DOMAIN d = Fields /\ d.cst = c.cst /\ Told(d, FALSE, FALSE) /\ Keep(i, d)
    BY <1>1 DEF Fields, Keep, Bus, Chk, Told, KeepAt, KeepStore, KeepSeq
  <2>2. Fsm(i) = IF snoop_wr(i) THEN d ELSE ToIdle(d)
    BY <1>2, <1>8
  <2> HIDE DEF d
  <2>3. Back(i, ToIdle(d)) /\ Told(ToIdle(d), FALSE, FALSE)
    BY <2>1 DEF Fields, Keep, Bus, Chk, ClearAt, KeepStore, KeepSeq, Back, ToIdle, Told
  <2> QED BY <1>8, <2>1, <2>2, <2>3 DEF LineMoves, Waits, Recovers
<1>9. CASE c.cst = "WINV"
  <2> DEFINE d == ToIdle([b EXCEPT !.winv = FALSE])
  <2>1. /\ d.cst = "IDLE" /\ ClearAt(d) /\ d.st_chk = c.st_chk /\ d.st_posted = c.st_posted
        /\ d.r_cb = c.r_cb /\ d.winv = FALSE /\ d.ci_chk = c.ci_chk
        /\ Told(d, FALSE, FALSE) /\ Bus(i, d) /\ Chk(i, d) /\ KeepSeq(d)
    BY <1>1 DEF Fields, Bus, Chk, ClearAt, KeepStore, KeepSeq, ToIdle, Told
  <2>2. Fsm(i) = IF s_stb(i) \/ c.sil # Nil THEN b ELSE d
    BY <1>2, <1>9
  <2> HIDE DEF d
  <2> QED BY <1>1, <1>9, <2>1, <2>2 DEF LineMoves, Waits, Keep, Clears
<1>10. CASE c.cst = "SWEEP"
  <2>1. sweep_push => Waits(i, b)
    BY <1>1, <1>10 DEF Waits, Keep
  <2>2. ASSUME sweep_push, ~c.dr.on, ~i.walk_busy
        PROVE  Empties(i, StartPush(b, c.cnt, db[c.cnt], "SWEEP"))
    <3> DEFINE r == StartPush(b, c.cnt, db[c.cnt], "SWEEP")
    <3>1. Ready(i, b)
      BY <1>1 DEF Ready, KeepSeq
    <3>2. Begins(i, r, c.cnt, db[c.cnt], "SWEEP") /\ r.wl_ph = b.wl_ph /\ r.wk_chk = b.wk_chk
      BY <3>1, PushFields
    <3> HIDE DEF r
    <3>3. Empties(i, r)
      BY <1>1, <1>10, <2>2, <3>2 DEF Empties, Chk, KeepSeq
    <3> QED BY <3>3 DEF r
  <2>3. ~sweep_push /\ sweep_last => Ends(i, [k EXCEPT !.cinv_done = TRUE, !.cnt = 0])
    <3>1. k.ack = FALSE
      BY <1>1 DEF k, ToIdle, Fields, Told
    <3> QED BY <1>3, <1>10, <3>1 DEF Ends, Back, Fields, Bus, Chk, ClearAt, KeepStore, KeepSeq, Told
  <2>4. ~sweep_push /\ ~sweep_last => Counts(i, [b EXCEPT !.cnt = @ + 1])
    BY <1>1, <1>10 DEF Counts, Fields, Bus, Chk, Told, KeepAt, KeepStore, KeepSeq
  <2> QED BY <1>2, <1>10, <2>1, <2>2, <2>3, <2>4 DEF LineMoves
<1> QED BY <1>5, <1>6, <1>7, <1>8, <1>9, <1>10

LEMMA PushCases ==
    ASSUME Regs(c), NEW i, Pins(i), c.cst \in {"WLOOK", "PUSH"}
    PROVE  PushMoves(i, Fsm(i))
<1> DEFINE b == Base(i)
           rest == c.p.mask \ {c.p.way}
<1>1. /\ DOMAIN b = Fields /\ b.cst = c.cst /\ Bus(i, b) /\ Chk(i, b) /\ Told(b, FALSE, FALSE)
      /\ KeepAt(b) /\ KeepStore(b) /\ KeepSeq(b) /\ b.p = c.p
    BY BaseBus, BaseKeeps DEF Told, KeepAt, KeepStore, KeepSeq
<1>2. CASE c.cst = "WLOOK"
  <2> DEFINE d == [b EXCEPT !.wk_chk = TRUE, !.wl_ph = FALSE]
             e == ToIdle([d EXCEPT !.p = NoPush])
  <2>1. Fsm(i) = IF ~c.wl_ph THEN [b EXCEPT !.wl_ph = TRUE]
                 ELSE IF wl_match(i) # {} THEN StartPush(d, c.p.set, wl_match(i), "IDLE")
                 ELSE e
    BY <1>2 DEF Fsm, Wlook
  <2> HIDE DEF b
  <2>2. /\ DOMAIN d = Fields /\ d.cst = c.cst /\ Bus(i, d) /\ Told(d, FALSE, FALSE)
        /\ KeepAt(d) /\ KeepStore(d) /\ d.p = c.p /\ d.cnt = c.cnt /\ d.wk_chk = TRUE /\ d.wl_ph = FALSE
    BY <1>1 DEF Fields, Bus, Told, KeepAt, KeepStore, KeepSeq
  <2> HIDE DEF d
  <2>3. /\ e.cst = "IDLE" /\ e.p = NoPush /\ e.cnt = c.cnt /\ e.wk_chk = TRUE /\ e.wl_ph = FALSE
        /\ Told(e, FALSE, FALSE) /\ Bus(i, e) /\ ClearAt(e) /\ KeepStore(e)
    BY <2>2 DEF Fields, Bus, Told, ClearAt, KeepStore, ToIdle
  <2>4. ~c.wl_ph => Rereads(i, [b EXCEPT !.wl_ph = TRUE])
    BY <1>1, <1>2 DEF Rereads, Fields, Bus, Chk, Told, KeepAt, KeepStore, KeepSeq
  <2>5. ASSUME c.wl_ph, wl_match(i) # {}
        PROVE  Found(i, StartPush(d, c.p.set, wl_match(i), "IDLE"))
    <3> DEFINE r == StartPush(d, c.p.set, wl_match(i), "IDLE")
    <3>1. Ready(i, d)
      BY <2>2 DEF Ready
    <3>2. Begins(i, r, c.p.set, wl_match(i), "IDLE") /\ r.wl_ph = d.wl_ph /\ r.wk_chk = d.wk_chk
      BY <3>1, PushFields
    <3> HIDE DEF r
    <3>3. Found(i, r)
      BY <1>2, <2>2, <2>5, <3>2 DEF Found
    <3> QED BY <3>3 DEF r
  <2> HIDE DEF e
  <2> QED BY <1>2, <2>1, <2>3, <2>4, <2>5 DEF PushMoves, Absent
<1>3. CASE c.cst = "PUSH"
  <2> DEFINE q1 == [c.p EXCEPT !.rb = @ + 1]
             q2 == [c.p EXCEPT !.out = TRUE, !.req = TRUE, !.wb = 0, !.rb = 0, !.tag = tq[c.p.way]]
             q3 == [c.p EXCEPT !.req = FALSE, !.wb = @ + 1]
             q4 == [c.p EXCEPT !.req = TRUE]
             e == [b EXCEPT !.post_err = TRUE]
  <2>1. Fsm(i) = IF ~c.p.out
                 THEN IF c.p.rb < Beats THEN [b EXCEPT !.p = q1] ELSE [b EXCEPT !.p = q2]
                 ELSE IF c.p.req /\ i.ans = "err" THEN PushEnds(e)
                 ELSE IF c.p.req /\ i.ans = "ack"
                 THEN IF c.p.wb < Beats - 1 THEN [b EXCEPT !.p = q3]
                      ELSE IF rest = {} THEN PushEnds(b)
                      ELSE StartPush(b, c.p.set, rest, c.p.ret)
                 ELSE [b EXCEPT !.p = q4]
    <3>1. /\ [b EXCEPT !.p.rb = @ + 1] = [b EXCEPT !.p = q1]
          /\ [b EXCEPT !.p.out = TRUE, !.p.req = TRUE, !.p.wb = 0, !.p.rb = 0,
                       !.p.tag = tq[c.p.way]] = [b EXCEPT !.p = q2]
          /\ [b EXCEPT !.p.req = FALSE, !.p.wb = @ + 1] = [b EXCEPT !.p = q3]
          /\ [b EXCEPT !.p.req = TRUE] = [b EXCEPT !.p = q4]
      BY <1>1
    <3> QED BY <1>3, <3>1 DEF Fsm, Push
  <2> HIDE DEF b, q1, q2, q3, q4, rest
  <2>2. ASSUME NEW q
        PROVE  /\ [b EXCEPT !.p = q].cst = "PUSH" /\ [b EXCEPT !.p = q].p = q
               /\ Pushes(i, [b EXCEPT !.p = q])
    BY <1>1, <1>3 DEF Fields, Pushes, Bus, Chk, Told, KeepAt, KeepStore, KeepSeq
  <2>3. /\ DOMAIN e = Fields /\ Bus(i, e) /\ Chk(i, e) /\ Told(e, FALSE, FALSE)
        /\ KeepAt(e) /\ KeepStore(e) /\ KeepSeq(e)
    BY <1>1 DEF Fields, Bus, Chk, Told, KeepAt, KeepStore, KeepSeq
  <2> HIDE DEF e
  <2>4. ASSUME NEW d, DOMAIN d = Fields, Bus(i, d), Chk(i, d), Told(d, FALSE, FALSE),
               KeepAt(d), KeepStore(d), KeepSeq(d)
        PROVE  PushEnds(d).cst = c.p.ret /\ PushEnds(d).p = NoPush /\ Pushes(i, PushEnds(d))
    BY <1>3, <2>4 DEF PushEnds, Fields, Pushes, Bus, Chk, Told, KeepAt, KeepStore, KeepSeq
  <2>5. /\ PushEnds(b).cst = c.p.ret /\ PushEnds(b).p = NoPush /\ Pushes(i, PushEnds(b))
        /\ PushEnds(e).cst = c.p.ret /\ PushEnds(e).p = NoPush /\ Pushes(i, PushEnds(e))
    BY <1>1, <2>3, <2>4
  <2> DEFINE r == StartPush(b, c.p.set, rest, c.p.ret)
  <2>6. r.cst = "PUSH" /\ r.p = FirstPush(c.p.set, rest, c.p.ret) /\ Pushes(i, r)
    <3>1. Ready(i, b)
      BY <1>1 DEF Ready, KeepSeq
    <3>2. Begins(i, r, c.p.set, rest, c.p.ret) /\ r.wl_ph = b.wl_ph /\ r.wk_chk = b.wk_chk
      BY <3>1, PushFields
    <3> HIDE DEF r
    <3> QED BY <1>1, <1>3, <3>2 DEF Begins, Pushes, Chk, KeepSeq
  <2> HIDE DEF r
  <2>7. CASE ~c.p.out /\ c.p.rb < Beats
    BY <1>3, <2>1, <2>2, <2>7 DEF PushMoves, Fetches, q1
  <2>8. CASE ~c.p.out /\ ~(c.p.rb < Beats)
    <3>1. c.p.rb = Beats
      BY <2>8, Sizes DEF Regs, Pushing
    <3> QED BY <1>3, <2>1, <2>2, <2>8, <3>1 DEF PushMoves, Opens, q2
  <2>9. CASE c.p.out /\ c.p.req /\ i.ans = "err"
    BY <1>3, <2>1, <2>5, <2>9 DEF PushMoves, Breaks, push_out
  <2>10. CASE c.p.out /\ c.p.req /\ i.ans = "ack" /\ c.p.wb < Beats - 1
    BY <1>3, <2>1, <2>2, <2>10 DEF PushMoves, Moves, push_out, q3
  <2>11. CASE c.p.out /\ c.p.req /\ i.ans = "ack" /\ ~(c.p.wb < Beats - 1)
    <3>1. c.p.wb = Beats - 1
      <4>1. c.p.wb \in 0..Beats - 1
        BY DEF Regs, Pushing, Word
      <4> QED BY <2>11, <4>1, Sizes
    <3>2. CASE rest = {}
      BY <1>3, <2>1, <2>5, <2>11, <3>1, <3>2 DEF PushMoves, Finishes, push_out, rest
    <3>3. CASE rest # {}
      <4>1. Fsm(i) = r
        BY <2>1, <2>11, <3>3 DEF r
      <4> QED BY <1>3, <2>6, <2>11, <3>1, <3>3, <4>1 DEF PushMoves, Another, push_out, rest
    <3> QED BY <3>2, <3>3
  <2>12. CASE c.p.out /\ (c.p.req => i.ans = "none")
    BY <1>3, <2>1, <2>2, <2>12 DEF PushMoves, Raises, q4
  <2> QED BY <2>7, <2>8, <2>9, <2>10, <2>11, <2>12 DEF Pins
<1> QED BY <1>2, <1>3

LEMMA FsmCases ==
    ASSUME Regs(c), NEW i, Pins(i)
    PROVE  IdleMoves(i, Fsm(i)) \/ PassMoves(i, Fsm(i)) \/ LineMoves(i, Fsm(i)) \/ PushMoves(i, Fsm(i))
<1>1. c.cst = "IDLE" => Fsm(i) = Idle(i)
    BY DEF Fsm
<1>2. c.cst = "PASS" => Fsm(i) = Pass(i)
    BY DEF Fsm
<1> QED BY <1>1, <1>2, IdleCases, PassCases, LineCases, PushCases DEF Regs, States

----------------------------------------------------------------------------
(* The FSM, the search and the core's request go in step. *)

\* No PTEST, and no bus error that comes too late for the store it is of.
Orderly == "ptest" \notin Works /\ "late" \notin Errors

Serving == core = "access" /\ ~op.miss
Reading == Serving /\ op.kind = "read" /\ ~Bypass(op) /\ c.a = op.a
Ask == core # "ptest" /\ (core # "access" => op = NoOp)
SearchAlone == wst # "idle" => /\ core = "access" /\ op.miss /\ ~c.dr.on /\ ~c.ack
                               /\ c.cst \in {"IDLE", "FERR", "WINV", "WLOOK", "PUSH"}
DrainAlone == c.dr.on => c.cst \in {"IDLE", "LOOK", "WINV", "SWEEP"}
ReadingOn == c.cst \in {"LOOK", "FILL", "TAGW"} \/ (c.cst = "PUSH" /\ c.p.ret = "LOOK") => Reading
PassingOn == c.cst = "PASS" => /\ Serving /\ Bypass(op) /\ c.a = op.a /\ c.n = op.n
                               /\ c.st_posted = Posts(op)
Posted == /\ c.st_posted => c.cst = "PASS" /\ c.ack /\ ~m_up
          /\ c.st_chk => c.st_posted /\ Update(op) /\ ~c.winv /\ c.sil = Nil
          /\ c.r_cb => c.st_chk /\ op.cb
          /\ c.ci_chk => c.cst = "PASS" /\ ~c.st_posted /\ c.ci_inv = Nil
          /\ c.winv => c.cst \in {"PASS", "WINV"}
Answered == /\ c.ack => Serving /\ (c.cst = "IDLE" \/ c.st_posted)
            /\ c.cinv_done => c.cst = "IDLE" /\ core = "cinv"
Sweeping == c.cst = "SWEEP" \/ (c.cst = "PUSH" /\ c.p.ret = "SWEEP")
PushFor == /\ Sweeping => core = "cinv"
           /\ c.cst = "PUSH" /\ c.p.ret = "IDLE" => walk_pend \/ Serving
           /\ c.cst = "WLOOK" => walk_pend
           /\ c.cst = "PUSH" /\ ~c.p.out => ~c.p.req
UpWhileAsked == m_up => m_req(c_req)
InStep == /\ Ask /\ SearchAlone /\ DrainAlone /\ ReadingOn /\ PassingOn /\ Posted /\ Answered
          /\ PushFor /\ UpWhileAsked

LEMMA NotLate ==
    ASSUME Orderly, NEW i, NEW ce, NEW snp, NEW ans, NEW w_ans, Inputs(i, ce, snp, ans, w_ans)
    PROVE  ans = "err" => ~c.dr.on /\ ~push_out
BY DEF Orderly, Inputs, Late

LEMMA CoreMoves ==
    ASSUME Types, Orderly, InStep, NEW i, NEW snp, NEW ans, NEW w_ans,
           Step(i, TRUE, snp, ans, w_ans)
    PROVE  /\ Ask'
           /\ Serving /\ ~c_ack(ans) /\ ans # "err" => UNCHANGED <<core, op>>
           /\ core = "cinv" /\ ~c.cinv_done => UNCHANGED <<core, op>>
           /\ wst \in {"tab", "utab", "page"} => UNCHANGED <<core, op>>
           /\ core = "access" /\ op.miss /\ ~(wst = "fill" /\ ~w_active) /\ wst # "flt" =>
                  UNCHANGED <<core, op>>
           /\ core = "access" /\ wst = "fill" /\ ~w_active => core' = "access" /\ ~op'.miss
<1>1. CoreStep(ans, Walked) /\ (ans = "err" => ~c.dr.on /\ ~push_out /\ m_req(c_req))
    BY NotLate DEF Step, Inputs
<1>2. wst # "idle" => ans # "err" /\ ~c_req
    BY <1>1 DEF InStep, SearchAlone, m_req, push_out, c_req, passing, Posted
<1>3. core \in {"none", "access", "cinv"} /\ (core # "access" => op = NoOp)
    BY DEF Types, Others, InStep, Ask
<1>0. wst # "idle" => core = "access"
    BY DEF InStep, SearchAlone
<1>4. CASE core = "none"
  <2>1. NewWork
    BY <1>1, <1>4 DEF CoreStep
  <2>2. PICK k \in Works \cup {"none"} :
            core' = k /\ op' \in IF k = "access" THEN Ops ELSE {NoOp}
    BY <2>1 DEF NewWork
  <2>3. Ask'
    BY <2>2 DEF Orderly, Ask
  <2> QED BY <1>0, <1>4, <2>3 DEF Serving
<1>5. CASE core = "cinv"
    BY <1>0, <1>1, <1>3, <1>5 DEF CoreStep, Released, KeepWork, Ask, Serving
<1>6. CASE core = "access"
  <2>1. IF (c_req /\ c_ack(ans)) \/ ans = "err" \/ Walked = "flt" THEN Released
        ELSE IF Walked = "fill" THEN core' = core /\ op' = [op EXCEPT !.miss = FALSE]
        ELSE KeepWork
    BY <1>1, <1>6 DEF CoreStep
  <2>2. Serving => wst = "idle"
    BY DEF InStep, SearchAlone, Serving
  <2>3. "miss" \in DOMAIN op
    BY OpType DEF Types, Others
  <2>4. Ask'
    BY <1>6, <2>1 DEF Released, KeepWork, Ask
  <2>5. CASE wst = "fill" /\ ~w_active
    BY <1>2, <1>6, <2>1, <2>2, <2>3, <2>4, <2>5 DEF Walked, KeepWork
  <2>6. CASE wst = "flt"
    BY <1>6, <2>2, <2>4, <2>6
  <2>7. CASE wst # "flt" /\ ~(wst = "fill" /\ ~w_active)
    <3>1. Walked = "no"
      BY <2>7 DEF Walked
    <3>2. ~(c_req /\ c_ack(ans)) /\ ans # "err" => UNCHANGED <<core, op>>
      BY <2>1, <3>1 DEF KeepWork
    <3>3. op.miss => ~c_req
      BY DEF c_req
    <3>4. op.miss => ans # "err"
      BY <1>1, <3>3 DEF InStep, m_req, passing, PassingOn, ReadingOn, Reading, Serving, Posted
    <3> QED BY <1>2, <1>6, <2>2, <2>4, <2>7, <3>2, <3>3, <3>4 DEF Serving
  <2> QED BY <2>5, <2>6, <2>7
<1> QED BY <1>3, <1>4, <1>5, <1>6

LEMMA SearchMoves ==
    ASSUME Types, Orderly, InStep, NEW i, NEW snp, NEW ans, NEW w_ans,
           Step(i, TRUE, snp, ans, w_ans)
    PROVE  /\ wst' # "idle" /\ wst = "idle" => core = "access" /\ op.miss /\ ~walk_hold
           /\ wst # "idle" /\ wst' # "idle" => ~(wst = "fill" /\ ~w_active) /\ wst # "flt"
           /\ walk_pend /\ wk_wait(i) => UNCHANGED <<wst, w_active, w_issued, w_req_wr, w_req_addr>>
           /\ wst = "idle" => ~w_active
<1>1. MmuStep(w_ans, wk_wait(i)) /\ (w_ans = "ack" => walker_req)
    BY DEF Step, Inputs
<1>2. Search /\ core # "ptest"
    BY DEF Types, InStep, Ask
<1>3. wst = "idle" => ~w_active
    BY <1>2 DEF Search
<1>4. wst = "idle" => StartSearch
    BY <1>1, <1>2 DEF MmuStep, Search
<1>5. wst' # "idle" /\ wst = "idle" => core = "access" /\ op.miss /\ ~walk_hold
    BY <1>2, <1>4 DEF StartSearch, StayMmu
<1>6. wst = "flt" \/ (wst = "fill" /\ ~w_active) => wst' = "idle"
    BY <1>1, <1>2 DEF MmuStep, Search, SearchEnds
<1>7. ASSUME walk_pend, wk_wait(i)
      PROVE  UNCHANGED <<wst, w_active, w_issued, w_req_wr, w_req_addr>>
  <2>1. w_active /\ ~w_issued /\ wst \in {"tab", "utab", "page", "fill"} /\ w_ans # "ack"
    BY <1>1, <1>2, <1>7 DEF walk_pend, walker_req, Search
  <2>2. StayMmu
    BY <1>1, <1>7, <2>1 DEF MmuStep
  <2> QED BY <2>2 DEF StayMmu
<1> QED BY <1>3, <1>5, <1>6, <1>7

\* The neighbours of one enabled clock.
Around(i, ans, w_ans) ==
    /\ Ask' /\ Pins(i)
    /\ Serving /\ ~c_ack(ans) /\ ans # "err" => UNCHANGED <<core, op>>
    /\ core = "cinv" /\ ~c.cinv_done => UNCHANGED <<core, op>>
    /\ wst \in {"tab", "utab", "page"} => UNCHANGED <<core, op>>
    /\ core = "access" /\ op.miss /\ ~(wst = "fill" /\ ~w_active) /\ wst # "flt" =>
           UNCHANGED <<core, op>>
    /\ core = "access" /\ wst = "fill" /\ ~w_active => core' = "access" /\ ~op'.miss
    /\ wst' # "idle" /\ wst = "idle" => core = "access" /\ op.miss /\ ~walk_hold
    /\ wst # "idle" /\ wst' # "idle" => ~(wst = "fill" /\ ~w_active) /\ wst # "flt"
    /\ walk_pend /\ wk_wait(i) => UNCHANGED <<wst, w_active, w_issued, w_req_wr, w_req_addr>>
    /\ wst = "idle" => ~w_active
    /\ i.ce /\ i.req = c_req /\ i.op = op /\ i.cinv = (core = "cinv") /\ i.walk_busy = w_active
    /\ i.wk_pend = walk_pend /\ i.wk_addr = w_req_addr /\ i.ans = ans
    /\ ans = "err" => ~c.dr.on /\ ~push_out
    /\ ans # "none" => m_req(c_req) /\ m_up
    /\ w_ans = "ack" => walker_req
    /\ m_up' = (m_req(c_req) /\ ans = "none")
    /\ Regs(c) /\ Search /\ core \in {"none", "access", "cinv", "ptest"}

LEMMA AroundHolds ==
    ASSUME Types, Orderly, InStep, NEW i, NEW snp, NEW ans, NEW w_ans,
           Step(i, TRUE, snp, ans, w_ans)
    PROVE  Around(i, ans, w_ans)
<1>1. /\ i.ce /\ i.req = c_req /\ i.op = op /\ i.cinv = (core = "cinv") /\ i.walk_busy = w_active
      /\ i.wk_pend = walk_pend /\ i.wk_addr = w_req_addr /\ i.ans = ans
      /\ ans # "none" => m_req(c_req) /\ m_up
      /\ w_ans = "ack" => walker_req
      /\ m_up' = (m_req(c_req) /\ ans = "none")
    BY DEF Step, Inputs
<1>2. Regs(c) /\ Search /\ core \in {"none", "access", "cinv", "ptest"}
    BY DEF Types, Others
<1>3. Pins(i) /\ (ans = "err" => ~c.dr.on /\ ~push_out)
    BY PinsOf, NotLate DEF Step
<1> QED BY <1>1, <1>2, <1>3, CoreMoves, SearchMoves DEF Around

LEMMA WalkHeld ==
    ASSUME InStep, NEW i, NEW ans, NEW w_ans, Around(i, ans, w_ans), c.cst \in {"WLOOK", "PUSH"}
    PROVE  /\ c.cst = "WLOOK" => walk_pend
           /\ walk_pend => walk_pend' /\ UNCHANGED wst
<1>1. ASSUME walk_pend PROVE walk_pend' /\ UNCHANGED wst
  <2>1. i.wk_pend
    BY <1>1 DEF Around
  <2>2. wk_wait(i)
    BY <2>1 DEF wk_wait
  <2> QED BY <1>1, <2>2 DEF Around, walk_pend
<1> QED BY <1>1 DEF InStep, PushFor

LEMMA IdleInStep ==
    ASSUME InStep, NEW i, NEW ans, NEW w_ans, Around(i, ans, w_ans), IdleMoves(i, c')
    PROVE  InStep'
<1>1. ASSUME Writes(i, c')
      PROVE  c'.p.ret = "IDLE" /\ ~c'.p.out /\ ~c'.p.req /\ ~c.dr.on /\ Asked(i)
             /\ Begins(i, c', c'.p.set, c'.p.mask, "IDLE")
    BY <1>1 DEF Writes, Begins, FirstPush, NoPush, need_push
<1> USE DEF InStep, Ask, SearchAlone, DrainAlone, ReadingOn, Reading, PassingOn, Serving,
       Posted, Answered, PushFor, Sweeping, UpWhileAsked, Around, Search, Regs, Pins, Bus,
       Chk, Told, KeepAt, ClearAt, KeepStore, KeepSeq, Keep, Back, DrAfter, SilAfter,
       CiAfter, Begins, Taking, Asked, PassBus, Leaves, PortBusy, c_req, c_ack, passing,
       m_req, push_out, walk_pend, walk_hold, post_busy, sweep_push, sweep_hit, wk_wait,
       wk_push, NoDrain
<1>2. CASE Waits(i, c')
    BY <1>2 DEF Waits
<1>3. CASE Looks(i, c')
    BY <1>3 DEF Looks
<1>4. CASE Sweeps(i, c')
    BY <1>4 DEF Sweeps, Cinv
<1>5. CASE Writes(i, c')
  <2>1. Ask'
    BY <1>1, <1>5 DEF Writes
  <2>2. SearchAlone'
    BY <1>1, <1>5 DEF Writes
  <2>3. DrainAlone'
    BY <1>1, <1>5 DEF Writes
  <2>4. ReadingOn'
    BY <1>1, <1>5 DEF Writes
  <2>5. PassingOn'
    BY <1>1, <1>5 DEF Writes
  <2>6. Posted'
    BY <1>1, <1>5 DEF Writes
  <2>7. Answered'
    BY <1>1, <1>5 DEF Writes
  <2>8. PushFor'
    BY <1>1, <1>5 DEF Writes
  <2>9. UpWhileAsked'
    BY <1>1, <1>5 DEF Writes
  <2> QED BY <2>1, <2>2, <2>3, <2>4, <2>5, <2>6, <2>7, <2>8, <2>9
<1>6. CASE Updates(i, c')
  <2>1. Ask'
    BY <1>6 DEF Updates, Update, Posts, Bypass, StoreClears
  <2>2. SearchAlone'
    BY <1>6 DEF Updates, Update, Posts, Bypass, StoreClears
  <2>3. DrainAlone'
    BY <1>6 DEF Updates, Update, Posts, Bypass, StoreClears
  <2>4. ReadingOn'
    BY <1>6 DEF Updates, Update, Posts, Bypass, StoreClears
  <2>5. PassingOn'
    BY <1>6 DEF Updates, Update, Posts, Bypass, StoreClears
  <2>6. Posted'
    BY <1>6 DEF Updates, Update, Posts, Bypass, StoreClears
  <2>7. Answered'
    BY <1>6 DEF Updates, Update, Posts, Bypass, StoreClears
  <2>8. PushFor'
    BY <1>6 DEF Updates, Update, Posts, Bypass, StoreClears
  <2>9. UpWhileAsked'
    BY <1>6 DEF Updates, Update, Posts, Bypass, StoreClears
  <2> QED BY <2>1, <2>2, <2>3, <2>4, <2>5, <2>6, <2>7, <2>8, <2>9
<1>7. CASE Stores(i, c')
    BY <1>7 DEF Stores, Update, Posts, Bypass
<1>8. CASE Bypasses(i, c')
    BY <1>8 DEF Bypasses, Posts
<1>9. CASE Reads(i, c')
    BY <1>9 DEF Reads
<1> QED BY <1>2, <1>3, <1>4, <1>5, <1>6, <1>7, <1>8, <1>9 DEF IdleMoves

LEMMA PassInStep ==
    ASSUME InStep, NEW i, NEW ans, NEW w_ans, Around(i, ans, w_ans), PassMoves(i, c')
    PROVE  InStep'
<1>0. ASSUME Stays(i, c') PROVE PassingOn'
  <2>1. Serving /\ Bypass(op) /\ c.a = op.a /\ c.n = op.n /\ c.st_posted = Posts(op) /\ ~c_ack(ans)
    BY <1>0 DEF Stays, InStep, PassingOn, Around, c_ack, passing
  <2>2. c'.a = c.a /\ c'.n = c.n /\ c'.st_posted = c.st_posted /\ UNCHANGED <<core, op>>
    <3>1. c.st_posted = FALSE /\ c'.st_posted = FALSE
      BY <1>0 DEF Stays, PassBus, Around, Regs
    <3>2. ans # "err" /\ c'.a = c.a /\ c'.n = c.n
      BY <1>0 DEF Stays, KeepAt, Around
    <3> QED BY <2>1, <3>1, <3>2 DEF Around
  <2> QED BY <2>1, <2>2 DEF PassingOn, Serving
<1> USE DEF InStep, Ask, SearchAlone, DrainAlone, ReadingOn, Reading, PassingOn, Serving,
       Posted, Answered, PushFor, Sweeping, UpWhileAsked, Around, Search, Regs, Pins, Bus,
       Chk, Told, KeepAt, ClearAt, KeepStore, KeepSeq, Keep, Back, DrAfter, SilAfter,
       CiAfter, Begins, Taking, Asked, PassBus, Leaves, PortBusy, c_req, c_ack, passing,
       m_req, push_out, walk_pend, walk_hold, post_busy, sweep_push, sweep_hit, wk_wait,
       wk_push, NoDrain
<1>1. CASE Merges(i, c')
    BY <1>1 DEF Merges
<1>2. CASE Drains(i, c')
    BY <1>2 DEF Drains
<1>3. CASE Passes(i, c')
    BY <1>3 DEF Passes
<1>4. CASE Stays(i, c')
  <2>1. Ask'
    BY <1>4 DEF Stays
  <2>2. SearchAlone'
    BY <1>4 DEF Stays
  <2>3. DrainAlone'
    BY <1>4 DEF Stays
  <2>4. ReadingOn'
    BY <1>4 DEF Stays
  <2>5. PassingOn'
    BY <1>4, <1>0
  <2>6. Posted'
    BY <1>4 DEF Stays
  <2>7. Answered'
    BY <1>4 DEF Stays
  <2>8. PushFor'
    BY <1>4 DEF Stays
  <2>9. UpWhileAsked'
    BY <1>4 DEF Stays
  <2> QED BY <2>1, <2>2, <2>3, <2>4, <2>5, <2>6, <2>7, <2>8, <2>9
<1> QED BY <1>1, <1>2, <1>3, <1>4 DEF PassMoves

LEMMA LineInStep ==
    ASSUME InStep, NEW i, NEW ans, NEW w_ans, Around(i, ans, w_ans), LineMoves(i, c')
    PROVE  InStep'
<1>1. ASSUME Evicts(i, c')
      PROVE  c'.p.ret = "LOOK" /\ ~c'.p.out /\ ~c'.p.req
    BY <1>1 DEF Evicts, Begins, FirstPush, NoPush
<1>2. ASSUME Empties(i, c')
      PROVE  c'.p.ret = "SWEEP" /\ ~c'.p.out /\ ~c'.p.req
    BY <1>2 DEF Empties, Begins, FirstPush, NoPush
<1> USE DEF InStep, Ask, SearchAlone, DrainAlone, ReadingOn, Reading, PassingOn, Serving,
       Posted, Answered, PushFor, Sweeping, UpWhileAsked, Around, Search, Regs, Pins, Bus,
       Chk, Told, KeepAt, ClearAt, KeepStore, KeepSeq, Keep, Back, DrAfter, SilAfter,
       CiAfter, Begins, Taking, Asked, PassBus, Leaves, PortBusy, c_req, c_ack, passing,
       m_req, push_out, walk_pend, walk_hold, post_busy, sweep_push, sweep_hit, wk_wait,
       wk_push, NoDrain
<1>3. CASE Waits(i, c')
    BY <1>3 DEF Waits
<1>4. CASE Hits(i, c')
    BY <1>4 DEF Hits, LookHits
<1>5. CASE Evicts(i, c')
  <2>1. Ask'
    BY <1>1, <1>5 DEF Evicts
  <2>2. SearchAlone'
    BY <1>1, <1>5 DEF Evicts
  <2>3. DrainAlone'
    BY <1>1, <1>5 DEF Evicts
  <2>4. ReadingOn'
    BY <1>1, <1>5 DEF Evicts
  <2>5. PassingOn'
    BY <1>1, <1>5 DEF Evicts
  <2>6. Posted'
    BY <1>1, <1>5 DEF Evicts
  <2>7. Answered'
    BY <1>1, <1>5 DEF Evicts
  <2>8. PushFor'
    BY <1>1, <1>5 DEF Evicts
  <2>9. UpWhileAsked'
    BY <1>1, <1>5 DEF Evicts
  <2> QED BY <2>1, <2>2, <2>3, <2>4, <2>5, <2>6, <2>7, <2>8, <2>9
<1>6. CASE Misses(i, c')
    BY <1>6 DEF Misses
<1>7. CASE Beaten(i, c')
    BY <1>7 DEF Beaten
<1>8. CASE Filled(i, c')
    BY <1>8 DEF Filled
<1>9. CASE Fails(i, c')
    BY <1>9 DEF Fails
<1>10. CASE Tags(i, c')
    BY <1>10 DEF Tags
<1>11. CASE Recovers(i, c')
    BY <1>11 DEF Recovers
<1>12. CASE Clears(i, c')
    BY <1>12 DEF Clears
<1>13. CASE Empties(i, c')
    BY <1>2, <1>13 DEF Empties
<1>14. CASE Ends(i, c')
    BY <1>14 DEF Ends
<1>15. CASE Counts(i, c')
    BY <1>15 DEF Counts
<1> QED BY <1>3, <1>4, <1>5, <1>6, <1>7, <1>8, <1>9, <1>10, <1>11, <1>12, <1>13, <1>14, <1>15 DEF LineMoves

LEMMA PushInStep ==
    ASSUME InStep, NEW i, NEW ans, NEW w_ans, Around(i, ans, w_ans), PushMoves(i, c')
    PROVE  InStep'
<1>1. ASSUME Rereads(i, c')
      PROVE  walk_pend /\ walk_pend' /\ UNCHANGED wst
    BY <1>1, WalkHeld DEF Rereads
<1>2. ASSUME Found(i, c')
      PROVE  c'.p.ret = "IDLE" /\ ~c'.p.out /\ ~c'.p.req /\ walk_pend /\ walk_pend' /\ UNCHANGED wst
    BY <1>2, WalkHeld DEF Found, Begins, FirstPush, NoPush
<1>3. ASSUME Fetches(i, c')
      PROVE  c'.p.ret = c.p.ret /\ c'.p.out = c.p.out /\ c'.p.req = c.p.req
    BY <1>3 DEF Fetches, Around, Regs, Pushing
<1>4. ASSUME Opens(i, c')
      PROVE  c'.p.ret = c.p.ret /\ c'.p.out /\ c'.p.req
    BY <1>4 DEF Opens, Around, Regs, Pushing
<1>5. ASSUME Moves(i, c')
      PROVE  c'.p.ret = c.p.ret /\ c'.p.out = c.p.out
    BY <1>5 DEF Moves, Around, Regs, Pushing
<1>6. ASSUME Finishes(i, c')
      PROVE  c.p.ret \in {"IDLE", "LOOK", "SWEEP"}
    BY <1>6 DEF Around, Regs, Pushing
<1>7. ASSUME Another(i, c')
      PROVE  c'.p.ret = c.p.ret /\ ~c'.p.out /\ ~c'.p.req
             /\ (walk_pend => walk_pend')
    BY <1>7, WalkHeld DEF Another, Pushes, FirstPush, NoPush
<1>8. ASSUME Raises(i, c')
      PROVE  c'.p.ret = c.p.ret /\ c'.p.out = c.p.out /\ c'.p.req
    BY <1>8 DEF Raises, Around, Regs, Pushing
<1>a. ASSUME Another(i, c') \/ Finishes(i, c') PROVE ReadingOn'
  <2>1. /\ c.cst = "PUSH" /\ c.p.out /\ c'.a = c.a
        /\ c'.cst \in {"LOOK", "FILL", "TAGW"} \/ (c'.cst = "PUSH" /\ c'.p.ret = "LOOK") => c.p.ret = "LOOK"
    BY <1>6, <1>7, <1>a DEF Another, Finishes, Pushes, Begins, KeepAt, push_out
  <2>2. c.p.ret = "LOOK" => Reading
    BY <2>1 DEF InStep, ReadingOn
  <2>3. Reading => Serving /\ ~c_ack(ans) /\ ans # "err"
    BY <1>a, <2>1 DEF Another, Finishes, Around, Reading, InStep, Answered, Posted, c_ack, passing
  <2>4. Reading => Reading'
    BY <2>1, <2>3 DEF Around, Reading, Serving
  <2> QED BY <2>1, <2>2, <2>4 DEF ReadingOn
<1>b. ASSUME Another(i, c') PROVE PushFor'
  <2>1. /\ c.cst = "PUSH" /\ c'.cst = "PUSH" /\ c'.p.ret = c.p.ret /\ ~c'.p.req /\ ~c'.p.out
        /\ ans = "ack" /\ (walk_pend => walk_pend') /\ ~c_ack(ans)
    BY <1>7, <1>b DEF Another, Pushes, Begins, Around, InStep, Answered, Posted, c_ack, passing
  <2>2. /\ c.p.ret = "SWEEP" => core = "cinv" /\ ~c.cinv_done
        /\ c.p.ret = "IDLE" => walk_pend \/ Serving
    BY <2>1 DEF InStep, PushFor, Sweeping, Answered
  <2>3. c.p.ret = "SWEEP" => core' = "cinv"
    BY <2>2 DEF Around
  <2>4. c.p.ret = "IDLE" => walk_pend' \/ Serving'
    BY <2>1, <2>2 DEF Around, Serving
  <2> QED BY <2>1, <2>3, <2>4 DEF PushFor, Sweeping
<1> USE DEF InStep, Ask, SearchAlone, DrainAlone, ReadingOn, Reading, PassingOn, Serving,
       Posted, Answered, PushFor, Sweeping, UpWhileAsked, Around, Search, Regs, Pins, Bus,
       Chk, Told, KeepAt, ClearAt, KeepStore, KeepSeq, Keep, Back, DrAfter, SilAfter,
       CiAfter, Begins, Taking, Asked, PassBus, Leaves, PortBusy, c_req, c_ack, passing,
       m_req, push_out, walk_pend, walk_hold, post_busy, sweep_push, sweep_hit, wk_wait,
       wk_push, NoDrain
<1>9. CASE Rereads(i, c')
    BY <1>1, <1>9 DEF Rereads
<1>10. CASE Found(i, c')
  <2>1. Ask'
    BY <1>2, <1>10 DEF Found
  <2>2. SearchAlone'
    BY <1>2, <1>10 DEF Found
  <2>3. DrainAlone'
    BY <1>2, <1>10 DEF Found
  <2>4. ReadingOn'
    BY <1>2, <1>10 DEF Found
  <2>5. PassingOn'
    BY <1>2, <1>10 DEF Found
  <2>6. Posted'
    BY <1>2, <1>10 DEF Found
  <2>7. Answered'
    BY <1>2, <1>10 DEF Found
  <2>8. PushFor'
    BY <1>2, <1>10 DEF Found
  <2>9. UpWhileAsked'
    BY <1>2, <1>10 DEF Found
  <2> QED BY <2>1, <2>2, <2>3, <2>4, <2>5, <2>6, <2>7, <2>8, <2>9
<1>11. CASE Absent(i, c')
    BY <1>11 DEF Absent
<1>12. CASE Fetches(i, c')
    BY <1>3, <1>12 DEF Fetches, Pushes
<1>13. CASE Opens(i, c')
    BY <1>4, <1>13 DEF Opens, Pushes
<1>14. CASE Breaks(i, c')
    BY <1>14 DEF Breaks, Pushes
<1>15. CASE Moves(i, c')
    BY <1>5, <1>15 DEF Moves, Pushes
<1>16. CASE Finishes(i, c')
  <2>1. Ask'
    BY <1>6, <1>16 DEF Finishes, Pushes
  <2>2. SearchAlone'
    BY <1>6, <1>16 DEF Finishes, Pushes
  <2>3. DrainAlone'
    BY <1>6, <1>16 DEF Finishes, Pushes
  <2>4. ReadingOn'
    BY <1>16, <1>a
  <2>5. PassingOn'
    BY <1>6, <1>16 DEF Finishes, Pushes
  <2>6. Posted'
    BY <1>6, <1>16 DEF Finishes, Pushes
  <2>7. Answered'
    BY <1>6, <1>16 DEF Finishes, Pushes
  <2>8. PushFor'
    BY <1>6, <1>16 DEF Finishes, Pushes
  <2>9. UpWhileAsked'
    BY <1>6, <1>16 DEF Finishes, Pushes
  <2> QED BY <2>1, <2>2, <2>3, <2>4, <2>5, <2>6, <2>7, <2>8, <2>9
<1>17. CASE Another(i, c')
  <2>1. Ask'
    BY <1>7, <1>17 DEF Another, Pushes
  <2>2. SearchAlone'
    BY <1>7, <1>17 DEF Another, Pushes
  <2>3. DrainAlone'
    BY <1>7, <1>17 DEF Another, Pushes
  <2>4. ReadingOn'
    BY <1>17, <1>a
  <2>5. PassingOn'
    BY <1>7, <1>17 DEF Another, Pushes
  <2>6. Posted'
    BY <1>7, <1>17 DEF Another, Pushes
  <2>7. Answered'
    BY <1>7, <1>17 DEF Another, Pushes
  <2>8. PushFor'
    BY <1>17, <1>b
  <2>9. UpWhileAsked'
    BY <1>7, <1>17 DEF Another, Pushes
  <2> QED BY <2>1, <2>2, <2>3, <2>4, <2>5, <2>6, <2>7, <2>8, <2>9
<1>18. CASE Raises(i, c')
    BY <1>8, <1>18 DEF Raises, Pushes
<1> QED BY <1>9, <1>10, <1>11, <1>12, <1>13, <1>14, <1>15, <1>16, <1>17, <1>18 DEF PushMoves

LEMMA InStepKept ==
    ASSUME Types, Orderly, InStep, NEW i, NEW ce, NEW snp, NEW ans, NEW w_ans,
           Step(i, ce, snp, ans, w_ans)
    PROVE  InStep'
<1>1. CASE ce = TRUE
  <2>1. Around(i, ans, w_ans)
    BY <1>1, AroundHolds
  <2>2. c' = Fsm(i) /\ Pins(i) /\ Regs(c)
    BY <2>1 DEF Step, CacheClock, Around
  <2>3. IdleMoves(i, c') \/ PassMoves(i, c') \/ LineMoves(i, c') \/ PushMoves(i, c')
    BY <2>2, FsmCases
  <2> QED BY <2>1, <2>3, IdleInStep, PassInStep, LineInStep, PushInStep
<1>2. CASE ce = FALSE
  <2>1. UNCHANGED <<c, core, op, wst, w_active, w_issued, w_req_wr, w_req_addr, m_up>>
    BY <1>2 DEF Step, CacheClock, Inputs
  <2> QED BY <2>1 DEF InStep, Ask, SearchAlone, DrainAlone, ReadingOn, Reading, PassingOn, Serving,
           Posted, Answered, PushFor, Sweeping, UpWhileAsked, m_req, push_out, walk_pend, c_req,
           passing
<1> QED BY <1>1, <1>2 DEF Step, Inputs

LEMMA InStepInit == Init => InStep
BY DEF Init, CacheInit, InStep, Ask, SearchAlone, DrainAlone, ReadingOn, Reading, PassingOn,
       Posted, Answered, PushFor, Sweeping, UpWhileAsked, NoDrain

LEMMA InStepStutter == InStep /\ UNCHANGED vars => InStep'
BY DEF vars, cacheVars, mmuVars, InStep, Ask, SearchAlone, DrainAlone, ReadingOn, Reading,
       PassingOn, Serving, Posted, Answered, PushFor, Sweeping, UpWhileAsked, m_req, push_out,
       walk_pend, c_req, passing

(* The cache and the walker never drive memory in one clock, and no sweep    *)
(* runs during a search: the FSM serves the request that is up, a search     *)
(* starts when nothing drains and is alone until it ends                     *)
(* (ap040_cache.v:111-123, ap040_mmu.v:58).                                  *)
THEOREM CacheOnePortUser == ASSUME Orderly PROVE Spec => []OnePortUser
<1> DEFINE Inv == Types /\ InStep
<1>1. Init => Inv
    BY TypesInit, InStepInit
<1>2. Inv /\ [Next]_vars => Inv'
  <2> SUFFICES ASSUME Inv, [Next]_vars PROVE Inv'
    OBVIOUS
  <2>1. CASE Next
    BY <2>1, StepOfNext, TypesStep, InStepKept
  <2>2. CASE UNCHANGED vars
    BY <2>2, TypesStutter, InStepStutter
  <2> QED BY <2>1, <2>2
<1>3. Inv => OnePortUser
  <2> SUFFICES ASSUME Types, InStep PROVE OnePortUser
    OBVIOUS
  <2>1. w_active => wst # "idle"
    BY DEF Types, Search
  <2>2. ASSUME w_active PROVE ~sweep_busy
    BY <2>1, <2>2 DEF InStep, SearchAlone, sweep_busy
  <2>3. ASSUME walker_req PROVE ~m_req(c_req)
    <3>1. w_active /\ ~walk_pend /\ wst # "idle"
      BY <2>1, <2>3 DEF walker_req, walk_pend
    <3>2. ~c.dr.on /\ c.cst \in {"IDLE", "FERR", "WINV", "WLOOK", "PUSH"} /\ ~Serving
      BY <3>1 DEF InStep, SearchAlone, Serving
    <3>3. c.p.ret \in {"IDLE", "LOOK", "SWEEP"} /\ core = "access"
      BY <3>1 DEF Types, Regs, Pushing, InStep, SearchAlone
    <3>4. c.cst # "PUSH"
      BY <3>1, <3>2, <3>3 DEF InStep, PushFor, Sweeping, ReadingOn, Reading
    <3> QED BY <3>2, <3>4 DEF m_req, push_out, passing
  <2> QED BY <2>2, <2>3 DEF OnePortUser
<1> QED BY <1>1, <1>2, <1>3, PTL DEF Spec
====
