---- MODULE CacheRowProofs ----
(***************************************************************************)
(* The rows of the data cache and what is in them: first what the owed row *)
(* clears, the images of a row read a clock ago and the strobes between    *)
(* leave of the valid, dirty and tag bits, then who has the last value of  *)
(* a longword.                                                             *)
(***************************************************************************)
EXTENDS CacheProofs

\* A store met by a held error: C_WINV does not release the hold.
Stuck == c.err_hold /\ Serving /\ op.kind = "write" /\ c.cst = "IDLE" /\ ~c.ack

\* The walker's strobe is taken by the clock after its search; the row clears
\* that are owed are done before anything is looked up.
WsnpSoon == wsnp # Nil /\ wst = "idle" => s_last
Calm == wst = "idle" /\ c.cst \notin {"IDLE", "FERR", "WINV"} => wsnp = Nil
SilOwed == c.sil # Nil =>
    /\ wst = "idle" /\ wsnp = Nil
    /\ \/ c.cst = "PASS" \/ (c.cst = "WINV" /\ s_last)
       \/ (c.cst = "IDLE" /\ (core = "none" \/ s_last)) \/ Stuck
    /\ \/ c.cst = "PASS" \/ (core = "none" /\ s_last) \/ vb[c.sil] \subseteq db[c.sil] \/ Stuck
CiOwed == c.ci_inv # Nil =>
    /\ c.sil = Nil /\ ~c.winv
    /\ \/ c.cst = "PASS" /\ ~c.st_posted /\ op.kind = "read"
       \/ c.cst = "IDLE" /\ core = "none" /\ s_last /\ wsnp = Nil
CiChecked == c.ci_chk => op.kind = "read" /\ ~c.winv /\ c.sil = Nil /\ ~m_up
WinvOwed == /\ c.winv /\ c.cst = "PASS" => op.kind = "write"
            /\ c.cst = "WINV" => c.winv
Pending == WsnpSoon /\ Calm /\ SilOwed /\ CiOwed /\ CiChecked /\ WinvOwed

Rows == /\ \A s \in Set : db[s] \subseteq vb[s]
        /\ \A s \in Set : \A v, w \in vb[s] : tags[s][v] = tags[s][w] => v = w

\* The way that holds longword a, if any.
Holds(w, a) == w \in vb[SetOf(a)] /\ tags[SetOf(a)][w] = TagOf(a)
NoHolder(a) == \A w \in Way : ~Holds(w, a)

\* The image of the row: of a look-up, of a merge, of a fill, of a push before a fill.
Imaged(s, snooped) ==
    /\ tq = tags[s] /\ vb[s] \subseteq vq
    /\ \A w \in vq : tq[w] = TagOf(c.a) => w \in vb[s] \/ snooped
    /\ \A v, w \in vq : tq[v] = TagOf(c.a) /\ tq[w] = TagOf(c.a) => v = w
LookImage == c.cst = "LOOK" =>
    /\ Imaged(SetOf(c.a), look_snooped)
    /\ look_snooped => \A w \in Way : Holds(w, c.a) => w \in db[SetOf(c.a)]
PassImage == c.st_chk =>
    /\ Imaged(SetOf(c.a), st_snooped)
    /\ st_snooped => vb[SetOf(c.a)] \subseteq db[SetOf(c.a)]
FillImage ==
    /\ c.cst \in {"FILL", "TAGW"} => c.way \notin db[SetOf(c.a)] /\ NoHolder(c.a)
    /\ c.cst = "TAGW" => tq = tags[SetOf(c.a)] /\ (~fill_snooped => vq = vb[SetOf(c.a)])
PushLook == c.cst = "PUSH" /\ c.p.ret = "LOOK" => c.p.set = SetOf(c.a) /\ NoHolder(c.a)
Images == LookImage /\ PassImage /\ FillImage /\ PushLook

----------------------------------------------------------------------------
(* The strobes and the row clears that are owed. *)

\* A search that ends has no request up.
LEMMA EndsQuiet ==
    ASSUME Types, NEW w_ans, NEW waits, MmuStep(w_ans, waits), wst # "idle", wst' = "idle"
    PROVE  ~w_active
<1>1. Search
    BY DEF Types
<1>2. CASE w_active
  <2>1. wst \in {"tab", "utab", "page", "fill"}
    BY <1>1, <1>2 DEF Search
  <2>2. IF walk_pend /\ ~waits THEN wst' = wst
        ELSE IF w_ans = "ack" THEN SearchStep ELSE StayMmu
    BY <1>2, <2>1 DEF MmuStep
  <2>3. ~SearchStep
    BY <1>2, <2>1 DEF SearchStep, Inactive, Descriptor
  <2> QED BY <2>1, <2>2, <2>3 DEF StayMmu
<1> QED BY <1>2

\* What an enabled clock shows of the strobes.
Strobes(i) ==
    /\ WsnpSoon'
    /\ wst = "idle" => wsnp' = Nil
    /\ wsnp = Nil /\ s_last => ~s_stb(i)
    /\ wsnp = Nil /\ s_stb(i) => s_last'
    /\ wst # "idle" /\ wst' = "idle" => c.cst \in {"IDLE", "FERR", "WINV"}
    /\ wst = "idle" /\ Serving => wst' = "idle"
    /\ wst = "idle" /\ core = "none" => wst' = "idle"
    /\ i.stb \in Cell

LEMMA StrobesSeen ==
    ASSUME Types, Orderly, InStep, WsnpSoon, NEW i, NEW snp, NEW ans, NEW w_ans,
           Step(i, TRUE, snp, ans, w_ans)
    PROVE  Strobes(i)
<1>1. /\ i.stb = (IF snp # Nil THEN snp ELSE wsnp) /\ (snp # Nil => ~s_last)
      /\ s_last' = (snp # Nil) /\ MmuStep(w_ans, wk_wait(i))
      /\ wsnp' = IF walker_req /\ w_req_wr /\ ~walker_wr_d THEN w_req_addr
                 ELSE IF snp = Nil THEN Nil ELSE wsnp
    BY DEF Step, Inputs
<1>2. Search /\ Around(i, ans, w_ans)
    BY AroundHolds DEF Types
<1>3. wst = "idle" => ~walker_req
    BY <1>2 DEF Around, walker_req
<1>4. wst = "idle" => wsnp' = Nil
    BY <1>1, <1>3 DEF WsnpSoon
<1>5. wst # "idle" /\ wst' = "idle" => ~w_active
    BY <1>1, EndsQuiet
<1>6. WsnpSoon'
    BY <1>1, <1>4, <1>5 DEF WsnpSoon, walker_req
<1>7. wst # "idle" /\ wst' = "idle" => c.cst \in {"IDLE", "FERR", "WINV"}
  <2>1. Regs(c) /\ c.p.ret \in {"IDLE", "LOOK", "SWEEP"}
    BY DEF Types, Regs, Pushing
  <2> QED BY <1>5, <2>1 DEF InStep, SearchAlone, PushFor, Sweeping, ReadingOn, Reading, Serving,
             walk_pend
<1>8. wst = "idle" /\ (Serving \/ core = "none") => wst' = "idle"
    BY <1>2 DEF Around, Serving
<1>9. i.stb \in Cell
    BY <1>2 DEF Around, Pins
<1> QED BY <1>1, <1>4, <1>6, <1>7, <1>8, <1>9 DEF Strobes, s_stb

\* The core's request ends with its answer.
LEMMA CoreReleased ==
    ASSUME Types, Orderly, InStep, NEW i, NEW snp, NEW ans, NEW w_ans,
           Step(i, TRUE, snp, ans, w_ans), Serving, c_ack(ans) \/ ans = "err"
    PROVE  core' = "none"
<1>1. CoreStep(ans, Walked) /\ c_req
    BY DEF Step, InStep, SearchAlone, Serving, c_req
<1> QED BY <1>1 DEF CoreStep, Serving, Released

\* While an error is held nothing is accepted.
LEMMA HoldKept ==
    ASSUME Regs(c), NEW i, Pins(i), c.cst = "IDLE", c.err_hold, i.req, ~i.cinv, ~i.wk_pend
    PROVE  Fsm(i).cst = "IDLE" /\ Fsm(i).err_hold /\ ~Fsm(i).ack
<1> DEFINE b == [Base(i) EXCEPT !.err_hold = @ /\ i.req]
<1>1. Fsm(i) = Idle(i) /\ ~wk_push(i) /\ ~Cinv(i) /\ ~need_push(i)
    BY DEF Fsm, wk_push, Cinv, need_push
<1>2. Idle(i) = b
    BY <1>1 DEF Idle
<1>3. b.cst = "IDLE" /\ b.err_hold = (c.err_hold /\ i.req) /\ b.ack = FALSE
    BY BaseKeeps, BaseBus DEF Fields
<1> QED BY <1>1, <1>2, <1>3

\* Outside C_PASS the bus side of a clock is one.
LEMMA OwedAfter ==
    ASSUME Regs(c), NEW i, Pins(i), c.cst # "PASS"
    PROVE  Fsm(i).sil = SilAfter(i) /\ Fsm(i).ci_inv = CiAfter(i)
<1>1. IdleMoves(i, Fsm(i)) \/ PassMoves(i, Fsm(i)) \/ LineMoves(i, Fsm(i)) \/ PushMoves(i, Fsm(i))
    BY FsmCases
<1> DEFINE r == Fsm(i)
<1> HIDE DEF r
<1>2. IdleMoves(i, r) => Bus(i, r)
    BY DEF IdleMoves, Waits, Looks, Sweeps, Writes, Updates, Stores, Bypasses, Reads, Begins, Keep
<1>3. ~PassMoves(i, r)
    BY DEF PassMoves, Merges, Drains, Passes, Stays
<1>4. LineMoves(i, r) => Bus(i, r)
    BY DEF LineMoves, Waits, Hits, Evicts, Misses, Beaten, Filled, Fails, Tags, Recovers, Clears,
           Empties, Ends, Counts, Begins, Keep, Back
<1>5. PushMoves(i, r) => Bus(i, r)
    BY DEF PushMoves, Rereads, Found, Absent, Fetches, Opens, Breaks, Moves, Finishes, Another,
           Raises, Pushes, Begins
<1> QED BY <1>1, <1>2, <1>3, <1>4, <1>5 DEF r, Bus

\* An idle clock accepts every store that may clear a row, or holds it for ever.
LEMMA StoreTaken ==
    ASSUME Regs(c), NEW i, Pins(i), StoreClears(i), ~i.cinv, ~i.wk_pend, i.ce
    PROVE  /\ c.err_hold => Fsm(i).cst = "IDLE" /\ Fsm(i).err_hold
           /\ ~c.err_hold => Fsm(i).cst = "PASS"
<1> DEFINE b == [Base(i) EXCEPT !.err_hold = @ /\ i.req]
<1>1. /\ c.cst = "IDLE" /\ i.req /\ ~c.ack /\ i.op.kind = "write" /\ ~Update(i.op) /\ c.sil = Nil
      /\ ~c.dr.on /\ ~need_push(i) /\ Asked(i)
    BY DEF StoreClears, Asked
<1>2. Fsm(i) = Idle(i) /\ ~wk_push(i) /\ ~Cinv(i)
    BY <1>1 DEF Fsm, wk_push, Cinv
<1>3. Idle(i) = IF c.err_hold THEN b ELSE AcceptStore(b, i)
    BY <1>1, <1>2 DEF Idle, AcceptWrite
<1>4. b.cst = "IDLE" /\ b.err_hold = (c.err_hold /\ i.req) /\ DOMAIN b = Fields
    BY <1>1, BaseKeeps, BaseBus DEF Fields
<1> HIDE DEF b
<1>5. AcceptStore(b, i).cst = "PASS"
    BY <1>4 DEF AcceptStore, Fields
<1> QED BY <1>1, <1>2, <1>3, <1>4, <1>5

----------------------------------------------------------------------------
(* One row in one clock. *)

Cleared(i, s) == inv_wren(i) /\ s = inv_idx(i)
Written(i, s) == i.ce /\ tag_we(i) /\ s = tag_widx

LEMMA RowStep ==
    ASSUME NEW i, TagStep(i), NEW s \in Set
    PROVE  /\ Cleared(i, s) => vb'[s] = vb[s] \cap db[s]
           /\ ~Cleared(i, s) /\ ~Written(i, s) => vb'[s] = vb[s]
           /\ ~Cleared(i, s) /\ Written(i, s) =>
                  vb'[s] = IF c.cst = "SWEEP" THEN {} ELSE vq \cup {c.way}
           /\ ~Written(i, s) => tags'[s] = tags[s]
           /\ Written(i, s) => tags'[s] = IF c.cst = "SWEEP" THEN [w \in Way |-> 0]
                                          ELSE [tq EXCEPT ![c.way] = TagOf(c.a)]
<1> QED BY DEF TagStep, Cleared, Written, vb_keep

\* Only a fill and a sweep write a row.
LEMMA WrittenWhen ==
    ASSUME NEW i, NEW s, Written(i, s)
    PROVE  \/ c.cst = "TAGW" /\ i.ce /\ s = SetOf(c.a) /\ ~fill_snooped /\ ~SnoopsSet(i, s)
           \/ c.cst = "SWEEP" /\ i.ce /\ s = c.cnt /\ s < Sets /\ db[s] = {}
<1> QED BY DEF Written, tag_we, FillValid, tag_widx, sweep_hit, sweep_push

\* The dirty ways lose only what is pushed or replaced, and gain what a store merges into.
LEMMA DirtyRow ==
    ASSUME Types, NEW i, Pins(i), DirtyStep(i), NEW s \in Set
    PROVE  /\ db'[s] \subseteq db[s] \/ (i.ce /\ st_merge(i) /\ c.r_cb /\ s = SetOf(c.a)
                                         /\ db'[s] = db[s] \cup {hit_way})
           /\ c.cst \notin {"PUSH", "TAGW"} \/ ~i.ce => db[s] \subseteq db'[s]
           /\ c.cst = "TAGW" /\ i.ce /\ s = SetOf(c.a) => db'[s] = db[s] \ {c.way}
           /\ c.cst = "TAGW" /\ s # SetOf(c.a) => db'[s] = db[s]
           /\ c.cst = "PUSH" /\ s # c.p.set => db'[s] = db[s]
           /\ c.cst \notin {"PUSH", "TAGW", "PASS"} \/ ~i.ce => db'[s] = db[s]
<1>1. db \in [Set -> SUBSET Way] /\ SetOf(c.a) \in Set /\ c.p.set \in Set
    BY AddrParts DEF Types, Tables, Regs, Pushing
<1> QED BY <1>1 DEF DirtyStep, st_merge, push_out

LEMMA RowsShrink ==
    ASSUME Types, NEW i, Pins(i), TagStep(i), DirtyStep(i), NEW s \in Set, ~Written(i, s)
    PROVE  /\ vb'[s] \subseteq vb[s] /\ vb[s] \cap db[s] \subseteq vb'[s] /\ tags'[s] = tags[s]
           /\ ~Cleared(i, s) => vb'[s] = vb[s]
           /\ c.cst \notin {"PUSH", "TAGW"} \/ ~i.ce => vb[s] \cap db[s] \subseteq db'[s]
<1> QED BY RowStep, DirtyRow

----------------------------------------------------------------------------
(* The owed row clears are kept in step. *)

LEMMA SilKept ==
    ASSUME Types, Orderly, InStep, Pending, PassImage, NEW i, NEW snp, NEW ans, NEW w_ans,
           Step(i, TRUE, snp, ans, w_ans)
    PROVE  SilOwed'
<1> SUFFICES ASSUME c'.sil # Nil PROVE SilOwed'
    BY DEF SilOwed
<1>1. /\ Around(i, ans, w_ans) /\ Strobes(i) /\ Pins(i) /\ Regs(c) /\ c' = Fsm(i) /\ i.ce
      /\ TagStep(i) /\ DirtyStep(i)
    BY AroundHolds, StrobesSeen, PinsOf DEF Step, CacheClock, Pending, Types, Inputs
<1>2. /\ i.req = c_req /\ i.op = op /\ i.cinv = (core = "cinv") /\ i.wk_pend = walk_pend
      /\ i.ans = ans /\ (wst = "idle" => ~w_active)
    BY <1>1 DEF Around
<1>3. IdleMoves(i, c') \/ PassMoves(i, c') \/ LineMoves(i, c') \/ PushMoves(i, c')
    BY <1>1, FsmCases
<1>4. ASSUME NEW s \in Set PROVE vb[s] \subseteq db[s] /\ c.cst \in {"IDLE", "PASS"} => vb'[s] \subseteq db'[s]
  <2>1. c.cst \in {"IDLE", "PASS"} => ~Written(i, s)
    BY WrittenWhen
  <2> QED BY <1>1, <2>1, RowsShrink
<1>5. c'.sil \in Set
    BY <1>1, FsmRegs DEF Types, Regs
<1>6. Nil \notin Set
    BY NilIsNone
<1>7. CASE c.cst = "PASS"
  <2>1. Serving /\ wst = "idle" /\ wst' = "idle" /\ wsnp = Nil /\ wsnp' = Nil
    BY <1>1, <1>7 DEF InStep, PassingOn, SearchAlone, Serving, Pending, Calm, Strobes
  <2>2. PassMoves(i, c')
    BY <1>3, <1>7 DEF IdleMoves, Waits, Looks, Sweeps, Writes, Taking, Updates, Stores, Bypasses,
           Reads, LineMoves, Hits, LookHits, Evicts, Misses, Beaten, Filled, Fails, Tags,
           Recovers, Clears, Empties, sweep_push, Ends, Counts, PushMoves, Rereads, Found,
           Absent, Fetches, Opens, Breaks, Moves, Finishes, Another, Raises, Pushes
  <2>3. PassBus(i, c') /\ c'.cst \in {"PASS", "WINV", "IDLE"}
    BY <2>2 DEF PassMoves, Merges, Drains, Passes, Stays, Leaves
  <2>4. c'.cst # "PASS" => c_ack(ans) \/ ans = "err"
    BY <1>1, <1>2, <1>7, <2>2 DEF PassMoves, Merges, Drains, Passes, Stays, InStep, Posted, c_ack,
           passing, Pins
  <2>5. c'.cst # "PASS" => core' = "none"
    BY <2>1, <2>4, CoreReleased
  <2>6. CASE c.st_chk /\ st_snooped
    <3>1. c'.sil = SetOf(c.a) /\ SetOf(c.a) \in Set
      BY <1>1, <2>3, <2>6, AddrParts DEF PassBus, Regs
    <3>2. c'.cst = "IDLE"
      BY <1>7, <2>2, <2>6 DEF InStep, Posted, PassMoves, Merges, Drains, Passes, Stays, Leaves
    <3>3. vb'[c'.sil] \subseteq db'[c'.sil]
      BY <1>4, <1>7, <2>6, <3>1 DEF PassImage
    <3> QED BY <2>1, <2>5, <3>2, <3>3 DEF SilOwed
  <2>7. CASE ~(c.st_chk /\ st_snooped)
    <3>1. s_stb(i)
      BY <1>7, <2>3, <2>7 DEF PassBus, SilAfter, StoreClears, Asked
    <3>2. s_last'
      BY <1>1, <2>1, <3>1 DEF Strobes
    <3> QED BY <2>1, <2>3, <2>5, <3>2 DEF SilOwed
  <2> QED BY <2>6, <2>7
<1>8. c.cst # "PASS" => c'.sil = SilAfter(i)
    BY <1>1, OwedAfter
<1>9. CASE c.cst = "IDLE"
  <2>1. CASE snoop_wr(i) /\ StoreClears(i)
    <3>1. Asked(i) /\ ~c.dr.on /\ ~c.ack /\ i.op.kind = "write"
      BY <2>1 DEF StoreClears, Asked
    <3>2. Serving /\ wst = "idle" /\ ~i.cinv /\ ~i.wk_pend
      BY <1>2, <3>1 DEF Asked, c_req, Serving, walk_pend
    <3>3. wst' = "idle" /\ wsnp' = Nil
      BY <1>1, <3>2 DEF Strobes
    <3>4. CASE c.err_hold
      <4>1. c'.cst = "IDLE" /\ c'.err_hold /\ ~c'.ack
        BY <1>1, <1>9, <3>1, <3>2, <3>4, HoldKept DEF Asked
      <4>2. ~m_req(c_req)
        BY <1>9, <3>1 DEF m_req, push_out, passing
      <4>3. UNCHANGED <<core, op>>
        BY <1>1, <1>9, <3>1, <3>2, <4>2 DEF Around, c_ack, passing
      <4> QED BY <1>2, <3>1, <3>2, <3>3, <4>1, <4>3 DEF SilOwed, Stuck, Serving
    <3>5. CASE ~c.err_hold
      <4>1. c'.cst = "PASS"
        BY <1>1, <2>1, <3>2, <3>5, StoreTaken
      <4> QED BY <3>3, <4>1 DEF SilOwed
    <3> QED BY <3>4, <3>5
  <2>2. CASE ~(snoop_wr(i) /\ StoreClears(i))
    <3>1. s_stb(i) /\ c'.sil = c.sil /\ c.sil # Nil
      BY <1>8, <1>9, <2>2 DEF SilAfter
    <3>2. wst = "idle" /\ wsnp = Nil /\ ~s_last /\ s_last' /\ wsnp' = Nil
      BY <1>1, <3>1 DEF Pending, SilOwed, Strobes
    <3>3. CASE core = "none"
      <4>1. ~i.req /\ ~i.cinv /\ ~i.wk_pend /\ wst' = "idle"
        BY <1>1, <1>2, <3>2, <3>3 DEF c_req, walk_pend, Strobes
      <4>2. c'.cst = "IDLE"
        BY <1>3, <1>9, <4>1 DEF IdleMoves, Waits, Looks, wk_push, Sweeps, Cinv, Writes, need_push,
               Updates, Stores, Bypasses, Reads, Taking, Asked, PassMoves, Merges, Drains, Passes,
               Stays, LineMoves, Hits, LookHits, Evicts, Misses, Beaten, Filled, Fails, Tags,
               Recovers, Clears, Empties, sweep_push, Ends, Counts, PushMoves, Rereads, Found,
               Absent, Fetches, Opens, Breaks, Moves, Finishes, Another, Raises, Pushes
      <4>3. vb[c.sil] \subseteq db[c.sil]
        BY <1>9, <3>1, <3>2, <3>3 DEF Pending, SilOwed, Stuck, Serving
      <4>4. vb'[c'.sil] \subseteq db'[c'.sil]
        <5>1. \A s \in Set : vb[s] \subseteq db[s] => vb'[s] \subseteq db'[s]
          BY <1>4, <1>9
        <5>2. vb[c'.sil] \subseteq db[c'.sil] /\ c'.sil \in Set
          BY <1>5, <3>1, <4>3
        <5> QED BY <5>1, <5>2
      <4> QED BY <3>2, <4>1, <4>2, <4>4 DEF SilOwed
    <3>4. CASE core # "none"
      <4>1. Stuck
        BY <1>9, <3>1, <3>2, <3>4 DEF Pending, SilOwed
      <4>2. i.req /\ ~i.cinv /\ ~i.wk_pend /\ wst' = "idle"
        BY <1>1, <1>2, <3>2, <4>1 DEF c_req, walk_pend, Strobes, Stuck, Serving
      <4>3. c'.cst = "IDLE" /\ c'.err_hold /\ ~c'.ack
        BY <1>1, <1>9, <4>1, <4>2, HoldKept DEF Stuck
      <4>4. ans # "err"
        BY <1>1, <1>9 DEF Around, m_req, push_out, passing
      <4>5. UNCHANGED <<core, op>>
        BY <1>1, <1>9, <4>1, <4>4 DEF Around, c_ack, passing, Stuck
      <4> QED BY <3>2, <4>1, <4>2, <4>3, <4>5 DEF SilOwed, Stuck, Serving
    <3> QED BY <3>3, <3>4
  <2> QED BY <2>1, <2>2
<1>10. CASE c.cst \notin {"IDLE", "PASS"}
  <2>1. s_stb(i) /\ c'.sil = c.sil
    BY <1>8, <1>10 DEF SilAfter, StoreClears, Asked
  <2>2. c.cst = "WINV" /\ s_last /\ wsnp = Nil
    BY <1>10, <2>1 DEF Pending, SilOwed, Stuck
  <2> QED BY <1>1, <2>1, <2>2 DEF Strobes
<1> QED BY <1>7, <1>9, <1>10

LEMMA CiKept ==
    ASSUME Types, Orderly, InStep, Pending, NEW i, NEW snp, NEW ans, NEW w_ans,
           Step(i, TRUE, snp, ans, w_ans)
    PROVE  CiOwed' /\ CiChecked' /\ WinvOwed'
<1>1. /\ Around(i, ans, w_ans) /\ Strobes(i) /\ Pins(i) /\ Regs(c) /\ c' = Fsm(i)
  <2>1. Pins(i) /\ Regs(c)
    BY PinsOf DEF Step, Types
  <2>2. c' = Fsm(i)
    BY DEF Step, Inputs, CacheClock
  <2>3. Around(i, ans, w_ans) /\ Strobes(i)
    BY AroundHolds, StrobesSeen DEF Pending
  <2> QED BY <2>1, <2>2, <2>3
<1>2. /\ i.req = c_req /\ i.op = op /\ i.ans = ans /\ m_up' = (m_req(c_req) /\ ans = "none")
      /\ ans # "none" => m_up
    BY <1>1 DEF Around
<1>3. IdleMoves(i, c') \/ PassMoves(i, c') \/ LineMoves(i, c') \/ PushMoves(i, c')
    BY <1>1, FsmCases
<1>4. Nil \notin Set
    BY NilIsNone
<1>5. c.cst # "PASS" => c'.sil = SilAfter(i) /\ c'.ci_inv = CiAfter(i)
    BY <1>1, OwedAfter
<1>6. CASE c.cst = "PASS"
  <2>1. Serving /\ wst = "idle" /\ wsnp = Nil /\ wsnp' = Nil
    BY <1>1, <1>6 DEF InStep, PassingOn, SearchAlone, Serving, Pending, Calm, Strobes
  <2>2. PassMoves(i, c')
    BY <1>3, <1>6 DEF IdleMoves, Waits, Looks, Sweeps, Writes, Taking, Updates, Stores, Bypasses,
           Reads, LineMoves, Hits, LookHits, Evicts, Misses, Beaten, Filled, Fails, Tags,
           Recovers, Clears, Empties, sweep_push, Ends, Counts, PushMoves, Rereads, Found,
           Absent, Fetches, Opens, Breaks, Moves, Finishes, Another, Raises, Pushes
  <2>3. PassBus(i, c') /\ c'.cst \in {"PASS", "WINV", "IDLE"} /\ ~c'.ci_chk
        /\ c'.winv = (c.winv /\ PortBusy(i)) /\ ~c'.st_posted
    BY <2>2 DEF PassMoves, Merges, Drains, Passes, Stays, Leaves, PassBus
  <2>4. c'.cst = "PASS" => ans = "none" /\ ~c.st_posted
    BY <1>2, <2>2 DEF PassMoves, Merges, Drains, Passes, Stays, Leaves
  <2>5. c'.cst # "PASS" => core' = "none"
    <3>1. c'.cst # "PASS" => c_ack(ans) \/ ans = "err"
      BY <1>1, <1>2, <1>6, <2>2 DEF PassMoves, Merges, Drains, Passes, Stays, InStep, Posted, c_ack,
             passing, Pins
    <3> QED BY <2>1, <3>1, CoreReleased
  <2>6. c'.cst = "PASS" => UNCHANGED <<core, op>>
    BY <1>1, <1>6, <2>1, <2>4 DEF Around, c_ack, passing
  <2>7. c'.cst = "WINV" => c'.winv
    BY <2>2, <2>3, <1>6 DEF PassMoves, Merges, Drains, Passes, Stays, Leaves
  <2>8. CiOwed'
    <3> SUFFICES ASSUME c'.ci_inv # Nil PROVE CiOwed'
      BY DEF CiOwed
    <3>1. CASE c.ci_chk
      <4>1. op.kind = "read" /\ ~c.winv /\ c.sil = Nil /\ ~m_up /\ ~c.st_posted /\ ~c.st_chk
        BY <3>1 DEF Pending, CiChecked, InStep, Posted
      <4>2. c'.cst = "PASS"
        BY <1>2, <2>2, <4>1 DEF PassMoves, Merges, Drains, Passes, Stays
      <4>3. c'.sil = Nil /\ ~c'.winv
        BY <1>6, <2>3, <4>1 DEF PassBus, SilAfter, StoreClears, Asked
      <4> QED BY <2>3, <2>6, <4>1, <4>2, <4>3 DEF CiOwed
    <3>2. CASE ~c.ci_chk
      <4>1. c.ci_inv # Nil /\ ~ci_inv(i)
        BY <2>3, <3>2 DEF PassBus, CiAfter
      <4>2. c.sil = Nil /\ ~c.winv /\ ~c.st_posted /\ op.kind = "read" /\ ~c.st_chk
        BY <1>6, <4>1 DEF Pending, CiOwed, InStep, Posted
      <4>3. s_stb(i)
        BY <1>6, <4>1, <4>2 DEF ci_inv, snoop_wr, store_inv, StoreClears, Asked, fill_err_inv
      <4>4. s_last'
        BY <1>1, <2>1, <4>3 DEF Strobes
      <4>5. c'.sil = Nil /\ ~c'.winv
        BY <1>6, <2>3, <4>2 DEF PassBus, SilAfter, StoreClears, Asked
      <4>6. c'.cst # "WINV"
        BY <2>7, <4>5
      <4> QED BY <2>1, <2>3, <2>5, <2>6, <4>2, <4>4, <4>5, <4>6 DEF CiOwed
    <3> QED BY <3>1, <3>2
  <2>9. CiChecked'
    BY <2>3 DEF CiChecked
  <2>10. WinvOwed'
    BY <1>6, <2>3, <2>6, <2>7 DEF WinvOwed, Pending
  <2> QED BY <2>8, <2>9, <2>10
<1>7. CASE c.cst = "IDLE"
  <2>1. c'.ci_inv = Nil
    <3> SUFFICES ASSUME c'.ci_inv # Nil PROVE FALSE
      OBVIOUS
    <3>1. c.ci_inv # Nil /\ ~ci_inv(i)
      BY <1>5, <1>7 DEF CiAfter
    <3>2. c.sil = Nil /\ core = "none" /\ s_last /\ wsnp = Nil
      BY <1>7, <3>1 DEF Pending, CiOwed
    <3>3. ~s_stb(i) /\ ~i.req
      BY <1>1, <1>2, <3>2 DEF Strobes, c_req
    <3> QED BY <1>7, <3>1, <3>2, <3>3 DEF ci_inv, snoop_wr, store_inv, StoreClears, Asked,
               fill_err_inv
  <2>2. ~c.winv /\ ~c.ci_chk
    BY <1>7 DEF InStep, Posted
  <2>3. ASSUME Asked(i)
        PROVE  Serving /\ wst = "idle" /\ (~c.dr.on => UNCHANGED <<core, op>> /\ ~m_up')
    <3>1. Serving /\ wst = "idle" /\ ~c.ack
      BY <1>2, <2>3 DEF Asked, c_req, Serving
    <3>2. ~c.dr.on => ~m_req(c_req)
      BY <1>7 DEF m_req, push_out, passing
    <3> QED BY <1>1, <1>2, <1>7, <3>1, <3>2 DEF Around, c_ack, passing
  <2>4. IdleMoves(i, c')
    BY <1>3, <1>7 DEF IdleMoves, Waits, PassMoves, Merges, Drains, Passes, Stays,
           LineMoves, Hits, LookHits, Evicts, Misses, Beaten, Filled, Fails, Tags,
           Recovers, Clears, Empties, sweep_push, Ends, Counts, PushMoves, Rereads, Found,
           Absent, Fetches, Opens, Breaks, Moves, Finishes, Another, Raises, Pushes
  <2>5. CASE Stores(i, c')
    <3>1. c'.cst = "PASS" /\ ~c'.ci_chk /\ Asked(i) /\ ~c.dr.on /\ op.kind = "write"
      BY <1>2, <2>2, <2>5 DEF Stores, Taking
    <3> QED BY <2>1, <2>3, <3>1 DEF CiOwed, CiChecked, WinvOwed
  <2>6. CASE Bypasses(i, c')
    <3>1. /\ c'.cst = "PASS" /\ ~c'.winv /\ Asked(i) /\ ~c.dr.on /\ op.kind = "read"
      BY <1>2, <2>2, <2>6 DEF Bypasses, Taking
    <3>2. c'.sil = Nil
      <4> SUFFICES ASSUME c'.sil # Nil PROVE FALSE
        OBVIOUS
      <4>1. s_stb(i) /\ c.sil # Nil
        BY <1>2, <1>5, <1>7, <3>1 DEF SilAfter, StoreClears
      <4>2. wsnp = Nil /\ s_last
        BY <1>7, <2>3, <3>1, <4>1 DEF Pending, SilOwed, Stuck, Serving
      <4> QED BY <1>1, <4>1, <4>2 DEF Strobes
    <3> QED BY <2>1, <2>3, <3>1, <3>2 DEF CiOwed, CiChecked, WinvOwed
  <2>7. CASE ~Stores(i, c') /\ ~Bypasses(i, c')
    <3>1. ~c'.winv /\ ~c'.ci_chk /\ c'.cst # "WINV"
      BY <1>7, <2>2, <2>4, <2>7 DEF IdleMoves, Waits, Looks, Sweeps, Writes, Updates, Reads, Begins,
             KeepStore, Keep
    <3> QED BY <2>1, <3>1 DEF CiOwed, CiChecked, WinvOwed
  <2> QED BY <2>5, <2>6, <2>7
<1>8. CASE c.cst \notin {"IDLE", "PASS"}
  <2>1. c.ci_inv = Nil /\ ~c.ci_chk
    BY <1>8 DEF Pending, CiOwed, InStep, Posted
  <2>2. c'.ci_inv = Nil
    BY <1>5, <1>8, <2>1 DEF CiAfter
  <2>3. LineMoves(i, c') \/ PushMoves(i, c')
    BY <1>3, <1>8 DEF IdleMoves, Waits, Looks, Sweeps, Writes, Taking, Updates, Stores, Bypasses,
           Reads, PassMoves, Merges, Drains, Passes, Stays, LineMoves
  <2>4. /\ ~c'.ci_chk /\ c'.cst # "PASS"
        /\ c'.cst = "WINV" => c'.winv
    <3>1. c.p.ret \in {"IDLE", "LOOK", "SWEEP"} /\ (c.cst = "WINV" => c.winv)
      BY <1>1 DEF Regs, Pushing, Pending, WinvOwed
    <3>2. CASE LineMoves(i, c')
      BY <1>8, <2>1, <3>1, <3>2 DEF LineMoves, Waits, Hits, Evicts, Misses, Beaten, Filled, Fails,
             Tags, Recovers, Clears, Empties, Ends, Counts, Begins, Keep, Back, KeepStore
    <3>3. CASE PushMoves(i, c')
      BY <1>8, <2>1, <3>1, <3>3 DEF PushMoves, Rereads, Found, Absent, Fetches, Opens, Breaks,
             Moves, Finishes, Another, Raises, Pushes, Begins, KeepStore
    <3> QED BY <2>3, <3>2, <3>3
  <2> QED BY <2>2, <2>4 DEF CiOwed, CiChecked, WinvOwed
<1> QED BY <1>6, <1>7, <1>8

LEMMA CalmKept ==
    ASSUME Types, Orderly, InStep, Pending, NEW i, NEW snp, NEW ans, NEW w_ans,
           Step(i, TRUE, snp, ans, w_ans)
    PROVE  Calm'
<1>1. Around(i, ans, w_ans) /\ Strobes(i) /\ Pins(i) /\ Regs(c) /\ c' = Fsm(i)
  <2>1. Pins(i) /\ Regs(c)
    BY PinsOf DEF Step, Types
  <2>2. c' = Fsm(i)
    BY DEF Step, Inputs, CacheClock
  <2>3. Around(i, ans, w_ans) /\ Strobes(i)
    BY AroundHolds, StrobesSeen DEF Pending
  <2> QED BY <2>1, <2>2, <2>3
<1>2. wst = "idle" => wsnp' = Nil
    BY <1>1 DEF Strobes
<1>3. CASE wst # "idle" /\ wst' = "idle"
  <2>1. c.cst \in {"IDLE", "FERR", "WINV"} /\ core = "access" /\ ~i.req /\ ~i.cinv /\ ~i.wk_pend
    <3>1. ~w_active
      BY <1>3, EndsQuiet DEF Step
    <3> QED BY <1>1, <1>3, <3>1 DEF Strobes, Around, InStep, SearchAlone, c_req, walk_pend
  <2>2. IdleMoves(i, c') \/ PassMoves(i, c') \/ LineMoves(i, c') \/ PushMoves(i, c')
    BY <1>1, FsmCases
  <2>3. c'.cst \in {"IDLE", "FERR", "WINV"}
    BY <2>1, <2>2 DEF IdleMoves, Waits, Looks, wk_push, Sweeps, Cinv, Writes, need_push,
           Updates, Stores, Bypasses, Reads, Taking, Asked, PassMoves, Merges, Drains, Passes,
           Stays, LineMoves, Hits, LookHits, Evicts, Misses, Beaten, Filled, Fails, Tags, Back,
           Recovers, Clears, Empties, sweep_push, Ends, Counts, PushMoves, Rereads, Found,
           Absent, Fetches, Opens, Breaks, Moves, Finishes, Another, Raises, Pushes
  <2> QED BY <2>3 DEF Calm
<1> QED BY <1>2, <1>3 DEF Calm

LEMMA PendingKept ==
    ASSUME Types, Orderly, InStep, Pending, PassImage, NEW i, NEW ce, NEW snp, NEW ans, NEW w_ans,
           Step(i, ce, snp, ans, w_ans)
    PROVE  Pending'
<1>1. CASE ce = TRUE
  <2>1. WsnpSoon'
    BY <1>1, StrobesSeen DEF Strobes, Pending
  <2> QED BY <1>1, <2>1, SilKept, CiKept, CalmKept DEF Pending
<1>2. CASE ce = FALSE
  <2>1. /\ UNCHANGED <<c, core, op, wst, s_last, m_up, db>> /\ ~i.ce
        /\ wsnp' = IF walker_req /\ w_req_wr /\ ~walker_wr_d THEN w_req_addr
                   ELSE IF snp = Nil THEN Nil ELSE wsnp
        /\ TagStep(i) /\ DirtyStep(i) /\ Pins(i)
    BY <1>2, PinsOf DEF Step, CacheClock, Inputs, DirtyStep
  <2>2. wst = "idle" => wsnp' \in {Nil, wsnp}
    BY <2>1 DEF Types, Search, walker_req
  <2>3. \A s \in Set : vb'[s] \subseteq vb[s]
    BY <2>1, RowsShrink DEF Written
  <2>4. c.sil # Nil => c.sil \in Set
    BY DEF Types, Regs
  <2>5. c.sil # Nil /\ vb[c.sil] \subseteq db[c.sil] => vb'[c.sil] \subseteq db[c.sil]
    BY <2>3, <2>4
  <2>6. SilOwed'
    BY <2>1, <2>2, <2>5 DEF SilOwed, Pending, Stuck, Serving
  <2>7. WsnpSoon' /\ Calm'
    BY <2>1, <2>2 DEF Pending, WsnpSoon, Calm
  <2>8. CiOwed'
    <3>1. c.cst = "IDLE" /\ core = "none" /\ s_last /\ wsnp = Nil => wst = "idle"
      BY DEF InStep, SearchAlone
    <3> QED BY <2>1, <2>2, <3>1 DEF Pending, CiOwed
  <2>9. CiChecked' /\ WinvOwed'
    BY <2>1 DEF Pending, CiChecked, WinvOwed
  <2> QED BY <2>6, <2>7, <2>8, <2>9 DEF Pending
<1> QED BY <1>1, <1>2 DEF Step, Inputs

----------------------------------------------------------------------------
(* Which strobe or debt clears a row. *)

LEMMA ClearedBySnoop ==
    ASSUME Pending, NEW i, NEW s, Cleared(i, s), c.cst \notin {"IDLE", "PASS", "WINV", "FERR"}
    PROVE  SnoopsSet(i, s) /\ snoop_wr(i)
<1>1. c.sil = Nil /\ c.ci_inv = Nil
    BY DEF Pending, SilOwed, CiOwed, Stuck
<1> QED BY <1>1 DEF Cleared, inv_wren, inv_idx, snoop_wr, s_stb, SnoopsSet, store_inv, StoreClears,
           Asked, fill_err_inv, ci_inv

LEMMA ClearedAtMerge ==
    ASSUME InStep, Pending, NEW i, NEW s, Cleared(i, s), c.st_chk
    PROVE  SnoopsSet(i, s)
<1>1. c.cst = "PASS" /\ ~c.winv /\ c.sil = Nil /\ c.st_posted
    BY DEF InStep, Posted
<1>2. c.ci_inv = Nil
    BY <1>1 DEF Pending, CiOwed
<1> QED BY <1>1, <1>2 DEF Cleared, inv_wren, inv_idx, snoop_wr, s_stb, SnoopsSet, store_inv,
           StoreClears, Asked, fill_err_inv, ci_inv

\* An access that is looked up or merged meets no debt on its row but one that is empty.
LEMMA ClearedAtAccept ==
    ASSUME Types, Orderly, InStep, Pending, NEW i, NEW snp, NEW ans, NEW w_ans, NEW s,
           Step(i, TRUE, snp, ans, w_ans), Cleared(i, s), c.cst = "IDLE", Serving,
           op.kind = "read" \/ (Update(op) /\ c.sil = Nil)
    PROVE  SnoopsSet(i, s) \/ vb[s] \subseteq db[s]
<1>1. Strobes(i) /\ i.op = op
    BY StrobesSeen DEF Pending, Step, Inputs
<1>2. c.ci_inv = Nil
    BY DEF Pending, CiOwed, Serving
<1>3. ~store_inv(i) /\ ~fill_err_inv(i) /\ ~ci_inv(i)
    BY <1>1, <1>2 DEF store_inv, StoreClears, fill_err_inv, ci_inv
<1>4. CASE s_stb(i)
    BY <1>4 DEF Cleared, inv_idx, snoop_wr, SnoopsSet
<1>5. CASE ~s_stb(i)
  <2>1. c.sil # Nil /\ s = c.sil
    BY <1>3, <1>5 DEF Cleared, inv_wren, inv_idx, snoop_wr
  <2> QED BY <2>1 DEF Pending, SilOwed, Stuck, Serving
<1> QED BY <1>4, <1>5

----------------------------------------------------------------------------
(* The rows and their images. *)

LEMMA SnoopClears ==
    ASSUME NEW i, NEW s, SnoopsSet(i, s), c.cst # "SWEEP"
    PROVE  Cleared(i, s)
<1> QED BY DEF Cleared, inv_wren, inv_idx, snoop_wr, SnoopsSet

\* A store merges into a way that stays valid.
LEMMA MergeValid ==
    ASSUME Types, InStep, Pending, Rows, PassImage, NEW i, Pins(i), TagStep(i), DirtyStep(i),
           st_merge(i)
    PROVE  /\ hit_way \in vb[SetOf(c.a)] /\ hit_way \in vb'[SetOf(c.a)] /\ hit_way \in Way
           /\ tags[SetOf(c.a)][hit_way] = TagOf(c.a)
<1> DEFINE s == SetOf(c.a)
<1>1. s \in Set /\ c.st_chk /\ look_hit /\ c.cst = "PASS"
    BY AddrParts DEF Types, Regs, st_merge
<1>2. hit_way \in vq /\ tq[hit_way] = TagOf(c.a) /\ hit_way \in Way
    BY <1>1, HitWayIn DEF Types, Tables
<1>3. ~Written(i, s)
    BY <1>1, WrittenWhen
<1>4. tags[s][hit_way] = TagOf(c.a) /\ (hit_way \in vb[s] \/ st_snooped)
    BY <1>1, <1>2 DEF PassImage, Imaged
<1>5. CASE hit_dirty
    BY <1>1, <1>2, <1>3, <1>4, <1>5, RowsShrink DEF hit_dirty, Rows
<1>6. CASE ~hit_dirty
  <2>1. ~st_snooped /\ ~SnoopsSet(i, s)
    BY <1>6 DEF st_merge
  <2>2. ~Cleared(i, s)
    BY <1>1, <2>1, ClearedAtMerge
  <2> QED BY <1>1, <1>2, <1>3, <1>4, <2>1, <2>2, RowsShrink
<1> QED BY <1>5, <1>6

\* A look-up that does not hit has no holder of its longword in the row from here on.
LEMMA LookMiss ==
    ASSUME Types, InStep, LookImage, NEW i, Pins(i), TagStep(i), DirtyStep(i), i.op = op,
           c.cst = "LOOK", ~LookHits(i)
    PROVE  \A w \in Way : ~(w \in vb'[SetOf(c.a)] /\ tags'[SetOf(c.a)][w] = TagOf(c.a))
<1> DEFINE s == SetOf(c.a)
<1>1. s \in Set /\ s = SetOf(i.op.a) /\ ~Written(i, s)
    BY AddrParts, WrittenWhen DEF Types, Regs, InStep, ReadingOn, Reading
<1>2. Imaged(s, look_snooped) /\ (look_snooped => \A w \in Way : Holds(w, c.a) => w \in db[s])
    BY DEF LookImage
<1> SUFFICES ASSUME NEW w \in Way, w \in vb'[s], tags'[s][w] = TagOf(c.a) PROVE FALSE
    OBVIOUS
<1>3. w \in vb[s] /\ tags[s][w] = TagOf(c.a) /\ w \in vq /\ tq[w] = TagOf(c.a)
    BY <1>1, <1>2, RowsShrink DEF Imaged
<1>4. look_hit
    BY <1>3 DEF look_hit, hits
<1>5. hit_way = w
    BY <1>2, <1>3, <1>4, HitWayIn DEF Imaged, Types, Tables
<1>6. ~hit_dirty /\ (look_snooped \/ SnoopsSet(i, s))
    BY <1>1, <1>4 DEF LookHits
<1>7. w \notin db[s]
    BY <1>5, <1>6 DEF hit_dirty
<1>8. CASE look_snooped
    BY <1>2, <1>3, <1>7, <1>8 DEF Holds
<1>9. CASE SnoopsSet(i, s)
  <2>1. Cleared(i, s)
    BY <1>9, SnoopClears
  <2> QED BY <1>1, <1>7, <2>1, RowStep
<1> QED BY <1>6, <1>8, <1>9

LEMMA RowsKept ==
    ASSUME Types, InStep, Pending, Rows, Images, NEW i, Pins(i), TagStep(i), DirtyStep(i)
    PROVE  Rows'
<1> SUFFICES ASSUME NEW s \in Set
             PROVE  db'[s] \subseteq vb'[s] /\ \A v, w \in vb'[s] : tags'[s][v] = tags'[s][w] => v = w
    BY DEF Rows
<1>1. /\ db[s] \subseteq vb[s] /\ \A v, w \in vb[s] : tags[s][v] = tags[s][w] => v = w
      /\ vb[s] \subseteq Way /\ tags[s] \in [Way -> Tag]
    BY DEF Rows, Types, Tables
<1>2. CASE ~Written(i, s)
  <2>1. vb'[s] \subseteq vb[s] /\ vb[s] \cap db[s] \subseteq vb'[s] /\ tags'[s] = tags[s]
    BY <1>2, RowsShrink
  <2>2. CASE db'[s] \subseteq db[s]
    BY <1>1, <2>1, <2>2
  <2>3. CASE st_merge(i) /\ s = SetOf(c.a) /\ db'[s] = db[s] \cup {hit_way}
    BY <1>1, <2>1, <2>3, MergeValid DEF Images
  <2> QED BY <2>2, <2>3, DirtyRow
<1>3. CASE Written(i, s) /\ c.cst = "TAGW"
  <2>1. s = SetOf(c.a) /\ i.ce /\ ~fill_snooped /\ ~SnoopsSet(i, s)
    BY <1>3, WrittenWhen
  <2>2. ~Cleared(i, s)
    BY <1>3, <2>1, ClearedBySnoop
  <2>3. vq = vb[s] /\ tq = tags[s] /\ \A w \in Way : ~(w \in vb[s] /\ tags[s][w] = TagOf(c.a))
    BY <1>3, <2>1 DEF Images, FillImage, NoHolder, Holds
  <2>4. /\ vb'[s] = vb[s] \cup {c.way} /\ tags'[s] = [tags[s] EXCEPT ![c.way] = TagOf(c.a)]
        /\ db'[s] = db[s] \ {c.way}
    BY <1>3, <2>1, <2>2, <2>3, RowStep, DirtyRow
  <2>5. c.way \in Way
    BY DEF Types, Regs
  <2>6. \A w \in Way : tags'[s][w] = IF w = c.way THEN TagOf(c.a) ELSE tags[s][w]
    BY <1>1, <2>4, <2>5
  <2> QED BY <1>1, <2>3, <2>4, <2>5, <2>6
<1>4. CASE Written(i, s) /\ c.cst # "TAGW"
  <2>1. c.cst = "SWEEP" /\ s = c.cnt /\ s < Sets /\ db[s] = {} /\ i.ce
    BY <1>4, WrittenWhen
  <2>2. ~Cleared(i, s)
    BY <2>1, ClearedBySnoop DEF snoop_wr, sweep_hit
  <2>3. vb'[s] = {} /\ db'[s] = {}
    BY <1>4, <2>1, <2>2, RowStep, DirtyRow
  <2> QED BY <2>3
<1> QED BY <1>2, <1>3, <1>4

\* The image of row s after a clock that reads it.
ReadRow(s) == vq' = vb[s] /\ tq' = tags[s]

LEMMA RowRead ==
    ASSUME InStep, NEW i, ImageStep(i), i.op = op, c'.cst \in {"LOOK", "PASS", "TAGW"}
    PROVE  /\ c.cst \in {"IDLE", "LOOK", "PASS", "FILL"} => ReadRow(SetOf(op.a))
           /\ c.cst = "PUSH" => ReadRow(c.p.set)
           /\ c.cst = "TAGW" => ReadRow(SetOf(c.a))
<1>1. c.cst = "TAGW" => c.a = op.a
    BY DEF InStep, ReadingOn, Reading
<1> QED BY <1>1 DEF ImageStep, tag_we, FillValid, tag_widx, tag_ridx, ReadRow

LEMMA ImagedAfter ==
    ASSUME Types, Rows, NEW i, Pins(i), TagStep(i), DirtyStep(i), NEW s \in Set, ReadRow(s),
           ~Written(i, s), NEW snooped,
           snooped \/ vb'[s] = vb[s] \/ ~\E w \in vb[s] : tags[s][w] = TagOf(c'.a)
    PROVE  /\ tq' = tags'[s] /\ vb'[s] \subseteq vq'
           /\ \A w \in vq' : tq'[w] = TagOf(c'.a) => w \in vb'[s] \/ snooped
           /\ \A v, w \in vq' : tq'[v] = TagOf(c'.a) /\ tq'[w] = TagOf(c'.a) => v = w
<1>1. vb'[s] \subseteq vb[s] /\ tags'[s] = tags[s]
    BY RowsShrink
<1> QED BY <1>1 DEF ReadRow, Rows

\* What an unwritten row does not hold it will not hold.
LEMMA NoneAppears ==
    ASSUME Types, NEW i, Pins(i), TagStep(i), DirtyStep(i), NEW a \in Addr, ~Written(i, SetOf(a)),
           NoHolder(a), c'.a = a
    PROVE  NoHolder(c.a)'
<1>1. SetOf(a) \in Set
    BY AddrParts
<1>2. vb'[SetOf(a)] \subseteq vb[SetOf(a)] /\ tags'[SetOf(a)] = tags[SetOf(a)]
    BY <1>1, RowsShrink
<1> QED BY <1>2 DEF NoHolder, Holds

LEMMA LookImageFrom ==
    ASSUME Types, InStep, Rows, NEW i, Pins(i), CacheClock(i), i.op = op, NEW a \in Addr, c'.a = a,
           c'.cst = "LOOK", c.cst \in {"IDLE", "LOOK"}, a = op.a, i.ce => c.cst = "LOOK" \/ rd_accept(i),
           c.cst = "IDLE" => i.ce,
           c.cst = "LOOK" /\ look_snooped => \A w \in Way : Holds(w, a) => w \in db[SetOf(a)],
           Cleared(i, SetOf(a)) => SnoopsSet(i, SetOf(a)) \/ vb[SetOf(a)] \subseteq db[SetOf(a)]
    PROVE  LookImage'
<1> DEFINE s == SetOf(a)
<1>1. s \in Set /\ TagStep(i) /\ DirtyStep(i) /\ ImageStep(i) /\ SnoopFlags(i)
    BY AddrParts DEF CacheClock
<1>2. ~Written(i, s) /\ ReadRow(s)
    BY <1>1, WrittenWhen, RowRead
<1>3. /\ SnoopsSet(i, s) => look_snooped'
      /\ look_snooped' => SnoopsSet(i, s) \/ (c.cst = "LOOK" /\ look_snooped)
    BY <1>1 DEF SnoopFlags, rd_accept, Asked
<1>4. look_snooped' \/ vb'[s] = vb[s]
    BY <1>1, <1>2, <1>3, RowsShrink, RowStep
<1>5. SetOf(c'.a) = s
    OBVIOUS
<1>6. Imaged(SetOf(c.a), look_snooped)'
    BY <1>1, <1>2, <1>4, <1>5, ImagedAfter DEF Imaged
<1>7. ASSUME look_snooped', NEW w \in Way, w \in vb'[s], tags'[s][w] = TagOf(a) PROVE w \in db'[s]
  <2>1. w \in vb[s] /\ tags[s][w] = TagOf(a) /\ db'[s] = db[s]
    BY <1>1, <1>2, <1>7, RowsShrink, DirtyRow
  <2>2. CASE SnoopsSet(i, s)
    BY <1>1, <1>2, <1>7, <2>1, <2>2, SnoopClears, RowStep
  <2>3. CASE c.cst = "LOOK" /\ look_snooped
    BY <2>1, <2>3 DEF Holds
  <2> QED BY <1>3, <1>7, <2>2, <2>3
<1>8. look_snooped' => \A w \in Way : Holds(w, c.a)' => w \in db'[SetOf(c'.a)]
    BY <1>5, <1>7 DEF Holds
<1> QED BY <1>6, <1>8 DEF LookImage

LEMMA LookImageKept ==
    ASSUME Types, Orderly, InStep, Pending, Rows, Images, NEW i, NEW snp, NEW ans, NEW w_ans,
           Step(i, TRUE, snp, ans, w_ans), c'.cst = "LOOK"
    PROVE  LookImage'
<1>1. /\ Around(i, ans, w_ans) /\ Pins(i) /\ Regs(c) /\ c' = Fsm(i) /\ i.ce /\ i.op = op
      /\ CacheClock(i) /\ TagStep(i) /\ DirtyStep(i) /\ ImageStep(i) /\ i.req = c_req
    BY AroundHolds, PinsOf DEF Step, CacheClock, Types, Inputs
<1>2. IdleMoves(i, c') \/ PassMoves(i, c') \/ LineMoves(i, c') \/ PushMoves(i, c')
    BY <1>1, FsmCases
<1>3. op.a \in Addr /\ c.a \in Addr
    BY <1>1, OpType DEF Pins, Regs
<1>4. CASE Reads(i, c')
  <2>1. /\ c.cst = "IDLE" /\ c'.a = op.a /\ rd_accept(i) /\ Serving /\ op.kind = "read"
    <3>1. Asked(i) /\ c.cst = "IDLE" /\ ~(Cinv(i) /\ ~i.walk_busy) /\ c'.a = op.a
      BY <1>1, <1>4 DEF Reads, Taking, Bypass
    <3>2. core = "access" /\ ~Cinv(i) /\ Serving
      BY <1>1, <3>1 DEF Asked, c_req, Serving, Cinv, Around
    <3> QED BY <1>1, <1>4, <3>1, <3>2 DEF Reads, rd_accept
  <2>2. Cleared(i, SetOf(op.a)) => SnoopsSet(i, SetOf(op.a)) \/ vb[SetOf(op.a)] \subseteq db[SetOf(op.a)]
    BY <2>1, ClearedAtAccept
  <2> QED BY <1>1, <1>3, <2>1, <2>2, LookImageFrom
<1>5. CASE Waits(i, c') /\ c.cst = "LOOK"
  <2>1. c'.a = c.a /\ c.a = op.a
    BY <1>5 DEF Waits, Keep, KeepAt, InStep, ReadingOn, Reading
  <2>2. look_snooped => \A w \in Way : Holds(w, op.a) => w \in db[SetOf(op.a)]
    BY <1>5, <2>1 DEF Images, LookImage
  <2>3. Cleared(i, SetOf(op.a)) => SnoopsSet(i, SetOf(op.a))
    BY <1>5, ClearedBySnoop
  <2> QED BY <1>1, <1>3, <1>5, <2>1, <2>2, <2>3, LookImageFrom
<1>6. CASE (Breaks(i, c') \/ Finishes(i, c')) /\ c.p.ret = "LOOK"
  <2>1. /\ c.cst = "PUSH" /\ c'.a = c.a /\ c.p.set = SetOf(c.a) /\ NoHolder(c.a) /\ SetOf(c.a) \in Set
    BY <1>3, <1>6, AddrParts DEF Breaks, Finishes, Pushes, KeepAt, Images, PushLook
  <2>2. ReadRow(SetOf(c.a)) /\ ~Written(i, SetOf(c.a))
    BY <1>1, <2>1, RowRead, WrittenWhen
  <2>3. ~\E w \in vb[SetOf(c.a)] : tags[SetOf(c.a)][w] = TagOf(c'.a)
    BY <2>1 DEF NoHolder, Holds, Types, Tables
  <2>4. Imaged(SetOf(c.a), look_snooped)'
    BY <1>1, <2>1, <2>2, <2>3, ImagedAfter DEF Imaged
  <2>5. NoHolder(c.a)'
    BY <1>1, <1>3, <2>1, <2>2, NoneAppears
  <2> QED BY <2>4, <2>5 DEF LookImage, NoHolder
<1>7. \/ Reads(i, c') \/ (Waits(i, c') /\ c.cst = "LOOK")
      \/ ((Breaks(i, c') \/ Finishes(i, c')) /\ c.p.ret = "LOOK")
    BY <1>2 DEF IdleMoves, Waits, Looks, Sweeps, Writes, Updates, Stores, Bypasses, PassMoves,
           Merges, Drains, Passes, Stays, Leaves, LineMoves, Hits, Evicts, Misses, Beaten, Filled,
           Fails, Tags, Back, Recovers, Clears, Empties, Ends, Counts, PushMoves, Rereads, Found,
           Absent, Fetches, Opens, Moves, Another, Raises, Begins, Breaks, Finishes
<1> QED BY <1>4, <1>5, <1>6, <1>7

LEMMA PassImageKept ==
    ASSUME Types, Orderly, InStep, Pending, Rows, Images, NEW i, NEW snp, NEW ans, NEW w_ans,
           Step(i, TRUE, snp, ans, w_ans), c'.st_chk
    PROVE  PassImage'
<1>1. /\ Around(i, ans, w_ans) /\ Pins(i) /\ Regs(c) /\ c' = Fsm(i) /\ i.ce /\ i.op = op
      /\ TagStep(i) /\ DirtyStep(i) /\ ImageStep(i) /\ SnoopFlags(i) /\ i.req = c_req
    BY AroundHolds, PinsOf DEF Step, CacheClock, Types, Inputs
<1>2. IdleMoves(i, c') \/ PassMoves(i, c') \/ LineMoves(i, c') \/ PushMoves(i, c')
    BY <1>1, FsmCases
<1>3. c.st_chk => c.cst = "PASS"
    BY DEF InStep, Posted
<1>4. Updates(i, c')
    BY <1>2, <1>3 DEF IdleMoves, Waits, Looks, Sweeps, Writes, Stores, Bypasses, Reads, PassMoves,
           PassBus, Merges, Drains, Passes, Stays, LineMoves, Hits, Evicts, Misses, Beaten, Filled,
           Fails, Tags, Back, Recovers, Clears, Empties, Ends, Counts, PushMoves, Rereads, Found,
           Absent, Fetches, Opens, Breaks, Moves, Finishes, Another, Raises, Pushes, Begins, Keep,
           KeepStore, LookHits, sweep_push, Taking
<1> DEFINE s == SetOf(op.a)
<1>5. /\ c.cst = "IDLE" /\ Asked(i) /\ c'.a = op.a /\ Update(op) /\ c.sil = Nil /\ c'.cst = "PASS"
    BY <1>1, <1>4 DEF Updates, Taking
<1>6. Serving /\ wr_accept_upd(i) /\ s \in Set
  <2>1. core = "access" /\ ~Cinv(i) /\ Serving
    BY <1>1, <1>5 DEF Asked, c_req, Serving, Cinv, Around
  <2> QED BY <1>1, <1>4, <1>5, <2>1, AddrParts, OpType DEF wr_accept_upd, Updates, Taking, Pins
<1>7. ~Written(i, s) /\ ReadRow(s) /\ st_snooped' = SnoopsSet(i, s)
  <2>1. ~Written(i, s) /\ ReadRow(s)
    BY <1>1, <1>5, WrittenWhen, RowRead
  <2>2. st_snooped' = SnoopsSet(i, s)
    BY <1>1, <1>3, <1>5, <1>6 DEF SnoopFlags, SnoopsSet
  <2> QED BY <2>1, <2>2
<1>8. Cleared(i, s) => SnoopsSet(i, s) \/ vb[s] \subseteq db[s]
    BY <1>5, <1>6, ClearedAtAccept
<1>9. st_snooped' \/ vb'[s] = vb[s]
    BY <1>1, <1>6, <1>7, <1>8, RowsShrink, RowStep
<1>10. Imaged(SetOf(c.a), st_snooped)'
    BY <1>1, <1>5, <1>6, <1>7, <1>9, ImagedAfter DEF Imaged
<1>11. st_snooped' => vb'[s] \subseteq db'[s]
  <2>1. SnoopsSet(i, s) => Cleared(i, s)
    BY <1>5, SnoopClears
  <2> QED BY <1>1, <1>5, <1>6, <1>7, <2>1, RowStep, DirtyRow
<1> QED BY <1>5, <1>10, <1>11 DEF PassImage

LEMMA FillImageKept ==
    ASSUME Types, Orderly, InStep, Pending, Rows, Images, NEW i, NEW snp, NEW ans, NEW w_ans,
           Step(i, TRUE, snp, ans, w_ans)
    PROVE  FillImage'
<1>1. /\ Around(i, ans, w_ans) /\ Pins(i) /\ Regs(c) /\ c' = Fsm(i) /\ i.ce /\ i.op = op
      /\ TagStep(i) /\ DirtyStep(i) /\ ImageStep(i) /\ SnoopFlags(i)
    BY AroundHolds, PinsOf DEF Step, CacheClock, Types, Inputs
<1>2. IdleMoves(i, c') \/ PassMoves(i, c') \/ LineMoves(i, c') \/ PushMoves(i, c')
    BY <1>1, FsmCases
<1>3. \/ c'.cst \notin {"FILL", "TAGW"}
      \/ Misses(i, c') \/ (c.cst = "FILL" /\ c'.a = c.a /\ c'.way = c.way)
    <2>1. c.p.ret \in {"IDLE", "LOOK", "SWEEP"}
      BY <1>1 DEF Regs, Pushing
    <2> QED BY <1>2, <2>1 DEF IdleMoves, Waits, Looks, Sweeps, Writes, Updates, Stores, Bypasses, Reads,
           PassMoves, Merges, Drains, Passes, Stays, Leaves, LineMoves, Hits, Evicts, Misses,
           Beaten, Filled, Fails, Tags, Back, Recovers, Clears, Empties, Ends, Counts, PushMoves,
           Rereads, Found, Absent, Fetches, Opens, Moves, Another, Raises, Begins, Breaks,
           Finishes, Keep, KeepAt
<1>4. CASE Misses(i, c')
  <2>1. /\ c.cst = "LOOK" /\ c'.cst = "FILL" /\ c'.a = c.a /\ c'.way = rq /\ ~LookHits(i)
        /\ rq \notin db[SetOf(c.a)] /\ SetOf(c.a) \in Set
    BY <1>1, <1>4, AddrParts DEF Misses, Regs
  <2>2. NoHolder(c.a)'
    BY <1>1, <2>1, LookMiss DEF Images, NoHolder, Holds
  <2>3. db'[SetOf(c.a)] = db[SetOf(c.a)]
    BY <1>1, <2>1, DirtyRow
  <2> QED BY <2>1, <2>2, <2>3 DEF FillImage
<1>5. CASE c.cst = "FILL" /\ c'.a = c.a /\ c'.way = c.way /\ c'.cst \in {"FILL", "TAGW"}
  <2> DEFINE s == SetOf(c.a)
  <2>1. s \in Set /\ c.way \notin db[s] /\ NoHolder(c.a) /\ ~Written(i, s) /\ db'[s] = db[s]
    BY <1>1, <1>5, AddrParts, WrittenWhen, DirtyRow DEF Images, FillImage, Regs
  <2>2. NoHolder(c.a)'
    BY <1>1, <1>5, <2>1, NoneAppears DEF Regs
  <2>3. c'.cst = "TAGW" => tq' = tags'[s] /\ (~fill_snooped' => vq' = vb'[s])
    <3>1. c.a = op.a
      BY <1>5 DEF InStep, ReadingOn, Reading
    <3>2. c'.cst = "TAGW" => ReadRow(s)
      BY <1>1, <1>5, <3>1, RowRead
    <3>3. ~fill_snooped' => ~Cleared(i, s)
      BY <1>1, <1>5, ClearedBySnoop DEF SnoopFlags
    <3> QED BY <1>1, <2>1, <3>2, <3>3, RowsShrink DEF ReadRow
  <2> QED BY <1>5, <2>1, <2>2, <2>3 DEF FillImage
<1> QED BY <1>3, <1>4, <1>5 DEF FillImage

LEMMA PushLookKept ==
    ASSUME Types, Orderly, InStep, Pending, Rows, Images, NEW i, NEW snp, NEW ans, NEW w_ans,
           Step(i, TRUE, snp, ans, w_ans), c'.cst = "PUSH", c'.p.ret = "LOOK"
    PROVE  PushLook'
<1>1. /\ Pins(i) /\ Regs(c) /\ c' = Fsm(i) /\ i.op = op /\ TagStep(i) /\ DirtyStep(i)
    BY PinsOf DEF Step, CacheClock, Types, Inputs
<1>2. IdleMoves(i, c') \/ PassMoves(i, c') \/ LineMoves(i, c') \/ PushMoves(i, c')
    BY <1>1, FsmCases
<1>3. Writes(i, c') => c'.p.ret = "IDLE"
    BY DEF Writes, Begins, FirstPush, NoPush
<1>4. Found(i, c') => c'.p.ret = "IDLE"
    BY DEF Found, Begins, FirstPush, NoPush
<1>5. Empties(i, c') => c'.p.ret = "SWEEP"
    BY DEF Empties, Begins, FirstPush, NoPush
<1>6. CASE Evicts(i, c')
  <2>1. c.cst = "LOOK" /\ ~LookHits(i) /\ c'.a = c.a /\ c'.p.set = SetOf(c.a)
    BY <1>6 DEF Evicts, Begins, FirstPush, NoPush, KeepAt
  <2>2. NoHolder(c.a)'
    BY <1>1, <2>1, LookMiss DEF Images, NoHolder, Holds
  <2> QED BY <2>1, <2>2 DEF PushLook
<1>7. CASE Pushes(i, c') /\ c.p.ret = "LOOK" /\ c'.p.set = c.p.set
  <2>1. c.cst = "PUSH" /\ c'.a = c.a /\ c.p.set = SetOf(c.a) /\ NoHolder(c.a) /\ c.a \in Addr
    BY <1>1, <1>7 DEF Pushes, KeepAt, Images, PushLook, Regs
  <2>2. NoHolder(c.a)'
    BY <1>1, <2>1, WrittenWhen, NoneAppears
  <2> QED BY <1>7, <2>1, <2>2 DEF PushLook
<1>8. ASSUME Fetches(i, c') \/ Opens(i, c') \/ Moves(i, c') \/ Raises(i, c')
      PROVE  Pushes(i, c') /\ c'.p.ret = c.p.ret /\ c'.p.set = c.p.set
    BY <1>1, <1>8 DEF Fetches, Opens, Moves, Raises, Regs, Pushing
<1>9. ASSUME Another(i, c')
      PROVE  Pushes(i, c') /\ c'.p.ret = c.p.ret /\ c'.p.set = c.p.set
    BY <1>9 DEF Another, FirstPush, NoPush
<1>10. c.p.ret \in {"IDLE", "LOOK", "SWEEP"}
    BY <1>1 DEF Regs, Pushing
<1>11. \/ Evicts(i, c') \/ Fetches(i, c') \/ Opens(i, c') \/ Moves(i, c') \/ Raises(i, c')
       \/ Another(i, c')
    BY <1>2, <1>3, <1>4, <1>5, <1>10 DEF IdleMoves, Waits, Looks, Sweeps, Updates, Stores, Bypasses,
           Reads, PassMoves, Merges, Drains, Passes, Stays, Leaves, Taking, LineMoves, Hits, Misses,
           Beaten, Filled, Fails, Tags, Back, Recovers, Clears, Ends, Counts, PushMoves, Rereads,
           Absent, Breaks, Finishes
<1> QED BY <1>6, <1>7, <1>8, <1>9, <1>11

LEMMA ImagesFrozen ==
    ASSUME Types, InStep, Pending, Rows, Images, NEW i, NEW snp, NEW ans, NEW w_ans,
           Step(i, FALSE, snp, ans, w_ans)
    PROVE  Images'
<1>1. /\ Pins(i) /\ c' = c /\ i.op = op /\ TagStep(i) /\ DirtyStep(i) /\ ~i.ce /\ db' = db
      /\ ImageStep(i) /\ SnoopFlags(i) /\ CacheClock(i) /\ c.a \in Addr /\ SetOf(c.a) \in Set
    BY PinsOf, AddrParts DEF Step, CacheClock, Inputs, DirtyStep, Types, Regs
<1>2. \A s : ~Written(i, s)
    BY <1>1 DEF Written
<1>3. c.cst = "LOOK" => LookImage'
  <2> SUFFICES ASSUME c.cst = "LOOK" PROVE LookImage'
    OBVIOUS
  <2>1. c.a = op.a
    BY DEF InStep, ReadingOn, Reading
  <2>2. look_snooped => \A w \in Way : Holds(w, op.a) => w \in db[SetOf(op.a)]
    BY <2>1 DEF Images, LookImage
  <2>3. Cleared(i, SetOf(op.a)) => SnoopsSet(i, SetOf(op.a))
    BY ClearedBySnoop
  <2> QED BY <1>1, <2>1, <2>2, <2>3, LookImageFrom
<1>4. c.st_chk => PassImage'
  <2> SUFFICES ASSUME c.st_chk PROVE PassImage'
    OBVIOUS
  <2> DEFINE s == SetOf(c.a)
  <2>1. c.cst = "PASS" /\ c.a = op.a
    BY DEF InStep, Posted, PassingOn
  <2>2. ReadRow(s)
    BY <1>1, <2>1, RowRead
  <2>3. /\ SnoopsSet(i, s) => st_snooped'
        /\ st_snooped' => SnoopsSet(i, s) \/ st_snooped
    BY <1>1, <2>1 DEF SnoopFlags, wr_accept_upd, Asked
  <2>4. st_snooped' \/ vb'[s] = vb[s]
    BY <1>1, <1>2, <2>3, ClearedAtMerge, RowsShrink
  <2>5. Imaged(SetOf(c.a), st_snooped)'
    BY <1>1, <1>2, <2>2, <2>4, ImagedAfter DEF Imaged
  <2>6. SnoopsSet(i, s) => vb'[s] \subseteq db[s]
    BY <1>1, <2>1, SnoopClears, RowStep
  <2>7. st_snooped => vb'[s] \subseteq db[s]
    BY <1>1, <1>2, RowsShrink DEF Images, PassImage
  <2> QED BY <1>1, <2>3, <2>5, <2>6, <2>7 DEF PassImage
<1>5. NoHolder(c.a) => NoHolder(c.a)'
    BY <1>1, <1>2, NoneAppears
<1>6. FillImage'
  <2>1. c.cst = "TAGW" => tq' = tags'[SetOf(c.a)] /\ (~fill_snooped' => vq' = vb'[SetOf(c.a)])
    <3> SUFFICES ASSUME c.cst = "TAGW"
                 PROVE  tq' = tags'[SetOf(c.a)] /\ (~fill_snooped' => vq' = vb'[SetOf(c.a)])
      OBVIOUS
    <3>1. ReadRow(SetOf(c.a))
      BY <1>1, RowRead
    <3>2. ~fill_snooped' => ~Cleared(i, SetOf(c.a))
      BY <1>1, ClearedBySnoop DEF SnoopFlags
    <3> QED BY <1>1, <1>2, <3>1, <3>2, RowsShrink DEF ReadRow
  <2> QED BY <1>1, <1>5, <2>1 DEF Images, FillImage
<1>7. PushLook'
    BY <1>1, <1>5 DEF Images, PushLook
<1> QED BY <1>1, <1>3, <1>4, <1>6, <1>7 DEF Images, LookImage, PassImage

LEMMA RowStateKept ==
    ASSUME Types, Orderly, InStep, Pending, Rows, Images, NEW i, NEW ce, NEW snp, NEW ans, NEW w_ans,
           Step(i, ce, snp, ans, w_ans)
    PROVE  Pending' /\ Rows' /\ Images'
<1>1. Pins(i) /\ TagStep(i) /\ DirtyStep(i) /\ ce \in BOOLEAN
    BY PinsOf DEF Step, CacheClock, Inputs
<1>2. Pending' /\ Rows'
    BY <1>1, PendingKept, RowsKept DEF Images
<1>3. CASE ce = TRUE
  <2>1. LookImage'
    BY <1>3, LookImageKept DEF LookImage
  <2>2. PassImage'
    BY <1>3, PassImageKept DEF PassImage
  <2>3. FillImage'
    BY <1>3, FillImageKept
  <2>4. PushLook'
    BY <1>3, PushLookKept DEF PushLook
  <2> QED BY <1>2, <2>1, <2>2, <2>3, <2>4 DEF Images
<1>4. CASE ce = FALSE
    BY <1>2, <1>4, ImagesFrozen
<1> QED BY <1>1, <1>3, <1>4

LEMMA RowStateInit == Init => Pending /\ Rows /\ Images
BY DEF Init, CacheInit, Pending, WsnpSoon, Calm, SilOwed, CiOwed, CiChecked, WinvOwed, Rows, Images,
       LookImage, PassImage, FillImage, PushLook

LEMMA RowStateStutter == Pending /\ Rows /\ Images /\ UNCHANGED vars => (Pending /\ Rows /\ Images)'
BY DEF vars, cacheVars, mmuVars, Pending, WsnpSoon, Calm, SilOwed, CiOwed, CiChecked, WinvOwed, Rows,
       Images, LookImage, PassImage, FillImage, PushLook, Imaged, NoHolder, Holds, Stuck, Serving

\* The inductive invariant of the rows.
RowState == Types /\ InStep /\ Pending /\ Rows /\ Images

LEMMA RowStateInductive == ASSUME Orderly PROVE Spec => []RowState
<1>1. Init => RowState
    BY TypesInit, InStepInit, RowStateInit DEF RowState
<1>2. RowState /\ [Next]_vars => RowState'
  <2> SUFFICES ASSUME RowState, [Next]_vars PROVE RowState'
    OBVIOUS
  <2>1. CASE Next
    BY <2>1, StepOfNext, TypesStep, InStepKept, RowStateKept DEF RowState
  <2>2. CASE UNCHANGED vars
    BY <2>2, TypesStutter, InStepStutter, RowStateStutter DEF RowState
  <2> QED BY <2>1, <2>2
<1> QED BY <1>1, <1>2, PTL DEF Spec

(* A dirty way is valid and no line is held twice, whatever strobe falls on  *)
(* a look-up, a fill or a merge: each acts on the image of a row that is a   *)
(* clock old or older (ap040_cache.v:713-749, 900-985).                      *)
THEOREM CacheRowsSane == ASSUME Orderly PROVE Spec => []RowsSane
<1>1. RowState => RowsSane
    BY DEF RowState, Rows, RowsSane
<1> QED BY <1>1, RowStateInductive, PTL

----------------------------------------------------------------------------
(* What the copies in the cache are worth: who holds the last value of a    *)
(* longword, which copies may be old, and why nobody reads those.           *)

\* A dirty way that holds longword a; its copy of it.
DirtyHolds(w, a) == w \in db[SetOf(a)] /\ tags[SetOf(a)][w] = TagOf(a)
NoDirty(a) == \A w \in Way : ~DirtyHolds(w, a)
Value(w, a) == cdata[SetOf(a)][w][WordOf(a)]
FillingIn(w, a) == c.cst \in {"FILL", "TAGW", "FERR"} /\ SetOf(a) = SetOf(c.a) /\ w = c.way
Merging(a) == c.st_chk /\ a = c.a

\* An access past the cache has no dirty line in its rows, a store no line at
\* all but for the row clears it is owed.
StoreRows == c.cst = "PASS" /\ ~c.st_chk =>
    /\ db[SetOf(c.a)] = {} /\ (Crosses(c) => db[NextSet(c.a)] = {})
    /\ op.kind = "write" =>
         /\ vb[SetOf(c.a)] = {} \/ c.sil = SetOf(c.a)
         /\ Crosses(c) => vb[NextSet(c.a)] = {} \/ (c.winv /\ c.set2 = NextSet(c.a))

\* The way being filled is clean, and given up once its row is strobed.
FillWay ==
    /\ c.cst = "FERR" => c.way \notin db[SetOf(c.a)]
    /\ c.cst \in {"FILL", "TAGW"} /\ fill_snooped => c.way \notin vb[SetOf(c.a)]

\* The walker's strobe waits a clock or two behind its write.
WalkerStrobes ==
    /\ wst \in {"tab", "page"} => ~w_req_wr
    /\ wsnp # Nil => \/ wst = "idle" \/ (walker_req /\ w_req_wr /\ walker_wr_d)
                     \/ (wst = "page" /\ (walk_pend \/ s_last)) \/ (wst = "fill" /\ ~w_active)
    /\ walker_req /\ w_req_wr /\ walker_wr_d => wsnp = w_req_addr \/ NoHolder(w_req_addr)

\* A descriptor is out of every dirty line before the walker asks for it.
WalkerClean ==
    /\ walker_req => NoDirty(w_req_addr)
    /\ c.wk_chk => w_active
    /\ c.wk_chk /\ c.cst # "PUSH" => NoDirty(w_req_addr)
    /\ c.cst = "WLOOK" => c.p.set = SetOf(w_req_addr) /\ (c.wl_ph => tq = tags[c.p.set])
    /\ c.cst = "PUSH" /\ walk_pend =>
         /\ c.p.set = SetOf(w_req_addr) /\ c.wk_chk /\ c.p.ret = "IDLE"
         /\ \A w \in Way : DirtyHolds(w, w_req_addr) => w \in c.p.mask

\* A copy may be old only while its row waits to be cleared, or the store to be merged.
Excused(a) == \/ a = wsnp \/ Merging(a) \/ c.sil = SetOf(a)
              \/ (c.winv /\ c.set2 = SetOf(a)) \/ (Sweeping /\ c.cnt = SetOf(a))
Copies == \A a \in Addr, w \in Way :
    Holds(w, a) /\ ~FillingIn(w, a) => Value(w, a) = a \/ Excused(a)

\* A dirty copy is never old, and the chipset never strobes one.
DirtyRight == \A a \in Addr, w \in Way : DirtyHolds(w, a) => Value(w, a) = a \/ Merging(a)
DirtyLines == \A d \in Dma : NoDirty(d)

\* The words filled so far, the word looked up, the words of the line being pushed.
FillWords == c.cst \in {"FILL", "TAGW"} /\ ~fill_snooped =>
    \A b \in Word : b < c.beat \/ c.cst = "TAGW" =>
        cdata[SetOf(c.a)][c.way][b] = AddrOf(TagOf(c.a), SetOf(c.a), b)
LookWords == c.cst = "LOOK" =>
    \A w \in vq : tq[w] = TagOf(c.a) =>
        /\ w \in db[SetOf(c.a)] => dq[w] = c.a
        /\ ~look_snooped => dq[w] = c.a
\* A look-up whose row was strobed finds only dirty ways.
LookRow == c.cst = "LOOK" /\ look_hit /\ look_snooped => vb[SetOf(c.a)] \subseteq db[SetOf(c.a)]
PushLine(b) == AddrOf(tags[c.p.set][c.p.way], c.p.set, b)
PushMask == c.cst = "PUSH" => c.p.mask \subseteq db[c.p.set] /\ c.p.way \in c.p.mask
PushWords == c.cst = "PUSH" =>
    /\ ~c.p.out => /\ c.p.rb > 0 => dq[c.p.way] = PushLine(c.p.rb - 1) /\ tq = tags[c.p.set]
                   /\ \A b \in Word : b + 1 < c.p.rb => pbuf[b] = PushLine(b)
    /\ c.p.out => /\ c.p.tag = tags[c.p.set][c.p.way]
                  /\ \A b \in Word : pbuf[b] = PushLine(b)
                  /\ \A b \in Word : b < c.p.wb => PushLine(b) \in mem

\* Memory, the store on its way or a dirty line has the last value.
NothingGone == \A a \in Addr \ (mem \cup InFlight) : \E w \in Way : DirtyHolds(w, a)

\* The rows behind the sweep are empty.
Swept == /\ Sweeping => \A s \in Set : s < c.cnt => vb[s] = {} /\ db[s] = {}
         /\ c.cinv_done => \A s \in Set : vb[s] = {} /\ db[s] = {}

DataState == /\ StoreRows /\ FillWay /\ WalkerStrobes /\ WalkerClean /\ Copies /\ DirtyRight
             /\ DirtyLines /\ FillWords /\ LookWords /\ LookRow /\ PushMask /\ PushWords /\ NothingGone
             /\ Swept

----------------------------------------------------------------------------
(* Addresses *)

LEMMA SameWord ==
    ASSUME NEW a \in Addr, NEW b \in Addr, SetOf(a) = SetOf(b), TagOf(a) = TagOf(b),
           WordOf(a) = WordOf(b)
    PROVE  a = b
<1>1. /\ a = AddrOf(TagOf(a), SetOf(a), WordOf(a))
      /\ b = AddrOf(TagOf(b), SetOf(b), WordOf(b))
    BY AddrParts
<1> QED BY <1>1

\* The longwords of a line.
LEMMA InLine ==
    ASSUME NEW t \in Tag, NEW s \in Set, NEW b \in Word
    PROVE  /\ AddrOf(t, s, b) \in Addr /\ WordOf(AddrOf(t, s, b)) = b
           /\ SetOf(AddrOf(t, s, b)) = s /\ TagOf(AddrOf(t, s, b)) = t
<1>1. t \in Nat
    BY Sizes DEF Tag
<1> QED BY <1>1, PartsOf, InSpace

LEMMA OneLine ==
    ASSUME NEW a \in Addr, NEW d \in Addr, SetOf(a) = SetOf(d), TagOf(a) = TagOf(d)
    PROVE  a \div Beats = d \div Beats
<1>1. \A x \in Addr : x \div Beats = TagOf(x) * Sets + SetOf(x)
  <2> SUFFICES ASSUME NEW x \in Addr PROVE x \div Beats = TagOf(x) * Sets + SetOf(x)
    OBVIOUS
  <2>1. /\ TagOf(x) \in Nat /\ SetOf(x) \in Set /\ WordOf(x) \in Word
        /\ AddrOf(TagOf(x), SetOf(x), WordOf(x)) = x
    BY AddrParts, Sizes DEF Tag
  <2> QED BY <2>1, PartsOf
<1> QED BY <1>1

LEMMA FillAddr ==
    ASSUME NEW a \in Addr, NEW b \in Word
    PROVE  (a - WordOf(a)) + b = AddrOf(TagOf(a), SetOf(a), b)
<1> DEFINE l == (TagOf(a) * Sets + SetOf(a)) * Beats
<1>1. a = l + WordOf(a) /\ AddrOf(TagOf(a), SetOf(a), b) = l + b
    BY AddrParts DEF AddrOf
<1>2. l \in Nat /\ WordOf(a) \in Nat /\ b \in Nat
    BY AddrParts, Sizes DEF Tag, Set, Word
<1> HIDE DEF l
<1>3. a \in Nat
    BY Sizes DEF Addr
<1> QED BY <1>1, <1>2, <1>3

\* The longword after the last of a line is in the next row.
LEMMA NextWord ==
    ASSUME NEW a \in Addr, a + 1 \in Addr
    PROVE  SetOf(a + 1) = IF WordOf(a) = Beats - 1 THEN NextSet(a) ELSE SetOf(a)
<1> DEFINE t == TagOf(a)
           s == SetOf(a)
           b == WordOf(a)
           l == t * Sets + s
<1>1. t \in Nat /\ s \in Set /\ b \in Word /\ a = l * Beats + b
    BY AddrParts, Sizes DEF Tag, AddrOf
<1>2. CASE b # Beats - 1
  <2>1. b + 1 \in Word /\ a + 1 = AddrOf(t, s, b + 1)
    <3>1. b + 1 \in Word /\ l * Beats \in Nat /\ b \in Nat
      BY <1>1, <1>2, Sizes DEF Word, Set
    <3>2. a + 1 = l * Beats + (b + 1)
      <4> DEFINE m == l * Beats
      <4>1. m \in Nat /\ b \in Nat /\ a = m + b
        BY <1>1, <3>1
      <4> HIDE DEF m, b
      <4>2. a + 1 = m + (b + 1)
        BY <4>1
      <4> QED BY <4>2 DEF m
    <3> QED BY <3>1, <3>2 DEF AddrOf
  <2>2. SetOf(a + 1) = s
    BY <1>1, <2>1, PartsOf
  <2> QED BY <1>2, <2>2
<1>3. CASE b = Beats - 1
  <2> DEFINE m == l + 1
  <2>1. a + 1 = m * Beats /\ m \in Nat
    <3>1. l \in Nat /\ Beats \in Nat \ {0}
      BY <1>1, Sizes DEF Set
    <3>2. a = l * Beats + (Beats - 1)
      BY <1>1, <1>3
    <3> HIDE DEF l
    <3> QED BY <3>1, <3>2
  <2>2. CASE s + 1 = Sets
    <3>1. m = (t + 1) * Sets + 0
      BY <1>1, <2>2, Sizes DEF Set
    <3>2. a + 1 = AddrOf(t + 1, 0, 0) /\ t + 1 \in Nat
      <4>1. AddrOf(t + 1, 0, 0) = m * Beats + 0
        BY <3>1 DEF AddrOf
      <4>2. m * Beats \in Nat
        BY <2>1, Sizes
      <4> HIDE DEF m
      <4> QED BY <1>1, <2>1, <4>1, <4>2
    <3>3. SetOf(a + 1) = 0
      BY <3>2, NilIsNone, PartsOf
    <3>4. (s + 1) % Sets = 0
      BY <2>2, Sizes
    <3> QED BY <1>3, <3>3, <3>4 DEF NextSet
  <2>3. CASE s + 1 # Sets
    <3>1. m = t * Sets + (s + 1) /\ s + 1 \in Set
      BY <1>1, <2>3, Sizes DEF Set
    <3>2. a + 1 = AddrOf(t, s + 1, 0)
      <4>1. AddrOf(t, s + 1, 0) = m * Beats + 0
        BY <3>1 DEF AddrOf
      <4>2. m * Beats \in Nat
        BY <2>1, Sizes
      <4> HIDE DEF m
      <4> QED BY <2>1, <4>1, <4>2
    <3>3. SetOf(a + 1) = s + 1
      BY <1>1, <3>1, <3>2, NilIsNone, PartsOf
    <3>4. (s + 1) % Sets = s + 1
      BY <3>1, Sizes DEF Set
    <3> QED BY <1>3, <3>3, <3>4 DEF NextSet
  <2> QED BY <2>2, <2>3
<1> QED BY <1>2, <1>3

\* The rows of an access.
LEMMA TouchedRows ==
    ASSUME NEW x, x.a \in Addr, x.n \in 1..2, Touched(x) \subseteq Addr, NEW a \in Touched(x)
    PROVE  /\ a \in Addr /\ (x.n = 1 => a = x.a)
           /\ SetOf(a) = SetOf(x.a) \/ (Crosses(x) /\ SetOf(a) = NextSet(x.a))
<1>1. x.a \in Int /\ a \in x.a..(x.a + x.n - 1) /\ x.n \in {1, 2}
    BY Sizes DEF Addr, Touched
<1>2. a = x.a \/ (x.n = 2 /\ a = x.a + 1)
    BY <1>1
<1>3. a \in Addr
    OBVIOUS
<1>4. CASE x.n = 2 /\ a = x.a + 1
  <2>1. SetOf(x.a + 1) = IF WordOf(x.a) = Beats - 1 THEN NextSet(x.a) ELSE SetOf(x.a)
    BY <1>3, <1>4, NextWord
  <2> QED BY <1>3, <1>4, <2>1 DEF Crosses
<1> QED BY <1>2, <1>3, <1>4

----------------------------------------------------------------------------
(* One clock, between two states of the rows' invariant. *)

Clocked(i, ce, snp, ans, w_ans) ==
    Orderly /\ RowState /\ RowState' /\ Step(i, ce, snp, ans, w_ans)

LEMMA Before ==
    ASSUME NEW i, NEW ce, NEW snp, NEW ans, NEW w_ans, Clocked(i, ce, snp, ans, w_ans)
    PROVE  /\ Types /\ InStep /\ Pending /\ Rows /\ Images /\ Orderly /\ Step(i, ce, snp, ans, w_ans)
           /\ LookImage /\ PassImage /\ FillImage /\ PushLook
           /\ Types' /\ InStep' /\ Pending' /\ Rows' /\ Images'
           /\ Regs(c) /\ Search /\ Tables /\ c.a \in Addr /\ SetOf(c.a) \in Set
<1> QED BY AddrParts DEF Clocked, RowState, Images, Types, Regs

LEMMA Wires ==
    ASSUME NEW i, NEW ce, NEW snp, NEW ans, NEW w_ans, Clocked(i, ce, snp, ans, w_ans)
    PROVE  /\ CacheClock(i) /\ TagStep(i) /\ DirtyStep(i) /\ DataStep(i) /\ ImageStep(i)
           /\ SnoopFlags(i) /\ Pins(i)
           /\ i.ce = ce /\ ce \in BOOLEAN /\ i.op = op /\ i.req = c_req /\ i.cinv = (core = "cinv")
           /\ i.walk_busy = w_active /\ i.wk_pend = walk_pend /\ i.wk_addr = w_req_addr
           /\ i.ans = ans /\ i.stb = (IF snp # Nil THEN snp ELSE wsnp)
           /\ ans # "none" => ce /\ m_req(c_req) /\ m_up
           /\ ans = "err" => ~c.dr.on /\ ~push_out
           /\ w_ans = "ack" => ce /\ walker_req
           /\ snp \in Dma \cup {Nil}
           /\ ~ce => c' = c /\ db' = db
<1>1. Step(i, ce, snp, ans, w_ans) /\ Types
    BY Before
<1>2. Pins(i) /\ Inputs(i, ce, snp, ans, w_ans) /\ CacheClock(i)
    BY <1>1, PinsOf DEF Step
<1>3. ans = "err" => ~c.dr.on /\ ~push_out
    BY <1>2, NotLate DEF Clocked
<1> QED BY <1>2, <1>3 DEF Inputs, CacheClock, DirtyStep

LEMMA Moved ==
    ASSUME NEW i, NEW ce, NEW snp, NEW ans, NEW w_ans, Clocked(i, ce, snp, ans, w_ans), ce
    PROVE  /\ c' = Fsm(i) /\ Around(i, ans, w_ans) /\ Strobes(i) /\ Step(i, TRUE, snp, ans, w_ans)
           /\ IdleMoves(i, c') \/ PassMoves(i, c') \/ LineMoves(i, c') \/ PushMoves(i, c')
<1>1. ce = TRUE
    BY Wires
<1>2. Step(i, TRUE, snp, ans, w_ans) /\ Types /\ Orderly /\ InStep /\ Pending /\ Regs(c)
    BY <1>1, Before
<1>3. c' = Fsm(i) /\ Pins(i)
    BY <1>1, Wires DEF CacheClock
<1> QED BY <1>2, <1>3, AroundHolds, StrobesSeen, FsmCases DEF Pending

\* A store or a bypassing access finds no dirty line in its rows.
LEMMA Accepted ==
    ASSUME NEW i, NEW ce, NEW snp, NEW ans, NEW w_ans, Clocked(i, ce, snp, ans, w_ans), ce,
           Stores(i, c') \/ Bypasses(i, c')
    PROVE  /\ c.cst = "IDLE" /\ Asked(i) /\ Serving /\ wst = "idle" /\ c'.a = op.a /\ c'.n = op.n
           /\ ~Cinv(i) /\ ~need_push(i) /\ ~c.dr.on /\ ~Update(op)
           /\ db[SetOf(op.a)] = {} /\ (Crosses(op) => db[NextSet(op.a)] = {})
<1>1. /\ i.op = op /\ i.req = c_req /\ i.cinv = (core = "cinv") /\ i.walk_busy = w_active
      /\ InStep /\ Search
    BY Wires, Before
<1>2. /\ c.cst = "IDLE" /\ Asked(i) /\ ~c.err_hold /\ ~need_push(i) /\ ~c.dr.on
      /\ c'.a = op.a /\ c'.n = op.n
    BY <1>1 DEF Stores, Bypasses, Taking
<1>3. Bypass(op) /\ ~Update(op)
    BY <1>1 DEF Stores, Bypasses, Bypass, Update
<1>4. Serving /\ wst = "idle" /\ ~Cinv(i) /\ ~i.walk_busy
    BY <1>1, <1>2 DEF Asked, c_req, Serving, Cinv, Search
<1>5. db[SetOf(op.a)] = {} /\ (Crosses(op) => db[NextSet(op.a)] = {})
    BY <1>1, <1>2, <1>3, <1>4 DEF need_push
<1> QED BY <1>2, <1>3, <1>4, <1>5

\* The store that becomes the last value in this clock is the one accepted in it.
LEMMA TakenWhen ==
    ASSUME NEW i, NEW ce, NEW snp, NEW ans, NEW w_ans, Clocked(i, ce, snp, ans, w_ans),
           NEW a \in Taken(i)
    PROVE  /\ ce /\ c.cst = "IDLE" /\ (Updates(i, c') \/ Stores(i, c'))
           /\ a \in Touched(op) /\ a \in Touched(c') /\ c'.a = op.a /\ c'.n = op.n
           /\ c'.st_posted /\ c'.cst = "PASS" /\ Taken(i) = Touched(op)
<1>1. ce /\ c.cst = "IDLE" /\ a \in Touched(op) /\ Taken(i) = Touched(op) /\ i.op = op /\ InStep
    BY Wires, Before DEF Taken
<1>2. c'.cst = "PASS" /\ c'.st_posted
    BY <1>1, Moved DEF Taken
<1>3. Updates(i, c') \/ Stores(i, c') \/ Bypasses(i, c')
    BY <1>1, <1>2, Moved DEF IdleMoves, Waits, Looks, Sweeps, Writes, Begins, Reads, PassMoves, Merges,
           Drains, Passes, Stays, LineMoves, Hits, LookHits, Evicts, Misses, Beaten, Filled, Fails,
           Tags, Back, Recovers, Clears, Empties, sweep_push, Ends, Counts, PushMoves, Rereads,
           Found, Absent, Fetches, Opens, Breaks, Moves, Finishes, Another, Raises, Pushes
<1>4. ~Bypasses(i, c')
    BY <1>1, <1>2 DEF Bypasses, InStep, Posted
<1>5. c'.a = op.a /\ c'.n = op.n
    BY <1>1, <1>3, <1>4 DEF Updates, Stores
<1> QED BY <1>1, <1>2, <1>3, <1>4, <1>5 DEF Touched

\* Who renews a longword.
LEMMA FreshWhen ==
    ASSUME NEW i, NEW ce, NEW snp, NEW ans, NEW w_ans, Clocked(i, ce, snp, ans, w_ans),
           NEW a \in i.fresh
    PROVE  \/ snp = a /\ a \in Dma /\ i.stb = a /\ a \notin InFlight /\ a # Nil
           \/ ce /\ ans = "ack" /\ passing /\ op.kind = "write" /\ a \in Touched(c)
           \/ ce /\ w_ans = "ack" /\ w_req_wr /\ a = w_req_addr /\ walker_req
           \/ a \in Taken(i)
<1>1. /\ i.fresh = Renewed(ce, snp, ans, w_ans) \cup Taken(i) /\ InStep
      /\ i.stb = (IF snp # Nil THEN snp ELSE wsnp) /\ snp \in Dma \cup {Nil}
    BY Wires, Before DEF Step, Inputs
<1>2. passing => Touched(op) = Touched(c)
    BY <1>1 DEF passing, InStep, PassingOn, Touched
<1> QED BY <1>1, <1>2, Wires DEF Renewed

\* A search runs beside none of these.
LEMMA SearchBeside ==
    ASSUME InStep, Types, c.cst \in {"LOOK", "FILL", "TAGW", "PASS", "SWEEP"} \/ Sweeping
    PROVE  wst = "idle" /\ ~w_active /\ ~walker_req
<1>1. wst = "idle"
    BY DEF InStep, SearchAlone, ReadingOn, Reading, PassingOn, Serving, PushFor, Sweeping
<1> QED BY <1>1 DEF Types, Search, walker_req

\* A dirty copy is renewed by the store that will be merged into it, by nobody else.
LEMMA DirtyFresh ==
    ASSUME NEW i, NEW ce, NEW snp, NEW ans, NEW w_ans, Clocked(i, ce, snp, ans, w_ans), DataState,
           NEW a \in Addr, a \in i.fresh, NEW w \in Way, DirtyHolds(w, a)
    PROVE  /\ Merging(a)' /\ a \in Taken(i)
           /\ c.cst = "IDLE" /\ c'.cst = "PASS" /\ c'.st_posted
<1>1. InStep /\ Types /\ Regs(c) /\ i.op = op /\ (ce => Pins(i))
    BY Wires, Before
<1>2. ~(snp = a /\ a \in Dma)
    BY DEF DataState, DirtyLines, NoDirty
<1>3. ~(passing /\ a \in Touched(c))
  <2> SUFFICES ASSUME passing, a \in Touched(c) PROVE FALSE
    OBVIOUS
  <2>1. c.cst = "PASS" /\ ~c.st_chk
    BY <1>1 DEF passing, InStep, Posted
  <2>2. db[SetOf(c.a)] = {} /\ (Crosses(c) => db[NextSet(c.a)] = {})
    BY <2>1 DEF DataState, StoreRows
  <2>3. SetOf(a) = SetOf(c.a) \/ (Crosses(c) /\ SetOf(a) = NextSet(c.a))
    BY <1>1, TouchedRows DEF Regs
  <2> QED BY <2>2, <2>3 DEF DirtyHolds
<1>4. ~(walker_req /\ a = w_req_addr)
    BY DEF DataState, WalkerClean, NoDirty
<1>5. a \in Taken(i)
    BY <1>2, <1>3, <1>4, FreshWhen
<1>6. /\ ce /\ c.cst = "IDLE" /\ (Updates(i, c') \/ Stores(i, c')) /\ a \in Touched(op)
      /\ c'.cst = "PASS" /\ c'.st_posted
    BY <1>5, TakenWhen
<1>7. Access(op) \/ op = NoOp
    BY <1>1, OpsAreAccesses DEF Types, Others
<1>8. op.a \in Addr /\ op.n \in 1..2 /\ Touched(op) \subseteq Addr
    BY <1>7, NilIsNone DEF Access, NoOp, Touched
<1>9. /\ SetOf(a) = SetOf(op.a) \/ (Crosses(op) /\ SetOf(a) = NextSet(op.a))
      /\ op.n = 1 => a = op.a
    BY <1>6, <1>8, TouchedRows
<1>10. ~Stores(i, c')
    BY <1>6, <1>9, Accepted DEF DirtyHolds
<1>11. Update(op) /\ c'.st_chk /\ c'.a = op.a
    BY <1>1, <1>6, <1>10 DEF Updates
<1> QED BY <1>5, <1>6, <1>9, <1>11 DEF Update, Merging

\* Where a dirty copy comes from, and where it goes.
LEMMA DirtyBefore ==
    ASSUME NEW i, NEW ce, NEW snp, NEW ans, NEW w_ans, Clocked(i, ce, snp, ans, w_ans),
           NEW a \in Addr, NEW w \in Way, DirtyHolds(w, a)'
    PROVE  \/ DirtyHolds(w, a)
           \/ /\ ce /\ st_merge(i) /\ c.r_cb /\ c.st_chk /\ c.cst = "PASS" /\ w = hit_way
              /\ SetOf(a) = SetOf(c.a) /\ TagOf(a) = TagOf(c.a)
<1> DEFINE s == SetOf(a)
<1>1. s \in Set /\ w \in db'[s] /\ tags'[s][w] = TagOf(a)
    BY AddrParts DEF DirtyHolds
<1>2. /\ Types /\ InStep /\ Pending /\ Rows /\ Images /\ PassImage /\ FillImage /\ i.ce = ce
      /\ TagStep(i) /\ DirtyStep(i) /\ Pins(i) /\ Tables
    BY Before, Wires
<1> HIDE DEF s
<1>3. CASE ~Written(i, s)
  <2>1. tags'[s] = tags[s]
    BY <1>1, <1>2, <1>3, RowsShrink
  <2>2. CASE db'[s] \subseteq db[s]
    BY <1>1, <2>1, <2>2 DEF DirtyHolds, s
  <2>3. CASE i.ce /\ st_merge(i) /\ c.r_cb /\ s = SetOf(c.a) /\ db'[s] = db[s] \cup {hit_way}
    <3>1. tags[s][hit_way] = TagOf(c.a) /\ c.cst = "PASS" /\ c.st_chk
      BY <1>2, <2>3, MergeValid DEF st_merge
    <3> QED BY <1>1, <1>2, <2>1, <2>3, <3>1 DEF DirtyHolds, s
  <2> QED BY <1>1, <1>2, <2>2, <2>3, DirtyRow
<1>4. CASE Written(i, s)
  <2>1. CASE c.cst = "TAGW" /\ i.ce /\ s = SetOf(c.a)
    <3>1. db'[s] = db[s] \ {c.way} /\ tq = tags[s]
      BY <1>1, <1>2, <2>1, DirtyRow DEF FillImage
    <3>2. tags'[s] = [tags[s] EXCEPT ![c.way] = TagOf(c.a)]
      BY <1>1, <1>2, <1>4, <2>1, <3>1, RowStep
    <3>3. tags[s] \in [Way -> Tag]
      BY <1>1, <1>2 DEF Tables
    <3> QED BY <1>1, <3>1, <3>2, <3>3 DEF DirtyHolds, s
  <2>2. CASE c.cst = "SWEEP" /\ db[s] = {}
    BY <1>1, <1>2, <2>2, DirtyRow
  <2> QED BY <1>4, <2>1, <2>2, WrittenWhen
<1> QED BY <1>3, <1>4

LEMMA DirtyAfter ==
    ASSUME NEW i, NEW ce, NEW snp, NEW ans, NEW w_ans, Clocked(i, ce, snp, ans, w_ans),
           NEW a \in Addr, NEW w \in Way, DirtyHolds(w, a)
    PROVE  \/ DirtyHolds(w, a)'
           \/ /\ ce /\ push_out /\ ans = "ack" /\ c.p.wb = Beats - 1
              /\ SetOf(a) = c.p.set /\ w = c.p.way
<1> DEFINE s == SetOf(a)
<1>1. s \in Set /\ w \in db[s] /\ tags[s][w] = TagOf(a) /\ SetOf(c.a) \in Set
    BY Before, AddrParts DEF DirtyHolds
<1>2. /\ Types /\ FillImage /\ i.ce = ce /\ i.ans = ans /\ (ans = "err" => ~push_out)
      /\ TagStep(i) /\ DirtyStep(i) /\ Pins(i) /\ Tables
    BY Before, Wires
<1> HIDE DEF s
<1>3. tags'[s][w] = tags[s][w]
  <2>1. CASE ~Written(i, s)
    BY <1>1, <1>2, <2>1, RowStep
  <2>2. CASE Written(i, s)
    <3>1. c.cst = "TAGW" /\ s = SetOf(c.a)
      BY <1>1, <2>2, WrittenWhen
    <3>2. w # c.way /\ tq = tags[s] /\ tags'[s] = [tq EXCEPT ![c.way] = TagOf(c.a)]
      BY <1>1, <1>2, <2>2, <3>1, RowStep DEF FillImage
    <3>3. tags[s] \in [Way -> Tag]
      BY <1>1, <1>2 DEF Tables
    <3> QED BY <3>2, <3>3
  <2> QED BY <2>1, <2>2
<1>4. w \in db'[s] \/ (ce /\ push_out /\ ans = "ack" /\ c.p.wb = Beats - 1 /\ s = c.p.set /\ w = c.p.way)
  <2>1. CASE c.cst = "TAGW"
    BY <1>1, <1>2, <2>1, DirtyRow DEF FillImage
  <2>2. CASE c.cst = "PUSH"
    <3>1. db \in [Set -> SUBSET Way] /\ c.p.set \in Set
      BY <1>2 DEF Tables, Types, Regs, Pushing
    <3> QED BY <1>1, <1>2, <2>2, <3>1 DEF DirtyStep, st_merge
  <2>3. CASE c.cst \notin {"PUSH", "TAGW"}
    BY <1>1, <1>2, <2>3, DirtyRow
  <2> QED BY <2>1, <2>2, <2>3
<1> QED BY <1>1, <1>3, <1>4 DEF DirtyHolds, s

\* A copy in a way that stays valid keeps its word, but for the fill and the merge.
LEMMA ValueKept ==
    ASSUME NEW i, NEW ce, NEW snp, NEW ans, NEW w_ans, Clocked(i, ce, snp, ans, w_ans),
           NEW a \in Addr, NEW w \in Way, Value(w, a) = a, a \notin i.fresh,
           w \in vb'[SetOf(a)], c.cst = "PASS" => Holds(w, a),
           ~(c.cst = "FILL" /\ SetOf(a) = SetOf(c.a) /\ w = c.way)
    PROVE  Value(w, a)' = a
<1> DEFINE s == SetOf(a)
           b == WordOf(a)
           k == SetOf(c.a)
           x == WordOf(c.a)
<1>1. s \in Set /\ b \in Word /\ k \in Set /\ x \in Word /\ c.a \in Addr
    BY Before, AddrParts
<1>2. /\ Types /\ InStep /\ Pending /\ Rows /\ Images /\ PassImage /\ Pins(i) /\ TagStep(i) /\ DirtyStep(i)
      /\ DataStep(i) /\ cdata \in [Set -> [Way -> [Word -> Cell]]] /\ c.way \in Way /\ c.beat \in Word
    BY Before, Wires DEF Tables, Regs
<1>3. CASE i.ce /\ c.cst = "FILL" /\ i.ans = "ack"
  <2> DEFINE cd == [cdata EXCEPT ![k][c.way][c.beat] = i.rdata]
  <2>1. cd[s][w][b] = cdata[s][w][b]
    BY <1>1, <1>2, <1>3
  <2>2. cdata'[s][w][b] = Aged(i, cd[s][w][b])
    BY <1>1, <1>2, <1>3 DEF DataStep
  <2> QED BY <2>1, <2>2 DEF Value, Aged
<1>4. CASE i.ce /\ st_merge(i) /\ ~(c.cst = "FILL")
  <2> DEFINE cd == [cdata EXCEPT ![k][hit_way][x] = c.a]
  <2>1. hit_way \in Way /\ tags[k][hit_way] = TagOf(c.a) /\ c.cst = "PASS"
    BY <1>2, <1>4, MergeValid DEF st_merge
  <2>2. cd[s][w][b] = a
    <3>1. CASE s = k /\ w = hit_way /\ b = x
      <4>1. TagOf(a) = TagOf(c.a)
        BY <2>1, <3>1 DEF Holds
      <4>2. a = c.a
        BY <1>1, <3>1, <4>1, SameWord
      <4> QED BY <1>1, <1>2, <2>1, <3>1, <4>2
    <3>2. CASE ~(s = k /\ w = hit_way /\ b = x)
      BY <1>1, <1>2, <2>1, <3>2 DEF Value
    <3> QED BY <3>1, <3>2
  <2>3. cdata'[s][w][b] = Aged(i, cd[s][w][b])
    BY <1>1, <1>2, <1>4 DEF DataStep
  <2> QED BY <2>2, <2>3 DEF Value, Aged
<1>5. CASE ~(i.ce /\ c.cst = "FILL" /\ i.ans = "ack") /\ ~(i.ce /\ st_merge(i))
  <2>1. cdata'[s][w][b] = Aged(i, cdata[s][w][b])
    BY <1>1, <1>2, <1>5 DEF DataStep
  <2> QED BY <2>1 DEF Value, Aged
<1>6. st_merge(i) => c.cst = "PASS"
    BY DEF st_merge
<1> QED BY <1>3, <1>4, <1>5, <1>6

\* The store in the line's way while it is merged.
LEMMA MergeQuiet ==
    ASSUME NEW i, NEW ce, NEW snp, NEW ans, NEW w_ans, Clocked(i, ce, snp, ans, w_ans), c.st_chk
    PROVE  /\ c.cst = "PASS" /\ ~passing /\ wst = "idle" /\ wsnp = Nil /\ c.sil = Nil /\ ~c.winv
           /\ ~Sweeping /\ ~walker_req /\ Taken(i) = {} /\ ans = "none" /\ c.a = op.a /\ c.n = 1
           /\ c.a \in InFlight /\ c.a \notin i.fresh
<1>1. InStep /\ Types /\ Pending /\ Regs(c)
    BY Before
<1>2. /\ c.cst = "PASS" /\ c.st_posted /\ c.sil = Nil /\ ~c.winv /\ Update(op) /\ ~m_up
      /\ c.a = op.a /\ c.n = op.n
    BY <1>1 DEF InStep, Posted, PassingOn
<1>3. wst = "idle" /\ ~walker_req
    BY <1>1, <1>2, SearchBeside
<1>4. wsnp = Nil /\ ~passing /\ ~Sweeping /\ Taken(i) = {} /\ c.n = 1 /\ c_req \in BOOLEAN
    BY <1>1, <1>2, <1>3 DEF Pending, Calm, passing, Sweeping, Taken, Update, c_req, Types, Search
<1>5. ans = "none"
    BY <1>2, Wires
<1>6. c.a \in Touched(c)
  <2>1. c.a \in Nat /\ c.n = 1
    BY <1>1, <1>4, Sizes DEF Regs, Addr
  <2> QED BY <2>1 DEF Touched
<1>7. c.a \in InFlight
    BY <1>2, <1>6 DEF InFlight
<1>8. c.a \notin i.fresh
    BY <1>3, <1>4, <1>5, <1>7, FreshWhen
<1> QED BY <1>2, <1>3, <1>4, <1>5, <1>7, <1>8

\* A store that finds its line is merged, or the line is gone.
LEMMA MergeHappens ==
    ASSUME NEW i, NEW ce, NEW snp, NEW ans, NEW w_ans, Clocked(i, ce, snp, ans, w_ans), ce,
           c.st_chk, NEW w \in Way, Holds(w, c.a)
    PROVE  \/ st_merge(i) /\ hit_way = w
           \/ w \notin db[SetOf(c.a)] /\ Cleared(i, SetOf(c.a))
<1>1. /\ Imaged(SetOf(c.a), st_snooped) /\ (st_snooped => vb[SetOf(c.a)] \subseteq db[SetOf(c.a)])
      /\ Types /\ Tables
  <2>1. PassImage /\ Types /\ Tables
    BY Before
  <2> QED BY <2>1 DEF PassImage
<1>2. c.cst = "PASS" /\ ans = "none" /\ i.ans = ans
  <2>1. c.cst = "PASS" /\ ans = "none"
    BY MergeQuiet
  <2>2. i.ans = ans
    BY Wires
  <2> QED BY <2>1, <2>2
<1>3. w \in vb[SetOf(c.a)] /\ w \in vq /\ tq[w] = TagOf(c.a)
    BY <1>1 DEF Holds, Imaged
<1>4. look_hit
    BY <1>3 DEF look_hit, hits
<1>5. hit_way = w
    BY <1>1, <1>3, <1>4, HitWayIn DEF Imaged, Tables
<1>6. CASE ~st_merge(i)
  <2>1. ~hit_dirty /\ (st_snooped \/ SnoopsSet(i, SetOf(c.a)))
    BY <1>2, <1>4, <1>6 DEF st_merge
  <2>2. w \notin db[SetOf(c.a)]
    BY <1>5, <2>1 DEF hit_dirty
  <2>3. SnoopsSet(i, SetOf(c.a))
    BY <1>1, <1>3, <2>1, <2>2
  <2> QED BY <1>2, <2>2, <2>3, SnoopClears
<1> QED BY <1>5, <1>6

\* What the merge writes is the last value.
LEMMA Merged ==
    ASSUME NEW i, NEW ce, NEW snp, NEW ans, NEW w_ans, Clocked(i, ce, snp, ans, w_ans), ce, st_merge(i),
           NEW a \in Addr, a = c.a, NEW w \in Way, w = hit_way
    PROVE  Value(w, a)' = a /\ Holds(w, a)
<1> DEFINE k == SetOf(c.a)
           x == WordOf(c.a)
           cd == [cdata EXCEPT ![k][hit_way][x] = c.a]
<1>1. /\ Types /\ InStep /\ Pending /\ Rows /\ PassImage /\ Pins(i) /\ TagStep(i) /\ DirtyStep(i)
      /\ DataStep(i) /\ cdata \in [Set -> [Way -> [Word -> Cell]]] /\ i.ce
    BY Before, Wires DEF Tables
<1>2. c.cst = "PASS" /\ c.st_chk /\ k \in Set /\ x \in Word
    BY <1>1, AddrParts DEF st_merge, Types, Regs
<1>3. hit_way \in Way /\ hit_way \in vb'[k] /\ hit_way \in vb[k] /\ tags[k][hit_way] = TagOf(c.a)
    BY <1>1, MergeValid
<1>4. cd[k][hit_way][x] = c.a
    BY <1>1, <1>2, <1>3
<1>5. cdata'[k][hit_way][x] = Aged(i, cd[k][hit_way][x])
    BY <1>1, <1>2, <1>3 DEF DataStep
<1>6. c.a \notin i.fresh
    BY <1>2, MergeQuiet
<1> HIDE DEF k, x, cd
<1>7. cdata'[k][hit_way][x] = c.a
    BY <1>4, <1>5, <1>6 DEF Aged
<1> QED BY <1>3, <1>7 DEF Holds, Value, k, x

\* Where a copy comes from.
LEMMA HoldsBefore ==
    ASSUME NEW i, NEW ce, NEW snp, NEW ans, NEW w_ans, Clocked(i, ce, snp, ans, w_ans),
           NEW a \in Addr, NEW w \in Way, Holds(w, a)'
    PROVE  \/ Holds(w, a) /\ ~(Written(i, SetOf(a)) /\ w = c.way /\ c.cst = "TAGW")
           \/ /\ ce /\ c.cst = "TAGW" /\ w = c.way /\ SetOf(a) = SetOf(c.a) /\ TagOf(a) = TagOf(c.a)
              /\ ~fill_snooped /\ ~SnoopsSet(i, SetOf(a))
<1> DEFINE s == SetOf(a)
<1>1. s \in Set /\ w \in vb'[s] /\ tags'[s][w] = TagOf(a)
    BY AddrParts DEF Holds
<1>2. Types /\ Pending /\ FillImage /\ i.ce = ce /\ TagStep(i) /\ DirtyStep(i) /\ Pins(i) /\ Tables
    BY Before, Wires
<1> HIDE DEF s
<1>3. CASE ~Written(i, s)
    BY <1>1, <1>2, <1>3, RowsShrink DEF Holds, s
<1>4. CASE Written(i, s)
  <2>1. CASE c.cst = "TAGW" /\ i.ce /\ s = SetOf(c.a) /\ ~fill_snooped /\ ~SnoopsSet(i, s)
    <3>1. ~Cleared(i, s)
      BY <1>2, <2>1, ClearedBySnoop
    <3>2. vq = vb[s] /\ tq = tags[s]
      BY <1>2, <2>1 DEF FillImage
    <3>3. vb'[s] = vb[s] \cup {c.way} /\ tags'[s] = [tags[s] EXCEPT ![c.way] = TagOf(c.a)]
      BY <1>1, <1>2, <1>4, <2>1, <3>1, <3>2, RowStep
    <3>4. tags[s] \in [Way -> Tag]
      BY <1>1, <1>2 DEF Tables
    <3> QED BY <1>1, <1>2, <2>1, <3>3, <3>4 DEF Holds, s
  <2>2. CASE c.cst = "SWEEP" /\ s = c.cnt /\ s < Sets /\ db[s] = {}
    <3>1. ~Cleared(i, s)
      BY <1>2, <2>2, ClearedBySnoop DEF snoop_wr, sweep_hit
    <3> QED BY <1>1, <1>2, <1>4, <2>2, <3>1, RowStep
  <2> QED BY <1>4, <2>1, <2>2, WrittenWhen
<1> QED BY <1>3, <1>4

\* A row clear leaves the dirty copies.
LEMMA ClearedDirty ==
    ASSUME NEW i, NEW ce, NEW snp, NEW ans, NEW w_ans, Clocked(i, ce, snp, ans, w_ans),
           NEW a \in Addr, NEW w \in Way, Holds(w, a)', Cleared(i, SetOf(a))
    PROVE  DirtyHolds(w, a)
<1> DEFINE s == SetOf(a)
<1>1. s \in Set /\ w \in vb'[s] /\ tags'[s][w] = TagOf(a)
    BY AddrParts DEF Holds
<1>2. Types /\ Pending /\ TagStep(i) /\ Cleared(i, s)
    BY Before, Wires
<1> HIDE DEF s
<1>3. ~Written(i, s)
  <2>1. c.cst \in {"TAGW", "SWEEP"} => SnoopsSet(i, s) /\ snoop_wr(i)
    BY <1>2, ClearedBySnoop
  <2> QED BY <2>1, WrittenWhen DEF snoop_wr, sweep_hit
<1> QED BY <1>1, <1>2, <1>3, RowStep DEF DirtyHolds, s

----------------------------------------------------------------------------
(* The row clears that are owed are done, or still owed. *)

LEMMA SilServed ==
    ASSUME NEW i, NEW ce, NEW snp, NEW ans, NEW w_ans, Clocked(i, ce, snp, ans, w_ans),
           NEW s \in Set, c.sil = s
    PROVE  c'.sil = s \/ Cleared(i, s)
<1>1. /\ InStep /\ Pending /\ Regs(c) /\ Pins(i) /\ i.ce = ce /\ s # Nil /\ (~ce => c' = c)
    BY Before, Wires, NilIsNone
<1>2. c.cst \in {"PASS", "WINV", "IDLE"}
    BY <1>1 DEF Pending, SilOwed, Stuck
<1>3. CASE ce
  <2>1. c' = Fsm(i)
    BY <1>3, Moved
  <2>2. c'.sil = SilAfter(i)
    <3>1. CASE c.cst # "PASS"
      BY <1>1, <2>1, <3>1, OwedAfter
    <3>2. CASE c.cst = "PASS"
      <4>1. PassMoves(i, c')
        BY <1>1, <2>1, <3>2, PassCases DEF Fsm
      <4>2. PassBus(i, c')
        BY <4>1 DEF PassMoves, Merges, Drains, Passes, Stays
      <4>3. ~c.st_chk
        BY <1>1 DEF InStep, Posted
      <4> QED BY <4>2, <4>3 DEF PassBus
    <3> QED BY <3>1, <3>2
  <2>3. CASE s_stb(i)
    BY <1>1, <2>2, <2>3 DEF SilAfter, StoreClears
  <2>4. CASE ~s_stb(i)
    BY <1>1, <1>2, <1>3, <2>4 DEF Cleared, inv_wren, inv_idx, snoop_wr, fill_err_inv, ci_inv
  <2> QED BY <2>3, <2>4
<1> QED BY <1>1, <1>3

LEMMA WinvServed ==
    ASSUME NEW i, NEW ce, NEW snp, NEW ans, NEW w_ans, Clocked(i, ce, snp, ans, w_ans), c.winv
    PROVE  (c'.winv /\ c'.set2 = c.set2) \/ Cleared(i, c.set2)
<1>1. /\ InStep /\ Pending /\ Regs(c) /\ Pins(i) /\ i.ce = ce /\ (~ce => c' = c)
    BY Before, Wires
<1>2. c.cst \in {"PASS", "WINV"} /\ ~c.st_chk /\ c.ci_inv = Nil
    BY <1>1 DEF InStep, Posted, Pending, CiOwed
<1>3. CASE ce /\ PortBusy(i)
  <2>1. CASE c.cst = "PASS"
    <3>1. PassMoves(i, c') /\ ~Merges(i, c')
      BY <1>1, <1>2, <1>3, <2>1, Moved, PassCases DEF Fsm, Merges, st_merge
    <3> QED BY <1>3, <3>1 DEF PassMoves, PassBus, Drains, Passes, Stays, Leaves, KeepAt
  <2>2. CASE c.cst = "WINV"
    <3>1. Waits(i, c')
      BY <1>3, <2>2, Moved DEF IdleMoves, Waits, Looks, Sweeps, Writes, Taking, Updates, Stores, Bypasses, Reads,
             PassMoves, Merges, Drains, Passes, Stays, LineMoves, Hits, LookHits, Evicts, Misses,
             Beaten, Filled, Fails, Tags, Back, Recovers, Clears, Empties, sweep_push, Ends, Counts,
             PushMoves, Rereads, Found, Absent, Fetches, Opens, Breaks, Moves, Finishes, Another,
             Raises, Pushes, PortBusy
    <3> QED BY <3>1 DEF Waits, Keep, KeepStore, KeepAt
  <2> QED BY <1>2, <2>1, <2>2
<1>4. CASE ce /\ ~PortBusy(i)
    BY <1>1, <1>2, <1>4 DEF PortBusy, Cleared, inv_wren, inv_idx, store_inv, snoop_wr, s_stb, fill_err_inv,
           ci_inv
<1> QED BY <1>1, <1>3, <1>4

LEMMA SweepServed ==
    ASSUME NEW i, NEW ce, NEW snp, NEW ans, NEW w_ans, Clocked(i, ce, snp, ans, w_ans), Sweeping
    PROVE  \/ Sweeping' /\ c'.cnt = c.cnt
           \/ ce /\ c.cst = "SWEEP" /\ ~sweep_push /\ (c.cnt \in Set => Written(i, c.cnt))
<1>1. /\ Regs(c) /\ i.ce = ce /\ (~ce => c' = c)
    BY Before, Wires
<1>2. CASE ce /\ c.cst = "SWEEP" /\ ~sweep_push
    BY <1>1, <1>2, Sizes DEF Written, tag_we, tag_widx, sweep_hit, Set
<1>3. CASE ce /\ sweep_push
  <2>1. c.cst = "SWEEP" /\ (Waits(i, c') \/ Empties(i, c'))
    BY <1>3, Moved DEF IdleMoves, Waits, Looks, Sweeps, Writes, Taking, Updates, Stores, Bypasses, Reads,
           PassMoves, Merges, Drains, Passes, Stays, LineMoves, Hits, LookHits, Evicts, Misses,
           Beaten, Filled, Fails, Tags, Back, Recovers, Clears, Empties, sweep_push, Ends, Counts,
           PushMoves, Rereads, Found, Absent, Fetches, Opens, Breaks, Moves, Finishes, Another,
           Raises, Pushes
  <2> QED BY <2>1 DEF Waits, Keep, KeepSeq, Empties, Begins, FirstPush, NoPush, Sweeping
<1>4. CASE ce /\ c.cst = "PUSH"
  <2>1. \/ Fetches(i, c') \/ Opens(i, c') \/ Breaks(i, c') \/ Moves(i, c') \/ Finishes(i, c')
        \/ Another(i, c') \/ Raises(i, c')
    BY <1>4, Moved DEF IdleMoves, Waits, Looks, Sweeps, Writes, Taking, Updates, Stores, Bypasses, Reads,
           PassMoves, Merges, Drains, Passes, Stays, LineMoves, Hits, LookHits, Evicts, Misses,
           Beaten, Filled, Fails, Tags, Back, Recovers, Clears, Empties, sweep_push, Ends, Counts,
           PushMoves, Rereads, Found, Absent
  <2>2. c.p.ret = "SWEEP"
    BY <1>4 DEF Sweeping
  <2>3. c'.cnt = c.cnt
    BY <2>1 DEF Fetches, Opens, Breaks, Moves, Finishes, Another, Raises, Pushes
  <2>4. CASE Fetches(i, c') \/ Opens(i, c') \/ Moves(i, c') \/ Raises(i, c')
    BY <1>1, <2>2, <2>3, <2>4 DEF Fetches, Opens, Moves, Raises, Regs, Pushing, Sweeping
  <2>5. CASE Another(i, c')
    BY <2>2, <2>3, <2>5 DEF Another, FirstPush, NoPush, Sweeping
  <2>6. CASE Breaks(i, c') \/ Finishes(i, c')
    BY <2>2, <2>3, <2>6 DEF Breaks, Finishes, Sweeping
  <2> QED BY <2>1, <2>4, <2>5, <2>6
<1> QED BY <1>1, <1>2, <1>3, <1>4 DEF Sweeping

\* A copyback store is to a line the chipset never strobes.
LEMMA CopybackLine ==
    ASSUME NEW i, NEW ce, NEW snp, NEW ans, NEW w_ans, Clocked(i, ce, snp, ans, w_ans), c.r_cb,
           NEW d \in Dma
    PROVE  /\ d \in Addr /\ ~(SetOf(d) = SetOf(c.a) /\ TagOf(d) = TagOf(c.a))
           /\ c.st_chk
<1>1. InStep /\ Types /\ c.a \in Addr
    BY Before
<1>2. c.st_chk /\ op.cb /\ c.a = op.a
    BY <1>1 DEF InStep, Posted, PassingOn
<1>3. Access(op)
    BY <1>1, <1>2, OpsAreAccesses DEF Types, Others, NoOp
<1>4. d \in Addr /\ d \div Beats # c.a \div Beats
    BY <1>2, <1>3, SystemAssumption DEF Access
<1> QED BY <1>1, <1>2, <1>4, OneLine

LEMMA DirtyRightKept ==
    ASSUME NEW i, NEW ce, NEW snp, NEW ans, NEW w_ans, Clocked(i, ce, snp, ans, w_ans), DataState
    PROVE  DirtyRight'
<1> SUFFICES ASSUME NEW a \in Addr, NEW w \in Way, DirtyHolds(w, a)'
             PROVE  Value(w, a)' = a \/ Merging(a)'
    BY DEF DirtyRight
<1>1. /\ FillImage /\ Rows /\ Rows' /\ DirtyRight /\ Copies /\ SetOf(a) \in Set /\ c.a \in Addr
      /\ (~ce => c' = c) /\ Pins(i) /\ Types /\ InStep /\ Pending /\ PassImage /\ TagStep(i) /\ DirtyStep(i)
    BY Before, Wires, AddrParts DEF DataState
<1>2. w \in vb'[SetOf(a)]
    BY <1>1 DEF Rows, DirtyHolds
<1>3. CASE DirtyHolds(w, a)
  <2>1. Holds(w, a) /\ ~(c.cst = "FILL" /\ SetOf(a) = SetOf(c.a) /\ w = c.way)
    BY <1>1, <1>3 DEF DirtyHolds, Holds, Rows, FillImage
  <2>2. CASE a \in i.fresh
    BY <1>3, <2>2, DirtyFresh
  <2>3. CASE a \notin i.fresh /\ Value(w, a) = a
    BY <1>2, <2>1, <2>3, ValueKept
  <2>4. CASE Merging(a)
    <3>1. CASE ~ce
      BY <1>1, <2>4, <3>1 DEF Merging
    <3>2. CASE ce
      <4>1. a = c.a /\ c.st_chk
        BY <2>4 DEF Merging
      <4>2. st_merge(i) /\ hit_way = w
        BY <1>3, <2>1, <3>2, <4>1, MergeHappens DEF DirtyHolds
      <4> QED BY <3>2, <4>1, <4>2, Merged
    <3> QED BY <3>1, <3>2
  <2> QED BY <1>1, <1>3, <2>2, <2>3, <2>4 DEF DirtyRight
<1>4. CASE /\ ce /\ st_merge(i) /\ c.r_cb /\ c.st_chk /\ c.cst = "PASS" /\ w = hit_way
           /\ SetOf(a) = SetOf(c.a) /\ TagOf(a) = TagOf(c.a)
  <2>1. CASE a = c.a
    BY <1>4, <2>1, Merged
  <2>2. CASE a # c.a
    <3>1. Holds(w, a) /\ ~FillingIn(w, a)
      BY <1>1, <1>4, MergeValid DEF Holds, FillingIn
    <3>2. /\ wsnp = Nil /\ c.sil = Nil /\ ~c.winv /\ ~Sweeping /\ ~passing /\ ~walker_req
          /\ Taken(i) = {}
      BY <1>4, MergeQuiet
    <3>3. ~Excused(a)
      BY <1>1, <2>2, <3>2, NilIsNone DEF Excused, Merging
    <3>4. Value(w, a) = a
      BY <1>1, <3>1, <3>3 DEF Copies
    <3>5. a \notin i.fresh
      BY <1>4, <3>2, FreshWhen, CopybackLine
    <3> QED BY <1>2, <1>4, <3>1, <3>4, <3>5, ValueKept
  <2> QED BY <2>1, <2>2
<1> QED BY <1>3, <1>4, DirtyBefore

LEMMA DirtyLinesKept ==
    ASSUME NEW i, NEW ce, NEW snp, NEW ans, NEW w_ans, Clocked(i, ce, snp, ans, w_ans), DataState
    PROVE  DirtyLines'
<1> SUFFICES ASSUME NEW d \in Dma, NEW w \in Way, DirtyHolds(w, d)' PROVE FALSE
    BY DEF DirtyLines, NoDirty
<1>1. d \in Addr
    BY SystemAssumption
<1>2. ~DirtyHolds(w, d)
    BY DEF DataState, DirtyLines, NoDirty
<1> QED BY <1>1, <1>2, DirtyBefore, CopybackLine

----------------------------------------------------------------------------
(* The copies that may be old. *)

\* What excuses a copy lasts until its row is cleared.
LEMMA ExcuseServed ==
    ASSUME NEW i, NEW ce, NEW snp, NEW ans, NEW w_ans, Clocked(i, ce, snp, ans, w_ans), DataState,
           NEW a \in Addr, Excused(a), ~Merging(a), NEW w \in Way, Holds(w, a)'
    PROVE  Excused(a)' \/ Cleared(i, SetOf(a))
<1>1. /\ SetOf(a) \in Set /\ a # Nil /\ Types /\ InStep /\ Pending /\ TagStep(i) /\ WalkerStrobes /\ Search
      /\ Step(i, ce, snp, ans, w_ans) /\ i.stb = (IF snp # Nil THEN snp ELSE wsnp)
    BY Before, Wires, AddrParts, NilIsNone DEF DataState
<1>2. CASE a = wsnp
  <2>1. c.cst # "SWEEP"
    BY <1>1, <1>2, SearchBeside DEF Pending, Calm
  <2>2. ~(walker_req /\ w_req_wr /\ ~walker_wr_d)
    <3> SUFFICES ASSUME walker_req, w_req_wr, ~walker_wr_d PROVE FALSE
      OBVIOUS
    <3>1. w_active /\ ~walk_pend
      BY DEF walker_req, walk_pend
    <3>2. wst \in {"tab", "utab", "page", "fill"}
      BY <1>1, <3>1 DEF Search
    <3>3. wst = "page"  \/ wst = "idle" \/ (wst = "fill" /\ ~w_active)
      BY <1>1, <1>2 DEF WalkerStrobes
    <3> QED BY <1>1, <3>1, <3>2, <3>3 DEF WalkerStrobes
  <2>3. wsnp' = IF snp = Nil THEN Nil ELSE wsnp
    BY <1>1, <2>2 DEF Step
  <2>4. CASE snp # Nil
    BY <1>2, <2>3, <2>4 DEF Excused
  <2>5. CASE snp = Nil
    <3>1. SnoopsSet(i, SetOf(a))
      BY <1>1, <1>2, <2>5 DEF SnoopsSet, s_stb
    <3> QED BY <2>1, <3>1, SnoopClears
  <2> QED BY <2>4, <2>5
<1>3. CASE c.sil = SetOf(a)
    BY <1>1, <1>3, SilServed DEF Excused
<1>4. CASE c.winv /\ c.set2 = SetOf(a)
    BY <1>4, WinvServed DEF Excused
<1>5. CASE Sweeping /\ c.cnt = SetOf(a)
  <2>1. CASE Sweeping' /\ c'.cnt = c.cnt
    BY <1>5, <2>1 DEF Excused
  <2>2. CASE Written(i, SetOf(a)) /\ c.cst = "SWEEP"
    BY <1>1, <2>2, RowStep DEF Holds
  <2> QED BY <1>1, <1>5, <2>1, <2>2, SweepServed
<1> QED BY <1>2, <1>3, <1>4, <1>5 DEF Excused

\* So does what makes a copy old.
LEMMA FreshExcused ==
    ASSUME NEW i, NEW ce, NEW snp, NEW ans, NEW w_ans, Clocked(i, ce, snp, ans, w_ans), DataState,
           NEW a \in Addr, a \in i.fresh, NEW w \in Way, Holds(w, a), Holds(w, a)'
    PROVE  Excused(a)' \/ Cleared(i, SetOf(a))
<1>1. /\ SetOf(a) \in Set /\ a # Nil /\ Types /\ InStep /\ Pending /\ TagStep(i) /\ WalkerStrobes /\ Search
      /\ Step(i, ce, snp, ans, w_ans) /\ i.stb = (IF snp # Nil THEN snp ELSE wsnp) /\ i.ce = ce
      /\ StoreRows /\ Regs(c) /\ i.op = op /\ op \in OpSet
    BY Before, Wires, AddrParts, NilIsNone DEF DataState, Types, Others
<1>2. ASSUME SnoopsSet(i, SetOf(a)) PROVE Excused(a)' \/ Cleared(i, SetOf(a))
  <2>1. CASE c.cst # "SWEEP"
    BY <1>2, <2>1, SnoopClears
  <2>2. CASE c.cst = "SWEEP" /\ snoop_wr(i)
    BY <1>2, <2>2 DEF Cleared, inv_wren, inv_idx, SnoopsSet
  <2>3. CASE c.cst = "SWEEP" /\ ~snoop_wr(i)
    <3>1. Sweeping /\ c.cnt = SetOf(a)
      BY <1>2, <2>3 DEF snoop_wr, SnoopsSet, Sweeping
    <3>2. Excused(a) /\ ~Merging(a)
      BY <1>1, <2>3, <3>1 DEF Excused, Merging, InStep, Posted
    <3> QED BY <3>2, ExcuseServed
  <2> QED BY <2>1, <2>2, <2>3
<1>3. CASE snp = a /\ i.stb = a
  <2>1. SnoopsSet(i, SetOf(a))
    BY <1>1, <1>3 DEF SnoopsSet, s_stb
  <2> QED BY <1>2, <2>1
<1>4. CASE passing /\ op.kind = "write" /\ a \in Touched(c)
  <2>1. c.cst = "PASS" /\ ~c.st_chk
    BY <1>1, <1>4 DEF passing, InStep, Posted
  <2>2. SetOf(a) = SetOf(c.a) \/ (Crosses(c) /\ SetOf(a) = NextSet(c.a))
    BY <1>1, <1>4, TouchedRows DEF Regs
  <2>3. vb[SetOf(a)] # {}
    BY DEF Holds
  <2>4. c.sil = SetOf(a) \/ (c.winv /\ c.set2 = SetOf(a))
    BY <1>1, <1>4, <2>1, <2>2, <2>3 DEF StoreRows
  <2> QED BY <1>1, <2>4, SilServed, WinvServed DEF Excused
<1>5. CASE walker_req /\ w_req_wr /\ a = w_req_addr
  <2>1. CASE ~walker_wr_d
    BY <1>1, <1>5, <2>1 DEF Step, Excused
  <2>2. CASE walker_wr_d
    <3>1. wsnp = a
      BY <1>1, <1>5, <2>2 DEF WalkerStrobes, NoHolder
    <3>2. CASE snp # Nil
      BY <1>1, <1>5, <2>2, <3>1, <3>2 DEF Step, Excused
    <3>3. CASE snp = Nil
      <4>1. SnoopsSet(i, SetOf(a))
        BY <1>1, <3>1, <3>3 DEF SnoopsSet, s_stb
      <4> QED BY <1>2, <4>1
    <3> QED BY <3>2, <3>3
  <2> QED BY <2>1, <2>2
<1>6. CASE a \in Taken(i)
  <2>1. /\ ce /\ c.cst = "IDLE" /\ (Updates(i, c') \/ Stores(i, c')) /\ a \in Touched(op) /\ c'.a = op.a
    BY <1>6, TakenWhen
  <2>2. /\ SetOf(a) = SetOf(op.a) \/ (Crosses(op) /\ SetOf(a) = NextSet(op.a))
        /\ op.n = 1 => a = op.a
    BY <1>1, <2>1, OpType, TouchedRows
  <2>3. CASE Updates(i, c')
    BY <1>1, <2>1, <2>2, <2>3 DEF Updates, Update, Excused, Merging
  <2>4. CASE Stores(i, c')
    <3>1. StoreClears(i)
      BY <2>4 DEF Stores, Taking, StoreClears
    <3>2. CASE Crosses(op) /\ SetOf(a) = NextSet(op.a)
      BY <1>1, <2>4, <3>2 DEF Stores, Excused
    <3>3. CASE SetOf(a) = SetOf(op.a)
      <4>1. CASE s_stb(i)
        BY <1>1, <2>1, <2>4, <3>1, <3>3, <4>1 DEF Stores, Bus, SilAfter, snoop_wr, Excused
      <4>2. CASE ~s_stb(i)
        BY <1>1, <2>1, <3>1, <3>3, <4>2 DEF Cleared, inv_wren, inv_idx, snoop_wr, store_inv, fill_err_inv,
               ci_inv, StoreClears
      <4> QED BY <4>1, <4>2
    <3> QED BY <2>2, <3>2, <3>3
  <2> QED BY <2>1, <2>3, <2>4
<1> QED BY <1>3, <1>4, <1>5, <1>6, FreshWhen

\* A way the fill leaves to other lines is emptied.
LEMMA FillLeft ==
    ASSUME NEW i, NEW ce, NEW snp, NEW ans, NEW w_ans, Clocked(i, ce, snp, ans, w_ans), DataState,
           NEW a \in Addr, NEW w \in Way, Holds(w, a), Holds(w, a)', FillingIn(w, a),
           ~(Written(i, SetOf(a)) /\ w = c.way /\ c.cst = "TAGW")
    PROVE  FillingIn(w, a)'
<1>1. /\ SetOf(a) = SetOf(c.a) /\ w = c.way /\ FillWay /\ FillImage /\ i.ce = ce
      /\ (~ce => c' = c) /\ c.cst \in {"FILL", "TAGW", "FERR"} /\ w \in vb[SetOf(a)]
    BY Before, Wires DEF DataState, FillingIn, Holds
<1>2. ASSUME Cleared(i, SetOf(a)), c.cst # "FILL" PROVE FALSE
  <2>1. w \in db[SetOf(c.a)]
    BY <1>1, <1>2, ClearedDirty DEF DirtyHolds
  <2> QED BY <1>1, <1>2, <2>1 DEF FillWay, FillImage
<1>3. CASE ~ce
    BY <1>1, <1>3 DEF FillingIn
<1>4. CASE ce /\ c.cst = "FILL"
  <2>1. /\ Waits(i, c') \/ Beaten(i, c') \/ Filled(i, c') \/ Fails(i, c')
    BY <1>4, Moved DEF IdleMoves, Waits, Looks, Sweeps, Writes, Taking, Updates, Stores, Bypasses, Reads,
           PassMoves, Merges, Drains, Passes, Stays, LineMoves, Hits, LookHits, Evicts, Misses,
           Beaten, Filled, Fails, Tags, Back, Recovers, Clears, Empties, sweep_push, Ends, Counts,
           PushMoves, Rereads, Found, Absent, Fetches, Opens, Breaks, Moves, Finishes, Another,
           Raises, Pushes
  <2> QED BY <1>1, <1>4, <2>1 DEF Waits, Beaten, Filled, Fails, Keep, KeepAt, FillingIn
<1>5. CASE ce /\ c.cst = "TAGW"
  <2>1. ~fill_snooped
    BY <1>1, <1>5 DEF FillWay
  <2>2. ~Written(i, SetOf(a))
    BY <1>1, <1>5
  <2>3. SnoopsSet(i, SetOf(a))
    BY <1>1, <1>5, <2>1, <2>2 DEF Written, tag_we, tag_widx, FillValid
  <2> QED BY <1>2, <1>5, <2>3, SnoopClears
<1>6. CASE ce /\ c.cst = "FERR"
  <2>1. CASE snoop_wr(i)
    <3>1. Waits(i, c')
      BY <1>6, <2>1, Moved DEF IdleMoves, Waits, Looks, Sweeps, Writes, Taking, Updates, Stores, Bypasses,
           Reads, PassMoves, Merges, Drains, Passes, Stays, LineMoves, Hits, LookHits, Evicts, Misses,
           Beaten, Filled, Fails, Tags, Back, Recovers, Clears, Empties, sweep_push, Ends, Counts,
           PushMoves, Rereads, Found, Absent, Fetches, Opens, Breaks, Moves, Finishes, Another,
           Raises, Pushes
    <3> QED BY <1>1, <3>1 DEF Waits, Keep, KeepAt, FillingIn
  <2>2. CASE ~snoop_wr(i)
    <3>1. Cleared(i, SetOf(a))
      BY <1>1, <1>6, <2>2 DEF Cleared, inv_wren, inv_idx, fill_err_inv
    <3> QED BY <1>2, <1>6, <3>1
  <2> QED BY <2>1, <2>2
<1> QED BY <1>1, <1>3, <1>4, <1>5, <1>6

LEMMA CopiesKept ==
    ASSUME NEW i, NEW ce, NEW snp, NEW ans, NEW w_ans, Clocked(i, ce, snp, ans, w_ans), DataState
    PROVE  Copies'
<1> SUFFICES ASSUME NEW a \in Addr, NEW w \in Way, Holds(w, a)', ~FillingIn(w, a)'
             PROVE  Value(w, a)' = a \/ Excused(a)'
    BY DEF Copies
<1>1. /\ SetOf(a) \in Set /\ a # Nil /\ Types /\ InStep /\ FillWords /\ Copies /\ DirtyRight
      /\ i.ce = ce /\ (~ce => c' = c) /\ c.a \in Addr /\ i.stb = (IF snp # Nil THEN snp ELSE wsnp)
    BY Before, Wires, AddrParts, NilIsNone DEF DataState
<1>2. w \in vb'[SetOf(a)]
    BY DEF Holds
<1>3. CASE Holds(w, a) /\ ~(Written(i, SetOf(a)) /\ w = c.way /\ c.cst = "TAGW")
  <2>1. ~FillingIn(w, a)
    BY <1>3, FillLeft
  <2>2. ~(c.cst = "FILL" /\ SetOf(a) = SetOf(c.a) /\ w = c.way)
    BY <2>1 DEF FillingIn
  <2>3. CASE a \notin i.fresh /\ Value(w, a) = a
    BY <1>2, <1>3, <2>2, <2>3, ValueKept
  <2>4. CASE Merging(a)
    <3>1. CASE ~ce
      BY <1>1, <2>4, <3>1 DEF Merging, Excused
    <3>2. CASE ce
      <4>1. a = c.a /\ c.st_chk
        BY <2>4 DEF Merging
      <4>2. \/ st_merge(i) /\ hit_way = w
            \/ w \notin db[SetOf(a)] /\ Cleared(i, SetOf(a))
        BY <1>3, <3>2, <4>1, MergeHappens
      <4>3. ~(w \notin db[SetOf(a)] /\ Cleared(i, SetOf(a)))
        BY ClearedDirty DEF DirtyHolds
      <4> QED BY <3>2, <4>1, <4>2, <4>3, Merged
    <3> QED BY <3>1, <3>2
  <2>5. CASE a \in i.fresh
    <3>1. ASSUME DirtyHolds(w, a) PROVE Excused(a)'
      BY <2>5, <3>1, DirtyFresh DEF Excused
    <3>2. Excused(a)' \/ Cleared(i, SetOf(a))
      BY <1>3, <2>5, FreshExcused
    <3> QED BY <3>1, <3>2, ClearedDirty
  <2>6. CASE a \notin i.fresh /\ Value(w, a) # a /\ ~Merging(a)
    <3>1. Excused(a) /\ ~DirtyHolds(w, a)
      BY <1>1, <1>3, <2>1, <2>6 DEF Copies, DirtyRight
    <3> QED BY <2>6, <3>1, ExcuseServed, ClearedDirty
  <2> QED BY <2>3, <2>4, <2>5, <2>6
<1>4. CASE /\ ce /\ c.cst = "TAGW" /\ w = c.way /\ SetOf(a) = SetOf(c.a) /\ TagOf(a) = TagOf(c.a)
           /\ ~fill_snooped /\ ~SnoopsSet(i, SetOf(a))
  <2>1. Value(w, a) = a
    <3>1. WordOf(a) \in Word /\ a = AddrOf(TagOf(a), SetOf(a), WordOf(a))
      BY AddrParts
    <3> QED BY <1>1, <1>4, <3>1 DEF FillWords, Value
  <2>2. a \notin i.fresh
    <3>1. ~walker_req /\ ~passing
      BY <1>1, <1>4, SearchBeside DEF passing
    <3>2. ~(snp = a /\ i.stb = a)
      BY <1>1, <1>4 DEF SnoopsSet, s_stb
    <3>3. a \notin Taken(i)
      BY <1>4 DEF Taken
    <3> QED BY <3>1, <3>2, <3>3, FreshWhen
  <2> QED BY <1>2, <1>4, <2>1, <2>2, ValueKept
<1> QED BY <1>3, <1>4, HoldsBefore

----------------------------------------------------------------------------
(* The rows of a bypassing access, and of a fill. *)

\* In C_PASS before the answer comes the request stays.
LEMMA PassHeld ==
    ASSUME NEW i, NEW ce, NEW snp, NEW ans, NEW w_ans, Clocked(i, ce, snp, ans, w_ans), ce,
           Stays(i, c') \/ Stores(i, c') \/ Bypasses(i, c')
    PROVE  op' = op /\ ans = "none"
<1>1. Around(i, ans, w_ans) /\ InStep /\ i.ans = ans
    BY Moved, Before, Wires
<1>2. CASE Stays(i, c')
  <2>1. c.cst = "PASS" /\ ~c.st_posted /\ ans = "none" /\ Serving
    BY <1>1, <1>2 DEF Stays, InStep, PassingOn
  <2> QED BY <1>1, <2>1 DEF Around, c_ack, passing
<1>3. CASE Stores(i, c') \/ Bypasses(i, c')
  <2>1. c.cst = "IDLE" /\ Asked(i) /\ Serving /\ ~c.dr.on /\ ~c.ack
    BY <1>3, Accepted DEF Asked
  <2>2. ans = "none"
    BY <1>1, <2>1 DEF Around, m_req, push_out, passing
  <2> QED BY <1>1, <2>1, <2>2 DEF Around, c_ack, passing
<1> QED BY <1>2, <1>3

LEMMA StoreRowsKept ==
    ASSUME NEW i, NEW ce, NEW snp, NEW ans, NEW w_ans, Clocked(i, ce, snp, ans, w_ans), DataState
    PROVE  StoreRows'
<1> SUFFICES ASSUME c'.cst = "PASS", ~c'.st_chk
             PROVE  /\ db'[SetOf(c'.a)] = {} /\ (Crosses(c)' => db'[NextSet(c'.a)] = {})
                    /\ op'.kind = "write" =>
                         /\ vb'[SetOf(c'.a)] = {} \/ c'.sil = SetOf(c'.a)
                         /\ Crosses(c)' => vb'[NextSet(c'.a)] = {} \/ (c'.winv /\ c'.set2 = NextSet(c'.a))
    BY DEF StoreRows
<1>1. /\ Types /\ InStep /\ StoreRows /\ i.ce = ce /\ i.op = op /\ TagStep(i) /\ DirtyStep(i) /\ Pins(i)
      /\ (~ce => c' = c /\ db' = db) /\ Step(i, ce, snp, ans, w_ans) /\ c.a \in Addr /\ op.a \in Addr
  <2>1. /\ Types /\ InStep /\ StoreRows /\ Step(i, ce, snp, ans, w_ans) /\ c.a \in Addr
    BY Before DEF DataState
  <2>2. /\ i.ce = ce /\ i.op = op /\ TagStep(i) /\ DirtyStep(i) /\ Pins(i) /\ (~ce => c' = c /\ db' = db)
    BY Wires
  <2>3. op.a \in Addr
    BY <2>1, OpType DEF Types, Others
  <2> QED BY <2>1, <2>2, <2>3
<1>2. \A a \in Addr : SetOf(a) \in Set /\ NextSet(a) \in Set
  <2>1. \A a \in Addr : a \in Nat
    BY Sizes DEF Addr
  <2> QED BY <2>1, SetOfNat DEF NextSet
<1>3. \A s \in Set : Cleared(i, s) /\ db[s] = {} => vb'[s] = {}
    BY <1>1, RowStep
<1>4. CASE (ce /\ Stays(i, c')) \/ (~ce /\ c.cst = "PASS")
  <2>1. /\ c.cst = "PASS" /\ ~c.st_chk /\ c'.a = c.a /\ c'.n = c.n /\ op' = op
    <3>1. CASE ce /\ Stays(i, c')
      <4>1. op' = op
        BY <3>1, PassHeld
      <4> QED BY <1>1, <3>1, <4>1 DEF Stays, KeepAt, InStep, Posted
    <3>2. CASE ~ce /\ c.cst = "PASS"
      BY <1>1, <3>2 DEF Step
    <3> QED BY <1>4, <3>1, <3>2
  <2>2. \A s \in Set : db[s] = {} => db'[s] = {}
    BY <1>1, <2>1, DirtyRow DEF st_merge
  <2>3. \A s \in Set : vb[s] = {} => vb'[s] = {}
    <3> SUFFICES ASSUME NEW s \in Set, vb[s] = {} PROVE vb'[s] = {}
      OBVIOUS
    <3>1. ~Written(i, s)
      BY <2>1, WrittenWhen
    <3> QED BY <1>1, <3>1, RowsShrink
  <2>4. Crosses(c)' = Crosses(c)
    BY <2>1 DEF Crosses
  <2>5. ASSUME op.kind = "write", vb[SetOf(c.a)] # {}
        PROVE  vb'[SetOf(c.a)] = {} \/ c'.sil = SetOf(c.a)
    <3>1. c.sil = SetOf(c.a) /\ db[SetOf(c.a)] = {}
      BY <1>1, <2>1, <2>5 DEF StoreRows
    <3> QED BY <1>1, <1>2, <1>3, <3>1, SilServed
  <2>6. ASSUME op.kind = "write", Crosses(c), vb[NextSet(c.a)] # {}
        PROVE  vb'[NextSet(c.a)] = {} \/ (c'.winv /\ c'.set2 = NextSet(c.a))
    <3>1. c.winv /\ c.set2 = NextSet(c.a) /\ db[NextSet(c.a)] = {}
      BY <1>1, <2>1, <2>6 DEF StoreRows
    <3> QED BY <1>1, <1>2, <1>3, <3>1, WinvServed
  <2>7. db[SetOf(c.a)] = {} /\ (Crosses(c) => db[NextSet(c.a)] = {})
    BY <1>1, <2>1 DEF StoreRows
  <2> QED BY <1>1, <1>2, <2>1, <2>2, <2>3, <2>4, <2>5, <2>6, <2>7
<1>5. CASE ce /\ (Stores(i, c') \/ Bypasses(i, c'))
  <2>1. /\ c.cst = "IDLE" /\ c'.a = op.a /\ c'.n = op.n
        /\ db[SetOf(op.a)] = {} /\ (Crosses(op) => db[NextSet(op.a)] = {})
    BY <1>5, Accepted
  <2>2. op' = op
    BY <1>5, PassHeld
  <2>3. \A s \in Set : db[s] = {} => db'[s] = {}
    BY <1>1, <2>1, DirtyRow DEF st_merge
  <2>4. Crosses(c)' = Crosses(op)
    BY <2>1 DEF Crosses
  <2>5. ASSUME op.kind = "write"
        PROVE  /\ vb'[SetOf(op.a)] = {} \/ c'.sil = SetOf(op.a)
               /\ Crosses(op) => c'.winv /\ c'.set2 = NextSet(op.a)
    <3>1. Stores(i, c')
      BY <1>1, <1>5, <2>5 DEF Bypasses
    <3>2. StoreClears(i)
      BY <3>1 DEF Stores, Taking, StoreClears
    <3>3. CASE s_stb(i)
      BY <1>1, <2>1, <3>1, <3>2, <3>3 DEF Stores, Bus, SilAfter, snoop_wr
    <3>4. CASE ~s_stb(i)
      <4>1. Cleared(i, SetOf(op.a))
        BY <1>1, <1>5, <2>1, <3>2, <3>4 DEF Cleared, inv_wren, inv_idx, snoop_wr, store_inv, fill_err_inv,
               ci_inv, StoreClears
      <4> QED BY <1>1, <1>2, <1>3, <2>1, <3>1, <4>1 DEF Stores
    <3>5. Crosses(op) => c'.winv /\ c'.set2 = NextSet(op.a)
      BY <1>1, <3>1 DEF Stores
    <3> QED BY <3>3, <3>4, <3>5
  <2> QED BY <1>1, <1>2, <2>1, <2>2, <2>3, <2>4, <2>5
<1>6. ce => Stays(i, c') \/ Stores(i, c') \/ Bypasses(i, c')
  <2> SUFFICES ASSUME ce PROVE Stays(i, c') \/ Stores(i, c') \/ Bypasses(i, c')
    OBVIOUS
  <2>1. c.p.ret \in {"IDLE", "LOOK", "SWEEP"}
    BY <1>1 DEF Types, Regs, Pushing
  <2>2. \/ Stays(i, c') \/ Stores(i, c') \/ Bypasses(i, c') \/ Updates(i, c')
    BY <2>1, Moved DEF IdleMoves, Waits, Looks, Sweeps, Writes, Begins, Reads, PassMoves, Merges, Drains,
           Passes, Leaves, LineMoves, Hits, Evicts, Misses, Beaten, Filled, Fails, Tags, Back, Recovers,
           Clears, Empties, Ends, Counts, PushMoves, Rereads, Found, Absent, Fetches, Opens, Breaks,
           Moves, Finishes, Another, Raises
  <2> QED BY <2>2 DEF Updates
<1> QED BY <1>1, <1>4, <1>5, <1>6

LEMMA FillWayKept ==
    ASSUME NEW i, NEW ce, NEW snp, NEW ans, NEW w_ans, Clocked(i, ce, snp, ans, w_ans), DataState
    PROVE  FillWay'
<1>1. /\ Types /\ InStep /\ i.ce = ce /\ TagStep(i) /\ DirtyStep(i) /\ Pins(i) /\ SnoopFlags(i)
      /\ (~ce => c' = c /\ db' = db) /\ c.a \in Addr /\ SetOf(c.a) \in Set
    BY Before, Wires
<1>2. FillImage /\ LookImage /\ FillWay /\ LookRow
    BY Before DEF DataState
<1>3. \/ c'.cst \notin {"FILL", "TAGW", "FERR"} \/ (~ce /\ c' = c /\ c.cst \in {"FILL", "TAGW", "FERR"})
      \/ Misses(i, c')
      \/ (ce /\ c.cst = "FILL" /\ c'.a = c.a /\ c'.way = c.way)
      \/ (ce /\ c.cst = "FERR" /\ c'.cst = "FERR" /\ c'.a = c.a /\ c'.way = c.way)
  <2>1. c.p.ret \in {"IDLE", "LOOK", "SWEEP"}
    BY <1>1 DEF Types, Regs, Pushing
  <2>2. CASE ce
    BY <2>1, <2>2, Moved DEF IdleMoves, Waits, Looks, Sweeps, Writes, Updates, Stores, Bypasses, Reads,
           PassMoves, Merges, Drains, Passes, Stays, Leaves, LineMoves, Hits, Evicts, Misses,
           Beaten, Filled, Fails, Tags, Back, Recovers, Clears, Empties, Ends, Counts, PushMoves,
           Rereads, Found, Absent, Fetches, Opens, Moves, Another, Raises, Begins, Breaks,
           Finishes, Keep, KeepAt
  <2> QED BY <1>1, <2>2
<1>4. ASSUME c.cst \in {"FILL", "FERR"} \/ (c.cst = "TAGW" /\ ~ce), c'.a = c.a, c'.way = c.way
      PROVE  FillWay'
  <2> DEFINE s == SetOf(c.a)
  <2>1. c.way \notin db[s] /\ db'[s] = db[s] /\ ~Written(i, s)
    BY <1>1, <1>2, <1>4, DirtyRow, WrittenWhen DEF FillImage, FillWay
  <2>2. ASSUME c'.cst \in {"FILL", "TAGW"}, fill_snooped' PROVE c.way \notin vb'[s]
    <3>1. CASE SnoopsSet(i, s)
      <4>1. Cleared(i, s)
        BY <1>4, <3>1, SnoopClears
      <4> QED BY <1>1, <2>1, <4>1, RowStep
    <3>2. CASE fill_snooped /\ c.cst # "FERR"
      <4>1. c.way \notin vb[s]
        BY <1>2, <1>4, <3>2 DEF FillWay
      <4> QED BY <1>1, <2>1, <4>1, RowsShrink
    <3>3. fill_snooped' => fill_snooped \/ SnoopsSet(i, s)
      BY <1>1 DEF SnoopFlags
    <3>4. c.cst # "FERR"
      <4>1. c.cst = "FERR" => c'.cst \notin {"FILL", "TAGW"}
        BY <1>1, <1>3 DEF Misses
      <4> QED BY <2>2, <4>1
    <3> QED BY <2>2, <3>1, <3>2, <3>3, <3>4
  <2> QED BY <1>4, <2>1, <2>2 DEF FillWay
<1>5. CASE Misses(i, c')
  <2> DEFINE s == SetOf(c.a)
  <2>1. /\ c.cst = "LOOK" /\ c'.cst = "FILL" /\ c'.a = c.a /\ c'.way = rq /\ rq \notin db[s] /\ ~LookHits(i)
        /\ s = SetOf(i.op.a)
    BY <1>1, <1>5, Wires DEF Misses, InStep, ReadingOn, Reading
  <2>2. ASSUME fill_snooped' PROVE rq \notin vb'[s]
    <3>1. look_hit /\ ce
      BY <1>1, <2>1, <2>2 DEF SnoopFlags, Misses
    <3>2. look_snooped \/ SnoopsSet(i, s)
      BY <2>1, <3>1 DEF LookHits
    <3>3. CASE SnoopsSet(i, s)
      <4>1. Cleared(i, s)
        BY <2>1, <3>3, SnoopClears
      <4> QED BY <1>1, <2>1, <4>1, RowStep
    <3>4. CASE look_snooped
      <4>1. rq \notin vb[s] /\ ~Written(i, s)
        BY <1>2, <2>1, <3>1, <3>4, WrittenWhen DEF LookRow
      <4> QED BY <1>1, <4>1, RowsShrink
    <3> QED BY <3>2, <3>3, <3>4
  <2> QED BY <2>1, <2>2 DEF FillWay
<1> QED BY <1>1, <1>3, <1>4, <1>5 DEF FillWay

----------------------------------------------------------------------------
(* The table search. *)

\* What a clock makes of the search's request.
LEMMA WalkerMoves ==
    ASSUME NEW i, NEW ce, NEW snp, NEW ans, NEW w_ans, Clocked(i, ce, snp, ans, w_ans)
    PROVE  /\ ~ce => UNCHANGED <<wst, w_active, w_issued, w_req_wr, w_req_addr>>
           /\ walker_req' => /\ w_req_addr' = w_req_addr /\ w_req_wr' = w_req_wr /\ wst' = wst
                             /\ ~walker_req => ce /\ walk_pend /\ ~wk_wait(i)
           /\ walk_pend /\ wk_wait(i) => UNCHANGED <<wst, w_active, w_issued, w_req_wr, w_req_addr>>
           /\ walk_pend => w_active' /\ w_req_addr' = w_req_addr /\ w_req_wr' = w_req_wr /\ wst' = wst
           /\ w_req_wr /\ wst \notin {"tab", "page"} /\ walker_req =>
                \/ UNCHANGED <<wst, w_active, w_issued, w_req_wr, w_req_addr>>
                \/ wst' = "page" /\ walk_pend'
                \/ wst' = "fill" /\ ~w_active'
           /\ wst = "fill" /\ ~w_active => ~ce \/ wst' = "idle"
           /\ wst = "idle" /\ wst' # "idle" => ce /\ core = "access" /\ op.miss /\ ~walk_hold
<1>1. /\ Search /\ Step(i, ce, snp, ans, w_ans) /\ i.wk_pend = walk_pend /\ (w_ans = "ack" => walker_req)
      /\ ce \in BOOLEAN /\ Types /\ InStep /\ Orderly
    BY Before, Wires
<1>2. CASE ~ce
  <2>1. UNCHANGED <<wst, w_active, w_issued, w_req_wr, w_req_addr>>
    BY <1>1, <1>2 DEF Step
  <2> QED BY <1>2, <2>1 DEF walker_req, walk_pend
<1>3. CASE ce
  <2>1. MmuStep(w_ans, wk_wait(i)) /\ ~(walker_req /\ walk_pend)
    BY <1>1, <1>3 DEF Step, walker_req, walk_pend
  <2>2. wst = "idle" /\ wst' # "idle" => core = "access" /\ op.miss /\ ~walk_hold
    BY <1>3, Moved DEF Around
  <2>3. CASE walk_pend
    <3>1. /\ wst \in {"tab", "utab", "page", "fill"} /\ w_active /\ w_ans # "ack" /\ ~walker_req /\ ~w_issued
      BY <1>1, <2>1, <2>3 DEF walk_pend, Search
    <3>2. IF ~wk_wait(i)
          THEN w_issued' = TRUE /\ UNCHANGED <<wst, w_active, w_req_wr, w_req_addr>>
          ELSE UNCHANGED <<wst, w_active, w_issued, w_req_wr, w_req_addr>>
      BY <2>1, <2>3, <3>1 DEF MmuStep, StayMmu
    <3> QED BY <1>3, <2>3, <3>1, <3>2 DEF walker_req
  <2>4. CASE walker_req
    <3>1. wst \in {"tab", "utab", "page", "fill"} /\ w_active /\ ~walk_pend
      BY <1>1, <2>1, <2>4 DEF walker_req, Search
    <3>2. IF w_ans = "ack" THEN SearchStep ELSE StayMmu
      BY <2>1, <3>1 DEF MmuStep
    <3>3. CASE StayMmu
      BY <2>4, <3>1, <3>3 DEF StayMmu, walker_req, walk_pend
    <3>4. CASE SearchStep
      <4>1. ~w_issued'
        BY <3>1, <3>4 DEF SearchStep, Inactive, Descriptor
      <4>2. ~walker_req'
        BY <4>1 DEF walker_req
      <4>3. wst \notin {"tab", "page"} => (wst' = "page" /\ walk_pend') \/ (wst' = "fill" /\ ~w_active')
        BY <3>1, <3>4 DEF SearchStep, Inactive, Descriptor, walk_pend
      <4> QED BY <1>3, <2>4, <3>1, <4>2, <4>3
    <3> QED BY <3>2, <3>3, <3>4
  <2>5. CASE ~walk_pend /\ ~walker_req
    <3>1. ~w_active /\ ~w_issued
      BY <1>1, <2>5 DEF walk_pend, walker_req, Search
    <3>2. ~w_issued'
      BY <1>1, <2>1, <3>1 DEF MmuStep, StartSearch, StayMmu, Descriptor, Inactive, SearchEnds, Search
    <3>3. wst = "fill" => wst' = "idle"
      BY <2>1, <3>1 DEF MmuStep, SearchEnds
    <3> QED BY <2>2, <2>5, <3>1, <3>2, <3>3, <1>3 DEF walker_req
  <2> QED BY <2>3, <2>4, <2>5
<1> QED BY <1>1, <1>2, <1>3

LEMMA WalkerStrobesKept ==
    ASSUME NEW i, NEW ce, NEW snp, NEW ans, NEW w_ans, Clocked(i, ce, snp, ans, w_ans), DataState
    PROVE  WalkerStrobes'
<1>1. /\ Types /\ InStep /\ Pending /\ WalkerStrobes /\ WalkerClean /\ Search /\ Step(i, ce, snp, ans, w_ans)
      /\ w_req_addr \in Addr /\ WsnpSoon
    BY Before DEF DataState, Search, Pending
<1>2. /\ i.stb = (IF snp # Nil THEN snp ELSE wsnp) /\ walker_wr_d' = (walker_req /\ w_req_wr)
      /\ wsnp' = (IF walker_req /\ w_req_wr /\ ~walker_wr_d THEN w_req_addr
                  ELSE IF snp = Nil THEN Nil ELSE wsnp)
      /\ s_last' = (IF ce THEN snp # Nil ELSE s_last) /\ (ce /\ snp # Nil => ~s_last) /\ ce \in BOOLEAN
    BY <1>1 DEF Step, Inputs
<1>3. wst' \in {"tab", "page"} => ~w_req_wr'
  <2>1. CASE ~ce
    BY <1>1, <2>1, WalkerMoves DEF WalkerStrobes
  <2>2. CASE ce
    <3>1. MmuStep(w_ans, wk_wait(i))
      BY <1>1, <2>2 DEF Step
    <3> QED BY <1>1, <3>1 DEF MmuStep, StartSearch, StayMmu, Descriptor, Inactive, SearchEnds, SearchStep,
               Search, WalkerStrobes
  <2> QED BY <1>2, <2>1, <2>2
<1>4. ASSUME wsnp' # Nil
      PROVE  \/ wst' = "idle" \/ (walker_req' /\ w_req_wr' /\ walker_wr_d')
             \/ (wst' = "page" /\ (walk_pend' \/ s_last')) \/ (wst' = "fill" /\ ~w_active')
  <2>1. CASE walker_req /\ w_req_wr
    <3>1. wst \notin {"tab", "page"}
      BY <1>1, <2>1 DEF WalkerStrobes
    <3> QED BY <1>2, <2>1, <3>1, WalkerMoves DEF walker_req
  <2>2. CASE ~(walker_req /\ w_req_wr)
    <3>1. snp # Nil /\ wsnp # Nil
      BY <1>2, <1>4, <2>2
    <3>2. \/ wst = "idle" \/ (wst = "page" /\ (walk_pend \/ s_last)) \/ (wst = "fill" /\ ~w_active)
      BY <1>1, <2>2, <3>1 DEF WalkerStrobes
    <3>3. CASE ~ce
      BY <1>2, <3>2, <3>3, WalkerMoves DEF walk_pend
    <3>4. CASE ce
      <4>1. ~s_last /\ s_last'
        BY <1>2, <3>1, <3>4
      <4> QED BY <1>1, <3>1, <3>2, <3>4, <4>1, WalkerMoves DEF WsnpSoon
    <3> QED BY <1>2, <3>3, <3>4
  <2> QED BY <2>1, <2>2
<1>5. ASSUME walker_req', w_req_wr', walker_wr_d'
      PROVE  wsnp' = w_req_addr' \/ NoHolder(w_req_addr)'
  <2>1. walker_req /\ w_req_wr /\ w_req_addr' = w_req_addr
    BY <1>2, <1>5, WalkerMoves
  <2>2. c.cst \notin {"TAGW", "SWEEP"}
    BY <1>1, <2>1, SearchBeside
  <2> DEFINE a == w_req_addr
  <2>3. ASSUME NEW w \in Way, Holds(w, w_req_addr)' PROVE wsnp' = w_req_addr
    <3> DEFINE d == w_req_addr
    <3>1. PICK d0 \in Addr : d0 = w_req_addr
      BY <1>1
    <3>2. Holds(w, d0)'
      BY <2>1, <2>3, <3>1 DEF Holds
    <3>3. Holds(w, d0)
      BY <2>2, <3>2, HoldsBefore
    <3>4. ~Cleared(i, SetOf(d0))
      <4>1. ~DirtyHolds(w, d0)
        BY <1>1, <2>1, <3>1 DEF WalkerClean, NoDirty
      <4> QED BY <3>2, <4>1, ClearedDirty
    <3>5. CASE walker_wr_d
      <4>1. wsnp = d0 /\ d0 # Nil
        BY <1>1, <2>1, <3>1, <3>3, <3>5, NilIsNone DEF WalkerStrobes, NoHolder
      <4>2. snp # Nil
        <5> SUFFICES ASSUME snp = Nil PROVE FALSE
          OBVIOUS
        <5>1. SnoopsSet(i, SetOf(d0))
          BY <1>2, <4>1 DEF SnoopsSet, s_stb
        <5> QED BY <2>2, <3>4, <5>1, SnoopClears
      <4> QED BY <1>2, <3>1, <3>5, <4>1, <4>2
    <3>6. CASE ~walker_wr_d
      BY <1>2, <2>1, <3>6
    <3> QED BY <3>5, <3>6
  <2> QED BY <2>1, <2>3 DEF NoHolder
<1> QED BY <1>3, <1>4, <1>5 DEF WalkerStrobes

\* Who marks the row as checked for the walker.
LEMMA ChkWhen ==
    ASSUME NEW i, NEW ce, NEW snp, NEW ans, NEW w_ans, Clocked(i, ce, snp, ans, w_ans), ce
    PROVE  \/ Found(i, c') \/ Absent(i, c') \/ c'.wk_chk = (c.wk_chk /\ walk_pend)
<1>1. i.wk_pend = walk_pend
    BY Wires
<1>2. CASE IdleMoves(i, c')
    BY <1>1, <1>2 DEF IdleMoves, Waits, Looks, Sweeps, Writes, Updates, Stores, Bypasses, Reads, Keep, Chk
<1>3. CASE PassMoves(i, c')
    BY <1>1, <1>3 DEF PassMoves, Merges, Drains, Passes, Stays, PassBus, Chk
<1>4. CASE LineMoves(i, c')
    BY <1>1, <1>4 DEF LineMoves, Waits, Hits, Evicts, Misses, Beaten, Filled, Fails, Tags, Recovers, Clears,
           Empties, Ends, Counts, Keep, Back, Chk
<1>5. CASE PushMoves(i, c')
    BY <1>1, <1>5 DEF PushMoves, Rereads, Fetches, Opens, Breaks, Moves, Finishes, Another, Raises, Pushes, Chk
<1> QED BY <1>2, <1>3, <1>4, <1>5, Moved

\* A push writes for the walker, or the walker has nothing to ask.
LEMMA PushAlone ==
    ASSUME NEW i, NEW ce, NEW snp, NEW ans, NEW w_ans, Clocked(i, ce, snp, ans, w_ans),
           c'.cst = "PUSH", walk_pend'
    PROVE  \/ ce /\ Found(i, c')
           \/ c.cst = "PUSH" /\ walk_pend /\ (ce => Pushes(i, c') /\ PushMoves(i, c'))
<1>1. /\ Types /\ InStep /\ Search' /\ Search /\ Regs(c) /\ (~ce => c' = c)
    BY Before, Wires DEF Types
<1>2. wst' # "idle" /\ c.p.ret \in {"IDLE", "LOOK", "SWEEP"}
    BY <1>1 DEF walk_pend, Search, Regs, Pushing
<1>3. ASSUME c.cst = "PUSH" PROVE walk_pend
  <2>1. wst # "idle"
    BY <1>2, <1>3, WalkerMoves DEF walk_hold, post_busy
  <2>2. core = "access" /\ op.miss
    BY <1>1, <2>1 DEF InStep, SearchAlone
  <2> QED BY <1>1, <1>2, <1>3, <2>2 DEF InStep, PushFor, Serving, Sweeping, ReadingOn, Reading
<1>4. CASE ce /\ c.cst # "PUSH"
  <2>1. Writes(i, c') \/ Evicts(i, c') \/ Empties(i, c') \/ Found(i, c')
    BY <1>4, Moved DEF IdleMoves, Waits, Looks, Sweeps, Updates, Stores, Bypasses, Reads, PassMoves, Merges,
           Drains, Passes, Stays, Leaves, LineMoves, Hits, Misses, Beaten, Filled, Fails, Tags, Back,
           Recovers, Clears, Ends, Counts, PushMoves, Rereads, Absent, Fetches, Opens, Breaks, Moves,
           Finishes, Another, Raises, Pushes
  <2>2. ASSUME Writes(i, c') PROVE wst' = "idle"
    <3>1. c_req
      BY <2>2, Wires DEF Writes, need_push, Asked
    <3> QED BY <3>1, WalkerMoves DEF c_req
  <2>3. ASSUME Evicts(i, c') PROVE wst' = "idle"
    <3>1. wst = "idle" /\ Serving
      BY <1>1, <2>3, SearchBeside DEF Evicts, InStep, ReadingOn, Reading
    <3> QED BY <3>1, WalkerMoves DEF Serving
  <2>4. ASSUME Empties(i, c') PROVE wst' = "idle"
    <3>1. wst = "idle" /\ core = "cinv"
      BY <1>1, <2>4, SearchBeside DEF Empties, sweep_push, InStep, PushFor, Sweeping
    <3> QED BY <3>1, WalkerMoves
  <2> QED BY <1>2, <1>4, <2>1, <2>2, <2>3, <2>4
<1>5. CASE ce /\ c.cst = "PUSH"
  <2>1. Pushes(i, c') /\ PushMoves(i, c')
    BY <1>5, Moved DEF IdleMoves, Waits, Looks, Sweeps, Writes, Taking, Updates, Stores, Bypasses, Reads,
           PassMoves, Merges, Drains, Passes, Stays, LineMoves, Hits, LookHits, Evicts, Misses,
           Beaten, Filled, Fails, Tags, Back, Recovers, Clears, Empties, sweep_push, Ends, Counts,
           PushMoves, Rereads, Found, Absent, Fetches, Opens, Breaks, Moves, Finishes, Another, Raises
  <2> QED BY <1>3, <1>5, <2>1
<1> QED BY <1>1, <1>3, <1>4, <1>5

\* No store is merged beside a search.
LEMMA DirtyBeside ==
    ASSUME NEW i, NEW ce, NEW snp, NEW ans, NEW w_ans, Clocked(i, ce, snp, ans, w_ans), w_active,
           NEW a \in Addr, NEW w \in Way, DirtyHolds(w, a)'
    PROVE  DirtyHolds(w, a)
<1>1. c.cst # "PASS"
    BY Before, SearchBeside
<1> QED BY <1>1, DirtyBefore

LEMMA WalkerCleanKept ==
    ASSUME NEW i, NEW ce, NEW snp, NEW ans, NEW w_ans, Clocked(i, ce, snp, ans, w_ans), DataState
    PROVE  WalkerClean'
<1>1. PICK a \in Addr : a = w_req_addr
    BY Before DEF Search
<1>2. /\ Types /\ InStep /\ WalkerClean /\ Search /\ Regs(c) /\ i.wk_pend = walk_pend /\ i.wk_addr = a
      /\ i.ce = ce /\ (~ce => c' = c) /\ DirtyStep(i) /\ TagStep(i) /\ ImageStep(i) /\ i.ans = ans
      /\ Pins(i) /\ (ans = "err" => ~push_out)
    BY <1>1, Before, Wires DEF DataState
<1>3. walk_pend \/ walker_req => w_active
    BY <1>2 DEF walk_pend, walker_req, Search
<1>4. ASSUME walk_pend \/ walker_req, NoDirty(a), w_req_addr' = a PROVE NoDirty(w_req_addr)'
    BY <1>3, <1>4, DirtyBeside DEF NoDirty, DirtyHolds
<1>5. walker_req' => NoDirty(w_req_addr)'
  <2> SUFFICES ASSUME walker_req' PROVE NoDirty(w_req_addr)'
    OBVIOUS
  <2>1. CASE walker_req
    BY <1>1, <1>2, <1>4, <2>1, WalkerMoves DEF WalkerClean
  <2>2. CASE ~walker_req
    <3>1. walk_pend /\ ~wk_wait(i) /\ w_req_addr' = a
      BY <1>1, <2>2, WalkerMoves
    <3>2. db[SetOf(a)] = {} \/ (c.wk_chk /\ c.cst # "PUSH")
      BY <1>2, <3>1 DEF wk_wait, wk_push
    <3>3. NoDirty(a)
      BY <1>1, <1>2, <3>2 DEF WalkerClean, NoDirty, DirtyHolds
    <3> QED BY <1>4, <3>1, <3>3
  <2> QED BY <2>1, <2>2
<1>6. c.cst = "WLOOK" => walk_pend /\ wk_wait(i)
    BY <1>2 DEF InStep, PushFor, wk_wait
<1>7. c.cst = "PUSH" /\ walk_pend => wk_wait(i)
    BY <1>2 DEF wk_wait
<1>8. c'.wk_chk => w_active'
  <2> SUFFICES ASSUME c'.wk_chk PROVE w_active'
    OBVIOUS
  <2>1. CASE ~ce
    BY <1>2, <2>1, Before DEF WalkerClean, Clocked, Step
  <2>2. CASE ce
    <3>1. walk_pend
      BY <1>6, <2>2, ChkWhen DEF Found, Absent
    <3> QED BY <3>1, WalkerMoves
  <2> QED BY <2>1, <2>2
<1>9. ASSUME walk_pend PROVE w_req_addr' = a
    BY <1>1, <1>9, WalkerMoves
<1>10. c'.wk_chk /\ c'.cst # "PUSH" => NoDirty(w_req_addr)'
  <2> SUFFICES ASSUME c'.wk_chk, c'.cst # "PUSH" PROVE NoDirty(w_req_addr)'
    OBVIOUS
  <2>1. CASE ~ce
    <3>1. NoDirty(a) /\ w_active /\ w_req_addr' = a
      BY <1>1, <1>2, <2>1, WalkerMoves DEF WalkerClean
    <3>2. walk_pend \/ walker_req
      BY <3>1 DEF walk_pend, walker_req
    <3> QED BY <1>4, <3>1, <3>2
  <2>2. CASE ce /\ Absent(i, c')
    <3>1. walk_pend /\ c.p.set = SetOf(a) /\ tq = tags[c.p.set] /\ wl_match(i) = {}
      BY <1>1, <1>2, <1>6, <2>2 DEF Absent, WalkerClean
    <3>2. NoDirty(a)
      BY <1>2, <3>1 DEF wl_match, NoDirty, DirtyHolds
    <3> QED BY <1>4, <1>9, <3>1, <3>2
  <2>3. CASE ce /\ c.wk_chk /\ walk_pend
    <3>1. CASE c.cst # "PUSH"
      <4>1. NoDirty(a)
        BY <1>1, <1>2, <2>3, <3>1 DEF WalkerClean
      <4> QED BY <1>4, <1>9, <2>3, <4>1
    <3>2. CASE c.cst = "PUSH"
      <4>1. Finishes(i, c')
        BY <1>2, <2>3, <3>2, Moved DEF IdleMoves, Waits, Looks, Sweeps, Writes, Taking, Updates, Stores,
           Bypasses, Reads, PassMoves, Merges, Drains, Passes, Stays, LineMoves, Hits, LookHits, Evicts,
           Misses, Beaten, Filled, Fails, Tags, Back, Recovers, Clears, Empties, sweep_push, Ends, Counts,
           PushMoves, Rereads, Found, Absent, Fetches, Opens, Breaks, Moves, Another, Raises
      <4>2. /\ c.p.set = SetOf(a) /\ (\A w \in Way : DirtyHolds(w, a) => w \in c.p.mask)
            /\ push_out /\ ans = "ack" /\ c.p.wb = Beats - 1 /\ c.p.mask \ {c.p.way} = {}
        BY <1>1, <1>2, <2>3, <3>2, <4>1 DEF WalkerClean, Finishes
      <4>3. ASSUME NEW w \in Way, DirtyHolds(w, a)' PROVE FALSE
        <5>1. DirtyHolds(w, a)
          BY <1>3, <2>3, <4>3, DirtyBeside
        <5>2. w = c.p.way
          BY <4>2, <5>1
        <5>3. SetOf(a) \in Set /\ db \in [Set -> SUBSET Way]
          BY <1>2, AddrParts DEF Types, Tables
        <5>4. w \notin db'[SetOf(a)]
          BY <1>2, <2>3, <3>2, <4>2, <5>2, <5>3 DEF DirtyStep, st_merge
        <5> QED BY <4>3, <5>4 DEF DirtyHolds
      <4> QED BY <1>9, <2>3, <4>3 DEF NoDirty, DirtyHolds
    <3> QED BY <3>1, <3>2
  <2>4. ~(ce /\ Found(i, c'))
    BY DEF Found, Begins
  <2> QED BY <1>2, <2>1, <2>2, <2>3, <2>4, ChkWhen
<1>11. ASSUME c'.cst = "WLOOK"
       PROVE  c'.p.set = SetOf(w_req_addr') /\ (c'.wl_ph => tq' = tags'[c'.p.set])
  <2>1. ASSUME c.cst = "WLOOK", c'.p = c.p
        PROVE  c'.p.set = SetOf(w_req_addr') /\ tq' = tags'[c'.p.set]
    <3>1. c.p.set = SetOf(a) /\ w_req_addr' = a
      BY <1>1, <1>2, <1>6, <1>9, <2>1 DEF WalkerClean
    <3>2. SetOf(a) \in Set /\ ~Written(i, SetOf(a))
      BY <2>1, AddrParts, WrittenWhen
    <3>3. tags'[SetOf(a)] = tags[SetOf(a)]
      BY <1>2, <3>2, RowStep
    <3>4. tq' = tags[c.p.set]
      BY <1>2, <1>11, <2>1 DEF ImageStep, tag_we, FillValid, tag_ridx
    <3> QED BY <2>1, <3>1, <3>3, <3>4
  <2>2. CASE ~ce
    BY <1>2, <1>11, <2>1, <2>2
  <2>3. CASE ce /\ Rereads(i, c')
    BY <2>1, <2>3 DEF Rereads
  <2>4. CASE ce /\ Looks(i, c')
    <3>1. walk_pend /\ c'.p.set = SetOf(a) /\ ~c'.wl_ph
      BY <1>2, <2>4 DEF Looks, wk_push, Regs, Pushing
    <3> QED BY <1>9, <3>1
  <2>5. ce => Rereads(i, c') \/ Looks(i, c')
    <3>1. c.p.ret \in {"IDLE", "LOOK", "SWEEP"}
      BY <1>2 DEF Regs, Pushing
    <3> QED BY <1>11, <3>1, Moved DEF IdleMoves, Waits, Sweeps, Writes, Updates, Stores, Bypasses, Reads,
           PassMoves, Merges, Drains, Passes, Stays, Leaves, LineMoves, Hits, Evicts, Misses, Beaten,
           Filled, Fails, Tags, Back, Recovers, Clears, Empties, Ends, Counts, PushMoves, Found, Absent,
           Fetches, Opens, Breaks, Moves, Finishes, Another, Raises, Begins
  <2> QED BY <1>2, <2>2, <2>3, <2>4, <2>5
<1>12. ASSUME c'.cst = "PUSH", walk_pend'
       PROVE  /\ c'.p.set = SetOf(w_req_addr') /\ c'.wk_chk /\ c'.p.ret = "IDLE"
              /\ \A w \in Way : DirtyHolds(w, w_req_addr)' => w \in c'.p.mask
  <2>1. CASE ce /\ Found(i, c')
    <3>1. /\ walk_pend /\ c.p.set = SetOf(a) /\ tq = tags[c.p.set] /\ w_req_addr' = a
          /\ c'.p = FirstPush(c.p.set, wl_match(i), "IDLE") /\ c'.wk_chk
      BY <1>1, <1>2, <1>6, <1>9, <2>1 DEF Found, Begins, WalkerClean
    <3>2. c'.p.set = SetOf(a) /\ c'.p.mask = wl_match(i) /\ c'.p.ret = "IDLE"
      BY <3>1 DEF FirstPush, NoPush
    <3>3. ASSUME NEW w \in Way, DirtyHolds(w, a)' PROVE w \in wl_match(i)
      <4>1. DirtyHolds(w, a)
        BY <1>3, <3>1, <3>3, DirtyBeside
      <4> QED BY <1>2, <3>1, <4>1 DEF DirtyHolds, wl_match
    <3> QED BY <3>1, <3>2, <3>3 DEF DirtyHolds
  <2>2. CASE c.cst = "PUSH" /\ walk_pend
    <3>1. /\ c.p.set = SetOf(a) /\ c.wk_chk /\ c.p.ret = "IDLE" /\ w_req_addr' = a
          /\ \A w \in Way : DirtyHolds(w, a) => w \in c.p.mask
      BY <1>1, <1>2, <1>9, <2>2 DEF WalkerClean
    <3>2. \A w \in Way : DirtyHolds(w, a)' => w \in c.p.mask
      BY <1>3, <2>2, <3>1, DirtyBeside
    <3>3. CASE ~ce
      BY <1>2, <3>1, <3>2, <3>3 DEF DirtyHolds
    <3>4. CASE ce /\ Pushes(i, c') /\ PushMoves(i, c')
      <4>1. c'.wk_chk
        BY <1>2, <2>2, <3>1, <3>4 DEF Pushes, Chk
      <4>2. CASE Another(i, c')
        <5>1. /\ c'.p.set = c.p.set /\ c'.p.mask = c.p.mask \ {c.p.way} /\ c'.p.ret = "IDLE"
              /\ push_out /\ ans = "ack" /\ c.p.wb = Beats - 1
          BY <1>2, <3>1, <4>2 DEF Another, FirstPush, NoPush
        <5>2. SetOf(a) \in Set /\ db \in [Set -> SUBSET Way]
          BY <1>2, AddrParts DEF Types, Tables
        <5>3. c.p.way \notin db'[SetOf(a)]
          BY <1>2, <2>2, <3>1, <3>4, <5>1, <5>2 DEF DirtyStep, st_merge
        <5> QED BY <3>1, <3>2, <4>1, <5>1, <5>3 DEF DirtyHolds
      <4>3. CASE Fetches(i, c') \/ Opens(i, c') \/ Moves(i, c') \/ Raises(i, c')
        <5>1. c'.p.set = c.p.set /\ c'.p.mask = c.p.mask /\ c'.p.ret = c.p.ret
          BY <1>2, <4>3 DEF Fetches, Opens, Moves, Raises, Regs, Pushing
        <5> QED BY <3>1, <3>2, <4>1, <5>1 DEF DirtyHolds
      <4>4. Another(i, c') \/ Fetches(i, c') \/ Opens(i, c') \/ Moves(i, c') \/ Raises(i, c')
        BY <1>12, <2>2, <3>1, <3>4 DEF PushMoves, Rereads, Found, Absent, Breaks, Finishes
      <4> QED BY <4>2, <4>3, <4>4
    <3> QED BY <1>12, <2>2, <3>3, <3>4, PushAlone DEF Found
  <2> QED BY <1>12, <2>1, <2>2, PushAlone
<1> QED BY <1>5, <1>8, <1>10, <1>11, <1>12 DEF WalkerClean

----------------------------------------------------------------------------
(* The words filled, and the word looked up. *)

\* While the core reads, only the chipset renews a longword.
LEMMA ReadFresh ==
    ASSUME NEW i, NEW ce, NEW snp, NEW ans, NEW w_ans, Clocked(i, ce, snp, ans, w_ans),
           c.cst \in {"LOOK", "FILL", "TAGW"}, NEW a \in Addr, a \in i.fresh
    PROVE  a \in Dma /\ SnoopsSet(i, SetOf(a))
<1>1. ~walker_req /\ ~passing
    BY Before, SearchBeside DEF passing
<1>2. a \notin Taken(i)
    BY DEF Taken
<1>3. a \in Dma /\ i.stb = a
    BY <1>1, <1>2, FreshWhen
<1> QED BY <1>3, NilIsNone DEF SnoopsSet, s_stb

\* A fill reads the last value: nobody else holds the line.
LEMMA FillInMem ==
    ASSUME Types, InStep, Rows, FillImage, NothingGone, c.cst = "FILL"
    PROVE  /\ fill_addr = AddrOf(TagOf(c.a), SetOf(c.a), c.beat)
           /\ fill_addr \in mem
<1>1. c.a \in Addr /\ c.beat \in Word /\ ~c.dr.on /\ ~c.st_posted
    BY DEF Types, Regs, InStep, DrainAlone, Posted
<1>2. TagOf(c.a) \in Tag /\ SetOf(c.a) \in Set
    BY <1>1, AddrParts
<1> DEFINE a == AddrOf(TagOf(c.a), SetOf(c.a), c.beat)
<1>3. fill_addr = a
    BY <1>1, FillAddr DEF fill_addr
<1>4. a \in Addr /\ SetOf(a) = SetOf(c.a) /\ TagOf(a) = TagOf(c.a)
    BY <1>1, <1>2, InLine
<1> HIDE DEF a
<1>5. ASSUME a \notin mem PROVE FALSE
  <2>1. PICK w \in Way : DirtyHolds(w, a)
    BY <1>1, <1>4, <1>5 DEF NothingGone, InFlight
  <2>2. Holds(w, c.a)
    BY <1>2, <1>4, <2>1 DEF DirtyHolds, Holds, Rows
  <2> QED BY <2>2 DEF FillImage, NoHolder
<1> QED BY <1>3, <1>5 DEF a

LEMMA FillWordsKept ==
    ASSUME NEW i, NEW ce, NEW snp, NEW ans, NEW w_ans, Clocked(i, ce, snp, ans, w_ans), DataState
    PROVE  FillWords'
<1> SUFFICES ASSUME c'.cst \in {"FILL", "TAGW"}, ~fill_snooped', NEW b \in Word,
                    b < c'.beat \/ c'.cst = "TAGW"
             PROVE  cdata'[SetOf(c'.a)][c'.way][b] = AddrOf(TagOf(c'.a), SetOf(c'.a), b)
    BY DEF FillWords
<1>1. /\ Types /\ InStep /\ Regs(c) /\ FillWords /\ FillImage /\ Rows /\ NothingGone
      /\ c.a \in Addr /\ SetOf(c.a) \in Set
    BY Before DEF DataState
<1>2. /\ i.ce = ce /\ i.ans = ans /\ (~ce => c' = c) /\ SnoopFlags(i) /\ DataStep(i)
      /\ i.rdata = (IF fill_addr \in mem THEN fill_addr ELSE Nil)
  <2>1. Step(i, ce, snp, ans, w_ans)
    BY Before
  <2>2. /\ i.ce = ce /\ i.ans = ans /\ (~ce => c' = c) /\ SnoopFlags(i) /\ DataStep(i)
    BY Wires
  <2> QED BY <2>1, <2>2 DEF Step, Inputs
<1>3. \/ ce /\ Misses(i, c')
      \/ ce /\ c.cst = "FILL" /\ (Waits(i, c') \/ Beaten(i, c') \/ Filled(i, c'))
      \/ ~ce /\ c' = c
  <2>1. c.p.ret \in {"IDLE", "LOOK", "SWEEP"}
    BY <1>1 DEF Regs, Pushing
  <2>2. CASE ce /\ c.cst = "FILL"
    <3>1. Waits(i, c') \/ Beaten(i, c') \/ Filled(i, c') \/ Fails(i, c')
      BY <2>2, Moved DEF IdleMoves, Waits, Looks, Sweeps, Writes, Taking, Updates, Stores, Bypasses, Reads,
           PassMoves, Merges, Drains, Passes, Stays, LineMoves, Hits, LookHits, Evicts, Misses,
           Beaten, Filled, Fails, Tags, Back, Recovers, Clears, Empties, sweep_push, Ends, Counts,
           PushMoves, Rereads, Found, Absent, Fetches, Opens, Breaks, Moves, Finishes, Another,
           Raises, Pushes
    <3> QED BY <2>2, <3>1 DEF Fails
  <2>3. CASE ce /\ c.cst # "FILL"
    <3>1. IdleMoves(i, c') \/ PassMoves(i, c') \/ LineMoves(i, c') \/ PushMoves(i, c')
      BY <2>3, Moved
    <3>2. ~IdleMoves(i, c') /\ ~PassMoves(i, c') /\ ~PushMoves(i, c')
      BY <2>1, <2>3 DEF IdleMoves, Waits, Looks, Sweeps, Writes, Updates, Stores, Bypasses, Reads,
           PassMoves, Merges, Drains, Passes, Stays, Leaves, Begins, PushMoves,
           Rereads, Found, Absent, Fetches, Opens, Moves, Another, Raises, Breaks, Finishes
    <3>3. Misses(i, c')
      BY <2>3, <3>1, <3>2 DEF LineMoves, Waits, Hits, Evicts, Beaten, Filled, Begins,
           Fails, Tags, Back, Recovers, Clears, Empties, Ends, Counts
    <3> QED BY <2>3, <3>3
  <2> QED BY <1>2, <2>2, <2>3
<1>4. CASE ce /\ Misses(i, c')
  <2>1. c'.beat = 0 /\ c'.cst = "FILL"
    BY <1>4 DEF Misses
  <2>2. b \in Nat
    BY Sizes DEF Word
  <2> QED BY <2>1, <2>2
<1>5. CASE ~(ce /\ Misses(i, c'))
  <2> DEFINE s == SetOf(c.a)
             x == AddrOf(TagOf(c.a), s, b)
  <2>1. c.cst \in {"FILL", "TAGW"} /\ c'.a = c.a /\ c'.way = c.way /\ (ce => c.cst = "FILL")
    BY <1>3, <1>5 DEF Waits, Beaten, Filled, Keep, KeepAt
  <2>2. ~fill_snooped /\ ~SnoopsSet(i, s)
    BY <1>2, <2>1 DEF SnoopFlags
  <2>3. x \in Addr /\ SetOf(x) = s /\ TagOf(x) = TagOf(c.a)
    <3>1. TagOf(c.a) \in Tag
      BY <1>1, AddrParts
    <3> QED BY <1>1, <3>1, InLine
  <2>4. x \notin i.fresh
    BY <2>1, <2>2, <2>3, ReadFresh
  <2>5. /\ cdata \in [Set -> [Way -> [Word -> Cell]]] /\ c.way \in Way /\ c.beat \in Word
        /\ c'.beat \in Word
    BY <1>1, Before DEF Types, Tables, Regs
  <2>6. b < c.beat \/ c.cst = "TAGW" => cdata[s][c.way][b] = x
    BY <1>1, <2>1, <2>2 DEF FillWords
  <2> HIDE DEF s, x
  <2>7. CASE ce /\ ans = "ack"
    <3> DEFINE cd == [cdata EXCEPT ![SetOf(c.a)][c.way][c.beat] = i.rdata]
    <3>1. cdata'[s][c.way][b] = Aged(i, cd[s][c.way][b])
      BY <1>1, <1>2, <2>1, <2>5, <2>7 DEF DataStep, s
    <3>2. cd[s][c.way][b] = x
      <4>1. CASE b = c.beat
        <5>1. i.rdata = x
          BY <1>1, <1>2, <2>1, <2>7, <4>1, FillInMem DEF s, x
        <5> QED BY <1>1, <2>5, <4>1, <5>1 DEF s
      <4>2. CASE b # c.beat
        <5>1. cd[s][c.way][b] = cdata[s][c.way][b]
          BY <1>1, <2>5, <4>2 DEF s
        <5>2. b < c.beat
          <6>1. b \in 0..Beats - 1 /\ c.beat \in 0..Beats - 1
            BY <2>5 DEF Word
          <6>2. \/ c'.beat = c.beat + 1 /\ c'.cst = "FILL"
                \/ c.beat = Beats - 1
            BY <1>2, <1>3, <1>5, <2>7 DEF Waits, Beaten, Filled
          <6>3. CASE c.beat = Beats - 1
            BY <4>2, <6>1, <6>3, Sizes
          <6>4. CASE c'.beat = c.beat + 1 /\ c'.cst = "FILL"
            <7>1. b < c.beat + 1
              BY <6>4
            <7>2. b \in Nat /\ c.beat \in Nat
              BY <6>1, Sizes
            <7> QED BY <4>2, <7>1, <7>2
          <6> QED BY <6>2, <6>3, <6>4
        <5> QED BY <2>6, <5>1, <5>2
      <4> QED BY <4>1, <4>2
    <3> QED BY <2>1, <2>4, <3>1, <3>2 DEF Aged, s, x
  <2>8. CASE ~(ce /\ ans = "ack")
    <3>1. cdata'[s][c.way][b] = Aged(i, cdata[s][c.way][b])
      BY <1>1, <1>2, <2>1, <2>5, <2>8 DEF DataStep, st_merge, s
    <3>2. b < c.beat \/ c.cst = "TAGW"
      BY <1>2, <1>3, <1>5, <2>8 DEF Waits, Beaten, Filled, Keep, KeepAt
    <3> QED BY <2>1, <2>4, <2>6, <3>1, <3>2 DEF Aged, s, x
  <2> QED BY <2>7, <2>8
<1> QED BY <1>4, <1>5

\* Where a look-up comes from, and the row it reads.
LEMMA LookFrom ==
    ASSUME NEW i, NEW ce, NEW snp, NEW ans, NEW w_ans, Clocked(i, ce, snp, ans, w_ans), c'.cst = "LOOK"
    PROVE  /\ ReadRow(SetOf(c'.a)) /\ c'.a \in Addr /\ SetOf(c'.a) \in Set
           /\ \/ c.cst = "LOOK" /\ c'.a = c.a /\ c.a = op.a
              \/ ce /\ Reads(i, c') /\ c.cst = "IDLE" /\ Serving /\ rd_accept(i) /\ c'.a = op.a
              \/ c.cst = "PUSH" /\ c'.a = c.a /\ c.p.set = SetOf(c.a) /\ NoHolder(c.a)
<1>1. /\ Types /\ InStep /\ PushLook /\ Regs(c) /\ (~ce => c' = c) /\ i.op = op /\ ImageStep(i)
      /\ c'.a \in Addr /\ SetOf(c'.a) \in Set
  <2>1. Types /\ InStep /\ PushLook /\ Regs(c) /\ Types'
    BY Before
  <2>2. (~ce => c' = c) /\ i.op = op /\ ImageStep(i)
    BY Wires
  <2>3. c'.a \in Addr
    BY <2>1 DEF Types, Regs
  <2> QED BY <2>1, <2>2, <2>3, AddrParts
<1>2. i.req = c_req /\ i.cinv = (core = "cinv") /\ i.walk_busy = w_active /\ Search
    BY Wires, Before
<1>3. \/ c.cst = "LOOK" /\ c'.a = c.a
      \/ ce /\ Reads(i, c')
      \/ c.cst = "PUSH" /\ c'.a = c.a /\ c.p.ret = "LOOK"
  <2>1. CASE ce
    BY <2>1, Moved DEF IdleMoves, Waits, Looks, Sweeps, Writes, Updates, Stores, Bypasses, PassMoves,
           Merges, Drains, Passes, Stays, Leaves, LineMoves, Hits, Evicts, Misses, Beaten, Filled,
           Fails, Tags, Back, Recovers, Clears, Empties, Ends, Counts, PushMoves, Rereads, Found,
           Absent, Fetches, Opens, Moves, Another, Raises, Begins, Breaks, Finishes, Pushes, Keep, KeepAt
  <2> QED BY <1>1, <2>1
<1>4. CASE c.cst = "LOOK" /\ c'.a = c.a
  <2>1. c.a = op.a
    BY <1>1, <1>4 DEF InStep, ReadingOn, Reading
  <2> QED BY <1>1, <1>4, <2>1, RowRead
<1>5. CASE ce /\ Reads(i, c')
  <2>1. Asked(i) /\ c.cst = "IDLE" /\ ~(Cinv(i) /\ ~i.walk_busy) /\ c'.a = op.a
    BY <1>1, <1>5 DEF Reads, Taking
  <2>2. ~Cinv(i) /\ Serving
    BY <1>2, <2>1 DEF Asked, c_req, Serving, Cinv
  <2>3. rd_accept(i)
    BY <1>1, <1>5, <2>1, <2>2 DEF Reads, rd_accept
  <2> QED BY <1>1, <1>5, <2>1, <2>2, <2>3, RowRead
<1>6. CASE c.cst = "PUSH" /\ c'.a = c.a /\ c.p.ret = "LOOK"
  <2>1. c.p.set = SetOf(c.a) /\ NoHolder(c.a)
    BY <1>1, <1>6 DEF PushLook
  <2> QED BY <1>1, <1>6, <2>1, RowRead
<1> QED BY <1>3, <1>4, <1>5, <1>6

LEMMA LookWordsKept ==
    ASSUME NEW i, NEW ce, NEW snp, NEW ans, NEW w_ans, Clocked(i, ce, snp, ans, w_ans), DataState
    PROVE  LookWords'
<1> SUFFICES ASSUME c'.cst = "LOOK", NEW w \in vq', tq'[w] = TagOf(c'.a)
             PROVE  /\ w \in db'[SetOf(c'.a)] => dq'[w] = c'.a
                    /\ ~look_snooped' => dq'[w] = c'.a
    BY DEF LookWords
<1> DEFINE a == c'.a
           s == SetOf(a)
<1>1. /\ Types /\ InStep /\ Pending /\ LookImage /\ LookWords /\ DirtyRight /\ DirtyLines /\ Copies /\ Tables
      /\ Types'
    BY Before DEF DataState
<1>2. /\ i.ce = ce /\ (~ce => c' = c) /\ i.op = op /\ ImageStep(i) /\ SnoopFlags(i) /\ DirtyStep(i) /\ Pins(i)
    BY Wires
<1>3. /\ vq' = vb[s] /\ tq' = tags[s] /\ a \in Addr /\ s \in Set
      /\ \/ c.cst = "LOOK" /\ a = c.a /\ c.a = op.a
         \/ ce /\ Reads(i, c') /\ c.cst = "IDLE" /\ Serving /\ rd_accept(i) /\ a = op.a
         \/ c.cst = "PUSH" /\ a = c.a /\ c.p.set = SetOf(c.a) /\ NoHolder(c.a)
    BY LookFrom DEF ReadRow
<1>4. w \in vb[s] /\ tags[s][w] = TagOf(a) /\ w \in Way
    BY <1>1, <1>3 DEF Tables
<1> HIDE DEF a, s
<1>5. CASE c.cst = "LOOK" /\ a = c.a /\ c.a = op.a
  <2>1. w \in vq /\ tq[w] = TagOf(c.a)
    BY <1>1, <1>3, <1>4, <1>5 DEF LookImage, Imaged, s
  <2>2. (w \in db[s] => dq[w] = a) /\ (~look_snooped => dq[w] = a)
    BY <1>1, <1>5, <2>1 DEF LookWords, s
  <2>3. dq'[w] = Aged(i, dq[w])
    BY <1>2, <1>4, <1>5 DEF ImageStep, rd_accept, wr_accept_upd, Asked
  <2>4. look_snooped' = (SnoopsSet(i, s) \/ look_snooped)
    BY <1>1, <1>2, <1>5 DEF SnoopFlags, rd_accept, Asked, s, Tables
  <2>5. a \in i.fresh => a \in Dma /\ SnoopsSet(i, s)
    BY <1>3, <1>5, ReadFresh DEF s
  <2>6. db' = db
    BY <1>2, <1>5 DEF DirtyStep, st_merge, push_out
  <2>7. a \in Dma => ~DirtyHolds(w, a)
    BY <1>1, <1>4 DEF DirtyLines, NoDirty
  <2> QED BY <1>4, <2>2, <2>3, <2>4, <2>5, <2>6, <2>7 DEF DirtyHolds, Aged, a, s
<1>6. CASE ce /\ Reads(i, c') /\ c.cst = "IDLE" /\ Serving /\ rd_accept(i) /\ a = op.a
  <2>1. dq'[w] = Aged(i, Value(w, a))
    BY <1>2, <1>4, <1>6 DEF ImageStep, Value, s
  <2>2. db' = db
    BY <1>2, <1>6 DEF DirtyStep, st_merge, push_out
  <2>3. ASSUME w \in db[s] PROVE dq'[w] = a
    <3>1. DirtyHolds(w, a)
      BY <1>4, <2>3 DEF DirtyHolds, s
    <3>2. a \notin i.fresh
      BY <1>3, <1>4, <3>1, DirtyFresh
    <3>3. ~Merging(a)
      BY <1>1, <1>6 DEF Merging, InStep, Posted
    <3>4. Value(w, a) = a
      BY <1>1, <1>3, <1>4, <3>1, <3>3 DEF DirtyRight
    <3> QED BY <2>1, <3>2, <3>4 DEF Aged
  <2>4. ASSUME ~look_snooped', w \notin db[s] PROVE dq'[w] = a
    <3>1. ~SnoopsSet(i, s) /\ a # Nil
      BY <1>2, <1>3, <1>6, <2>4, NilIsNone DEF SnoopFlags, s
    <3>2. wst = "idle" /\ ~walker_req
      BY <1>1, <1>6 DEF InStep, SearchAlone, Serving, walker_req, Types, Search
    <3>3. a \notin i.fresh
      <4>1. ~(snp = a /\ i.stb = a)
        BY <3>1 DEF SnoopsSet, s_stb, s
      <4>2. a \notin Taken(i)
        BY <1>6, TakenWhen
      <4> QED BY <1>6, <3>2, <4>1, <4>2, FreshWhen DEF passing
    <3>4. a # wsnp
      <4>1. i.stb = (IF snp # Nil THEN snp ELSE wsnp) /\ (ce /\ snp # Nil => ~s_last)
        <5>1. Step(i, ce, snp, ans, w_ans)
          BY Before
        <5> QED BY <5>1 DEF Step, Inputs
      <4> QED BY <1>1, <1>6, <3>1, <3>2, <4>1 DEF Pending, WsnpSoon, SnoopsSet, s_stb, s
    <3>5. c.sil # s
      <4>1. s # Nil /\ ~c.err_hold
        BY <1>3, <1>6, NilIsNone DEF Reads, Taking
      <4> QED BY <1>1, <1>4, <1>6, <2>4, <4>1 DEF Pending, SilOwed, Stuck, Serving
    <3>6. ~Excused(a) /\ ~FillingIn(w, a)
      BY <1>1, <1>6, <3>4, <3>5 DEF Excused, Merging, Sweeping, InStep, Posted, FillingIn, s
    <3>7. Value(w, a) = a
      BY <1>1, <1>3, <1>4, <3>6 DEF Copies, Holds, s
    <3> QED BY <2>1, <3>3, <3>7 DEF Aged
  <2> QED BY <2>2, <2>3, <2>4 DEF a, s
<1>7. CASE c.cst = "PUSH" /\ a = c.a /\ c.p.set = SetOf(c.a) /\ NoHolder(c.a)
    BY <1>4, <1>7 DEF NoHolder, Holds, s
<1> QED BY <1>3, <1>5, <1>6, <1>7

LEMMA LookRowKept ==
    ASSUME NEW i, NEW ce, NEW snp, NEW ans, NEW w_ans, Clocked(i, ce, snp, ans, w_ans), DataState
    PROVE  LookRow'
<1> SUFFICES ASSUME c'.cst = "LOOK", look_hit', look_snooped'
             PROVE  vb'[SetOf(c'.a)] \subseteq db'[SetOf(c'.a)]
    BY DEF LookRow
<1> DEFINE a == c'.a
           s == SetOf(a)
<1>1. /\ Types /\ InStep /\ LookImage /\ LookRow /\ Tables
    BY Before DEF DataState
<1>2. /\ i.ce = ce /\ (~ce => c' = c) /\ i.op = op /\ SnoopFlags(i) /\ DirtyStep(i) /\ TagStep(i) /\ Pins(i)
    BY Wires
<1>3. /\ vq' = vb[s] /\ tq' = tags[s] /\ a \in Addr /\ s \in Set
      /\ \/ c.cst = "LOOK" /\ a = c.a /\ c.a = op.a
         \/ ce /\ Reads(i, c') /\ c.cst = "IDLE" /\ Serving /\ rd_accept(i) /\ a = op.a
         \/ c.cst = "PUSH" /\ a = c.a /\ c.p.set = SetOf(c.a) /\ NoHolder(c.a)
    BY LookFrom DEF ReadRow
<1>4. PICK w \in Way : w \in vb[s] /\ tags[s][w] = TagOf(a)
    BY <1>1, <1>3 DEF Tables, look_hit, hits
<1> HIDE DEF a, s
<1>5. ASSUME c.cst \in {"LOOK", "IDLE"}, SnoopsSet(i, s) PROVE vb'[s] \subseteq db[s]
    BY <1>2, <1>3, <1>5, SnoopClears, RowStep
<1>6. c.cst \in {"LOOK", "IDLE"} => db' = db
    BY <1>2 DEF DirtyStep, st_merge, push_out
<1>7. CASE c.cst = "LOOK" /\ a = c.a /\ c.a = op.a
  <2>1. look_hit
    BY <1>1, <1>4, <1>7 DEF LookImage, Imaged, look_hit, hits, s
  <2>2. SnoopsSet(i, s) \/ look_snooped
    BY <1>1, <1>2, <1>7 DEF SnoopFlags, rd_accept, Asked, s, Tables
  <2>3. CASE look_snooped
    <3>1. vb[s] \subseteq db[s] /\ ~Written(i, s)
      BY <1>1, <1>7, <2>1, <2>3, WrittenWhen DEF LookRow, s
    <3> QED BY <1>1, <1>2, <1>3, <1>6, <1>7, <3>1, RowsShrink DEF a, s
  <2> QED BY <1>5, <1>6, <1>7, <2>2, <2>3 DEF a, s
<1>8. CASE ce /\ Reads(i, c') /\ c.cst = "IDLE" /\ Serving /\ rd_accept(i) /\ a = op.a
  <2>1. SnoopsSet(i, s)
    BY <1>2, <1>8 DEF SnoopFlags, s
  <2> QED BY <1>5, <1>6, <1>8, <2>1 DEF a, s
<1>9. CASE c.cst = "PUSH" /\ a = c.a /\ c.p.set = SetOf(c.a) /\ NoHolder(c.a)
    BY <1>4, <1>9 DEF NoHolder, Holds, s
<1> QED BY <1>3, <1>7, <1>8, <1>9

----------------------------------------------------------------------------
(* The line being pushed. *)

\* Where a push comes from.
LEMMA PushFrom ==
    ASSUME NEW i, NEW ce, NEW snp, NEW ans, NEW w_ans, Clocked(i, ce, snp, ans, w_ans), c'.cst = "PUSH"
    PROVE  \/ c.cst = "PUSH" /\ ~ce
           \/ /\ ce /\ c.cst \in {"IDLE", "LOOK", "SWEEP", "WLOOK"}
              /\ \E s \in Set, m \in SUBSET Way, ret \in {"IDLE", "LOOK", "SWEEP"} :
                     m # {} /\ m \subseteq db[s] /\ Begins(i, c', s, m, ret)
           \/ /\ ce /\ c.cst = "PUSH"
              /\ Fetches(i, c') \/ Opens(i, c') \/ Moves(i, c') \/ Raises(i, c') \/ Another(i, c')
<1>1. /\ Types /\ Regs(c) /\ (~ce => c' = c) /\ i.op = op /\ c.a \in Addr /\ SetOf(c.a) \in Set
      /\ op.a \in Addr /\ db \in [Set -> SUBSET Way] /\ rq \in Way
  <2>1. Types /\ Regs(c) /\ c.a \in Addr /\ SetOf(c.a) \in Set
    BY Before
  <2>2. op.a \in Addr
    BY <2>1, OpType DEF Types, Others
  <2> QED BY <2>1, <2>2, Wires DEF Types, Tables
<1>2. c.p.ret \in {"IDLE", "LOOK", "SWEEP"} /\ c.p.set \in Set
    BY <1>1 DEF Regs, Pushing
<1>3. CASE ce /\ c.cst = "PUSH"
  <2>1. PushMoves(i, c')
    BY <1>3, Moved DEF IdleMoves, Waits, Looks, Sweeps, Writes, Taking, Updates, Stores, Bypasses, Reads,
           PassMoves, Merges, Drains, Passes, Stays, LineMoves, Hits, LookHits, Evicts, Misses,
           Beaten, Filled, Fails, Tags, Back, Recovers, Clears, Empties, sweep_push, Ends, Counts
  <2> QED BY <1>2, <1>3, <2>1 DEF PushMoves, Rereads, Found, Absent, Breaks, Finishes
<1>4. CASE ce /\ c.cst # "PUSH"
  <2>1. Writes(i, c') \/ Evicts(i, c') \/ Empties(i, c') \/ Found(i, c')
    BY <1>4, Moved DEF IdleMoves, Waits, Looks, Sweeps, Updates, Stores, Bypasses, Reads, PassMoves, Merges,
           Drains, Passes, Stays, Leaves, LineMoves, Hits, Misses, Beaten, Filled, Fails, Tags, Back,
           Recovers, Clears, Ends, Counts, PushMoves, Rereads, Absent, Fetches, Opens, Breaks, Moves,
           Finishes, Another, Raises, Pushes
  <2>2. CASE Writes(i, c')
    <3>1. SetOf(op.a) \in Set /\ NextSet(op.a) \in Set
      <4>1. op.a \in Nat
        BY <1>1, Sizes DEF Addr
      <4> QED BY <4>1, SetOfNat DEF NextSet
    <3> QED BY <1>1, <1>4, <2>2, <3>1 DEF Writes
  <2>3. CASE Evicts(i, c')
    BY <1>1, <1>4, <2>3 DEF Evicts
  <2>4. CASE Empties(i, c')
    <3>1. c.cnt < Sets /\ db[c.cnt] # {} /\ c.cst = "SWEEP" /\ Begins(i, c', c.cnt, db[c.cnt], "SWEEP")
      BY <2>4 DEF Empties, sweep_push, sweep_hit
    <3>2. c.cnt \in 0..2 * Sets - 1
      BY <1>1 DEF Regs
    <3>3. c.cnt \in Set
      BY <3>1, <3>2, Sizes DEF Set
    <3> QED BY <1>1, <1>4, <3>1, <3>3
  <2>5. CASE Found(i, c')
    <3>1. c.cst = "WLOOK" /\ wl_match(i) # {} /\ Begins(i, c', c.p.set, wl_match(i), "IDLE")
      BY <2>5 DEF Found
    <3>2. wl_match(i) \subseteq db[c.p.set] /\ wl_match(i) \in SUBSET Way
      BY <1>1, <1>2 DEF wl_match
    <3> QED BY <1>2, <1>4, <3>1, <3>2
  <2> QED BY <2>1, <2>2, <2>3, <2>4, <2>5
<1>5. CASE ~ce
    BY <1>1, <1>5
<1> QED BY <1>3, <1>4, <1>5

LEMMA PushMaskKept ==
    ASSUME NEW i, NEW ce, NEW snp, NEW ans, NEW w_ans, Clocked(i, ce, snp, ans, w_ans), DataState
    PROVE  PushMask'
<1> SUFFICES ASSUME c'.cst = "PUSH"
             PROVE  c'.p.mask \subseteq db'[c'.p.set] /\ c'.p.way \in c'.p.mask
    BY DEF PushMask
<1>1. /\ Types /\ Regs(c) /\ PushMask /\ Tables /\ Pushing(c.p)
    BY Before DEF DataState, Regs
<1>2. /\ i.ce = ce /\ (~ce => c' = c /\ db' = db) /\ DirtyStep(i) /\ i.ans = ans /\ (ans = "err" => ~push_out)
    BY Wires
<1>3. CASE c.cst = "PUSH" /\ ~ce
    BY <1>1, <1>2, <1>3 DEF PushMask
<1>4. CASE /\ ce /\ c.cst \in {"IDLE", "LOOK", "SWEEP", "WLOOK"}
           /\ \E s \in Set, m \in SUBSET Way, ret \in {"IDLE", "LOOK", "SWEEP"} :
                     m # {} /\ m \subseteq db[s] /\ Begins(i, c', s, m, ret)
  <2>1. PICK s \in Set, m \in SUBSET Way, ret \in {"IDLE", "LOOK", "SWEEP"} :
                     m # {} /\ m \subseteq db[s] /\ Begins(i, c', s, m, ret)
    BY <1>4
  <2>2. c'.p.set = s /\ c'.p.mask = m /\ c'.p.way = LowWay(m)
    BY <2>1 DEF Begins, FirstPush, NoPush
  <2>3. m \subseteq Way
    BY <1>1, <2>1 DEF Tables
  <2>4. LowWay(m) \in m
    BY <2>1, <2>3, LowestWay
  <2>5. db' = db
    BY <1>2, <1>4 DEF DirtyStep, st_merge, push_out
  <2> QED BY <2>1, <2>2, <2>4, <2>5
<1>5. CASE ce /\ c.cst = "PUSH" /\ Another(i, c')
  <2>1. /\ c'.p.set = c.p.set /\ c'.p.mask = c.p.mask \ {c.p.way} /\ c'.p.way = LowWay(c.p.mask \ {c.p.way})
        /\ push_out /\ ans = "ack" /\ c.p.wb = Beats - 1 /\ c.p.mask \ {c.p.way} # {}
    BY <1>2, <1>5 DEF Another, FirstPush, NoPush
  <2>2. c.p.mask \subseteq Way /\ c.p.set \in Set /\ db \in [Set -> SUBSET Way]
    BY <1>1 DEF Pushing, Tables
  <2>3. LowWay(c.p.mask \ {c.p.way}) \in c.p.mask \ {c.p.way}
    BY <2>1, <2>2, LowestWay
  <2>4. db' = [db EXCEPT ![c.p.set] = @ \ {c.p.way}]
    BY <1>2, <1>5, <2>1 DEF DirtyStep, st_merge
  <2> QED BY <1>1, <1>5, <2>1, <2>2, <2>3, <2>4 DEF PushMask
<1>6. CASE /\ ce /\ c.cst = "PUSH"
           /\ Fetches(i, c') \/ Opens(i, c') \/ Moves(i, c') \/ Raises(i, c')
  <2>1. c'.p.set = c.p.set /\ c'.p.mask = c.p.mask /\ c'.p.way = c.p.way
    BY <1>1, <1>6 DEF Fetches, Opens, Moves, Raises, Pushing
  <2>2. ~(push_out /\ i.ans = "ack" /\ c.p.wb = Beats - 1)
    <3>1. c.p.wb < Beats - 1 => c.p.wb # Beats - 1
      BY <1>1, Sizes DEF Pushing, Word
    <3> QED BY <1>6, <3>1 DEF Fetches, Opens, Moves, Raises, push_out
  <2>3. db' = db
    BY <1>2, <1>6, <2>2 DEF DirtyStep, st_merge
  <2> QED BY <1>1, <1>6, <2>1, <2>3 DEF PushMask
<1> QED BY <1>3, <1>4, <1>5, <1>6, PushFrom

\* A write-back writes the last values, one by one.
LEMMA PushLineHeld ==
    ASSUME NEW i, NEW ce, NEW snp, NEW ans, NEW w_ans, Clocked(i, ce, snp, ans, w_ans), DataState,
           c.cst = "PUSH", NEW b \in Word
    PROVE  /\ PushLine(b) \in Addr /\ PushLine(b) \notin i.fresh /\ WordOf(PushLine(b)) = b
           /\ SetOf(PushLine(b)) = c.p.set /\ Value(c.p.way, PushLine(b)) = PushLine(b)
           /\ tags'[c.p.set] = tags[c.p.set] /\ tags[c.p.set] \in [Way -> Tag]
<1>1. /\ Types /\ InStep /\ PushMask /\ DirtyRight /\ Tables /\ Pushing(c.p)
    BY Before DEF DataState, Types, Regs
<1>2. c.p.set \in Set /\ c.p.way \in Way /\ tags[c.p.set] \in [Way -> Tag] /\ c.p.way \in db[c.p.set]
    BY <1>1 DEF Pushing, Tables, PushMask
<1>3. tags[c.p.set][c.p.way] \in Tag
    BY <1>2
<1> DEFINE x == PushLine(b)
<1>4. x \in Addr /\ WordOf(x) = b /\ SetOf(x) = c.p.set /\ TagOf(x) = tags[c.p.set][c.p.way]
    BY <1>2, <1>3, InLine DEF PushLine
<1> HIDE DEF x
<1>5. DirtyHolds(c.p.way, x)
    BY <1>2, <1>4 DEF DirtyHolds
<1>6. x \notin i.fresh
    BY <1>2, <1>4, <1>5, DirtyFresh
<1>7. Value(c.p.way, x) = x
    BY <1>1, <1>2, <1>4, <1>5 DEF DirtyRight, Merging, InStep, Posted
<1>8. tags'[c.p.set] = tags[c.p.set]
  <2>1. ~Written(i, c.p.set) /\ TagStep(i)
    BY Wires, WrittenWhen
  <2> QED BY <1>2, <2>1, RowStep
<1> QED BY <1>2, <1>4, <1>6, <1>7, <1>8 DEF x

LEMMA NoneSpoiled ==
    ASSUME NEW i, NEW ce, NEW snp, NEW ans, NEW w_ans, Clocked(i, ce, snp, ans, w_ans), DataState
    PROVE  /\ Spoiled(ce, ans) = {}
           /\ push_out => /\ push_addr = PushLine(c.p.wb) /\ pbuf[c.p.wb] = push_addr
                          /\ c.p.wb \in Word /\ ~c.dr.on
           /\ mem' = (mem \ Taken(i)) \cup (Landed(ce, snp, ans, w_ans) \ Taken(i))
<1>1. /\ PushWords /\ InStep /\ Pushing(c.p) /\ Step(i, ce, snp, ans, w_ans)
    BY Before DEF DataState, Types, Regs
<1>2. push_out => /\ push_addr = PushLine(c.p.wb) /\ pbuf[c.p.wb] = push_addr
                  /\ c.p.wb \in Word /\ ~c.dr.on
    BY <1>1 DEF push_out, PushWords, push_addr, PushLine, Pushing, InStep, DrainAlone
<1>3. Spoiled(ce, ans) = {}
    BY <1>2 DEF Spoiled
<1>4. mem' = (mem \ (Taken(i) \cup Spoiled(ce, ans))) \cup (Landed(ce, snp, ans, w_ans) \ Taken(i))
    BY <1>1 DEF Step
<1> QED BY <1>2, <1>3, <1>4

LEMMA PushWordsKept ==
    ASSUME NEW i, NEW ce, NEW snp, NEW ans, NEW w_ans, Clocked(i, ce, snp, ans, w_ans), DataState
    PROVE  PushWords'
<1> SUFFICES ASSUME c'.cst = "PUSH" PROVE PushWords'
    BY DEF PushWords
<1>1. /\ Types /\ Regs(c) /\ PushWords /\ Tables /\ Pushing(c.p) /\ (~ce => c' = c)
      /\ i.ce = ce /\ i.ans = ans
  <2>1. Types /\ Regs(c) /\ PushWords /\ Tables /\ Pushing(c.p)
    BY Before DEF DataState, Regs
  <2> QED BY <2>1, Wires
<1>2. /\ ImageStep(i) /\ (c.cst = "PUSH" => ~tag_we(i) /\ Taken(i) = {})
    BY Wires DEF tag_we, FillValid, Taken
<1>3. mem' = (mem \ Taken(i)) \cup (Landed(ce, snp, ans, w_ans) \ Taken(i))
    BY NoneSpoiled
<1>4. CASE \E s \in Set, m \in SUBSET Way, ret \in {"IDLE", "LOOK", "SWEEP"} :
                     m # {} /\ m \subseteq db[s] /\ Begins(i, c', s, m, ret)
  <2>1. c'.p.out = FALSE /\ c'.p.rb = 0
    BY <1>4 DEF Begins, FirstPush, NoPush
  <2>2. \A b \in Word : b \in Nat
    BY Sizes DEF Word
  <2>3. \A b \in Word : ~(b + 1 < 0)
    BY <2>2
  <2> QED BY <2>1, <2>3 DEF PushWords
<1>5. CASE ce /\ c.cst = "PUSH" /\ Another(i, c')
  <2>1. c'.p.out = FALSE /\ c'.p.rb = 0
    BY <1>5 DEF Another, FirstPush, NoPush
  <2>2. \A b \in Word : b \in Nat
    BY Sizes DEF Word
  <2>3. \A b \in Word : ~(b + 1 < 0)
    BY <2>2
  <2> QED BY <2>1, <2>3 DEF PushWords
<1>6. ASSUME c.cst = "PUSH", c'.p.set = c.p.set, c'.p.way = c.p.way
      PROVE  /\ tq' = tags'[c'.p.set]
             /\ \A b \in Word : PushLine(b)' = PushLine(b) /\ PushLine(b) \notin i.fresh
             /\ tags'[c'.p.set] = tags[c.p.set]
             /\ mem \subseteq mem'
  <2>1. tags'[c.p.set] = tags[c.p.set] /\ \A b \in Word : PushLine(b) \notin i.fresh
    BY <1>6, PushLineHeld, NilIsNone
  <2>2. tq' = tags[c.p.set]
    BY <1>2, <1>6 DEF ImageStep, tag_ridx
  <2>3. \A b \in Word : PushLine(b)' = PushLine(b)
    BY <1>6, <2>1 DEF PushLine
  <2> QED BY <1>2, <1>3, <1>6, <2>1, <2>2, <2>3
<1>7. CASE c.cst = "PUSH" /\ ~ce
  <2>1. c' = c
    BY <1>1, <1>7
  <2>2. /\ \A w \in Way : dq'[w] = Aged(i, dq[w])
        /\ \A b \in Word : pbuf'[b] = Aged(i, pbuf[b])
    BY <1>1, <1>2, <1>7 DEF ImageStep
  <2>3. c.p.way \in Way /\ c.p.rb \in 0..Beats
    BY <1>1 DEF Pushing
  <2>4. c.p.rb > 0 => c.p.rb - 1 \in Word
    BY <2>3, Sizes DEF Word
  <2> QED BY <1>1, <1>6, <1>7, <2>1, <2>2, <2>3, <2>4 DEF PushWords, Aged
<1>8. CASE ce /\ c.cst = "PUSH" /\ Fetches(i, c')
  <2> DEFINE v == c.p.way
             n == c.p.rb
  <2>1. /\ ~c.p.out /\ n < Beats /\ ~c'.p.out /\ c'.p.rb = n + 1 /\ c'.p.set = c.p.set /\ c'.p.way = v
    BY <1>1, <1>8 DEF Fetches, Pushing
  <2>10. \A b \in Word : PushLine(b) \notin i.fresh
    BY <1>6, <1>8, <2>1
  <2>2. v \in Way /\ n \in Word /\ n \in Nat /\ n + 1 - 1 = n /\ (n > 0 => n - 1 \in Word)
    <3>1. v \in Way /\ n \in 0..Beats
      BY <1>1 DEF Pushing
    <3> HIDE DEF n
    <3> QED BY <2>1, <3>1, Sizes DEF Word
  <2>3. Value(v, PushLine(n)) = cdata[c.p.set][v][n] /\ Value(v, PushLine(n)) = PushLine(n)
    BY <1>8, <2>2, PushLineHeld DEF Value
  <2>4. dq'[v] = Aged(i, cdata[c.p.set][v][n])
    BY <1>1, <1>2, <1>8, <2>1, <2>2 DEF ImageStep
  <2>5. \A b \in Word : pbuf'[b] = Aged(i, IF n = b + 1 THEN dq[v] ELSE pbuf[b])
    BY <1>1, <1>2, <1>8, <2>1 DEF ImageStep
  <2>6. /\ n > 0 => dq[v] = PushLine(n - 1)
        /\ \A b \in Word : b + 1 < n => pbuf[b] = PushLine(b)
    BY <1>1, <1>8, <2>1 DEF PushWords
  <2>7. dq'[v] = PushLine(n)
    BY <1>6, <1>8, <2>1, <2>2, <2>3, <2>4 DEF Aged
  <2>8. ASSUME NEW b \in Word, b + 1 < n + 1 PROVE pbuf'[b] = PushLine(b)
    <3>1. b \in Nat
      BY Sizes DEF Word
    <3> HIDE DEF n, v
    <3>2. CASE n = b + 1
      <4>1. n > 0 /\ n - 1 = b
        BY <2>2, <3>1, <3>2
      <4>2. PushLine(n - 1) = PushLine(b)
        BY <4>1
      <4> QED BY <2>10, <2>5, <2>6, <3>2, <4>1, <4>2 DEF Aged
    <3>3. CASE n # b + 1
      <4>1. b + 1 < n
        BY <2>2, <2>8, <3>1, <3>3
      <4> QED BY <2>10, <2>5, <2>6, <3>3, <4>1 DEF Aged
    <3> QED BY <3>2, <3>3
  <2> HIDE DEF n, v
  <2>9. /\ ~c'.p.out => /\ c'.p.rb > 0 => dq'[c'.p.way] = PushLine(c.p.rb - 1)' /\ tq' = tags'[c'.p.set]
                        /\ \A b \in Word : b + 1 < c'.p.rb => pbuf'[b] = PushLine(b)'
    <3>1. c'.p.rb - 1 = n
      BY <2>1, <2>2
    <3>2. PushLine(c.p.rb - 1)' = PushLine(n)
      <4>1. PushLine(c.p.rb - 1)' = AddrOf(tags'[c'.p.set][c'.p.way], c'.p.set, n)
        BY <3>1 DEF PushLine
      <4> QED BY <1>6, <1>8, <2>1, <4>1 DEF PushLine, v
    <3> QED BY <1>6, <1>8, <2>1, <2>7, <2>8, <3>2 DEF v
  <2> QED BY <2>1, <2>9 DEF PushWords
<1>9. CASE ce /\ c.cst = "PUSH" /\ Opens(i, c')
  <2> DEFINE v == c.p.way
             n == c.p.rb
  <2>1. /\ ~c.p.out /\ n = Beats /\ c'.p.out /\ c'.p.wb = 0 /\ c'.p.set = c.p.set /\ c'.p.way = v
        /\ c'.p.tag = tq[v]
    BY <1>1, <1>9 DEF Opens, Pushing
  <2>10. \A b \in Word : PushLine(b) \notin i.fresh
    BY <1>6, <1>9, <2>1
  <2>2. v \in Way /\ Beats \in Nat /\ Beats > 0
    BY <1>1, Sizes DEF Pushing
  <2>3. \A b \in Word : pbuf'[b] = Aged(i, IF n = b + 1 THEN dq[v] ELSE pbuf[b])
    BY <1>1, <1>2, <1>9, <2>1 DEF ImageStep
  <2>4. /\ dq[v] = PushLine(n - 1) /\ tq = tags[c.p.set]
        /\ \A b \in Word : b + 1 < n => pbuf[b] = PushLine(b)
    BY <1>1, <1>9, <2>1, <2>2 DEF PushWords
  <2>5. ASSUME NEW b \in Word PROVE pbuf'[b] = PushLine(b) /\ ~(b < 0)
    <3>1. b \in Nat /\ b < Beats
      BY Sizes DEF Word
    <3> HIDE DEF n, v
    <3>2. CASE n = b + 1
      <4>1. n - 1 = b
        BY <3>1, <3>2
      <4>2. PushLine(n - 1) = PushLine(b)
        BY <4>1
      <4> QED BY <2>10, <2>3, <2>4, <3>1, <3>2, <4>2 DEF Aged
    <3>3. CASE n # b + 1
      <4>1. b + 1 < n
        BY <2>1, <2>2, <3>1, <3>3
      <4> QED BY <2>10, <2>3, <2>4, <3>1, <3>3, <4>1 DEF Aged
    <3> QED BY <3>2, <3>3
  <2> QED BY <1>6, <1>9, <2>1, <2>4, <2>5 DEF PushWords
<1>10. CASE ce /\ c.cst = "PUSH" /\ (Moves(i, c') \/ Raises(i, c'))
  <2>1. /\ c.p.out /\ c'.p.out /\ c'.p.set = c.p.set /\ c'.p.way = c.p.way /\ c'.p.tag = c.p.tag
        /\ c'.p.wb = c.p.wb \/ (c'.p.wb = c.p.wb + 1 /\ push_out /\ ans = "ack")
    BY <1>1, <1>10 DEF Moves, Raises, Pushing, push_out
  <2>2. \A b \in Word : pbuf'[b] = Aged(i, pbuf[b])
    BY <1>1, <1>2, <1>10, <2>1 DEF ImageStep
  <2>3. /\ c.p.tag = tags[c.p.set][c.p.way]
        /\ \A b \in Word : pbuf[b] = PushLine(b)
        /\ \A b \in Word : b < c.p.wb => PushLine(b) \in mem
    BY <1>1, <1>10, <2>1 DEF PushWords
  <2>4. ASSUME NEW b \in Word, b < c'.p.wb PROVE PushLine(b) \in mem'
    <3>1. CASE b < c.p.wb
      BY <1>6, <1>10, <2>1, <2>3, <3>1
    <3>2. CASE ~(b < c.p.wb)
      <4>1. c'.p.wb = c.p.wb + 1 /\ push_out /\ ans = "ack"
        BY <2>1, <2>4, <3>2
      <4>2. b = c.p.wb
        <5>1. b \in Nat /\ c.p.wb \in Nat
          BY <1>1, Sizes DEF Pushing, Word
        <5> QED BY <2>4, <3>2, <4>1, <5>1
      <4>3. push_addr = PushLine(b) /\ pbuf[c.p.wb] = push_addr /\ ~c.dr.on
        BY <4>1, <4>2, NoneSpoiled
      <4>4. push_addr \in Landed(ce, snp, ans, w_ans)
        BY <1>10, <4>1, <4>3 DEF Landed
      <4> QED BY <1>2, <1>3, <1>10, <4>3, <4>4
    <3> QED BY <3>1, <3>2
  <2> QED BY <1>6, <1>10, <2>1, <2>2, <2>3, <2>4 DEF PushWords, Aged
<1> QED BY <1>4, <1>5, <1>7, <1>8, <1>9, <1>10, PushFrom

----------------------------------------------------------------------------
(* Nothing is lost, and the rows behind a sweep. *)

\* A drain goes on until it is answered.
LEMMA DrainKept ==
    ASSUME NEW i, NEW ce, NEW snp, NEW ans, NEW w_ans, Clocked(i, ce, snp, ans, w_ans), c.dr.on,
           ans = "none"
    PROVE  c'.dr = c.dr
<1>1. InStep /\ i.ans = ans /\ (~ce => c' = c)
    BY Before, Wires
<1>2. c.cst # "PASS"
    BY <1>1 DEF InStep, DrainAlone
<1>3. ce => Bus(i, c')
  <2> SUFFICES ASSUME ce PROVE Bus(i, c')
    OBVIOUS
  <2>1. ~PassMoves(i, c')
    BY <1>2 DEF PassMoves, Merges, Drains, Passes, Stays
  <2>2. IdleMoves(i, c') => Bus(i, c')
    BY DEF IdleMoves, Waits, Looks, Sweeps, Writes, Updates, Stores, Bypasses, Reads, Begins, Keep
  <2>3. LineMoves(i, c') => Bus(i, c')
    BY DEF LineMoves, Waits, Hits, Evicts, Misses, Beaten, Filled, Fails, Tags, Recovers, Clears,
           Empties, Ends, Counts, Begins, Keep, Back
  <2>4. PushMoves(i, c') => Bus(i, c')
    BY DEF PushMoves, Rereads, Found, Absent, Fetches, Opens, Breaks, Moves, Finishes, Another,
           Raises, Pushes, Begins
  <2> QED BY <2>1, <2>2, <2>3, <2>4, Moved
<1> QED BY <1>1, <1>3 DEF Bus, DrAfter

LEMMA NothingGoneKept ==
    ASSUME NEW i, NEW ce, NEW snp, NEW ans, NEW w_ans, Clocked(i, ce, snp, ans, w_ans), DataState
    PROVE  NothingGone'
<1> SUFFICES ASSUME NEW a \in Addr, a \notin mem', a \notin InFlight' PROVE \E w \in Way : DirtyHolds(w, a)'
    BY DEF NothingGone
<1>1. /\ Types /\ InStep /\ Pending /\ Rows /\ PassImage /\ NothingGone /\ Regs(c) /\ Tables
      /\ c.a \in Addr /\ SetOf(c.a) \in Set /\ SetOf(a) \in Set
    BY Before, AddrParts DEF DataState
<1>2. /\ i.ce = ce /\ ce \in BOOLEAN /\ i.ans = ans /\ (~ce => c' = c /\ ans = "none") /\ TagStep(i) /\ DirtyStep(i)
      /\ Pins(i) /\ (ans = "err" => ~c.dr.on) /\ ans \in {"none", "ack", "err"}
  <2>1. /\ i.ce = ce /\ ce \in BOOLEAN /\ i.ans = ans /\ (~ce => c' = c) /\ TagStep(i) /\ DirtyStep(i)
        /\ Pins(i) /\ (ans = "err" => ~c.dr.on) /\ (ans # "none" => ce)
    BY Wires
  <2> QED BY <2>1 DEF Pins
<1>3. a \notin Taken(i)
  <2>1. a \in Taken(i) => c'.st_posted /\ a \in Touched(c')
    BY TakenWhen
  <2> QED BY <2>1 DEF InFlight, Touched
<1>4. a \notin mem /\ a \notin Landed(ce, snp, ans, w_ans)
    BY <1>3, NoneSpoiled
<1>5. CASE c.dr.on /\ a \in Touched(c.dr)
  <2>1. ~(ce /\ ans = "ack")
    BY <1>4, <1>5 DEF Landed
  <2>2. c'.dr = c.dr
    BY <1>2, <1>5, <2>1, DrainKept
  <2> QED BY <1>5, <2>2 DEF InFlight, Touched
<1>6. CASE c.st_posted /\ a \in Touched(c)
  <2>1. c.cst = "PASS"
    BY <1>1, <1>6 DEF InStep, Posted
  <2>2. CASE ~ce
    BY <1>2, <1>6, <2>2 DEF InFlight, Touched
  <2>3. CASE ce /\ Drains(i, c')
    BY <1>6, <2>3 DEF Drains, InFlight, Touched
  <2>4. CASE ce /\ Merges(i, c')
    <3>1. st_merge(i) /\ c.r_cb /\ c.st_chk
      BY <2>4 DEF Merges, st_merge
    <3>2. c.n = 1
      BY <3>1, MergeQuiet
    <3>3. a = c.a
      BY <1>1, <1>6, <3>2, TouchedRows DEF Regs
    <3>4. hit_way \in Way /\ tags[SetOf(c.a)][hit_way] = TagOf(c.a)
      BY <1>1, <1>2, <3>1, MergeValid
    <3>5. ~Written(i, SetOf(c.a))
      BY <2>1, WrittenWhen
    <3>6. tags'[SetOf(c.a)] = tags[SetOf(c.a)]
      BY <1>1, <1>2, <3>5, RowStep
    <3>7. hit_way \in db'[SetOf(c.a)]
      BY <1>1, <1>2, <2>4, <3>1, <3>4 DEF DirtyStep, Tables
    <3>8. PICK w \in Way : w = hit_way
      BY <3>4
    <3>9. DirtyHolds(w, a)'
      BY <3>3, <3>4, <3>6, <3>7, <3>8 DEF DirtyHolds
    <3> QED BY <3>9
  <2>5. ce => Drains(i, c') \/ Merges(i, c')
    BY <1>6, <2>1, Moved DEF IdleMoves, Waits, Looks, Sweeps, Writes, Taking, Updates, Stores, Bypasses, Reads,
           PassMoves, Passes, Stays, LineMoves, Hits, LookHits, Evicts, Misses,
           Beaten, Filled, Fails, Tags, Back, Recovers, Clears, Empties, sweep_push, Ends, Counts,
           PushMoves, Rereads, Found, Absent, Fetches, Opens, Breaks, Moves, Finishes, Another,
           Raises, Pushes
  <2> QED BY <2>2, <2>3, <2>4, <2>5
<1>7. CASE a \notin InFlight
  <2>1. PICK w \in Way : DirtyHolds(w, a)
    BY <1>4, <1>7 DEF NothingGone, DataState
  <2>2. CASE /\ ce /\ push_out /\ ans = "ack" /\ c.p.wb = Beats - 1
             /\ SetOf(a) = c.p.set /\ w = c.p.way
    <3>1. WordOf(a) \in Word /\ a = AddrOf(TagOf(a), SetOf(a), WordOf(a))
      BY AddrParts
    <3>2. PushLine(WordOf(a)) = a
      BY <2>1, <2>2, <3>1 DEF PushLine, DirtyHolds
    <3>3. c.cst = "PUSH" /\ c.p.out /\ push_addr = PushLine(c.p.wb) /\ pbuf[c.p.wb] = push_addr /\ ~c.dr.on
      BY <2>2, NoneSpoiled DEF push_out
    <3>4. CASE WordOf(a) = c.p.wb
      BY <1>4, <2>2, <3>2, <3>3, <3>4 DEF Landed
    <3>5. CASE WordOf(a) # c.p.wb
      <4>1. WordOf(a) < c.p.wb
        <5>1. PICK b \in Word : b = WordOf(a)
          BY <3>1
        <5>2. b \in Nat /\ b <= Beats - 1 /\ Beats \in Nat
          BY Sizes DEF Word
        <5>3. b # Beats - 1
          BY <2>2, <3>5, <5>1
        <5>4. b < Beats - 1
          BY <5>2, <5>3
        <5> QED BY <2>2, <5>1, <5>4
      <4> QED BY <1>4, <3>1, <3>2, <3>3, <4>1 DEF DataState, PushWords
    <3> QED BY <3>4, <3>5
  <2> QED BY <2>1, <2>2, DirtyAfter
<1> QED BY <1>5, <1>6, <1>7 DEF InFlight

\* Who starts a sweep, and who ends it.
LEMMA SweepFrom ==
    ASSUME NEW i, NEW ce, NEW snp, NEW ans, NEW w_ans, Clocked(i, ce, snp, ans, w_ans), ce
    PROVE  /\ Sweeping' => Sweeping \/ Sweeps(i, c')
           /\ c'.cinv_done => Ends(i, c')
           /\ c.cst = "SWEEP" /\ ~sweep_push => Ends(i, c') \/ Counts(i, c')
<1>1. c.p.ret \in {"IDLE", "LOOK", "SWEEP"}
    BY Before DEF Regs, Pushing
<1>2. CASE IdleMoves(i, c')
    BY <1>2 DEF IdleMoves, Waits, Looks, Sweeps, Writes, Updates, Stores, Bypasses, Reads, Begins,
           FirstPush, NoPush, Told, Sweeping, Taking, sweep_push
<1>3. CASE PassMoves(i, c')
    BY <1>3 DEF PassMoves, Merges, Drains, Passes, Stays, PassBus, Leaves, Told, Sweeping, sweep_push
<1>4. CASE LineMoves(i, c')
    BY <1>4 DEF LineMoves, Waits, Hits, LookHits, Evicts, Misses, Beaten, Filled, Fails, Tags, Recovers, Clears,
           Empties, Ends, Counts, Begins, Keep, Back, FirstPush, NoPush, Told, Sweeping, sweep_push, KeepSeq
<1>5. CASE PushMoves(i, c')
  <2>1. c.cst \in {"WLOOK", "PUSH"} /\ ~c'.cinv_done
    BY <1>5 DEF PushMoves, Rereads, Found, Absent, Fetches, Opens, Breaks, Moves, Finishes, Another,
           Raises, Pushes, Begins, Told
  <2>2. ASSUME Sweeping' PROVE Sweeping
    <3>1. CASE Fetches(i, c') \/ Opens(i, c') \/ Moves(i, c') \/ Raises(i, c')
      <4>1. DOMAIN c.p = DOMAIN NoPush /\ c.cst = "PUSH" /\ c'.cst = "PUSH"
        BY <3>1, Before DEF Regs, Pushing, NoPush, Fetches, Opens, Moves, Raises, Pushes
      <4>2. c'.p.ret = c.p.ret
        BY <3>1, Before DEF Regs, Pushing, Fetches, Opens, Moves, Raises
      <4> QED BY <2>2, <4>1, <4>2 DEF Sweeping
    <3>2. CASE Rereads(i, c') \/ Found(i, c') \/ Absent(i, c')
      BY <2>2, <3>2 DEF Rereads, Found, Absent, Begins, FirstPush, NoPush, Sweeping
    <3>3. CASE Breaks(i, c') \/ Finishes(i, c')
      <4>1. c.cst = "PUSH" /\ c'.cst = c.p.ret
        BY <3>3 DEF Breaks, Finishes, Pushes
      <4> QED BY <1>1, <2>2, <4>1 DEF Sweeping
    <3>4. CASE Another(i, c')
      <4>1. c.cst = "PUSH" /\ c'.cst = "PUSH" /\ c'.p.ret = c.p.ret
        BY <3>4 DEF Another, Pushes, Begins, FirstPush, NoPush
      <4> QED BY <1>1, <2>2, <4>1 DEF Sweeping
    <3> QED BY <1>5, <3>1, <3>2, <3>3, <3>4 DEF PushMoves
  <2> QED BY <2>1, <2>2
<1> QED BY <1>2, <1>3, <1>4, <1>5, Moved

LEMMA SweptKept ==
    ASSUME NEW i, NEW ce, NEW snp, NEW ans, NEW w_ans, Clocked(i, ce, snp, ans, w_ans), DataState
    PROVE  Swept'
<1>1. /\ Types /\ InStep /\ Rows /\ Swept /\ Regs(c) /\ Tables
    BY Before DEF DataState
<1>2. /\ i.ce = ce /\ ce \in BOOLEAN /\ (~ce => c' = c /\ db' = db) /\ TagStep(i) /\ DirtyStep(i) /\ Pins(i)
    BY Wires
<1>3. ASSUME NEW s \in Set, vb[s] = {}, db[s] = {}, ~(c.cst = "TAGW" /\ ce), ~(ce /\ c.cst = "PASS")
      PROVE  vb'[s] = {} /\ db'[s] = {}
  <2>1. db'[s] = {}
    <3>1. ~(i.ce /\ st_merge(i))
      BY <1>2, <1>3 DEF st_merge
    <3>2. db'[s] \subseteq db[s]
      BY <1>1, <1>2, <3>1, DirtyRow
    <3> QED BY <1>3, <3>2
  <2>2. CASE Written(i, s)
    <3>1. c.cst = "SWEEP"
      BY <1>2, <1>3, <2>2, WrittenWhen
    <3>2. vb'[s] = vb[s] \cap db[s] \/ vb'[s] = {}
      BY <1>2, <2>2, <3>1, RowStep
    <3> QED BY <1>3, <2>1, <3>2
  <2>3. CASE ~Written(i, s)
    <3>1. vb'[s] = vb[s] \/ vb'[s] = vb[s] \cap db[s]
      BY <1>2, <2>3, RowStep
    <3> QED BY <1>3, <2>1, <3>1
  <2> QED BY <2>1, <2>2, <2>3
<1>4. ASSUME Sweeping PROVE c.cst \notin {"TAGW", "PASS"}
    BY <1>4 DEF Sweeping
<1>5. ASSUME Sweeping', NEW s \in Set, s < c'.cnt PROVE vb'[s] = {} /\ db'[s] = {}
  <2>1. CASE ~Sweeping
    <3>1. ce /\ Sweeps(i, c')
      <4>1. ce
        BY <1>2, <1>5, <2>1 DEF Sweeping
      <4> QED BY <1>5, <2>1, <4>1, SweepFrom
    <3>2. c'.cnt = 0 /\ s \in Nat
      BY <3>1, Sizes DEF Sweeps, Set
    <3> QED BY <1>5, <3>2
  <2>2. CASE Sweeping /\ s < c.cnt
    BY <1>1, <1>3, <1>4, <2>2 DEF Swept
  <2>3. CASE Sweeping /\ ~(s < c.cnt)
    <3>1. ce /\ c.cst = "SWEEP" /\ ~sweep_push /\ (c.cnt \in Set => Written(i, c.cnt))
      BY <1>5, <2>3, SweepServed
    <3>2. Ends(i, c') \/ Counts(i, c')
      BY <3>1, SweepFrom
    <3>3. c'.cnt = c.cnt + 1
      BY <1>5, <3>2 DEF Ends, Counts, Sweeping
    <3>4. s = c.cnt
      <4>1. s \in Nat /\ c.cnt \in Nat
        BY <1>1, Sizes DEF Set, Regs
      <4> QED BY <1>5, <2>3, <3>3, <4>1
    <3>5. db[s] = {} /\ Written(i, s)
      BY <3>1, <3>4, WrittenWhen
    <3>6. vb'[s] = {}
      BY <1>2, <3>1, <3>5, RowStep
    <3>7. db'[s] = {}
      BY <1>1, <1>2, <3>1, <3>5, DirtyRow DEF st_merge
    <3> QED BY <3>6, <3>7
  <2> QED BY <2>1, <2>2, <2>3
<1>6. ASSUME c'.cinv_done, NEW s \in Set PROVE vb'[s] = {} /\ db'[s] = {}
  <2>1. CASE ~ce
    BY <1>1, <1>2, <1>3, <1>6, <2>1 DEF Swept
  <2>2. CASE ce
    <3>1. c.cst = "SWEEP" /\ c.cnt = 2 * Sets - 1
      BY <1>6, <2>2, SweepFrom DEF Ends, sweep_last
    <3>2. s < c.cnt
      BY <3>1, Sizes DEF Set
    <3> QED BY <1>1, <1>3, <3>1, <3>2 DEF Swept, Sweeping
  <2> QED BY <1>2, <2>1, <2>2
<1> QED BY <1>5, <1>6 DEF Swept

----------------------------------------------------------------------------
(* The data's invariant. *)

LEMMA DataInit == Init => DataState
<1> SUFFICES ASSUME Init PROVE DataState
    OBVIOUS
<1>1. /\ c.cst = "IDLE" /\ ~c.st_chk /\ ~c.wk_chk /\ ~c.cinv_done /\ ~walker_req
      /\ wst = "idle" /\ wsnp = Nil /\ mem = Addr /\ ~w_active
    BY DEF Init, CacheInit, walker_req
<1>2. \A s \in Set : vb[s] = {} /\ db[s] = {}
    BY DEF Init, CacheInit
<1>3. \A a \in Addr, w \in Way : ~Holds(w, a) /\ ~DirtyHolds(w, a)
    BY <1>2, AddrParts DEF Holds, DirtyHolds
<1>4. StoreRows /\ FillWay /\ FillWords /\ LookWords /\ LookRow /\ PushMask /\ PushWords
    BY <1>1 DEF StoreRows, FillWay, FillWords, LookWords, LookRow, PushMask, PushWords
<1>5. WalkerStrobes /\ WalkerClean
    BY <1>1 DEF WalkerStrobes, WalkerClean
<1>6. Copies /\ DirtyRight /\ NothingGone
  <2>1. Copies /\ DirtyRight
    BY <1>3 DEF Copies, DirtyRight
  <2>2. NothingGone
    BY <1>1 DEF NothingGone
  <2> QED BY <2>1, <2>2
<1>7. DirtyLines
    BY <1>3, SystemAssumption DEF DirtyLines, NoDirty
<1>8. Swept
    BY <1>1 DEF Swept, Sweeping
<1> QED BY <1>4, <1>5, <1>6, <1>7, <1>8 DEF DataState

LEMMA DataStutter == DataState /\ UNCHANGED vars => DataState'
<1> SUFFICES ASSUME DataState, UNCHANGED vars PROVE DataState'
    OBVIOUS
<1>1. UNCHANGED <<c, vb, db, rr, tags, cdata, vq, rq, tq, dq, pbuf, fill_snooped, look_snooped, st_snooped>>
    BY DEF vars, cacheVars
<1>2. UNCHANGED <<op, wst, w_active, w_issued, w_req_wr, w_req_addr, walker_wr_d, wsnp, s_last, mem>>
    BY DEF vars, mmuVars
<1>3. StoreRows' /\ FillWay'
    BY <1>1, <1>2 DEF DataState, StoreRows, FillWay
<1>4. WalkerStrobes'
    BY <1>1, <1>2 DEF DataState, WalkerStrobes, walker_req, walk_pend, NoHolder, Holds
<1>5. WalkerClean'
    BY <1>1, <1>2 DEF DataState, WalkerClean, walker_req, walk_pend, NoDirty, DirtyHolds
<1>6. Copies'
    BY <1>1, <1>2 DEF DataState, Copies, Holds, FillingIn, Value, Excused, Merging, Sweeping
<1>7. DirtyRight' /\ DirtyLines'
    BY <1>1, <1>2 DEF DataState, DirtyRight, DirtyLines, DirtyHolds, NoDirty, Value, Merging
<1>8. FillWords' /\ LookWords' /\ LookRow'
    BY <1>1, <1>2 DEF DataState, FillWords, LookWords, LookRow, look_hit, hits
<1>9. PushMask' /\ PushWords'
    BY <1>1, <1>2 DEF DataState, PushMask, PushWords, PushLine
<1>10. NothingGone' /\ Swept'
    BY <1>1, <1>2 DEF DataState, NothingGone, InFlight, DirtyHolds, Swept, Sweeping
<1> QED BY <1>3, <1>4, <1>5, <1>6, <1>7, <1>8, <1>9, <1>10 DEF DataState

LEMMA DataKept ==
    ASSUME NEW i, NEW ce, NEW snp, NEW ans, NEW w_ans, Clocked(i, ce, snp, ans, w_ans), DataState
    PROVE  DataState'
<1>1. StoreRows' /\ FillWay' /\ WalkerStrobes' /\ WalkerClean' /\ Copies'
    BY StoreRowsKept, FillWayKept, WalkerStrobesKept, WalkerCleanKept, CopiesKept
<1>2. DirtyRight' /\ DirtyLines' /\ FillWords' /\ LookWords' /\ LookRow'
    BY DirtyRightKept, DirtyLinesKept, FillWordsKept, LookWordsKept, LookRowKept
<1>3. PushMask' /\ PushWords' /\ NothingGone' /\ Swept'
    BY PushMaskKept, PushWordsKept, NothingGoneKept, SweptKept
<1> QED BY <1>1, <1>2, <1>3 DEF DataState

\* In a state of the invariant no read and no search is given an old value.
LEMMA ReadRight ==
    ASSUME NEW i, NEW ce, NEW snp, NEW ans, NEW w_ans, Clocked(i, ce, snp, ans, w_ans), DataState
    PROVE  ~ServesStale(ce, i)
<1>1. /\ Types /\ InStep /\ Rows /\ FillImage /\ Regs(c) /\ vq \subseteq Way /\ i.op = op
      /\ LookWords /\ StoreRows /\ NothingGone
    BY Before, Wires DEF Tables, DataState
<1>2. LookHits(i) => dq[hit_way] = c.a
  <2> SUFFICES ASSUME LookHits(i) PROVE dq[hit_way] = c.a
    OBVIOUS
  <2>1. c.cst = "LOOK" /\ look_hit /\ (~look_snooped \/ hit_dirty)
    BY DEF LookHits
  <2>2. hit_way \in vq /\ tq[hit_way] = TagOf(c.a)
    BY <1>1, <2>1, HitWayIn
  <2> QED BY <1>1, <2>1, <2>2 DEF LookWords, hit_dirty
<1>3. c.cst = "FILL" => fill_addr \in mem /\ i.rdata = fill_addr
  <2>1. i.rdata = IF fill_addr \in mem THEN fill_addr ELSE Nil
    BY Before DEF Step, Inputs
  <2> QED BY <1>1, <2>1, FillInMem
<1>4. passing /\ op.kind = "read" => Touched(op) \subseteq mem
  <2> SUFFICES ASSUME passing, op.kind = "read", NEW a \in Touched(op), a \notin mem PROVE FALSE
    OBVIOUS
  <2>1. c.cst = "PASS" /\ ~c.st_posted /\ ~c.st_chk /\ ~c.dr.on /\ c.a = op.a /\ c.n = op.n
    BY <1>1 DEF passing, InStep, Posted, DrainAlone, PassingOn
  <2>2. a \in Touched(c)
    BY <2>1 DEF Touched
  <2>3. a \in Addr /\ (SetOf(a) = SetOf(c.a) \/ (Crosses(c) /\ SetOf(a) = NextSet(c.a)))
    BY <1>1, <2>2, TouchedRows DEF Regs
  <2>4. db[SetOf(a)] = {}
    BY <1>1, <2>1, <2>3 DEF StoreRows
  <2>5. PICK w \in Way : DirtyHolds(w, a)
    BY <1>1, <2>1, <2>3 DEF NothingGone, InFlight
  <2> QED BY <2>4, <2>5 DEF DirtyHolds
<1> QED BY <1>2, <1>3, <1>4 DEF ServesStale

LEMMA DescRight ==
    ASSUME Types, InStep, WalkerClean, NothingGone, walker_req
    PROVE  w_req_addr \in mem
<1>1. w_req_addr \in Addr /\ wst # "idle"
    BY DEF Types, Search, walker_req
<1>2. ~c.dr.on /\ ~c.st_posted
    BY <1>1 DEF InStep, SearchAlone, Posted
<1> QED BY <1>1, <1>2 DEF NothingGone, InFlight, WalkerClean, NoDirty

\* The inductive invariant of the rows and of the data in them.
Sound == RowState /\ DataState /\ ~stale_read /\ ~stale_desc

LEMMA SoundKept ==
    ASSUME Orderly, Sound, NEW i, NEW ce, NEW snp, NEW ans, NEW w_ans, Step(i, ce, snp, ans, w_ans)
    PROVE  Sound'
<1>1. RowState'
    BY TypesStep, InStepKept, RowStateKept DEF Sound, RowState
<1>2. Clocked(i, ce, snp, ans, w_ans) /\ DataState
    BY <1>1 DEF Clocked, Sound
<1>3. DataState' /\ ~ServesStale(ce, i)
    BY <1>2, DataKept, ReadRight
<1>4. ce /\ w_ans = "ack" => w_req_addr \in mem
  <2>1. Types /\ InStep /\ WalkerClean /\ NothingGone /\ (w_ans = "ack" => walker_req)
    BY <1>2, Before, Wires DEF DataState
  <2> QED BY <2>1, DescRight
<1>5. /\ stale_read' = (stale_read \/ ServesStale(ce, i))
      /\ stale_desc' = \/ stale_desc
                       \/ ce /\ w_ans = "ack" /\ ~w_req_wr /\ w_req_addr \notin mem
    BY DEF Step
<1> QED BY <1>1, <1>3, <1>4, <1>5 DEF Sound

(* The rows and the data keep their invariant in every clock of the cache,   *)
(* the search, the drain and the strobes (ap040_cache.v:1073-1755).          *)
THEOREM CacheInductive == ASSUME Orderly PROVE Spec => []Sound
<1>1. Init => Sound
    BY TypesInit, InStepInit, RowStateInit, DataInit DEF RowState, Sound, Init
<1>2. Sound /\ [Next]_vars => Sound'
  <2> SUFFICES ASSUME Sound, [Next]_vars PROVE Sound'
    OBVIOUS
  <2>1. CASE Next
    BY <2>1, StepOfNext, SoundKept
  <2>2. CASE UNCHANGED vars
    <3>1. RowState'
      BY <2>2, TypesStutter, InStepStutter, RowStateStutter DEF Sound, RowState
    <3>2. UNCHANGED <<stale_read, stale_desc>>
      BY <2>2 DEF vars
    <3> QED BY <2>2, <3>1, <3>2, DataStutter DEF Sound
  <2> QED BY <2>1, <2>2
<1> QED BY <1>1, <1>2, PTL DEF Spec

(* No read the core makes is given an old value, whether a line, a fill or   *)
(* memory answers it (ap040_cache.v:1315-1438, 1591-1709): the image of a    *)
(* row that was strobed is used only for its dirty ways, a fill starts after *)
(* the drain, and an access past the cache after the push of its rows.       *)
THEOREM CacheReadsLatest == ASSUME Orderly PROVE Spec => []ReadsLatest
<1>1. Sound => ReadsLatest
    BY DEF Sound, ReadsLatest
<1> QED BY <1>1, CacheInductive, PTL

(* No table search reads an old descriptor: the search waits for the posted  *)
(* stores, and its every request for the dirty line that holds what it reads *)
(* (ap040_mmu.v:50-77, ap040_cache.v:111-137).                               *)
THEOREM CacheDescriptorsLatest == ASSUME Orderly PROVE Spec => []DescriptorsLatest
<1>1. Sound => DescriptorsLatest
    BY DEF Sound, DescriptorsLatest
<1> QED BY <1>1, CacheInductive, PTL

(* The last value of every longword is in memory, in a dirty valid line or   *)
(* in the posted store on its way, in every clock of a push, a merge, a fill *)
(* that evicts and a row clear (ap040_cache.v:860-890, 975-1022, 1544-1589). *)
THEOREM CacheNothingLost == ASSUME Orderly PROVE Spec => []NothingLost
<1>1. Sound => NothingLost
  <2> SUFFICES ASSUME Sound, NEW a \in Addr, a \notin mem, a \notin InFlight PROVE InDirtyLine(a)
    BY DEF NothingLost
  <2>1. Regs(c) /\ Posted /\ Rows /\ NothingGone /\ DirtyRight /\ SetOf(a) \in Set
    BY AddrParts DEF Sound, RowState, Types, InStep, DataState
  <2>2. PICK w \in Way : DirtyHolds(w, a)
    BY <2>1 DEF NothingGone
  <2>3. ~Merging(a)
    <3>1. Merging(a) => c.st_posted /\ a = c.a /\ c.a \in Nat /\ c.n \in 1..2
      BY <2>1, Sizes DEF Merging, Posted, Regs, Addr
    <3>2. Merging(a) => a \in Touched(c)
      BY <3>1 DEF Touched
    <3> QED BY <3>1, <3>2 DEF InFlight
  <2>4. Value(w, a) = a
    BY <2>1, <2>2, <2>3 DEF DirtyRight
  <2>5. w \in db[SetOf(a)] \cap vb[SetOf(a)] /\ tags[SetOf(a)][w] = TagOf(a)
    BY <2>1, <2>2 DEF DirtyHolds, Rows
  <2> QED BY <2>4, <2>5 DEF InDirtyLine, Value
<1> QED BY <1>1, CacheInductive, PTL

(* An answered CINV/CPUSH leaves the bank empty and, but for a store on its  *)
(* way, everything in memory, whatever strobes and pushes the sweep met      *)
(* (ap040_cache.v:1498-1522).                                                *)
THEOREM CacheSweptClean == ASSUME Orderly PROVE Spec => []SweptClean
<1>1. Sound => SweptClean
  <2> SUFFICES ASSUME Sound, c.cinv_done PROVE SweptClean
    BY DEF SweptClean
  <2>1. \A s \in Set : vb[s] = {} /\ db[s] = {}
    BY DEF Sound, DataState, Swept
  <2>2. ASSUME NEW a \in Addr, a \notin mem, a \notin InFlight PROVE FALSE
    BY <2>1, <2>2, AddrParts DEF Sound, DataState, NothingGone, DirtyHolds
  <2> QED BY <2>1, <2>2 DEF SweptClean
<1> QED BY <1>1, CacheInductive, PTL
====
