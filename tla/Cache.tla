---- MODULE Cache ----
(* rtl/compat/ap040_cache.v: the data bank of the physically tagged cache,   *)
(* with posted stores and copyback.  The parameters POST_STORES = 1,         *)
(* COPYBACK = 1, FILL_CHANNEL = 0, WALLOC = 0, MIS = 0 are built in, and the *)
(* data cache is enabled; the instruction bank and the read-only lookup      *)
(* copies (IFP) are left out.                                                *)
(*                                                                           *)
(* Memory is longwords numbered 0..Space-1.  A copy of a longword holds the  *)
(* longword's number while it is that longword's last value, and Nil once    *)
(* anyone has written a newer one: a copy read back is right exactly if it   *)
(* is the number asked for.  Clock(i) is one clock edge; i is what the       *)
(* inputs show in it, and the record c has the FSM's registers, which keep   *)
(* their value or take the last assignment, as in the source.  Registers     *)
(* that are dead until they are written again are cleared.                   *)

EXTENDS Naturals

CONSTANTS Sets, Ways, Beats,   \* 64 sets of 4 ways of 4 longwords
          Space                \* longwords of memory

ASSUME CacheAssumption ==
    /\ {Sets, Ways, Beats, Space} \subseteq Nat \ {0}
    /\ Space % (Sets * Beats) = 0

Set == 0..Sets-1
Way == 0..Ways-1
Word == 0..Beats-1
Addr == 0..Space-1
Nil == Space
Cell == Addr \cup {Nil}

WordOf(a) == a % Beats
SetOf(a) == (a \div Beats) % Sets
TagOf(a) == a \div (Beats * Sets)
AddrOf(t, s, w) == (t * Sets + s) * Beats + w
Touched(x) == x.a..(x.a + x.n - 1)

NoDrain == [on |-> FALSE, a |-> 0, n |-> 1]
NoPush == [set |-> 0, mask |-> {}, way |-> 0, out |-> FALSE, rb |-> 0, wb |-> 0,
           req |-> FALSE, ret |-> "IDLE", tag |-> 0]

VARIABLES
    c,                                     \* the FSM's registers
    vb, db, rr, tags, cdata,               \* valid, dirty, victim, tags, data
    vq, rq, tq, dq,                        \* the row and the words last read
    pbuf,                                  \* the line being pushed
    fill_snooped, look_snooped, st_snooped

cacheVars == <<c, vb, db, rr, tags, cdata, vq, rq, tq, dq, pbuf,
               fill_snooped, look_snooped, st_snooped>>

CacheInit ==
    /\ c = [cst |-> "IDLE", ack |-> FALSE, a |-> 0, n |-> 1, way |-> 0, beat |-> 0,
            st_chk |-> FALSE, st_posted |-> FALSE, r_cb |-> FALSE,
            dr |-> NoDrain, sil |-> Nil, winv |-> FALSE, set2 |-> 0,
            err_hold |-> FALSE, ci_chk |-> FALSE, ci_inv |-> Nil,
            p |-> NoPush, wk_chk |-> FALSE, wl_ph |-> FALSE,
            cnt |-> 0, cinv_done |-> FALSE, post_err |-> FALSE]
    /\ vb = [s \in Set |-> {}] /\ db = [s \in Set |-> {}] /\ rr = [s \in Set |-> 0]
    /\ tags = [s \in Set |-> [w \in Way |-> 0]]
    /\ cdata = [s \in Set |-> [w \in Way |-> [b \in Word |-> Nil]]]
    /\ vq = {} /\ rq = 0 /\ tq = [w \in Way |-> 0] /\ dq = [w \in Way |-> Nil]
    /\ pbuf = [b \in Word |-> Nil]
    /\ fill_snooped = FALSE /\ look_snooped = FALSE /\ st_snooped = FALSE

CacheTypeOK ==
    /\ c.cst \in {"IDLE", "LOOK", "FERR", "WINV", "FILL", "TAGW", "PASS", "SWEEP",
                  "PUSH", "WLOOK"}
    /\ c.a \in Addr /\ c.n \in 1..2 /\ c.way \in Way /\ c.beat \in Word
    /\ c.dr.a \in Addr /\ c.sil \in Set \cup {Nil} /\ c.ci_inv \in Set \cup {Nil}
    /\ c.p.set \in Set /\ c.p.mask \subseteq Way /\ c.p.way \in Way
    /\ c.p.wb \in Word /\ c.p.rb \in 0..Beats /\ c.cnt \in 0..2 * Sets - 1
    /\ vb \in [Set -> SUBSET Way] /\ db \in [Set -> SUBSET Way] /\ rr \in [Set -> Way]
    /\ tags \in [Set -> [Way -> Addr]] /\ cdata \in [Set -> [Way -> [Word -> Cell]]]
    /\ vq \subseteq Way /\ rq \in Way /\ tq \in [Way -> Addr] /\ dq \in [Way -> Cell]

(***************************************************************************)
(* Requests: op is [kind, a, n, ci, cb], n longwords from a.               *)
(***************************************************************************)

Update(op) == op.kind = "write" /\ op.n = 1 /\ ~op.ci         \* st_any_upd
Bypass(op) == op.kind = "write" \/ op.ci \/ op.n # 1
Posts(op) == op.kind = "write" /\ ~op.ci                      \* st_post_ok
Crosses(op) == op.n = 2 /\ WordOf(op.a) = Beats - 1
NextSet(a) == (SetOf(a) + 1) % Sets

LowWay(m) == CHOOSE w \in m : \A v \in m : w <= v

Cinv(i) == i.cinv /\ ~c.cinv_done
Asked(i) == c.cst = "IDLE" /\ i.req /\ ~c.ack
rd_accept(i) == Asked(i) /\ ~Cinv(i) /\ ~Bypass(i.op) /\ c.ci_inv = Nil
wr_accept_upd(i) == /\ Asked(i) /\ ~Cinv(i) /\ ~c.err_hold /\ c.sil = Nil /\ ~c.dr.on
                    /\ Update(i.op)

(***************************************************************************)
(* Write-backs.                                                            *)
(***************************************************************************)

\* Mutant of need_push: a store that cannot merge is let through.
need_push_reads(i) ==
    /\ Asked(i) /\ ~Cinv(i) /\ ~c.err_hold /\ ~c.dr.on /\ ~i.walk_busy
    /\ i.op.kind = "read" /\ Bypass(i.op)
    /\ db[SetOf(i.op.a)] # {} \/ (Crosses(i.op) /\ db[NextSet(i.op.a)] # {})

need_push(i) ==
    /\ Asked(i) /\ ~Cinv(i) /\ ~c.err_hold /\ ~c.dr.on /\ ~i.walk_busy
    /\ Bypass(i.op) /\ ~Update(i.op)
    /\ db[SetOf(i.op.a)] # {} \/ (Crosses(i.op) /\ db[NextSet(i.op.a)] # {})

wk_push(i) == i.wk_pend /\ db[SetOf(i.wk_addr)] # {} /\ ~c.wk_chk
wk_wait(i) == i.wk_pend /\ (wk_push(i) \/ c.cst \in {"WLOOK", "PUSH"})
wl_match(i) == {w \in db[c.p.set] : tq[w] = TagOf(i.wk_addr)}

sweep_hit == c.cnt < Sets                 \* cinv_dc; the instruction rows follow
sweep_push == c.cst = "SWEEP" /\ sweep_hit /\ db[c.cnt] # {}
sweep_busy == c.cst = "SWEEP"

\* Mutant of sweep_last: one row too many.
sweep_late == c.cnt = 2 * Sets
sweep_last == c.cnt = 2 * Sets - 1
push_out == c.cst = "PUSH" /\ c.p.out /\ c.p.req
post_busy == c.st_posted \/ c.dr.on \/ c.cst = "PUSH" \/ sweep_push

(***************************************************************************)
(* The lookup, the merge and the collisions with a snoop.                  *)
(***************************************************************************)

hits == {w \in vq : tq[w] = TagOf(c.a)}
look_hit == hits # {}
hit_way == LowWay(hits)
hit_dirty == hit_way \in db[SetOf(c.a)]

s_stb(i) == i.stb # Nil
SnoopsSet(i, s) == s_stb(i) /\ SetOf(i.stb) = s
snoop_wr(i) == s_stb(i) /\ ~(c.cst = "SWEEP" /\ sweep_hit /\ SnoopsSet(i, c.cnt))

LookHits(i) ==
    /\ c.cst = "LOOK" /\ look_hit
    /\ (~look_snooped /\ ~SnoopsSet(i, SetOf(i.op.a))) \/ hit_dirty

\* Mutant of st_merge: a snoop in the merge clock itself is overlooked.
st_merge_late(i) ==
    /\ c.cst = "PASS" /\ c.st_chk /\ look_hit /\ i.ans # "err"
    /\ ~st_snooped \/ hit_dirty

st_merge(i) ==
    /\ c.cst = "PASS" /\ c.st_chk /\ look_hit /\ i.ans # "err"
    /\ (~st_snooped /\ ~SnoopsSet(i, SetOf(c.a))) \/ hit_dirty

FillValid(i) == c.cst = "TAGW" /\ ~fill_snooped /\ ~SnoopsSet(i, SetOf(c.a))
tag_we(i) == FillValid(i) \/ (c.cst = "SWEEP" /\ sweep_hit /\ ~sweep_push)
tag_widx == IF c.cst = "SWEEP" THEN c.cnt ELSE SetOf(c.a)
tag_ridx(i) == IF c.cst \in {"PUSH", "WLOOK"} THEN c.p.set ELSE SetOf(i.op.a)

(***************************************************************************)
(* Port B: one row clear in a clock, a snoop first.                        *)
(***************************************************************************)

StoreClears(i) == /\ Asked(i) /\ i.op.kind = "write" /\ ~Update(i.op)
                  /\ c.sil = Nil /\ ~c.dr.on /\ ~need_push(i)
store_inv(i) == StoreClears(i) \/ (c.cst = "PASS" /\ c.winv) \/ c.cst = "WINV"
fill_err_inv(i) == c.cst = "FERR" /\ ~snoop_wr(i)
ci_inv(i) == /\ c.ci_inv # Nil /\ ~snoop_wr(i) /\ ~store_inv(i) /\ c.sil = Nil
             /\ ~fill_err_inv(i)

inv_wren(i) == snoop_wr(i) \/ (i.ce /\ (store_inv(i) \/ c.sil # Nil \/ fill_err_inv(i)
                                       \/ ci_inv(i)))
inv_idx(i) == IF snoop_wr(i) THEN SetOf(i.stb)
              ELSE IF fill_err_inv(i) THEN SetOf(c.a)
              ELSE IF ci_inv(i) THEN c.ci_inv
              ELSE IF c.sil # Nil THEN c.sil
              ELSE IF c.cst = "IDLE" THEN SetOf(i.op.a) ELSE c.set2

\* Mutant of vb_keep: a row clear takes the dirty ways with it.
vb_keep_none(s) == {}
vb_keep(s) == db[s]

(***************************************************************************)
(* The tables, the rows read from them and the snoop flags in one clock.   *)
(***************************************************************************)

TagStep(i) ==
    LET we == i.ce /\ tag_we(i)
        clears(s) == inv_wren(i) /\ s = inv_idx(i)
        writes(s) == we /\ s = tag_widx
    IN  /\ vb' = [s \in Set |-> IF clears(s) THEN vb[s] \cap vb_keep(s)
                                ELSE IF ~writes(s) THEN vb[s]
                                ELSE IF c.cst = "SWEEP" THEN {} ELSE vq \cup {c.way}]
        /\ rr' = [s \in Set |-> IF clears(s) THEN 0
                                ELSE IF ~writes(s) THEN rr[s]
                                ELSE IF c.cst = "SWEEP" THEN 0 ELSE (rq + 1) % Ways]
        /\ tags' = [s \in Set |-> IF ~writes(s) THEN tags[s]
                                  ELSE IF c.cst = "SWEEP" THEN [w \in Way |-> 0]
                                  ELSE [tq EXCEPT ![c.way] = TagOf(c.a)]]

DirtyStep(i) ==
    db' = IF ~i.ce THEN db
          ELSE IF st_merge(i) /\ c.r_cb THEN [db EXCEPT ![SetOf(c.a)] = @ \cup {hit_way}]
          ELSE IF push_out /\ i.ans = "err" THEN [db EXCEPT ![c.p.set] = @ \ c.p.mask]
          ELSE IF push_out /\ i.ans = "ack" /\ c.p.wb = Beats - 1
               THEN [db EXCEPT ![c.p.set] = @ \ {c.p.way}]
          ELSE IF c.cst = "TAGW" THEN [db EXCEPT ![SetOf(c.a)] = @ \ {c.way}]
          ELSE db

\* A copy of a longword that has just been written elsewhere is out of date; so
\* is, nothing being lost by it, what an invalid way holds.
Aged(i, v) == IF v \in i.fresh THEN Nil ELSE v

DataStep(i) ==
    LET cd == IF i.ce /\ c.cst = "FILL" /\ i.ans = "ack"
              THEN [cdata EXCEPT ![SetOf(c.a)][c.way][c.beat] = i.rdata]
              ELSE IF i.ce /\ st_merge(i)
              THEN [cdata EXCEPT ![SetOf(c.a)][hit_way][WordOf(c.a)] = c.a]
              ELSE cdata
        live(s, w) == \/ w \in vb'[s]
                      \/ c'.cst \in {"FILL", "TAGW"} /\ SetOf(c'.a) = s /\ c'.way = w
    IN  cdata' = [s \in Set |-> [w \in Way |-> [b \in Word |->
                     IF live(s, w) THEN Aged(i, cd[s][w][b]) ELSE Nil]]]

\* The row's image follows every clock, with the bits as they were before the edge.
ImageStep(i) ==
    LET row == IF tag_we(i) THEN tag_widx ELSE tag_ridx(i)
        push_rd == c.cst = "PUSH" /\ ~c.p.out /\ c.p.rb < Beats
        s == IF push_rd THEN c.p.set ELSE SetOf(i.op.a)
        b == IF push_rd THEN c.p.rb ELSE WordOf(i.op.a)
        used == c'.cst \in {"LOOK", "PASS", "TAGW", "WLOOK", "PUSH"}
    IN  /\ vq' = IF used THEN vb[row] ELSE {}
        /\ rq' = IF used THEN rr[row] ELSE 0
        /\ tq' = IF used THEN tags[row] ELSE [w \in Way |-> 0]
        /\ dq' = [w \in Way |->
                    IF i.ce /\ (push_rd \/ rd_accept(i) \/ wr_accept_upd(i))
                    THEN Aged(i, cdata[s][w][b])
                    ELSE IF i.ce /\ c.cst \notin {"PUSH", "LOOK"} THEN Nil
                    ELSE Aged(i, dq[w])]
        /\ pbuf' = IF ~i.ce THEN [k \in Word |-> Aged(i, pbuf[k])]
                   ELSE IF c.cst # "PUSH" THEN [k \in Word |-> Nil]
                   ELSE [k \in Word |-> Aged(i, IF ~c.p.out /\ c.p.rb = k + 1
                                                THEN dq[c.p.way] ELSE pbuf[k])]

\* Set by any strobe, cleared with the clock enable; the set wins.
\* Mutant of SnoopFlags: a fill does not watch the strobes.
SnoopFlagsNoFill(i) ==
    /\ fill_snooped' = FALSE
    /\ look_snooped' =
         \/ (rd_accept(i) \/ c.cst = "LOOK") /\ SnoopsSet(i, SetOf(i.op.a))
         \/ look_snooped /\ ~(i.ce /\ rd_accept(i))
    /\ st_snooped' =
         \/ wr_accept_upd(i) /\ SnoopsSet(i, SetOf(i.op.a))
         \/ c.st_chk /\ c.cst = "PASS" /\ SnoopsSet(i, SetOf(c.a))
         \/ st_snooped /\ ~(i.ce /\ wr_accept_upd(i))

SnoopFlags(i) ==
    /\ fill_snooped' =
         \/ c.cst \in {"FILL", "TAGW"} /\ SnoopsSet(i, SetOf(c.a))
         \/ fill_snooped /\ ~(i.ce /\ c.cst = "LOOK" /\ ~look_hit)
    /\ look_snooped' =
         \/ (rd_accept(i) \/ c.cst = "LOOK") /\ SnoopsSet(i, SetOf(i.op.a))
         \/ look_snooped /\ ~(i.ce /\ rd_accept(i))
    /\ st_snooped' =
         \/ wr_accept_upd(i) /\ SnoopsSet(i, SetOf(i.op.a))
         \/ c.st_chk /\ c.cst = "PASS" /\ SnoopsSet(i, SetOf(c.a))
         \/ st_snooped /\ ~(i.ce /\ wr_accept_upd(i))

(***************************************************************************)
(* The FSM, on an enabled clock.                                           *)
(***************************************************************************)

\* What an enabled clock does to the registers in every state.
Base(i) ==
    [c EXCEPT
        !.ack = FALSE, !.cinv_done = FALSE, !.post_err = c.dr.on /\ i.ans = "err",
        !.wk_chk = @ /\ i.wk_pend,
        !.ci_inv = IF ci_inv(i) THEN Nil ELSE @,
        !.dr = IF c.dr.on /\ i.ans # "none" THEN NoDrain ELSE @,
        !.sil = IF snoop_wr(i) /\ StoreClears(i) THEN SetOf(i.op.a)
                ELSE IF s_stb(i) THEN @ ELSE Nil]

ToIdle(b) == [b EXCEPT !.cst = "IDLE", !.a = 0, !.n = 1, !.way = 0, !.beat = 0, !.set2 = 0]

StartPush(b, set, mask, ret) ==
    [b EXCEPT !.cst = "PUSH",
              !.p = [NoPush EXCEPT !.set = set, !.mask = mask, !.way = LowWay(mask),
                                   !.ret = ret]]

PushForAccess(b, i) ==
    LET s1 == SetOf(i.op.a) s == IF db[s1] # {} THEN s1 ELSE NextSet(i.op.a)
    IN  StartPush(b, s, db[s], "IDLE")

AcceptUpdate(b, i) ==
    [b EXCEPT !.cst = "PASS", !.a = i.op.a, !.n = i.op.n, !.r_cb = i.op.cb,
              !.st_chk = TRUE, !.winv = FALSE, !.st_posted = TRUE, !.ack = TRUE]

AcceptStore(b, i) ==
    [b EXCEPT !.cst = "PASS", !.a = i.op.a, !.n = i.op.n,
              !.set2 = NextSet(i.op.a), !.winv = Crosses(i.op),
              !.st_posted = Posts(i.op), !.ack = Posts(i.op)]

AcceptBypass(b, i) == [b EXCEPT !.cst = "PASS", !.a = i.op.a, !.n = i.op.n, !.ci_chk = i.op.ci]

AcceptRead(b, i) == [b EXCEPT !.cst = "LOOK", !.a = i.op.a, !.n = 1]

\* Mutant of AcceptWrite: a store overtakes the draining one.
AcceptWriteAtOnce(b, i) ==
    IF c.sil # Nil THEN b
    ELSE IF Update(i.op) THEN AcceptUpdate(b, i) ELSE AcceptStore(b, i)

AcceptWrite(b, i) ==
    IF c.sil # Nil \/ c.dr.on THEN b
    ELSE IF Update(i.op) THEN AcceptUpdate(b, i) ELSE AcceptStore(b, i)

Idle(i) ==
    LET b == [Base(i) EXCEPT !.err_hold = @ /\ i.req]
    IN  IF wk_push(i) /\ ~c.dr.on
        THEN [b EXCEPT !.cst = "WLOOK", !.wl_ph = FALSE, !.p.set = SetOf(i.wk_addr)]
        ELSE IF Cinv(i) /\ ~i.walk_busy THEN [b EXCEPT !.cst = "SWEEP", !.cnt = 0]
        ELSE IF need_push(i) THEN PushForAccess(b, i)
        ELSE IF ~Asked(i) \/ c.err_hold THEN b
        ELSE IF i.op.kind = "write" THEN AcceptWrite(b, i)
        ELSE IF c.ci_inv # Nil THEN b
        ELSE IF Bypass(i.op) THEN IF c.dr.on THEN b ELSE AcceptBypass(b, i)
        ELSE AcceptRead(b, i)

Pass(i) ==
    LET busyB == s_stb(i) \/ c.sil # Nil         \* port B is taken
        b == [Base(i) EXCEPT
                !.winv = @ /\ busyB, !.ci_chk = FALSE, !.st_chk = FALSE,
                !.ci_inv = IF c.ci_chk /\ look_hit THEN SetOf(c.a) ELSE @,
                !.sil = IF c.st_chk /\ st_snooped THEN SetOf(c.a) ELSE @,
                !.st_posted = FALSE, !.r_cb = FALSE]
        left == IF c.winv /\ busyB THEN [b EXCEPT !.cst = "WINV"] ELSE ToIdle(b)
    IN  IF c.st_posted /\ c.r_cb /\ st_merge(i) THEN ToIdle(b)
        ELSE IF c.st_posted
        THEN [left EXCEPT !.dr = [on |-> TRUE, a |-> c.a, n |-> c.n]]
        ELSE IF i.ans = "err" THEN [left EXCEPT !.err_hold = TRUE]
        ELSE IF i.ans = "ack" THEN left
        ELSE b

\* Mutant of Look: the fill does not wait for the draining store.
LookAtOnce(i) ==
    IF LookHits(i) THEN [ToIdle(Base(i)) EXCEPT !.ack = TRUE]
    ELSE IF rq \in db[SetOf(c.a)]
    THEN IF i.walk_busy THEN Base(i) ELSE StartPush(Base(i), SetOf(c.a), {rq}, "LOOK")
    ELSE [Base(i) EXCEPT !.cst = "FILL", !.way = rq, !.beat = 0]

Look(i) ==
    IF LookHits(i) THEN [ToIdle(Base(i)) EXCEPT !.ack = TRUE]
    ELSE IF c.dr.on THEN Base(i)
    ELSE IF rq \in db[SetOf(c.a)]
    THEN IF i.walk_busy THEN Base(i) ELSE StartPush(Base(i), SetOf(c.a), {rq}, "LOOK")
    ELSE [Base(i) EXCEPT !.cst = "FILL", !.way = rq, !.beat = 0]

Fill(i) ==
    IF i.ans = "err" THEN [Base(i) EXCEPT !.cst = "FERR", !.err_hold = TRUE]
    ELSE IF i.ans = "none" THEN Base(i)
    ELSE IF c.beat = Beats - 1 THEN [Base(i) EXCEPT !.cst = "TAGW"]
    ELSE [Base(i) EXCEPT !.beat = @ + 1]

\* Mutant of Ferr: the hold is released in C_IDLE only.
FerrHolds(i) == IF snoop_wr(i) THEN Base(i) ELSE ToIdle(Base(i))

Ferr(i) ==
    LET b == [Base(i) EXCEPT !.err_hold = @ /\ i.req]
    IN  IF snoop_wr(i) THEN b ELSE ToIdle(b)

Winv(i) == IF s_stb(i) \/ c.sil # Nil THEN Base(i)
           ELSE ToIdle([Base(i) EXCEPT !.winv = FALSE])

\* Mutant of Sweep: CINV drops the dirty lines with the clean ones.
SweepDrops(i) ==
    IF sweep_last THEN [ToIdle(Base(i)) EXCEPT !.cinv_done = TRUE, !.cnt = 0]
    ELSE [Base(i) EXCEPT !.cnt = @ + 1]

Sweep(i) ==
    IF sweep_push
    THEN IF c.dr.on \/ i.walk_busy THEN Base(i)
         ELSE StartPush(Base(i), c.cnt, db[c.cnt], "SWEEP")
    ELSE IF sweep_last THEN [ToIdle(Base(i)) EXCEPT !.cinv_done = TRUE, !.cnt = 0]
    ELSE [Base(i) EXCEPT !.cnt = @ + 1]

Wlook(i) ==
    IF ~c.wl_ph THEN [Base(i) EXCEPT !.wl_ph = TRUE]
    ELSE LET b == [Base(i) EXCEPT !.wk_chk = TRUE, !.wl_ph = FALSE]
         IN  IF wl_match(i) # {} THEN StartPush(b, c.p.set, wl_match(i), "IDLE")
             ELSE ToIdle([b EXCEPT !.p = NoPush])

PushEnds(b) == [b EXCEPT !.cst = c.p.ret, !.p = NoPush]

Push(i) ==
    LET b == Base(i)
        rest == c.p.mask \ {c.p.way}
    IN  IF ~c.p.out
        THEN IF c.p.rb < Beats THEN [b EXCEPT !.p.rb = @ + 1]
             ELSE [b EXCEPT !.p.out = TRUE, !.p.req = TRUE, !.p.wb = 0, !.p.rb = 0,
                            !.p.tag = tq[c.p.way]]
        ELSE IF c.p.req /\ i.ans = "err" THEN PushEnds([b EXCEPT !.post_err = TRUE])
        ELSE IF c.p.req /\ i.ans = "ack"
        THEN IF c.p.wb < Beats - 1 THEN [b EXCEPT !.p.req = FALSE, !.p.wb = @ + 1]
             ELSE IF rest = {} THEN PushEnds(b)
             ELSE StartPush(b, c.p.set, rest, c.p.ret)
        ELSE [b EXCEPT !.p.req = TRUE]

Fsm(i) ==
    CASE c.cst = "IDLE" -> Idle(i)   [] c.cst = "PASS" -> Pass(i)
      [] c.cst = "LOOK" -> Look(i)   [] c.cst = "FILL" -> Fill(i)
      [] c.cst = "TAGW" -> [ToIdle(Base(i)) EXCEPT !.ack = TRUE]
      [] c.cst = "FERR" -> Ferr(i)   [] c.cst = "WINV" -> Winv(i)
      [] c.cst = "SWEEP" -> Sweep(i) [] c.cst = "WLOOK" -> Wlook(i)
      [] c.cst = "PUSH" -> Push(i)

\* One clock; without the enable only the snoop and the row's image move.
CacheClock(i) ==
    /\ c' = IF i.ce THEN Fsm(i) ELSE c
    /\ TagStep(i) /\ DirtyStep(i) /\ DataStep(i) /\ ImageStep(i) /\ SnoopFlags(i)

(***************************************************************************)
(* The ports.                                                              *)
(***************************************************************************)

passing == c.cst = "PASS" /\ ~c.st_posted

m_req(req) == \/ c.dr.on \/ push_out \/ c.cst = "FILL"
              \/ passing /\ req
              \/ c.cst = "PASS" /\ c.st_posted /\ ~(c.st_chk /\ c.r_cb)

push_addr == AddrOf(c.p.tag, c.p.set, c.p.wb)
fill_addr == (c.a - WordOf(c.a)) + c.beat

c_ack(ans) == IF passing THEN ans = "ack" ELSE c.ack
====
