---- MODULE LeavesProofs ----
(***************************************************************************)
(* The proofs about three of the parts that share no state: the bus        *)
(* watchdog, the two-write-port table and the posted-page table, each for  *)
(* every value of its parameters.                                          *)
(***************************************************************************)
EXTENDS BusTimeout, PostedPages, Ram2w, TLAPS

----------------------------------------------------------------------------
(* The watchdog: its invariant for a counter of any width.                  *)

(* The count and the error of ap040_bus_timeout never run ahead of the       *)
(* request that stands (the bus controller keeps mem_req low for a clock     *)
(* between two requests, and that clock clears both).                        *)
THEOREM BusTimeoutInductive == TimerSpec => []TimerInv
<1> USE LimitAssumption DEF LimitAssumption
<1>1. TimerInit => TimerInv
  <2> SUFFICES ASSUME TimerInit PROVE TimerInv
    OBVIOUS
  <2>1. TimerTypeOK
    <3>1. count \in 0..Limit /\ waited \in 0..(Limit + 1)
      BY DEF TimerInit
    <3>2. req \in BOOLEAN /\ complete \in BOOLEAN /\ berr \in BOOLEAN
      BY Zenon DEF TimerInit
    <3>3. QED
      BY <3>1, <3>2 DEF TimerTypeOK
  <2>2. ~req /\ ~berr
    BY Zenon DEF TimerInit
  <2>3. QED
    BY <2>1, <2>2 DEF TimerInv, Counts
<1>2. TimerInv /\ [TimerNext]_timerVars => TimerInv'
  <2> SUFFICES ASSUME TimerInv, [TimerNext]_timerVars PROVE TimerInv'
    OBVIOUS
  <2> USE DEF TimerInv, TimerTypeOK, Counts
  <2>1. ASSUME NEW ce \in BOOLEAN, Clock(ce) PROVE TimerInv'
    <3>1. CASE Cleared
      <4>1. count' = 0 /\ ~berr' /\ berr' \in BOOLEAN /\ waited' = 0
        BY <2>1, <3>1 DEF Clock, Watchdog, Cleared, Wait
      <4>2. req' \in BOOLEAN /\ complete' \in BOOLEAN
        BY <2>1 DEF Clock, BusController, Done, Answer
      <4>3. QED
        BY <4>1, <4>2
    <3>2. CASE ~Cleared
      <4>1. req /\ ~complete
        BY <3>2 DEF Cleared
      <4>2. /\ count' \in 0..Limit /\ berr' \in BOOLEAN
            /\ waited' \in 0..(Limit + 1)
            /\ count' <= waited'
            /\ berr' => waited' > Limit
        BY <2>1, <3>2, <4>1 DEF Clock, Watchdog, Wait
      <4>3. req' \in BOOLEAN /\ complete' \in BOOLEAN
        BY <2>1 DEF Clock, BusController, Done, Answer
      <4>4. QED
        BY <4>2, <4>3
    <3>3. QED
      BY <3>1, <3>2
  <2>2. CASE Reset
    <3>1. /\ ~req' /\ req' \in BOOLEAN /\ complete' \in BOOLEAN
          /\ count' = 0 /\ berr' \in BOOLEAN /\ waited' = 0
      BY <2>2 DEF Reset
    <3>2. QED
      BY <3>1
  <2>3. CASE UNCHANGED timerVars
    BY <2>3 DEF timerVars
  <2>4. QED
    BY <2>1, <2>2, <2>3 DEF TimerNext
<1>3. QED
  BY <1>1, <1>2, PTL DEF TimerSpec

(* Whatever the counter's width, no request is failed by the watchdog before *)
(* its own full count of unanswered clocks.                                  *)
THEOREM BusTimeoutFaultIsOwn == TimerSpec => []FaultIsOwn
<1>1. TimerInv => FaultIsOwn
  BY DEF TimerInv, Counts, FaultIsOwn
<1>2. QED
  BY <1>1, BusTimeoutInductive, PTL

----------------------------------------------------------------------------
(* The two-write-port table: every number of rows and bits.                 *)

(* Writing d XOR y beside y makes the row read d.                            *)
LEMMA XorWrite ==
    ASSUME NEW d \in Data, NEW y \in Data
    PROVE  /\ XorBits(XorBits(d, y), y) = d
           /\ XorBits(y, XorBits(d, y)) = d
           /\ XorBits(d, y) \in Data
<1>1. XorBits(d, y) = [b \in Bits |-> d[b] # y[b]]
  BY DEF XorBits
<1>2. \A b \in Bits : d[b] \in BOOLEAN /\ y[b] \in BOOLEAN
  BY DEF Data
<1>3. \A b \in Bits : ((d[b] # y[b]) # y[b]) = d[b] /\ (y[b] # (d[b] # y[b])) = d[b]
  BY <1>2
<1>4. XorBits(d, y) \in Data
  BY <1>1, <1>2 DEF Data
<1>5. XorBits(XorBits(d, y), y) = [b \in Bits |-> (d[b] # y[b]) # y[b]]
  BY <1>1 DEF XorBits
<1>6. XorBits(y, XorBits(d, y)) = [b \in Bits |-> y[b] # (d[b] # y[b])]
  BY <1>1 DEF XorBits
<1>7. d = [b \in Bits |-> d[b]]
  BY DEF Data
<1>8. XorBits(XorBits(d, y), y) = d
  BY <1>3, <1>5, <1>7
<1>9. XorBits(y, XorBits(d, y)) = d
  BY <1>3, <1>6, <1>7
<1> QED
  BY <1>4, <1>8, <1>9

(* The banks only ever hold rows of bits.                                    *)
THEOREM Ram2wType == BanksSpec => []BanksTypeOK
<1>1. BanksInit => BanksTypeOK
  BY DEF BanksInit, BanksTypeOK, Data, Zero, Inputs
<1>2. BanksTypeOK /\ [BanksNext]_banks => BanksTypeOK'
  <2> SUFFICES ASSUME BanksTypeOK, [BanksNext]_banks PROVE BanksTypeOK'
    OBVIOUS
  <2>1. CASE BanksNext
    <3>1. /\ in.a0 \in Rows /\ in.d0 \in Data /\ b1[in.a0] \in Data
          /\ in.a1 \in Rows /\ in.d1 \in Data /\ b0[in.a1] \in Data
      BY DEF BanksTypeOK, Inputs
    <3>2. XorBits(in.d0, b1[in.a0]) \in Data /\ XorBits(in.d1, b0[in.a1]) \in Data
      BY <3>1, XorWrite
    <3>3. BanksClock(in.we0, in.a0, in.d0, in.we1, in.a1, in.d1) /\ in' \in Inputs
      BY <2>1 DEF BanksNext
    <3> QED
      BY <3>2, <3>3 DEF BanksTypeOK, BanksClock
  <2>2. CASE UNCHANGED banks
    BY <2>2 DEF banks, BanksTypeOK
  <2> QED
    BY <2>1, <2>2
<1> QED
  BY <1>1, <1>2, PTL DEF BanksSpec

(* One clock of the two banks is one clock of the table they show.           *)
LEMMA ClockRefines ==
    ASSUME BanksTypeOK, NEW we0 \in BOOLEAN, NEW we1 \in BOOLEAN,
           NEW a0 \in Rows, NEW a1 \in Rows, NEW d0 \in Data, NEW d1 \in Data,
           BanksClock(we0, a0, d0, we1, a1, d1)
    PROVE  Abs!Clock(we0, a0, d0, we1, a1, d1)
<1> SUFFICES ASSUME NEW r \in Rows
             PROVE  Rd(r)' = IF we1 /\ r = a1 THEN d1
                             ELSE IF we0 /\ r = a0 THEN d0 ELSE Rd(r)
  BY DEF Abs!Clock
<1>1. Rd(r)' = XorBits(b0'[r], b1'[r])
  BY DEF Rd
<1>2. b0[r] \in Data /\ b1[r] \in Data
  BY DEF BanksTypeOK
<1>3. CASE we1 /\ r = a1
  <2>1. b0'[r] = b0[r] /\ b1'[r] = XorBits(d1, b0[r])
    BY <1>3 DEF BanksClock, Same, BanksTypeOK
  <2> QED
    BY <1>1, <1>2, <1>3, <2>1, XorWrite
<1>4. CASE ~(we1 /\ r = a1) /\ we0 /\ r = a0
  <2>1. b0'[r] = XorBits(d0, b1[r]) /\ b1'[r] = b1[r]
    BY <1>4 DEF BanksClock, Same, BanksTypeOK
  <2> QED
    BY <1>1, <1>2, <1>4, <2>1, XorWrite
<1>5. CASE ~(we1 /\ r = a1) /\ ~(we0 /\ r = a0)
  <2>1. b0'[r] = b0[r] /\ b1'[r] = b1[r]
    BY <1>5 DEF BanksClock, BanksTypeOK
  <2> QED
    BY <1>1, <1>5, <2>1 DEF Rd
<1> QED
  BY <1>3, <1>4, <1>5

(* The XOR banks implement the plain two-write table, for any table size.    *)
THEOREM Ram2wRefines == BanksSpec => ImplementsTable
<1>1. BanksInit => Abs!Init
  <2> SUFFICES ASSUME BanksInit PROVE Abs!Init
    OBVIOUS
  <2>1. \A r \in Rows : Rd(r) = [b \in Bits |-> FALSE # FALSE]
    BY DEF BanksInit, Rd, XorBits, Zero
  <2> QED
    BY <2>1 DEF Abs!Init, Abs!Zero, BanksInit, Abs!Inputs, Inputs, Abs!Data, Data
<1>2. BanksTypeOK /\ [BanksNext]_banks => [Abs!Next]_<<[r \in Rows |-> Rd(r)], in>>
  <2> SUFFICES ASSUME BanksTypeOK, [BanksNext]_banks
               PROVE  [Abs!Next]_<<[r \in Rows |-> Rd(r)], in>>
    OBVIOUS
  <2>1. CASE BanksNext
    <3>1. /\ in.we0 \in BOOLEAN /\ in.a0 \in Rows /\ in.d0 \in Data
          /\ in.we1 \in BOOLEAN /\ in.a1 \in Rows /\ in.d1 \in Data
      BY DEF BanksTypeOK, Inputs
    <3>2. BanksClock(in.we0, in.a0, in.d0, in.we1, in.a1, in.d1) /\ in' \in Inputs
      BY <2>1 DEF BanksNext
    <3>3. Abs!Clock(in.we0, in.a0, in.d0, in.we1, in.a1, in.d1)
      BY <3>1, <3>2, ClockRefines
    <3>4. Abs!Inputs = Inputs
      BY DEF Abs!Inputs, Inputs, Abs!Data, Data
    <3> QED
      BY <3>2, <3>3, <3>4 DEF Abs!Next
  <2>2. CASE UNCHANGED banks
    BY <2>2 DEF banks, Rd, XorBits
  <2> QED
    BY <2>1, <2>2
<1> QED
  BY <1>1, <1>2, Ram2wType, PTL DEF BanksSpec, ImplementsTable, Abs!Spec

----------------------------------------------------------------------------
(* The posted-page table: every number of pages and entries, and every      *)
(* epoch counter that tells two epochs apart.                               *)

Kind == {"none", "movec", "store", "crossing"}

\* A store's page is one of Pages; everything else has none.
OpOK(u) ==
    /\ u \in [kind : Kind, page : Pages \cup {"none"}, pt : BOOLEAN, ep : 0..Epochs - 1]
    /\ IsStore(u) => u.page \in Pages
    /\ u.pt => u.kind = "store"

PostedTypes ==
    /\ pg \in [0..Entries - 1 -> Pages \cup {"none"}] /\ pg_rr \in 0..Entries - 1
    /\ pg_ep \in 0..Epochs - 1
    /\ OpOK(ex) /\ OpOK(wb)
    /\ pf_req \in BOOLEAN

\* Every entry of the table is a known page.
TableKnown == \A i \in DOMAIN pg : pg[i] \in known \cup {"none"}

\* No micro-op is in flight during a PFLUSH.
FlushAlone == pf_req => NothingOlder

\* The verdict WB holds, while its epoch lasts.
VerdictStands == wb_post => wb.kind = "store" /\ wb.page \in known

PostedInv == PostedTypes /\ TableKnown /\ FlushAlone /\ VerdictStands

\* The next epoch is another one (ap040_pipe_core.v:397).
LEMMA NextEpoch ==
    ASSUME NEW e \in 0..Epochs - 1
    PROVE  (e + 1) % Epochs \in 0..Epochs - 1 /\ (e + 1) % Epochs # e
<1>1. CASE e + 1 < Epochs
    BY <1>1, Parameters
<1>2. CASE e + 1 = Epochs
    BY <1>2, Parameters
<1> QED BY <1>1, <1>2, Parameters

\* The new micro-ops are well formed.
LEMMA OpsOK == ASSUME NEW u \in Ops PROVE OpOK(u)
<1>1. OpOK(Bubble) /\ OpOK(Op("movec", "none"))
    BY Parameters DEF Op, Bubble, OpOK, IsStore, Kind
<1>2. ASSUME NEW p \in Pages PROVE OpOK(Op("store", p)) /\ OpOK(Op("crossing", p))
    BY <1>2, Parameters DEF Op, OpOK, IsStore, Kind
<1> QED BY <1>1, <1>2 DEF Ops

\* The table keeps to the known pages, whatever is recorded or cleared.
LEMMA TableStep ==
    ASSUME PostedInv, NEW rec \in BOOLEAN, rec => IsStore(wb), Table(rec)
    PROVE  /\ pg_ep' \in 0..Epochs - 1
           /\ pg' \in [0..Entries - 1 -> Pages \cup {"none"}] /\ pg_rr' \in 0..Entries - 1
           /\ TableKnown'
           /\ pg_clear => pg_ep' # pg_ep
           /\ ~pg_clear => pg_ep' = pg_ep /\ known \subseteq known'
<1>1. CASE pg_clear
  <2>1. pg_ep' = (pg_ep + 1) % Epochs /\ pg' = [i \in DOMAIN pg |-> "none"] /\ pg_rr' = pg_rr
    BY <1>1 DEF Table
  <2>2. pg_ep' \in 0..Epochs - 1 /\ pg_ep' # pg_ep
    BY <2>1, NextEpoch DEF PostedInv, PostedTypes
  <2> QED BY <1>1, <2>1, <2>2 DEF PostedInv, PostedTypes, TableKnown
<1>2. CASE ~pg_clear
  <2>1. pg_ep' = pg_ep /\ known' = IF rec THEN known \cup {wb.page} ELSE known
    BY <1>2 DEF Table
  <2>2. CASE rec /\ \A i \in DOMAIN pg : pg[i] # wb.page
    <3>1. pg' = [pg EXCEPT ![pg_rr] = wb.page] /\ pg_rr' = (pg_rr + 1) % Entries
      BY <1>2, <2>2 DEF Table
    <3>2. wb.page \in Pages
      BY <2>2 DEF PostedInv, PostedTypes, OpOK
    <3>3. pg' \in [0..Entries - 1 -> Pages \cup {"none"}]
      BY <3>1, <3>2 DEF PostedInv, PostedTypes
    <3>4. pg_rr' \in 0..Entries - 1
      BY <3>1, Parameters DEF PostedInv, PostedTypes
    <3>5. \A i \in 0..Entries - 1 : pg'[i] \in known' \cup {"none"}
      BY <2>1, <2>2, <3>1 DEF PostedInv, PostedTypes, TableKnown
    <3> QED BY <1>2, <2>1, <3>3, <3>4, <3>5 DEF PostedInv, PostedTypes, TableKnown
  <2>3. CASE ~(rec /\ \A i \in DOMAIN pg : pg[i] # wb.page)
    <3>1. pg' = pg /\ pg_rr' = pg_rr
      BY <1>2, <2>3 DEF Table
    <3> QED BY <1>2, <2>1, <3>1 DEF PostedInv, PostedTypes, TableKnown
  <2> QED BY <2>2, <2>3
<1> QED BY <1>1, <1>2

\* The initial state: an empty table, nothing in flight.
LEMMA PostedInitHolds == ASSUME PostedInit PROVE PostedInv
<1>1. OpOK(Bubble)
    BY OpsOK DEF Ops
<1>2. PostedTypes
  <2>1. OpOK(ex) /\ OpOK(wb)
    BY <1>1 DEF PostedInit
  <2>2. /\ pg \in [0..Entries - 1 -> Pages \cup {"none"}] /\ pg_rr \in 0..Entries - 1
        /\ pg_ep \in 0..Epochs - 1 /\ pf_req \in BOOLEAN
    <3>1. pg \in [0..Entries - 1 -> Pages \cup {"none"}]
      BY DEF PostedInit
    <3>2. 0 \in 0..Entries - 1 /\ 0 \in 0..Epochs - 1
      BY Parameters
    <3> QED BY <3>1, <3>2 DEF PostedInit
  <2> QED BY <2>1, <2>2 DEF PostedTypes
<1>3. TableKnown /\ FlushAlone /\ VerdictStands
    BY DEF PostedInit, TableKnown, FlushAlone, VerdictStands, wb_post, Bubble, Op
<1> QED BY <1>2, <1>3 DEF PostedInv

\* Every step keeps the invariant: a clear leaves no verdict of the old epoch
\* standing, and without one the known pages only grow (ap040_pipe_core.v:366-408).
LEMMA PostedStepHolds == ASSUME PostedInv, [PostedNext]_postedVars PROVE PostedInv'
<1>1. CASE PostedClock
  <2>1. PICK held \in BOOLEAN, postok \in BOOLEAN, u \in Ops :
            LET free == wb.kind = "none" \/ Leaves(held) IN
            /\ pf_req => u = Bubble
            /\ u.kind = "movec" => NothingOlder
            /\ wb' = IF free THEN [ex EXCEPT !.pt = fw_st_pt, !.ep = pg_ep] ELSE wb
            /\ ex' = IF free \/ ex.kind = "none" THEN u ELSE ex
            /\ Table(pg_rec(held, postok))
            /\ pf_req' = pf_req
    BY <1>1 DEF PostedClock
  <2> DEFINE free == wb.kind = "none" \/ Leaves(held)
  <2>2. /\ pg_ep' \in 0..Epochs - 1
        /\ pg' \in [0..Entries - 1 -> Pages \cup {"none"}] /\ pg_rr' \in 0..Entries - 1
        /\ TableKnown'
        /\ pg_clear => pg_ep' # pg_ep
        /\ ~pg_clear => pg_ep' = pg_ep /\ known \subseteq known'
    <3>1. pg_rec(held, postok) \in BOOLEAN /\ (pg_rec(held, postok) => IsStore(wb))
      BY <2>1 DEF pg_rec, wb_post, PostedInv, PostedTypes, OpOK
    <3> QED BY <2>1, <3>1, TableStep
  <2>3. PostedTypes'
    <3>1. OpOK(u)
      BY <2>1, OpsOK
    <3>2. fw_st_pt \in BOOLEAN /\ (fw_st_pt => ex.kind = "store")
      BY DEF fw_st_pt
    <3>3. OpOK([ex EXCEPT !.pt = fw_st_pt, !.ep = pg_ep])
      BY <3>2 DEF PostedInv, PostedTypes, OpOK, IsStore
    <3>4. OpOK(wb')
      BY <2>1, <3>3 DEF PostedInv, PostedTypes
    <3>5. OpOK(ex')
      BY <2>1, <3>1 DEF PostedInv, PostedTypes
    <3>6. pf_req' \in BOOLEAN
      BY <2>1 DEF PostedInv, PostedTypes
    <3> QED BY <2>2, <3>4, <3>5, <3>6 DEF PostedTypes, OpOK, IsStore
  <2>4. FlushAlone'
    <3>1. SUFFICES ASSUME pf_req' PROVE ex'.kind = "none" /\ wb'.kind = "none"
      BY DEF FlushAlone, NothingOlder
    <3>2. pf_req /\ u = Bubble /\ NothingOlder
      BY <2>1, <3>1 DEF PostedInv, FlushAlone
    <3>3. wb' = [ex EXCEPT !.pt = fw_st_pt, !.ep = pg_ep] /\ ex' = u
      BY <2>1, <3>2 DEF NothingOlder
    <3> QED BY <3>2, <3>3 DEF NothingOlder, Bubble, Op, PostedInv, PostedTypes, OpOK
  <2>5. VerdictStands'
    <3>1. SUFFICES ASSUME wb_post' PROVE wb'.kind = "store" /\ wb'.page \in known'
      BY DEF VerdictStands
    \* The looked-up store moves to WB: no clear in this clock, or its epoch is over.
    <3>2. CASE free
      <4>1. wb' = [ex EXCEPT !.pt = fw_st_pt, !.ep = pg_ep]
        BY <2>1, <3>2
      <4>2. fw_st_pt /\ pg_ep = pg_ep'
        BY <3>1, <4>1 DEF wb_post, PostedInv, PostedTypes, OpOK
      <4>3. ex.kind = "store" /\ ex.page \in known
        BY <4>2, Parameters DEF fw_st_pt, PostedInv, PostedTypes, OpOK, IsStore, TableKnown
      <4> QED BY <2>2, <4>1, <4>2, <4>3 DEF PostedInv, PostedTypes, OpOK
    \* A store that waits in WB meets no clear: MOVEC and PFLUSH find WB empty.
    <3>3. CASE ~free
      <4>1. wb' = wb
        BY <2>1, <3>3
      <4>2. ~pg_clear
        BY <3>3 DEF pg_clear, Leaves, IsStore, PostedInv, FlushAlone, NothingOlder
      <4> QED BY <2>2, <3>1, <4>1, <4>2 DEF wb_post, PostedInv, VerdictStands
    <3> QED BY <3>2, <3>3
  <2> QED BY <2>2, <2>3, <2>4, <2>5 DEF PostedInv
<1>2. CASE PflushStart
    BY <1>2 DEF PflushStart, PostedInv, PostedTypes, TableKnown, FlushAlone, VerdictStands, wb_post,
                NothingOlder, OpOK, IsStore
<1>3. CASE PflushDone
  <2>1. wb' = wb /\ ex' = ex /\ pf_req' = FALSE
    BY <1>3 DEF PflushDone
  <2>2. /\ pg_ep' \in 0..Epochs - 1 /\ TableKnown'
        /\ pg' \in [0..Entries - 1 -> Pages \cup {"none"}] /\ pg_rr' \in 0..Entries - 1
    BY <1>3, TableStep DEF PflushDone
  <2>3. wb.kind = "none" /\ wb.pt = FALSE
    BY <1>3 DEF PflushDone, PostedInv, FlushAlone, NothingOlder, PostedTypes, OpOK
  <2> QED BY <2>1, <2>2, <2>3 DEF PostedInv, PostedTypes, FlushAlone, VerdictStands, wb_post, OpOK, IsStore
<1>4. CASE UNCHANGED postedVars
    BY <1>4 DEF postedVars, PostedInv, PostedTypes, TableKnown, FlushAlone, VerdictStands, wb_post,
                NothingOlder, OpOK, IsStore
<1> QED BY <1>1, <1>2, <1>3, <1>4 DEF PostedNext

\* The invariant holds in every reachable state, at all parameters.
THEOREM PostedInductive == PostedSpec => []PostedInv
<1>1. PostedInit => PostedInv
    BY PostedInitHolds
<1>2. PostedInv /\ [PostedNext]_postedVars => PostedInv'
    BY PostedStepHolds
<1> QED BY <1>1, <1>2, PTL DEF PostedSpec

\* A store is posted only to a page that memory has accepted a store to since the
\* translations last changed, at all parameters (ap040_pipe_core.v:366-372).
THEOREM PostedIsSafe == PostedSpec => []PostedIsKnown
<1>1. PostedInv => PostedIsKnown
    BY DEF PostedInv, VerdictStands, PostedIsKnown
<1> QED BY <1>1, PostedInductive, PTL
====
