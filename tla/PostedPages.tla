---- MODULE PostedPages ----
(***************************************************************************)
(* The postable-page table of rtl/ap040_pipe_core.v (SB_MMU): which stores *)
(* write-back may hand to the store buffer before the MMU has seen them.   *)
(* A synchronous store that memory accepts records its page; PFLUSH and a  *)
(* MOVEC to a translation register empty the table and advance a two-bit   *)
(* epoch.  A store is looked up in EX and posted, later, in WB.            *)
(*                                                                         *)
(* A page stands for a logical page and a function code.  EX and WB hold   *)
(* one micro-op each: none, a store, or a MOVEC.                           *)
(***************************************************************************)
EXTENDS Integers, FiniteSets

CONSTANTS Pages,      \* pages stores go to
          Entries,    \* entries of the table (4 in the code)
          Epochs      \* epochs the counter distinguishes (4 in the code)

ASSUME Parameters ==
    /\ Entries \in Nat \ {0}
    /\ Epochs \in Nat /\ Epochs > 1
    /\ "none" \notin Pages

VARIABLES
    pg,          \* the table: a page or "none" per entry
    pg_rr,       \* the entry the next page goes to
    pg_ep,       \* the epoch
    ex, wb,      \* the micro-ops of EX and WB
    pf_req,      \* PFLUSH's request, a level until the MMU answers
    known        \* history: pages memory has accepted since the last clear

postedVars == <<pg, pg_rr, pg_ep, ex, wb, pf_req, known>>

Op(kind, p) == [kind |-> kind, page |-> p, pt |-> FALSE, ep |-> 0]
Bubble == Op("none", "none")
Ops == {Bubble, Op("movec", "none")}
           \cup {Op("store", p) : p \in Pages}
           \cup {Op("crossing", p) : p \in Pages}     \* leaves its page's end

----------------------------------------------------------------------------
\* The lookup in EX: a store within one page of the table.
fw_st_pt == ex.kind = "store" /\ \E i \in DOMAIN pg : pg[i] = ex.page

\* Mutant of wb_post: WB trusts the lookup.
PostWithoutEpoch == wb.pt
\* WB posts its store: looked up in this epoch.
wb_post == wb.pt /\ wb.ep = pg_ep

IsStore(u) == u.kind \in {"store", "crossing"}
pg_clear == pf_req \/ wb.kind = "movec"

\* The store buffer has room, or memory acknowledges a synchronous store.
Leaves(held) == wb.kind # "none" /\ ~(IsStore(wb) /\ held)

\* A synchronous store that memory accepts (st_sync_ok, mem_postok).
pg_rec(held, postok) == IsStore(wb) /\ ~wb_post /\ ~held /\ postok

Table(rec) ==
    IF pg_clear
    THEN /\ pg' = [i \in DOMAIN pg |-> "none"] /\ UNCHANGED pg_rr
         /\ pg_ep' = (pg_ep + 1) % Epochs
         /\ known' = {}
    ELSE /\ UNCHANGED pg_ep
         /\ IF rec /\ \A i \in DOMAIN pg : pg[i] # wb.page
            THEN pg' = [pg EXCEPT ![pg_rr] = wb.page] /\ pg_rr' = (pg_rr + 1) % Entries
            ELSE UNCHANGED <<pg, pg_rr>>
         /\ known' = IF rec THEN known \cup {wb.page} ELSE known

NothingOlder == ex.kind = "none" /\ wb.kind = "none"

\* One enabled clock: WB's micro-op leaves or waits, EX's follows with the
\* verdict of its lookup, EA-fetch sends the next one -- a MOVEC, serialized,
\* only with nothing older in flight, and nothing at all during a PFLUSH.
PostedClock ==
    \E held, postok \in BOOLEAN, u \in Ops :
        LET free == wb.kind = "none" \/ Leaves(held) IN
        /\ pf_req => u = Bubble
        /\ u.kind = "movec" => NothingOlder
        /\ wb' = IF free THEN [ex EXCEPT !.pt = fw_st_pt, !.ep = pg_ep] ELSE wb
        /\ ex' = IF free \/ ex.kind = "none" THEN u ELSE ex
        /\ Table(pg_rec(held, postok))
        /\ UNCHANGED pf_req

\* PFLUSH: serialized, requested until the MMU has walked its cache.
PflushStart ==
    /\ ~pf_req /\ NothingOlder
    /\ pf_req' = TRUE
    /\ UNCHANGED <<pg, pg_rr, pg_ep, ex, wb, known>>
PflushDone ==
    /\ pf_req /\ pf_req' = FALSE
    /\ Table(FALSE)
    /\ UNCHANGED <<ex, wb>>

PostedInit ==
    /\ pg = [i \in 0..Entries - 1 |-> "none"] /\ pg_rr = 0 /\ pg_ep = 0
    /\ ex = Bubble /\ wb = Bubble
    /\ pf_req = FALSE /\ known = {}

PostedNext == PostedClock \/ PflushStart \/ PflushDone
PostedSpec == PostedInit /\ [][PostedNext]_postedVars

----------------------------------------------------------------------------
\* A store is posted only to a page that memory has accepted a store to since
\* the translations last changed -- a MOVEC that commits while the store is in
\* EX included -- and never across the end of its page; the epoch does not
\* wrap onto a store still in flight (ap040_pipe_core.v:366-372).
PostedIsKnown == wb.kind # "none" /\ wb_post => wb.page \in known /\ wb.kind = "store"
====
