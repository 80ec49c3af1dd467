# Formal models of the AP68040 pipelined core

TLA+ models of the control logic of this repository's MC68040-compatible core
(`rtl/`, Verilog) and of the Python tools its test suite rests on (`tb/`), their
TLC configurations, and TLAPS proofs. In the core the subject is the logic that a
bench reaches only by luck: stores, reads and fetches racing for one port, requests
crossing clock domains, faults that catch younger work in flight, interrupts at a
moving boundary, acknowledges and timeouts seen only under a clock enable. In the
tools it is the question a green test leaves open: would it have been red?

Every definition is a reading of the source; `PROJECT.json` maps each to its lines.
The arithmetic of the machine (ALU, FPU, decode tables) is left out.

## 1. The system

| Part | Source | State it keeps | Operations | Talks to |
|---|---|---|---|---|
| Instruction fetch (IF) | `ap040_inst_fetch.v` | prefetch queue, fetch in flight, drop mark, BTB | fetch, redirect, consume | bus controller, ID |
| Decode, EA-calc | `ap040_decode.v`, `ap040_ea_calc.v` | pipeline registers, return stack | decode, early read address | EA-fetch |
| EA-fetch | `ap040_ea_fetch.v` | phase (`ph`), operands, one outstanding read (`rd_pend`, `rd_drop`), late load (`ldx_pend`), exception frame | operand reads, dispatch, exceptions, MOVEM, interrupts | bus controller (read slot), EX, WB |
| Execute, write-back | `ap040_execute.v`, `ap040_writeback.v` | EX and WB registers | results, stores, redirects | bus controller (stores), EA-fetch |
| Bus controller | `ap040_pipe_bcu.v` | store FIFO, read slot, transfer in progress, split state, completion registers | post, send, read, fetch, forward, split | everything above; MMU |
| Core glue | `ap040_pipe_core.v` | posted-page table and epoch, read-path qualifiers, interrupt sampler, control registers | store order checks, SMC refetch, `wb_hold`, IRQ | all stages |
| MMU | `compat/ap040_mmu.v` | ATCs, TTRs, walker, fault registers | translate, walk, PTEST, PFLUSH | bus controller, caches, walker port |
| Caches | `compat/ap040_cache.v` | tags, valid, dirty, fill, drain, push, sweep state | hit, fill, posted store, copyback push, snoop, CINV/CPUSH | MMU, bus, snoop port, walker |
| Core wrapper | `compat/ap040_pipe_tg68k_compat.v` | snoop registers, read-path verdicts, window registers | arbitration, answer qualification | chipset, board |
| Walker clock bridge | `compat/ap040_walker_cdc.v` | a toggle, its synchroniser and held payload each way | carry one descriptor transaction | MMU's walker, RAM controller |
| Stall watchdog | `compat/ap040_bus_timeout.v` | counter, error | fail a request nobody answers | core's `mem_req` |
| 16-bit adapter | `compat/ap040_bus16_adapter.v` | transfer in progress, boundary flag | split, assemble, abort | caches, Minimig bus |
| Two-write table | `compat/ap040_xc7_ram2w.v` | two banks | two writes, reads | caches (Xilinx build) |
| FPU, ALU, multiplier | `compat/ap040_fpu.v`, `ap040_pipe_alu.v`, `ap040_pipe_muldiv.v` | operation in progress | arithmetic | EX, EA-fetch |
| Mutant tables | `tb/perf/wa_mutants.py`, `xc7_mutants.py`, `dfpmis_mutants.py` | scratch copies of `rtl/`, one thread and one verdict per row | edit, build, run, print | compiler, simulator |
| Program generator | `tb/perf/fuzz/gen.py` | bodies, subroutines, the mode it writes for | write a random program | two builds of the core, whose dumps are compared |
| FPSP generator | `tb/mk_fpsp.py` | cases, operand table, result slots, expectations | write a program and its `.exp`, ask the model | `fpsp_model.c`, the bench |
| Other generators | `tb/mk_fpsplib.py`, `mk_t*.py`, `bin2hex.py`, `trace_gaps.py` | none | emit fixed vectors, convert, report | benches |

Two clocks matter: the CPU clock, most of whose registers advance only under the
enable `ce`, and the RAM controller's, behind the walker bridge. Inside the CPU
clock everything steps at once, so that "concurrency" is several pieces of work
in flight whose decisions are made from registers a clock old.

What is hard, and what makes each part correct:

- **Bus controller and its clients.** A store is in EX, in WB, in the FIFO, on
  the port, or in memory; a read may be answered by the port, by the cache's read
  path or by forwarding. Correct means: a read sees every older store and no
  younger one; each store reaches memory once, in order, or is withdrawn by a
  fault; synchronising instructions see all stores done; nobody waits for ever.
- **Walker bridge.** Metastable samples, a client that is blind under its enable,
  one-sided resets. Correct means: one transaction per request, whole, for the
  request held, and an answer for every request.
- **16-bit adapter.** A target with a level acknowledge. Correct means: each byte
  of an operand moves once, on its own lane, and no cycle outlives its request.
- **Watchdog.** Correct means: a request fails only by its own wait, and no
  request waits for ever.
- **Caches.** Snoops against fills, merges and pushes; posted drains;
  walker descriptors in dirty lines; sweeps. Correct means: the CPU's loads and
  the walker see the latest stores, no dirty byte is lost, no wedge.
- **MMU.** Walks against flushes and faults. Correct means: an access
  passes only under a translation that the tables allowed and no flush removed.
- **Posted-page table.** A verdict taken in EX is used in WB, a flush may fall
  between. Correct means: no store is posted under a translation that has been flushed.
- **Interrupts.** The sampler runs on every clock, the boundary on enabled ones, the
  mask is committed clocks after the entry. Correct means: no interrupt lost or taken
  twice, vector and mask of one level, no read an instruction needs held back by a
  pending event.
- **IF.** Correct means: each dropped answer is dropped once.
- **Mutant tables.** Threads, kills and leftovers of earlier sessions. Correct means: a
  printed row is what the programs said of these sources with these edits.
- **Program generator.** Correct means: a program ends whatever interrupts do, interrupts
  do not show in its dump, a difference between two builds does.
- **FPSP generator.** Correct means: a right processor passes the program, one with a
  defect does not (which defects are missed is known), and both hold for every error the
  FPSP's documented bound allows.

## 2. What is modelled

One step of the CPU-clock models is one enabled clock edge: all registers move
together, from the values before the edge, exactly as in the Verilog. What the
code outside the module decides in that clock is a choice of the step.

### `Bcu` — bus controller, store path and operand reads

Source: `ap040_pipe_bcu.v`, with the parts of `ap040_pipe_core.v`,
`ap040_ea_fetch.v` and `ap040_execute.v` that say when a store or a read exists.

| Model | Code |
|---|---|
| `ex`, `wb`, `ldx` | the store in EX and WB; the load dispatched before its answer (`ldx_pend`, `ldx_fast_q`) |
| `sb`, `sb_rp`, `sb_wp`, `sb_cnt` | the store FIFO |
| `dq`, `look`, `ans` | the read slot; the lookup launched with a read and its verdicts; `rd_ack` with its data |
| `mem_req`, `xfer` | the port, the transfer and, if it is split, the piece |
| `rdq`, `rd_drop`, `ph` | EA-fetch's outstanding read, its drop mark, the phase as far as faults decide it |
| `mem` | memory as the port sees it |
| `rdexp`, `rd_dead`, `born`, `done`, `gone` | ghosts: what the read must return, whether its instruction was abandoned, which stores exist, are in memory, are withdrawn |

`Clock` is the conjunction of the always-blocks (`Port`, `StDone`, `Fifo`, `Slot`,
`Pipeline`, `EaFetch`). A byte of memory holds `<<store, byte>>`, so a stale,
foreign or shifted byte is seen. Simplifications: one function code (the code
forwards only between equal ones) and no locked reads (they never use the read
path); the address of a fetch is not kept; instructions are the stores and reads
they make; the cache's read path answers from `mem`, which `Paths` restricts to
what the wrapper may qualify; the only flush with a younger read outstanding is
the self-modifying-code refetch, after which EA-calc is empty for two clocks
(`Refill`: the queue and ID are registers). `BcuProofs` holds the theorems.

### `WalkerCdc` — the walker's clock bridge

Source: `ap040_walker_cdc.v`; client: the walker port of `ap040_mmu.v`. An edge of
one clock, of the other, or of both at once. In the last case a toggle that
changes is sampled old or new, and a bus that changes reads as garbage. CPU reset and system
reset strike at any time. The RAM controller is external: it takes a request on
its rise and answers later, also after the reset that withdrew it; a CPU reset is
assumed to outlast one RAM transaction (`ReleaseS`). `WalkerCdcProofs` holds the theorems.

### `Ram2w`, `TwoWriteTable` — the two-write table

`Ram2w` is the two XOR banks; `TwoWriteTable` the flip-flop array its header says
it replaces; `ImplementsTable` the refinement.

### `Bus16` — the 16-bit bus adapter

Source: `ap040_bus16_adapter.v`. The target is the bench's: it takes a cycle once,
holds its acknowledge as a level until it samples IDLE, may be slow, may end in a
bus error. The client is the cache's memory port. Operand bytes are their indices,
bytes read are their addresses. The clock enable is high at most while the bus is
idle or the target answers. `nreset` may fall for a single clock. `Bus16Proofs` holds
the theorems.

### `BusTimeout` — the stall watchdog

Source: `ap040_bus_timeout.v` as hooked up in `ap040_pipe_tg68k_compat.v:255`. The
counter runs on every clock, its client on enabled ones; answers come at any time
or never.

### `Cache`, `CacheSystem` — the data cache and who meets in it

Sources: `ap040_cache.v`; around it the table search of `ap040_mmu.v`, the snoop
port and the wiring of `ap040_pipe_tg68k_compat.v`, and the core's one request at a
time. The parameters are those of the wrapper's copyback build with fills over the
adapter (`POST_STORES`, `COPYBACK` on; `FILL_CHANNEL`, `WALLOC`, `MIS` off).

| Model | Code |
|---|---|
| `c` | the FSM's registers: state, request, posted store, drain `dr_*`, push `p_*`, owed invalidates (`sil` = `store_inv_lost`, `winv`, `ci_inv`), `err_hold`, walker look-up |
| `vb`, `db`, `rr`, `tags`, `cdata` | valid, dirty, round-robin, tag and data arrays |
| `vq`, `rq`, `tq`, `dq`, `pbuf` | what the block RAMs last read; the line being pushed |
| `fill_snooped`, `look_snooped`, `st_snooped` | the collision flags |
| `core`, `op` | the core's access, CINV or PTEST; the access |
| `wst`, `w_*`, `walker_wr_d`, `wsnp` | the table search, the walker port, the walker's own strobe |
| `mem`, `stale_read`, `stale_desc` | ghosts: longwords memory is up to date in; an old value was read |

A copy of a longword is the longword's number while it is its last value and `Nil`
afterwards: when a store, a walker write or the chipset renews a longword, every
other copy ages. One `Clock` moves all of it; an enabled clock runs the FSM, the core
and the search, a frozen one only the strobes and what they clear. What a register
holds while nothing reads it is cleared, and so is what an invalid way holds (a way
that came back to life would show `Nil`, an old value).

External: memory answers a request one clock or more after it went up, and never in
the clock after an answer (the adapter's boundary); the chipset's write is in memory
in the clock of its strobe, never two strobes in enabled clocks running, and never
to a copyback page (`cb_win`). A CINV and an access exclude each other, as EA-fetch
waits for `bus_idle` and holds the fetches meanwhile; an ATC miss is an attribute of
the request. The walker's port is answered without errors. `CacheProofs` holds the
types, what the FSM, the core and the search know of each other, and the port's one
user; `CacheRowProofs` the rows and the data.

### `PostedPages` — which stores may be posted

Source: `ap040_pipe_core.v:366-400` with EX's lookup, WB's use of it, the sources of a
clear. `ex`, `wb` are the micro-ops of the two stages (a store, a store that crosses
its page's end, a MOVEC to a translation register); `pg`, `pg_rr`, `pg_ep` the table,
its next entry and its epoch; `known` is a ghost: the pages memory has accepted a store
to since the last clear. Translation is taken to be on; with it off no verdict is used.
EA-fetch serializes PFLUSH and MOVEC (`NothingOlder`), and sends nothing during a PFLUSH.

### `Interrupts` — sampler and instruction boundary

Sources: `ap040_pipe_core.v:443-510`, and of `ap040_ea_fetch.v` the arming
(`irq_pend`), the boundary (`irq_go`), what it holds back (`irq_blk`, `early_blk`),
STOP and the entry's vector and mask. The pins do anything at any clock. An instruction
is the reads it makes and whether it is serialized; EX and WB are modelled because the
mask and the acknowledge toggle commit in WB, clocks behind the entry. Trace, restarted
MOVEMs, the frame's contents and faults of the entry are left out. `InterruptsProofs`
holds the theorems.

### `MutantPool` — the three mutant tables

One action per statement of `run()` that can fail or that another thread or session can
see, one for each thing the main thread and the executor do. A source file is a sequence
of fragments and an edit replaces one; the compiler (which refuses some fragments),
the simulator (where a program notices some) and `timeout` are external. A session may
be killed at any time; its scratch directories stay, and the next one may find changed
sources. The three scripts differ in their programs (`Plans`) and in what is rebuilt.
`TablesAssumption` is what the tables keep to: an edit names a file of `rtl/`, and within
a row no edit of a file looks for the text of another one, or for what another one puts.

### `FuzzGen` — a random program and its run

The generator writes every program of its grammar, a processor runs it with interrupts
between any two instructions. Data is reduced to *where this run differs* from the one it
is compared with: the data registers, the loop counter, two parts of the work area.
Two runs access the same addresses, since pointers never take data.

### `FpspRound`, `Fpsp` — the FPSP test

`FpspRound` is the generator's arithmetic on exact values: extended and double images,
distances in ulps, the midpoint guard. `Fpsp` is `main()`: the cases of passes A, U and
B, the slots and operands each one claims, the expectations and their refusal; and then
the program's run, by a right processor whose transcendental functions err by `err`
ulps, or by one with a single defect in any one case (a wrong result, condition codes,
quotient or INEX2, a step of `An` left out, a case without effect, a stray exception, a
hang); and then the bench's comparison (`tb_ap040_pipe_prog.v`). `Unseen` names the
defects the expectations cannot tell from right, and `DefectCaught` says that those are
all: a processor with one defect passes exactly if it is one of them. They are the
condition codes of packed-decimal stores (finding 7), the rest of FPSR where only its
condition codes are compared (the generator claims no more), and an FADD of zero to a
denormal that does nothing: the register holds the result already.

### `MCLeaves`, `MCTools` — parts that share nothing

`MCLeaves` holds the walker's bridge, the watchdog, the 16-bit adapter, the two-write
table, the posted pages and the interrupts; `MCTools` the mutant tables, the two
generators and the number formats. They extend their parts (all but `Fpsp`), so that TLC
evaluates the parts' assumptions and checks the very properties the theorems state; hence
the names `TimerSpec`, `AdapterSpec`, `BanksSpec`, `PostedSpec`, `IrqSpec`, `PoolSpec`.
`LeavesProofs` holds the proofs about the watchdog, the table and the posted pages;
`WalkerCdcProofs`, `Bus16Proofs` and `InterruptsProofs` those about the other leaves,
`ToolsProofs` those about the tools. Each initial state picks one part; the others rest in
one initial state, so that the graph explored is the union of the parts' graphs and a
property says of a resting part only what its initial state satisfies.

## 3. Runs

| Run | Question | States | Bounds |
|---|---|---|---|
| `bcu` | store order, forwarding, read path, FIFO, sync points, SMC refetch | 154 000 | 3 stores of 6 kinds, reads of 3 kinds, FIFO of 2 |
| `bcu_fault` | faults on every kind of transfer, also inside a split one; build without PRECISE; no wait is for ever | 136 000 | 3 stores of 2 kinds, reads of 4 kinds, FIFO of 2, page of 12 bytes |
| `bcu_abandon`, `bcu_drop` | findings 1 and 2 | – | 2 stores |
| `cache` | coherence, write-backs, searches, sweeps, progress | 231 000 | 2 sets, 2 ways, 2 longwords a line, 6 lines |
| `cache_ptest`, `cache_late` | findings 3 and 4 | – | as `cache`; the PTEST sweep at its real length |
| `leaves` | bridge: one transaction per request under every edge order and reset; watchdog: own faults only; adapter: lanes, boundaries, aborts; table: refinement; pages: no post under a flushed translation; interrupts: taken once, deferred once; no wait is for ever | 113 000 | 3 payloads, one outside the RAM's window; six-bit count; starts 1, 6, 7 of an 8-byte space; 2 rows of 1 bit; 3 pages, 2 entries, 4 epochs; levels 0, 1, 7, masks 0, 7 |
| `irq_level` | finding 5 | – | levels 0, 1, 7 |
| `tools` | verdicts true, scripts and programs end, interrupts invisible, right passes and wrong fails but for three gaps, images and guard | 422 000 | 3 rows, 2 threads, 2 sessions; 2 lines with 1-line handlers and 1 interrupt; 22 cases, 4 results, 4 errors; values 64 to 600 |
| `fpsp_cc` | finding 7 | – | 22 cases, 1 result, no error |
| `fuzz_dump` | finding 6 | – | 2 lines |

Why the bounds are enough. *Bcu*: three stores fill a two-slot FIFO and put one in
WB or EX behind it, so full, wrap-around and every pair of positions occur; the
page has three longwords and an alias in the next page, so each outcome of the
overlap and cover tests occurs; there is one outstanding read in the code. The
FIFO's size enters only through its pointers. `bcu_fault` has three stores too, so that
one waits in WB on a full FIFO (a FIFO that drains only while WB waits for nothing is the
mistake `StoresLeaveWb` is paired with), and for that only the kinds in which faults and
splitting differ: a posted store in four pieces and a synchronous one across the page.
*Cache*: three lines compete for the two ways of set 0,
two copyback and one the chipset writes, so every victim is met clean and dirty, a
row has none, one or two dirty ways when it is cleared, pushed or swept, and strobes
meet dirty rows; the misaligned accesses run into the other set; two longwords a line
leave a half-filled and a half-pushed line. Memory latency is unbounded.
*Walker*: the client holds one
request; payloads are compared for equality only. *Bus16*: parity, size and the
wrap decide everything. *BusTimeout*: only reaching the limit matters, and the
proof covers every limit. *PostedPages*: three pages fight for two entries and at most
two stores are in flight; the proof covers every size. *Interrupts*: a level that a mask can hold back and
one that none can, against a mask that lets all pass and one that lets none;
the code only compares levels. *MutantPool*: a row with two
edits, one whose text the sources lack, one argued equivalent; more rows than threads;
the second session meets what the first left. *FuzzGen*: a wrong store, a line that
moves the difference on, and the epilogue; the lines act on the difference one by one.
*Fpsp*: a case or more of every kind, results on and beside midpoints and powers of two,
an error on either side of the bound of 2 ulps; the exponent and mantissa widths enter
only as constants. The formats cover three whole binades and the start of a fourth, value by value.

Every property is paired in `PROJECT.json` with a plausible mistake in the code that it
catches (defined in the modules as "Mutant of ...").

Fairness. `Bcu`: the clock enable comes again, and the memory side answers every
transfer — the watchdog guarantees an answer (`BusTimeout`); `Answering` is both in one
action, as a transfer stands until its answer. `WalkerCdc`: both
clocks run, the enable is not off for ever, resets end, the controller answers.
`Bus16`: the enable is not withheld for ever from a clock that may have it, and
each cycle gets an answer or an error. `Cache`: clocks recur in
which the enable is on, no strobe comes and memory answers what is up; it is stated
with a bit that each such clock turns over (`turn`), since memory is watched by the
watchdogs and strobes have gaps. `BusTimeout`: the clock runs and the enable is not withheld for ever; nothing is assumed
of the answer. `Interrupts`: clocks recur in which the enable is on, memory answers and
nothing stalls; that action (`IrqProgress`) holds the pins still, because fairness of a step
that includes the pins would force them to move. `MCLeaves` states these as
`FairFirst` and `FairSecond`: of each disjunction only the running part's action can be
enabled; the bridge's further four are `WalkerFair`. `MCTools`: a running script takes steps; since no step undoes another, this is
as much as fairness for each thread, and only a restart leaves the end.

## 4. Proofs

| Theorem | Says, for all values of the constants | Argument |
|---|---|---|
| `Ram2wType`, `Ram2wRefines` | the banks implement the two-write table, any rows and bits | `XorWrite`: a bank written with `d XOR other` reads as `d`; per step `ClockRefines` |
| `WalkerCdcInductive` | `[]IInv` | below |
| `WalkerCdcLaunch`, `WalkerCdcAnswer` | the two safety properties of the bridge | from `IInv` |
| `BusTimeoutInductive`, `BusTimeoutFaultIsOwn` | no request fails before its own full count, any counter width | `Counts`: the count of a standing request is at most its wait |
| `BcuInductive`, `BcuTypes`, `BcuRing` | every store is in one place, the FIFO is a queue in program order; any depth, stores, reads, page size, both builds of PRECISE and DFP_MIS | below |
| `BcuEveryStoreOnce`, `BcuSyncPoint` | each store reaches memory once and in order or is withdrawn; none is missing when `sync_busy` is low | from `StorePath` |
| `BcuWritten`, `BcuFetchSeesStores` | the pieces of a store are all of it; a fetch sees what WB and the FIFO stored | `Written` beside `StorePath` |
| `BcuReadOrder`, `BcuReadsLatest` | every operand read returns what the older stores wrote, byte for byte | below |
| `CacheTyped` | types of cache, search and core; any geometry, requests, errors, work | per register and array |
| `CacheOnePortUser` | drain, push, search and request never drive the memory port together | `InStep`, below |
| `CacheRowsSane` | a dirty way is valid, no line is held twice | `RowState`, below |
| `CacheInductive`, `CacheReadsLatest`, `CacheDescriptorsLatest`, `CacheNothingLost`, `CacheSweptClean` | no read and no search sees an old value, no last value is lost, a sweep leaves nothing behind | `Sound`, below |
| `PostedInductive`, `PostedIsSafe` | a store is posted only to a page known since the last translation change, any pages, entries, epochs of two or more | below |
| `AdapterInductive`, `AdapterWhole`, `AdapterStable`, `AdapterHeld` | an acknowledged operand has moved whole and once; no cycle under an acknowledge of another, none that outlives its request; any even space, all starts | below |
| `InterruptsInductive`, `InterruptsDeferOnce`, `InterruptsTakenOnce` | a request waits for one instruction at most and is taken once; all levels and masks | below |
| `ProgramInductive`, `ProgramsEnd`, `InterruptsUnseen` | every random program ends as it should and its dump does not show its interrupts; any length, TRAPs, number of interrupts | below |
| `PoolInductive`, `PoolPrintsTruth` | every verdict printed is true of its row and of this session's sources; any table, threads, kills | below |
| `RoundsToNearest` | the generator's rounding is within half a unit, any value and width | quotient and remainder |
| `GuardDecides` | off a midpoint by the guard, all values within the guard round alike, any widths | the half-open interval of one quotient |

The bridge's properties are not inductive: that an answer fits the request
depends on where the transaction is. `IInv` says that it is one token: at most
one of request toggle unsampled, its first flop, its second flop, destination
active, answer toggle and the two flops back differs (`OneToken`); a token means a
busy source that holds the client's payload (`Handshake`); what each stage holds,
and how often the RAM has been asked, follows from the token's place
(`Progress`, `ControllerIdle`); a reset leaves both sides without token
(`Resets`). Each edge moves the token by at most one place, metastability only
delays it. TLC checks `IInv` as an invariant of `leaves` as well.

`PostedIsKnown` is not inductive either: the verdict in WB says nothing of the pages
known now. Its invariant says that the table holds known pages only (`TableKnown`),
that nothing is in flight during a PFLUSH (`FlushAlone`), and that a verdict whose epoch
is the current one names a known page (`VerdictStands`). The verdict survives a clear
because a clear changes the epoch (`NextEpoch` needs two epochs, no more), and a store
that waits in WB meets none: a MOVEC would have to be in WB itself, and PFLUSH found the
pipeline empty.

**The store path.** `EveryStoreOnce` counts places and says nothing of how a store gets
from one to the next. `StorePath` adds what each hand-over relies on: the ring's valid
slots are those from the read pointer on, and program order runs along them (`Ring`);
FIFO before WB before EX (`Order`); the store on the port is the FIFO's oldest, or WB's
own with an empty FIFO (`PortStore`); a registered completion belongs to the store WB
still holds (`Completion`); and a store that is both live and in memory is just that one
(`Accounts`). That the pieces of a split store cover it is separate (`Written`): the
port's counter says which bytes memory has.

**The reads.** `ReadsLatest` speaks of the answer; by then nothing shows what the read
was compared with. `ReadOrder` follows it: until it is answered, what it must return is
what memory shows under the older stores still on their way (`Expected`, with the ghost
`rdexp` fixed when the read is issued): a store that reaches memory, or one dispatched
later, does not change that. A look-up's verdicts and data, a clock old, are right unless
EX holds a store they have not seen, which is then in the way of the answer (`LookedUp`).
A read on the port has no older store on the way at all, and each piece it has is right
(`PortRead`). A split access is cut without gap or overlap (`PieceInside`, `NextPiece`).

**The cache.** Its properties rest on each other in three layers, each proved inductive
on top of the one before.

- `InStep`: what state each of core, search, drain and FSM is in when another is
  busy (a look-up means a cached read stands; a search means nothing drains; a posted
  store means its state is C_PASS). One case per move of the FSM; `FsmCases` derives
  the moves from the nested assignments once, and the rest of the proofs uses only those.
- `RowState`: `RowsSane` is not inductive, because a fill writes back a row
  image that is a clock or more old and a merge marks a way the image names. What makes
  it so: the image differs from the row only by ways that a strobe has cleared, and the
  collision flag is up if one has (`Images`); each row clear that is owed (`sil`, `ci_inv`,
  `winv`) is served before anything looks the row up (`Pending`); a strobe clears no dirty
  way. The way chosen among several is the least (`LowestWay`, by well-foundedness).
- `DataState`: a copy may be old only while its row's clear, its own merge or the sweep
  is still to come (`Copies`), and a dirty copy only until its merge (`DirtyRight`);
  the words of a fill, a look-up and a push are last values unless the collision flag says
  otherwise (`FillWords`, `LookWords`, `PushWords`); a store or an inhibited access finds its
  rows without dirty lines (`StoreRows`); the walker's next descriptor is in no dirty line
  (`WalkerClean`); memory, the posted store or a dirty way has every last value
  (`NothingGone`). `LookRow` says a look-up refused for a strobe finds only dirty ways, so that a
  fill, whose victim is clean, cannot duplicate a line.

The theorems of these layers, but for `CacheTyped`, assume `Orderly`: demand errors only
and no PTEST. These are the two cases the runs `cache_late` and `cache_ptest` show to fail, so the
hypothesis cannot be dropped; `cache` itself satisfies it.

**The 16-bit adapter.** An acknowledge says nothing of the cycles before it.
`AdapterInv` says where an operand stands at every clock: the bus shows the next bytes of
the saved request or IDLE (`BusShowsRequest`), the bytes before them are in the read shift
register or out of the write one (`OperandUnderWay`), and the target has been given those of
the cycle on the bus exactly when it is not idle (`TargetHasCycle`, `TargetHasBytes`).
A bus error outlives its cycle but meets no request (`ErrorIsSpent`), as the client keeps
`mem_req` low for a clock. An operand wraps at the end of the space at most once (`PlusWraps`).

**The interrupt boundary.** An acknowledge is decided when the entry is dispatched, commits
two clocks later and reaches the sampler a clock after that, while the arm, the hold register
and `irq_pend` go on showing the request. `BoundaryInv` says why they are not believed:
behind an entry's last micro-op the stage is empty for longer than the acknowledge takes
(`FinalAlone`), a stale request meets no instruction (`PendIsFresh`), the arm of level 7
stands without another level seen only while its entry is under way (`ArmedByLeaving`). For
`DeferredOnce`, the successor of an instruction that left under a request is still at its
first micro-op (`HeldAfterOne`).

**The random programs.** That a program ends depends on every line written, so the invariant
follows the generator and the processor. `Written` and `StillToWrite` say of each
routine that a push is followed by its pop, that privileged lines stand where the main body is
in supervisor mode (`UserAt`, which an appended line does not change), and that what is
finished ends with its own return. `Executing` says that the processor is at a line whose
callers, and nothing else, are on the stack of its mode (`At`), or in the interrupt
handler, entered from such a place (`InHandler`). `Alike` says that without a wrong store
nothing differs outside the handler. What is on a stack and no caller
is popped by the very next line.

**The mutant tables.** `RowsTrue` speaks of what is printed; `PoolInv` follows each row.
Its scratch tree is the session's with the edits made so far (`TreeAt`), each of which
found its text once (`Fits`): because edits of a row do not meet, the count in the half-edited
tree is that in the sources (`CountStays`), and the last tree is the intended one
(`MutatedIsIntended`). Each bench built is of that tree and each result one that tree can
show (`AtWork`), whatever an earlier session left, because a row begins with nothing built.

Before each proof TLC checked the invariant: `StorePath`, `Written` and `ReadOrder` with the
constants of both `Bcu` runs; `RowState` and `DataState` with those of `cache` and on
four smaller geometries (1 or 2 sets, ways and longwords), where it could be
explored with all kinds of requests at once; `AdapterInv` with spaces of 4, 6 and 8 bytes
(57 000 to 188 000 states), `BoundaryInv` with levels 0, 2, 3, 7 against masks 0 to 3
and 7 (524 000), `ProgramInv` with three lines (2 285 000), `PoolInv` with the tables of
`tools` (116 000).

Assumptions are those the modules name (`PayloadAssumption`, `LimitAssumption`,
`WidthsAssumption`, `BcuAssumption`, `CacheAssumption`, `SystemAssumption`, `Parameters`
of `PostedPages`, `RowsAssumption` and `TablesAssumption` of `MutantPool`, ...); TLC
evaluates them in the runs. Those of `Bcu` and `CacheSystem`
say what requests look like (sizes, addresses inside memory) and, for the cache, what the
wrapper's window guarantees: no copyback page holds a longword the chipset writes, and
memory is a whole number of lines for every set. `SpaceAssumption` of `Bus16` says that
the space is an even number of bytes, at least an operand's four, `LevelsAssumption` of
`Interrupts` that levels and masks have three bits, and `TrapsAssumption` of `FuzzGen`
that TRAP #15 is the generator's own.

Model-checked only:

- all liveness (`ReadsAnswered`, `StoresLeaveWb`, `WorkEnds`, `HeldRequestEnds`,
  `NothingWaitsForever`, `ScriptEnds`): the prover has no fairness or ENABLED reasoning;
- `ImagesRight` and `DoubleDecided`: they are about images normalised by powers of two, which
  the prover leaves uninterpreted, and rest on `BitLength`, whose value for every argument is an
  induction over data. `RoundsToNearest` and `GuardDecides` are their core, for one unit;
- `RightPasses` and `DefectCaught`: they rest on those images and on programs put together by a
  fold over the cases, again an induction over data; `DefectCaught` moreover is a claim about
  one table of cases: in another, a case could follow one with the same result, and its
  having no effect would not show.

## 5. Findings

1. **A read issued in the clock a fault abandons its instruction is not dropped**
   (`bcu_abandon`). `ap040_ea_fetch.v:2587` marks a read that is outstanding, not
   one being issued in that clock (`rd_req` is gated by `flush` and `tr_take`, not
   by `wf_go` or `ldx_err_go`). The answer arrives in exception entry; if it is an
   access error the core takes it for the entry's own and halts. The redirect at
   line 3184 has the missing term.
2. **A read issued in the clock a dropped read is answered inherits the mark**
   (`bcu_drop`). `rd_drop` clears only when no new read goes out (2532–2533). The
   live read is discarded and made again.

3. **PTEST does not wait for a draining store** (`cache_ptest`). Two comments say it
   does; `walk_hold` guards only the search of an access (`ap040_mmu.v:571`), PTEST
   waits for `bus_idle`, which does not see the cache's drain, and for the 33 clocks
   of its pre-flush. A longer drain, two chip-bus cycles under contention, shares
   the memory port with the search and may be storing the descriptor it reads.
4. **A late bus error does not halt the core** (`cache_late`). `post_err` reaches
   only a debug output; the core's halt input takes the bus controller's error
   alone. The store is lost and the program goes on, or, if a request is up, that
   unrelated access takes the fault. The `cache` run therefore has demand errors only.

5. **An interrupt's vector and mask may be those of two levels** (`irq_level`).
   The vector is registered a clock before the entry (`irq_take_lvl`,
   `ap040_ea_fetch.v:3034`), the mask is the live level of that clock (3081). If
   the level changes between, level 1's handler runs with mask 7 or 0; the acknowledge,
   chosen by the mask (`ap040_pipe_core.v:495`), goes to a level 7 nobody took, which is
   lost; or a level is taken again inside its own handler. `TakenOnce` speaks of runs
   before such an entry.
6. **The fuzz programs do not dump all of their work area** (`fuzz_dump`). `gen.py:3`
   and `fuzz.sh:6` say the work area is $2000–$2FFF and is compared; the copy
   (`gen.py:134`) ends at $2BFF, while pointers and offsets reach beyond. A wrong store
   there shows only if a later line loads it.
7. **The condition codes of packed-decimal stores are not checked** (`fpsp_cc`).
   `mk_fpsp.py:32` says the condition-code byte is checked exactly for every case. The
   packed-out cases (501–512) clear FPSR before the store and keep nothing of it after, and
   the `.exp` has their digits alone (594–597).

Seen while modelling, without a run: the row `m3_snoop` of `dfpmis_mutants.py:28` no
longer applies (`ap040_cache.v` has `vb_g1` in place of its text), and the script
reports it so, as `RowsTrue` demands. `wa_mutants.py:141` takes the rows named on its
command line as they come: a row named twice would be two threads in one directory, and
neither verdict would be of its own tree. `MutantPool` runs each row once
(`RowsAssumption`), as the scripts do when no row is named.

Two more came up in the proofs of the cache. C_FERR releases `err_hold` because, as its
comment says (`ap040_cache.v:1441-1444`), "a request raised again before C_IDLE is reached
is blocked forever"; C_WINV (1452-1457) does not. An inhibited store that crosses a line and
ends in a bus error in the very clock of a strobe goes there with the hold set, and if the
core has its next request up when C_IDLE is reached, that request is never answered. In
the model one clock without a request is all it takes; whether the core's exception entry
and its fetches leave more is outside it. The requests of `cache` have no such store, so that
`WorkEnds` speaks of the others; the safety theorems hold with it (`Stuck` in `SilOwed` is
this state). And `fill_snooped` is cleared by a look-up that misses, not by one whose hit is
refused for a strobe (730): the fill may start with the flag of an earlier one and be thrown away.
That costs a refill, never a value.

In `Bcu`, `ReadsLatest` speaks of reads that are neither dropped nor abandoned.

## 6. Not modelled, and why

- **ALU, multiply and divide, FPU, decode**: wide combinational functions of the data;
  co-simulation against a reference is the better tool.
- **Instruction fetch**: the prefetch queue, its drop mark and the BTB. `Bcu` has the
  fetch request as a free choice, so that everything its fetches could do to stores and
  reads is covered; what IF makes of its answers is not.
- **MMU**: beyond the order of its searches (`CacheSystem`) and its walker port
  (`WalkerCdc`): ATC contents, TTRs, PFLUSH, indirect descriptors, protection and walker
  bus errors. A faithful model needs the three levels with their U and M bits, about as
  much again as `Cache`.
- **EA-fetch and EX beyond section 2**: frames, RTE, trace, MOVEM restarts, the FPU
  phase, register results. **EA-calc and the register file**: interlocks and forwarding.
- **Cache**: the instruction bank, the read-only copies, the fill channel,
  write-allocate, the two-piece misaligned path.
- **`mk_fpsplib.py`**: one run over one fixed library, identified by its checksum.
  **`mk_t*.py`**: straight-line emission of fixed vectors. **`bin2hex.py`,
  `trace_gaps.py`**: a conversion and a report. None has state or a choice.
- **Of the modelled tools**: the installer's start-up in `mk_fpsp.py`, encodings of
  immediates and packed digits, `mpmath` and `fpsp_model.c`; registers, addresses,
  translation and copyback set-up in `gen.py`.
- **L1 test memory, RAM primitives**: no protocol. **`rtl_old/`**: the reference core,
  not built.

What would add most next: the MMU (an access passes only under a translation the tables
allowed since the last flush of its page, with the walker port of `WalkerCdc`), then the
prefetch queue against the stream of words from the last redirect.
