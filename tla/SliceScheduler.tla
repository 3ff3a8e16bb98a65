---------------------------- MODULE SliceScheduler ----------------------------
(***************************************************************************)
(* The deterministic scheduler of AstraRecomp's core: Emulator::run_slice   *)
(* cuts a host slice into batches of guest instructions, each no longer    *)
(* than Memory::cycles_until_next_event; Cpu::run executes the batch, every *)
(* instruction (or every recognised zero-fill loop) calling                 *)
(* Memory::advance; after the batch run_slice steps the IOP and hands the   *)
(* completed DMA packets to the GIF and VIF1.                               *)
(*                                                                         *)
(* Abstracted: guest memory and packet bytes (a packet is named by the RAM  *)
(* range or chain it carries), what the SIF chains hold (modules SifReply   *)
(* and SifCommand) and what VIF1 and the GIF do with a packet.  A guest     *)
(* store is a change of one DMA register, of the tags of the VIF1 chain, or *)
(* of nothing modelled.                                                     *)
(***************************************************************************)
EXTENDS Integers, Sequences

CONSTANTS
  IopDivider,    \* EE cycles per IOP cycle (8 in the code)
  QwCycles,      \* EE cycles charged per transferred quadword (8 in the code)
  FastCycles,    \* guest instructions of one zero-fill iteration (7 in the code)
  SliceSizes,    \* instruction counts the host passes to run_slice
  RamQw,         \* quadwords of RAM: a source range must end at or below it
  Sources,       \* MADR values the guest writes
  GifQwcs, VifQwcs,   \* QWC values the guest writes
  GifModes, VifModes, \* CHCR.MOD values: "normal", "chain" (VIF1) or "other"
  Chains,        \* walkable VIF1 chains, as [qwc, end] (total length, final MADR)
  Broken,        \* a chain whose walk does not reach an end tag
  Edges,         \* the free-running edges: HBlank and the video phase
  EdgePeriods,   \* cycles from one edge to the next
  EdgeStart,     \* cycles to the first edge after Memory::clear
  Cores,         \* the SPU2 cores, each with a DMA channel
  SpuCycles,     \* durations of an SPU2 transfer
  Sifs,          \* the SIF channels
  SifQwcs,       \* quadwords a SIF burst is charged for
  EeBound        \* the SIF channels whose bursts are written to EE RAM (SIF0)

(* The code's constants satisfy these: QwCycles = IopDivider = 8, an edge   *)
(* lasts thousands of cycles, an SPU2 transfer at least 384.               *)
ASSUME ClockAssumption ==
  /\ IopDivider \in Nat \ {0} /\ QwCycles \in Nat /\ FastCycles \in Nat \ {0}
  /\ QwCycles >= IopDivider
  /\ SliceSizes \subseteq Nat /\ RamQw \in Nat /\ Sources \subseteq Nat
  /\ GifQwcs \subseteq Nat /\ VifQwcs \subseteq Nat
  /\ GifModes \subseteq {"normal", "other"}
  /\ VifModes \subseteq {"normal", "chain", "other"}
  /\ Chains \subseteq [qwc : Nat, end : Nat] /\ Broken \notin Chains
  /\ EdgePeriods \subseteq Nat /\ EdgePeriods # {} /\ EdgeStart \in Nat
  /\ \A p \in EdgePeriods \cup {EdgeStart} : p >= IopDivider
  /\ SpuCycles \subseteq Nat \ {0}
  /\ SifQwcs \subseteq Nat \ {0} /\ EeBound \subseteq Sifs

(* Every countdown is a variable of its own in Memory: no two share a name. *)
ASSUME NameAssumption ==
  /\ {"iop", "gif", "vif1"} \cap (Edges \cup Cores \cup Sifs) = {}
  /\ Edges \cap Cores = {} /\ Edges \cap Sifs = {} /\ Cores \cap Sifs = {}

VARIABLES
  running,    \* where run_slice is: "idle", in Cpu::run ("batch"), or leaving it ("stopped")
  ready,      \* Emulator::ready_
  bios,       \* ~image_.ok: the IOP is stepped
  remaining,  \* run_slice's remaining
  batch,      \* instructions of the current budget not yet executed
  executed,   \* instructions of the current budget executed
  eeToIop,    \* ee_cycles_until_iop_
  iopPhase,   \* iop_cycle_remainder_
  edge,       \* hblank_cycles_remaining_ and video_cycles_remaining_
  spu,        \* spu2_dma_cycles_remaining_
  sif,        \* per SIF channel: STR on the EE side and on the IOP side, whether
              \* the tags at its TADR can be walked, countdown
  gif,        \* GIF channel: registers, countdown, latched source range
  vif,        \* VIF1 channel: registers, countdown, latched normal-mode range
  chain,      \* the chain at VIF1's TADR (where a finished chain leaves TADR, the
              \* next StoreTag chooses)
  gifq, vifq, \* completed packets not yet serviced
  sink        \* history: packets serviced since the last guest cycle

run    == <<running, ready, bios, remaining, batch, executed, eeToIop>>
timers == <<iopPhase, edge, spu, sif>>
dma    == <<gif, vif, chain, gifq, vifq>>
vars   == <<run, timers, dma, sink>>

-----------------------------------------------------------------------------
(* DMA registers and their discovery by advance.                            *)

Fits(src, qwc) == src + qwc <= RamQw
Latch          == [src : Nat, qwc : Nat]
NoLatch        == [src |-> 0, qwc |-> 0]

GifOff == [str |-> FALSE, mode |-> "normal", qwc |-> 0, madr |-> 0,
           left |-> 0, latch |-> NoLatch]
VifOff == [str |-> FALSE, mode |-> "normal", qwc |-> 0, madr |-> 0,
           left |-> 0, latch |-> NoLatch, normal |-> FALSE]
SifOff == [ee |-> FALSE, iop |-> FALSE, walk |-> FALSE, left |-> 0]

GifArmed(g) == g.left = 0 /\ g.str /\ g.mode = "normal" /\ g.qwc # 0
VifArmed(v) == v.left = 0 /\ v.str
               /\ (v.mode = "chain" \/ (v.mode = "normal" /\ v.qwc # 0))
SifArmed(s) == s.left = 0 /\ s.ee /\ s.iop

(* Memory::cycles_until_next_event is the least of the Deadlines; with an    *)
(* armed channel it is one cycle.  The mutants forget VIF1's countdown, the *)
(* free-running edges, and to skip the countdowns that are not running.     *)
Armed == GifArmed(gif) \/ VifArmed(vif) \/ \E s \in Sifs : SifArmed(sif[s])

RunningWithoutVif == {spu[c] : c \in Cores} \cup {sif[s].left : s \in Sifs} \cup {gif.left}
Running == {spu[c] : c \in Cores} \cup {sif[s].left : s \in Sifs}
           \cup {gif.left, vif.left}

DeadlinesWithoutEdges ==
  IF Armed THEN {1} ELSE {IopDivider - iopPhase} \cup (Running \ {0})
DeadlinesOfAll ==
  IF Armed THEN {1} ELSE {IopDivider - iopPhase} \cup {edge[e] : e \in Edges} \cup Running
Deadlines ==
  IF Armed THEN {1}
  ELSE {IopDivider - iopPhase} \cup {edge[e] : e \in Edges} \cup (Running \ {0})

IsLeast(n, S) == n \in S /\ \A m \in S : n <= m

-----------------------------------------------------------------------------
(* Memory::advance, channel by channel: retire what is due, then start what *)
(* is armed.  A countdown that is overshot simply ends late.  Mutants: the   *)
(* countdown runs while stopped; a packet is cut from the registers as they *)
(* are at completion.                                                       *)

ElapseAlways(left, n) == left - n
Elapse(left, n) == IF n < left THEN left - n ELSE 0
Due(left, n)    == left # 0 /\ left <= n

GifRetired(g, n) ==
  IF Due(g.left, n)
  THEN [GifOff EXCEPT !.mode = g.mode, !.madr = g.latch.src + g.latch.qwc]
  ELSE [g EXCEPT !.left = Elapse(@, n)]

GifStarted(g) ==
  IF GifArmed(g) /\ Fits(g.madr, g.qwc)
  THEN [g EXCEPT !.left = g.qwc * QwCycles,
                 !.latch = [src |-> g.madr, qwc |-> g.qwc]]
  ELSE g

GifNext(g, n)    == GifStarted(GifRetired(g, n))
GifPacketsOfRegisters(g, n) ==
  IF Due(g.left, n) THEN <<[path |-> "gif", data |-> [src |-> g.madr, qwc |-> g.qwc]]>> ELSE <<>>
GifPackets(g, n) == IF Due(g.left, n) THEN <<[path |-> "gif", data |-> g.latch]>> ELSE <<>>

(* A chain is walked again at completion; a walk that fails then leaves the *)
(* channel started.                                                         *)
VifDelivers(v, ch) == v.normal \/ ch # Broken

VifRetired(v, ch, n) ==
  IF ~Due(v.left, n) THEN [v EXCEPT !.left = Elapse(@, n)]
  ELSE IF VifDelivers(v, ch)
       THEN [VifOff EXCEPT !.mode = v.mode,
                           !.madr = IF v.normal THEN v.latch.src + v.latch.qwc ELSE ch.end]
       ELSE [v EXCEPT !.left = 0, !.normal = FALSE, !.latch = NoLatch]

VifStarted(v, ch) ==
  IF VifArmed(v) /\ v.mode = "chain" /\ ch # Broken
  THEN [v EXCEPT !.left = (IF ch.qwc = 0 THEN 1 ELSE ch.qwc) * QwCycles]
  ELSE IF VifArmed(v) /\ v.mode = "normal" /\ Fits(v.madr, v.qwc)
  THEN [v EXCEPT !.left = v.qwc * QwCycles, !.normal = TRUE,
                 !.latch = [src |-> v.madr, qwc |-> v.qwc]]
  ELSE v

VifNext(v, ch, now, n) == VifStarted(VifRetired(v, ch, n), now)
VifPackets(v, ch, n) ==
  IF Due(v.left, n) /\ VifDelivers(v, ch)
  THEN <<[path |-> "vif1", data |-> IF v.normal THEN v.latch ELSE ch]>> ELSE <<>>

(* Which sides of a SIF burst retire and how long it is depends on its tags: *)
(* any outcome here.  A burst that ends has written memory, which may hold  *)
(* the tags of the next, and of VIF1's chain.                               *)
Written(s, n, S) == \E i \in S : Due(s[i].left, n)

SifRetired(s, written, n) ==
  [ee : IF Due(s.left, n) THEN {s.ee, FALSE} ELSE {s.ee},
   iop : IF Due(s.left, n) THEN {s.iop, FALSE} ELSE {s.iop},
   walk : IF written THEN BOOLEAN ELSE {s.walk}, left : {Elapse(s.left, n)}]

SifStarted(s) ==
  IF SifArmed(s) /\ s.walk
  THEN {[s EXCEPT !.left = q * QwCycles] : q \in SifQwcs}
  ELSE {s}

SifNext(s, written, n) == UNION {SifStarted(r) : r \in SifRetired(s, written, n)}

(* advance(n), after the guest's store left the registers g, v, s and the   *)
(* chain ch.  VIF1 retires before SIF0 writes and starts after it.          *)
Advance(n, g, v, s, ch) ==
  /\ iopPhase' = (iopPhase + n) % IopDivider
  /\ \E p \in [Edges -> EdgePeriods] :
        edge' = [e \in Edges |-> IF n < edge[e] THEN edge[e] - n ELSE edge[e] + p[e] - n]
  /\ spu' = [c \in Cores |-> Elapse(spu[c], n)]
  /\ sif' \in [Sifs -> UNION {SifNext(s[i], Written(s, n, Sifs), n) : i \in Sifs}]
  /\ \A i \in Sifs : sif'[i] \in SifNext(s[i], Written(s, n, Sifs), n)
  /\ gif' = GifNext(g, n)
  /\ chain' \in IF Written(s, n, EeBound) THEN Chains \cup {Broken} ELSE {ch}
  /\ vif' = VifNext(v, ch, chain', n)
  /\ gifq' = gifq \o GifPackets(g, n)
  /\ vifq' = vifq \o VifPackets(v, ch, n)
  /\ sink' = <<>>

-----------------------------------------------------------------------------
(* Cpu::run, inside a batch.                                                *)

Execute(n, g, v, s, ch) ==
  /\ running = "batch" /\ n <= batch
  /\ batch' = batch - n
  /\ executed' = executed + n
  /\ Advance(n, g, v, s, ch)
  /\ UNCHANGED <<ready, bios, remaining, eeToIop>>

(* A guest instruction that touches nothing modelled; also an accepted      *)
(* interrupt or a raised exception, which cost a cycle each.                *)
Instruction == Execute(1, gif, vif, sif, chain) /\ running' = running

(* Stores to D2_CHCR, D2_MADR, D2_QWC (GIF) and D1_* (VIF1).  Writing CHCR   *)
(* or a source register of a transfer in flight neither cancels nor redirects*)
(* it.                                                                      *)
GifWrites == {[gif EXCEPT !.str = c.str, !.mode = c.mode] : c \in [str : BOOLEAN, mode : GifModes]}
             \cup {[gif EXCEPT !.qwc = q] : q \in GifQwcs}
             \cup {[gif EXCEPT !.madr = a] : a \in Sources}
VifWrites == {[vif EXCEPT !.str = c.str, !.mode = c.mode] : c \in [str : BOOLEAN, mode : VifModes]}
             \cup {[vif EXCEPT !.qwc = q] : q \in VifQwcs}
             \cup {[vif EXCEPT !.madr = a] : a \in Sources}

StoreGif == \E g \in GifWrites : Execute(1, g, vif, sif, chain) /\ running' = running
StoreVif == \E v \in VifWrites : Execute(1, gif, v, sif, chain) /\ running' = running
StoreTag == \E ch \in Chains \cup {Broken} :
              Execute(1, gif, vif, sif, ch) /\ running' = running
StoreSif == \E i \in Sifs, b \in BOOLEAN :
              /\ \E s \in {[sif EXCEPT ![i].ee = b], [sif EXCEPT ![i].iop = b],
                          [sif EXCEPT ![i].walk = b]} :
                   Execute(1, gif, vif, s, chain)
              /\ running' = running

(* try_fast_zero_fill: whole iterations of the loop, then one advance.  The *)
(* cleared RAM may hold the tags of VIF1's chain, and a cleared tag ends it *)
(* (REFE), or those of a SIF chain, where a cleared tag cannot be walked.   *)
FastZeroFill ==
  \E k \in 1..batch, ch \in Chains \cup {chain}, S \in SUBSET Sifs :
    /\ Execute(k * FastCycles, gif, vif,
               [i \in Sifs |-> IF i \in S THEN [sif[i] EXCEPT !.walk = FALSE] ELSE sif[i]], ch)
    /\ running' = running

(* The CPU leaves run early: after an instruction that stops it, or before  *)
(* one it cannot fetch, which costs no cycle.                               *)
StopAfter  == Execute(1, gif, vif, sif, chain) /\ running' = "stopped"
StopBefore ==
  /\ running = "batch" /\ batch # 0
  /\ running' = "stopped"
  /\ UNCHANGED <<ready, bios, remaining, batch, executed, eeToIop, timers, dma, sink>>

-----------------------------------------------------------------------------
(* Emulator::run_slice around Cpu::run.                                     *)

(* service_graphics: PATH3 packets to the GIF, then VIF1's packets.  Mutants: *)
(* VIF1's queue is forgotten; a stop of the CPU skips the service.          *)
ServiceGif == sink' = sink \o gifq /\ gifq' = <<>> /\ vifq' = vifq
ServiceUnlessStopped ==
  IF running = "stopped" THEN UNCHANGED <<gifq, vifq, sink>>
  ELSE sink' = sink \o gifq \o vifq /\ gifq' = <<>> /\ vifq' = <<>>
Service ==
  /\ sink' = sink \o gifq \o vifq
  /\ gifq' = <<>> /\ vifq' = <<>>

(* The top of run_slice's loop; the mutant forgets the IOP's turn.          *)
BudgetsWithoutIop == {remaining} \cup Deadlines
Budgets == {remaining} \cup Deadlines \cup (IF bios THEN {eeToIop} ELSE {})

Plan ==
  IF remaining' = 0
  THEN running' = "idle" /\ batch' = 0
  ELSE running' = "batch" /\ \E n \in Budgets' : IsLeast(n, Budgets') /\ batch' = n

RunSlice ==
  /\ running = "idle" /\ ready
  /\ remaining' \in SliceSizes
  /\ executed' = 0
  /\ Service
  /\ UNCHANGED <<ready, bios, eeToIop, timers, gif, vif, chain>>
  /\ Plan

(* One IOP instruction: it may start or stop its side of a SIF channel,     *)
(* write the tags in its RAM, or start an SPU2 transfer.                    *)
IopStep ==
  \/ UNCHANGED <<sif, spu>>
  \/ /\ \E i \in Sifs, b \in BOOLEAN :
          sif' \in {[sif EXCEPT ![i].iop = b], [sif EXCEPT ![i].walk = b]}
     /\ UNCHANGED spu
  \/ \E c \in Cores, d \in SpuCycles : spu' = [spu EXCEPT ![c] = d] /\ UNCHANGED sif

ScheduleIop ==
  IF bios /\ eeToIop = executed
  THEN eeToIop' = IopDivider /\ IopStep
  ELSE /\ eeToIop' = IF bios THEN eeToIop - executed ELSE eeToIop
       /\ UNCHANGED <<sif, spu>>

EndBatch ==
  /\ \/ running = "batch" /\ batch = 0
     \/ running = "stopped"
  /\ remaining' = remaining - executed
  /\ executed' = 0
  /\ ScheduleIop
  /\ Service
  /\ UNCHANGED <<ready, bios, iopPhase, edge, gif, vif, chain>>
  /\ IF running = "stopped" \/ executed = 0
     THEN running' = "idle" /\ batch' = 0
     ELSE Plan

-----------------------------------------------------------------------------
(* The frontend between slices.                                             *)

(* load_elf, which may fail, and boot_bios: Memory::clear and a fresh phase. *)
Boot ==
  /\ running = "idle"
  /\ bios' \in BOOLEAN /\ ready' \in BOOLEAN /\ (bios' \/ ready')
  /\ eeToIop' = IopDivider
  /\ iopPhase' = 0 /\ edge' = [e \in Edges |-> EdgeStart]
  /\ spu' = [c \in Cores |-> 0] /\ sif' = [i \in Sifs |-> SifOff]
  /\ gif' = GifOff /\ vif' = VifOff /\ chain' \in Chains \cup {Broken}
  /\ gifq' = <<>> /\ vifq' = <<>> /\ sink' = <<>>
  /\ UNCHANGED <<running, remaining, batch, executed>>

(* Emulator::reset restarts the processors; memory's devices run on.        *)
Reset ==
  /\ running = "idle"
  /\ eeToIop' = IopDivider
  /\ UNCHANGED <<running, ready, bios, remaining, batch, executed, timers, dma, sink>>

Init ==
  /\ running = "idle" /\ ready = FALSE /\ bios = TRUE
  /\ remaining = 0 /\ batch = 0 /\ executed = 0 /\ eeToIop = IopDivider
  /\ iopPhase = 0 /\ edge = [e \in Edges |-> EdgeStart]
  /\ spu = [c \in Cores |-> 0] /\ sif = [i \in Sifs |-> SifOff]
  /\ gif = GifOff /\ vif = VifOff /\ chain \in Chains \cup {Broken}
  /\ gifq = <<>> /\ vifq = <<>> /\ sink = <<>>

Guest == \/ Instruction \/ StoreGif \/ StoreVif \/ StoreTag \/ StoreSif
         \/ FastZeroFill \/ StopAfter

Next == Guest \/ StopBefore \/ RunSlice \/ EndBatch \/ Boot \/ Reset

(* The host keeps running: once Cpu::run returns, run_slice finishes.       *)
Spec == Init /\ [][Next]_vars /\ WF_vars(EndBatch)

-----------------------------------------------------------------------------
(* Properties                                                               *)

Packet     == [path : {"gif", "vif1"}, data : Latch \cup Chains]
GifChannel == [str : BOOLEAN, mode : {"normal", "other"}, qwc : Nat, madr : Nat,
               left : Nat, latch : Latch]
VifChannel == [str : BOOLEAN, mode : {"normal", "chain", "other"}, qwc : Nat, madr : Nat,
               left : Nat, latch : Latch, normal : BOOLEAN]
SifChannel == [ee : BOOLEAN, iop : BOOLEAN, walk : BOOLEAN, left : Nat]

(* Every variable keeps its type.                                           *)
TypeOK ==
  /\ running \in {"idle", "batch", "stopped"} /\ ready \in BOOLEAN /\ bios \in BOOLEAN
  /\ remaining \in Int /\ batch \in Nat /\ executed \in Nat /\ eeToIop \in Int
  /\ iopPhase \in 0..(IopDivider - 1)
  /\ edge \in [Edges -> Nat] /\ spu \in [Cores -> Nat]
  /\ sif \in [Sifs -> SifChannel] /\ gif \in GifChannel /\ vif \in VifChannel
  /\ chain \in Chains \cup {Broken}
  /\ gifq \in Seq(Packet) /\ vifq \in Seq(Packet) /\ sink \in Seq(Packet)

(* No guest instruction begins while a packet whose transfer has completed  *)
(* still waits in Memory's queues, so a guest that polls a channel and then *)
(* reads VU1 memory sees what the transfer put there (emulator.cpp: service *)
(* after every batch, before the EE polling code observes completion).      *)
ServicedBeforeGuest ==
  running = "batch" /\ batch # 0 => gifq = <<>> /\ vifq = <<>>

(* run_slice's unsigned counters never wrap: the CPU never executes more    *)
(* than the budget, the slice and the distance to the IOP's next turn.      *)
NoUnderflow ==
  running # "idle" => executed + batch <= remaining /\ (bios => executed + batch <= eeToIop)

(* run_slice never gives the CPU an empty budget, which it would report as  *)
(* a halted guest.                                                          *)
NoSpuriousHalt == running = "batch" => executed + batch # 0

(* Both ways in which a budget of run_slice could be wrong.                 *)
BudgetsSound == NoUnderflow /\ NoSpuriousHalt

(* Why: the current batch ends at or before every deadline, and every       *)
(* countdown that matters to the budget is positive.                        *)
WithinHorizon ==
  /\ eeToIop > 0 /\ \A e \in Edges : edge[e] > 0
  /\ running = "batch" =>
       /\ iopPhase + batch <= IopDivider
       /\ gif.left = 0 \/ batch <= gif.left
       /\ vif.left = 0 \/ batch <= vif.left

(* A transfer that has completed reaches the graphics units although the    *)
(* guest may stop right after it.                                           *)
CompletedIsServiced == gifq \o vifq # <<>> ~> gifq \o vifq = <<>>

-----------------------------------------------------------------------------
(* The refinement: run_slice's batches, countdowns and queues implement the *)
(* exact timeline.  A packet that waits in a queue counts as delivered,     *)
(* because no guest cycle can pass before it is.                            *)

Timers == {"iop", "gif", "vif1"} \cup Edges \cup Cores \cup Sifs

Left(t) == CASE t = "iop"  -> IopDivider - iopPhase
             [] t = "gif"  -> gif.left
             [] t = "vif1" -> vif.left
             [] t \in Edges -> edge[t]
             [] t \in Cores -> spu[t]
             [] t \in Sifs  -> sif[t].left
Countdown == [t \in Timers |-> Left(t)]

(* Armed channels that advance() can start.                                 *)
Startable ==
  (IF GifStarted(gif) # gif THEN {"gif"} ELSE {})
  \cup (IF VifStarted(vif, chain) # vif THEN {"vif1"} ELSE {})
  \cup {i \in Sifs : SifArmed(sif[i]) /\ sif[i].walk}

Timeline == INSTANCE ExactTimeline WITH
  FreeTimers <- Cores,
  PowerOnDue <- [t \in Timers |-> IF t = "iop" THEN IopDivider
                                  ELSE IF t \in Edges THEN EdgeStart ELSE 0],
  Writers <- EeBound,
  Tags <- Chains \cup {Broken},
  MaxElapse <- IopDivider,
  due   <- Countdown,
  armed <- Startable,
  load  <- [t \in {"gif", "vif1"} |->
              [chained |-> t = "vif1" /\ ~vif.normal,
               range   |-> IF t = "gif" THEN gif.latch ELSE vif.latch]],
  tags  <- chain,
  out   <- sink \o gifq \o vifq

(* run_slice keeps the event-horizon contract (docs/EVENT_HORIZON.md): no   *)
(* batch, and no zero-fill chunk inside one, crosses a deadline; transfers  *)
(* deliver what they were started with, chains what they hold at the        *)
(* deadline; packets arrive in completion order.                            *)
KeepsTimeline == Timeline!Spec
===============================================================================
