# Formal models of AstraRecomp

TLA+ models, TLC runs and TLAPS proofs about the core of AstraRecomp, a
PlayStation 2 emulator core for the PS Vita (`src/core`, `include/ps2vita`).
Paths below are relative to the repository.

The core is a single-threaded, deterministic machine. What makes it hard is not
threads but *time*: several guest processors and device engines share one
cycle counter, the host runs it in slices, run_slice cuts a slice into batches,
and every shortcut (batches, the zero-fill fast path, queued packets, cached
blocks) must be invisible to the guest.

## 1. Inventory

| Component | State it keeps | Operations | Hard behaviour |
|---|---|---|---|
| `Emulator` (emulator.cpp) | `ready_`, `image_`, `ee_cycles_until_iop_` | `load_elf`, `boot_bios`, `run_slice`, `service_graphics`, `reset` | unsigned counters shared by three deadlines; order of IOP turn, packet service and guest polling; reset keeps devices |
| `Cpu` (cpu.cpp) | registers, COP0, `branch_pending_`, `halt_requested_` | `step`, `run`, `try_fast_zero_fill`, exceptions, interrupts | interrupts against delay slots; seven instructions at once |
| `Memory::advance` and `cycles_until_next_event` (memory.cpp) | countdowns of HBlank, video, IOP phase, SPU2, SIF0/1, GIF, VIF1; latches; completed-packet queues | `advance(n)`, packet pops | armed channels discovered late; guest edits of registers and tags in flight; horizon computed before a batch |
| SIF link (memory.cpp) | D5/D6 and IOP channel 9/10 registers, tag chains in both RAMs, SBUS flags | start discovery, completion walk, mailbox writes | two chains that end independently; walks at start and at completion; partial copies |
| Block cache (ee_block.cpp) | 256 slots; page and mapping generations in `Memory` | `lookup`, `decode`, `clear`; `write*`, `copy_in`, `zero`, `write_tlb`, `clear_tlb` | self-modifying code, remapping, collisions |
| Memory map and TLB (memory.cpp) | RAM, scratchpad, register windows, 48 TLB entries | `read*`, `write*`, TLB operations | write-one-to-clear and toggle registers |
| `IopCpu` and its bus (iop_cpu.cpp, memory.cpp) | R3000A state with a pending branch and a pending load, I_STAT, I_MASK, DICR | `step`, `iop_write*` | an interrupt between a load and its arrival, or a branch and its slot; RFE's status stack; the isolated cache |
| Timers (memory.cpp) | EE Timer 3, IOP Timer 5: counts, flags, prescaler, target latch | `advance`, register writes | target behind the count; wraps; interrupts once per flag |
| Video clock (memory.cpp) | countdowns with a carried rest, NTSC or PAL | `advance`, mode switch | rational periods over long runs |
| VIF1 DMA chain (memory.cpp) | TADR, tag walk, call stack of the walk | `build_vif1_chain` | calls, scratchpad wrap, restart behind an END or an interrupt |
| VIF1 (vif.cpp) | command registers, pending data, double buffers, VU1 | `submit`, `pop_gif_packet` | commands split across packets; DIRECT against PATH1 order |
| VU1 (vu.cpp) | registers, PC, pipelines of Q and flags, XGKICK state | `run`, `transfer_path1` | hazards counted in cycles; XGKICK stalls and wraps |
| GIF (gif.cpp) | tag state, pending words, vertex queue, transfer rectangle | `submit` | packet boundaries inside a tag |
| GS (gs.cpp, gif.cpp) | frame, depth, texture memory | fragments, triangles, sprites, lines, samples | abutting edges; tests that fail for one buffer only |
| CDVD, SPU2 registers (memory.cpp) | parameter and result FIFO; transfer latches | S-commands, DMA | FIFO limits, a command before the last answer was read |
| SPU2 shadow voices | key-on delay, ADPCM position, envelope | `tick`, key-on, key-off, register writes | key-off before the note started; pitch changes; loops |
| AOT (aot.cpp) | package tables | `validate`, `find`, `dispatch` | bounded escape, sorted tables |
| Frontend (main.cpp, execution_budget.hpp) | running, views, frame budget, progress clock | the frame loop, `run_execution_budget` | clock that stalls or goes back; buttons in one frame |
| ELF loader (elf_loader.cpp, emulator.cpp) | EE RAM, TLB of the guest before | `load_elf` | a failure after half the segments; overlapping segments |
| Census, frontend drawing, tools | - | diagnostics, pixel copies, generators | - |

How they interact: `run_slice` asks `Memory::cycles_until_next_event` for a
budget, `Cpu::run` executes it and calls `Memory::advance` once per instruction
(or once per fast-path chunk), `advance` retires and starts transfers and raises
interrupt bits, run_slice steps `IopCpu` each time `ee_cycles_until_iop_` reaches
zero, then `service_graphics` moves completed GIF packets to the GIF, VIF1
packets to VIF1 (which runs VU1), and VIF1's output to the GIF. The CPUs and the
devices share only `Memory`. There are no callbacks and no threads.

What makes each component correct:

* scheduler: time never skips a device event, counters never wrap, what has
  completed is in the graphics units before the guest can look;
* DMA channels: a packet carries what its transfer was started with;
* block cache: a hit is never stale;
* SIF link: messages arrive complete, once, in order, and only the side that
  ended retires;
* CPUs: an interrupt never splits a branch from its delay slot, and returns to
  where it was taken; no raised line is lost; a word stays a word in a 64-bit register;
* timers and video: no drift, each target and overflow counted once;
* VIF1/GIF: the result does not depend on how the stream is cut into packets;
* VU1: quotients, flags and branch operands come out in their cycle, and a kicked
  packet is what the program had stored when each qword was due;
* GS: abutting primitives draw each sample once, with the depth and colour of their corners;
* CDVD: an answer is whole and its own command's;
* SPU2: samples at the pitch, blocks along their loop flags, a key-off is heard;
* ELF: a load places every segment or leaves nothing to run;
* AOT: a validated package finds an entry exactly when one starts there, and
  the dispatcher returns within its budget;
* execution budget: at most `max_quanta`, and the callback's stop wins.

## 2. Modules

`ExactTimeline` is the abstract specification of the scheduler: a set of timers, armed
channels, and the packets that reached the graphics units in the latest cycle. Time may
pass by more than a cycle only up to the next deadline. Its chains (`Tags`) change by the
guest's hand or by a timer of `Writers`, whose event writes the memory they lie in.

`SliceScheduler` is run_slice, the loop of `Cpu::run`, `advance` and
`cycles_until_next_event`. `running`, `remaining`, `batch`, `executed` are the
locals of run_slice and run; `iopPhase`, `edge`, `spu`, `sif`, `gif`, `vif` are
Memory's countdowns, latches and channel registers; `gifq` and `vifq` its
queues; `sink` is a history variable, the packets serviced since the last guest
cycle. One action for each kind of instruction (`Instruction`, `StoreGif`,
`StoreVif`, `StoreTag`, `StoreSif`, `FastZeroFill`, `StopAfter`, `StopBefore`),
each with the `advance` it calls; `RunSlice` and `EndBatch` are the code between
two calls of `Cpu::run`; `Boot` and `Reset` the frontend's calls between slices.
Packet bytes are abstracted to the RAM range or chain they come from; how the
bytes change in RAM between start and completion is not modelled (the code
samples them at completion). `Sifs` is any set of SIF channels whose tags decide
how long a burst is and which sides retire: both are open here. A burst that ends has written
memory: the tags of the next burst, and those of VIF1's chain if it went to EE RAM
(`EeBound`, SIF0), may be any afterwards.

`EeBlockCache` is `EeBlockCache::lookup` against `Memory`'s generations. A page
holds one value, all that the decoder can see of it. Every store, `copy_in`,
`zero`, `clear`, `load_bios`, TLB write and TLB reset is an action. `from` and
`under` are history: the page and mapping generation a slot was decoded with.

`MessageLink` is the abstract specification of a SIF channel: a FIFO of numbered
messages, sent in lists; the sender is free again exactly when its list arrived.

`SifReply` (SIF0, IOP to EE) and `SifCommand` (SIF1, EE to IOP) are the tag walks of
`advance`. A *slot* stands for a tag at the address a driver put it; `tadr` is the
channel's tag address, `left` is `sif0_cycles_remaining_` or `sif1_cycles_remaining_`,
`ee`, `iop` and `tie` are CHCR bits, `eeIrq` and `iopIrq` the channel's status bits.
`Begin` is the discovery walk (`Predicted`: where it ends), `Elapse` a cycle, `Complete`
and `Fail` the walk at the deadline (`Copied`: the tags it copies). The drivers at both
ends are environment actions: `Send` fills the next slots and starts a channel, the EE
rewrites CHCR and its TLB at any time. Message contents, word counts and padding are left
out. A zero-length NEXT tag, which only SIF1's walks know (SIF0's refuse every id but
CNT), is folded into the slot it leads to (`jump`), and takes a step of the walk
(`Steps`). The transfer bits that a burst sets and clears in SBUS F240 are left out: no
code of the emulator reads them, and the IOP's driver toggles them itself. `copies`,
`failed` and `charged` are history: how often a slot was copied, whether a walk failed
midway, and what the running burst's length was computed from.

`GuestFlow` is what a MIPS program may rely on: its instructions retire along
its own control flow, and a taken branch together with its delay slot.

`EeControl` is `Cpu::step` with interrupt entry, exception entry and ERET, the
interrupt lines of `Memory::ee_interrupt_lines`, and `write32` on the status and
mask registers. The guest's memory is data of the model: `Kind[a]` is the kind of
instruction at `a`, a program first, then the kernel's handlers. `pc`, `branch`
(`branch_pending_` with `pending_target_`), `epc`, `exl`, `cause`, `eie` are
registers; `stat` and `mask` the status and mask bits of INTC and DMAC together;
`seen` the handler's copy of the status; `want` (the devices' events that were not
served yet) and `ran` (what retired last) are history. One action per kind of
instruction, `TakeInterrupt` and `RaiseException` for the two ways into the
kernel, `FastFill` for the fast path, which is tried before `step` and looks at
no interrupt. `Raise` is the device bit `advance` may set at the end of any step.

`R3000Flow` is `GuestFlow` for the IOP, with registers: a loaded value arrives
right before or right after the next instruction, and nothing else is visible of
the load delay.

`IopControl` is `IopCpu::step`. `pc`, `branch`, `reg`, `load`, `epc`, `cause`, `ie`
are the processor's; `stat` and `mask` are I_STAT and I_MASK; `code` is a program,
with the kernel's handler behind it, one operation per address: it saves the
registers, notes the pending lines, acknowledges them, serves them or steps over a
trap, restores the registers with the last load still on its way, and returns by
`jr k0` with RFE in the slot. `At`, `Registers` and `Late` are the refinement
mapping to `R3000Flow`.

`EventLatches` takes the five registers in which one side raises events for another
(MSFLG, SMFLG, I_STAT, DICR, INTC_STAT): `Raise`, `Read`, `Clear`, `Serve` interleave.

`Cadence` is the countdown of HBlank or of a field's phases, with the carried rest
(`carry`); `ideal` is the rational time of the next edge. `Timers` is Timer 3
(`HBlank`) and Timer 5 (`Advance`, tick by tick as in the code), and the writes of
their registers.

`CdvdCommands` is the S-command port: `Command`, `CommandHalfword` (which is a command
and a parameter), `Parameter`, `ReadData`. `driver` is history: what was sent and got.

`VifChain` is `build_vif1_chain`, a tag per step. `path` and `delivered` are history:
the tags met over several transfers, each started where the last one left TADR.

`Vif1Stream` is `Vif1::submit`. A stream is a sequence of commands; `Submit` takes
any number of its units as the next packet. `history.took` is the set of the commands that
took effect, computed from the commands and the packets' ends alone (`Effective`), by which
`OutputInOrder` says what the GIF must have got. `history.step` falls when a packet cuts a
payload that the code does not carry over; what follows is then no longer a command stream.

`GifStream` is `Gif::submit` with tags, registers, the vertex queue and IMAGE
transfers; `writes.log` is the history of register writes by position, from which
the primitives are derived a second time. `GsRaster` has the functions of the
rasteriser: edge rule, scissor, lines, interpolation of depth and colour with its shortcuts
for equal corners, texture wrap modes and bilinear weights, alpha and depth tests, blending.

`Vu1Pipeline` is `Vu1::run`: a pair per step, with the stalls and the pipelines of
Q and flags, branches with kept operands, E bits and the XGKICK engine. The
microprogram is not fixed: each fetch returns any pair of the menu. `past` is history.

`EeIntegers` runs the EE's integer instructions beside an ideal machine on unbounded
integers (`exact`), with the words `Byte` bits per byte wide. `Spu2Voice` is a voice
with `KeyOn`, `KeyOff`, the register writes and `Tick`; `note` is history. `AotDispatch`
is validation, binary search and the bounded dispatch loop, a step of the search per
action. `FrameLoop` is the body of the frontend's loop, a step per button, a quantum
per action, any clock sample after it. `ElfImage` is `Emulator::load_elf` with
`load_elf32`, a segment per action, on memory and a TLB of any guest before.

`MC...` modules give the constants values for TLC. `IopAndHost`, `GraphicsPath`
(`VifChain`, `Vif1Stream`, `GifStream`) and `EeCore` (`EeControl`, `EeBlockCache`) hold
several components that share no state: each behaviour is one of a single component,
chosen in the initial state, and the properties ask of each component what its own module
states. In `EeCore` the idle component stays as a reset leaves it. The modules'
assumptions on constants are operators (`MachineAssumption`, `ChainAssumption`, ...),
asserted there by `ASSUME Constants`. `MCIopAndHost` only gives `IopAndHost` its values;
`MCEeCore` gives `EeCore` its own, and its `ControlSpec` and `CacheSpec` are the
behaviours of one component, for runs of their own; `MCGraphics` gives `GraphicsPath` its
own and adds `GsRaster`, which has bitwise operators that no module with proofs may reach.
`...Proofs` modules hold the theorems.

Two forms are chosen for the provers' sake and mean the same as the code. Alternatives
that exclude one another by their order in the code are IF chains, since the arms of a
CASE have no order in TLA+. Loops are functions defined by recursion: the refill of
a voice (`Consume`), and XGKICK's transfer loop (`Transfer`), whose bound `MaxMoves`
exceeds what a kick can move; `PacketsTheorem` rests on a lemma that nothing due is left
when it is reached.

## 3. Runs

| Run | Question | Result |
|---|---|---|
| `scheduler_graphics` | are GIF and VIF1 transfers delivered exactly on the timeline, whatever the guest writes in flight; is everything completed serviced? | holds, 0.55 million states |
| `scheduler_devices` | the same for free-running edges, SPU2 and IOP turns, and a SIF burst that rewrites VIF1's chain; do counters wrap or budgets vanish? | holds, 0.25 million states |
| `block_cache` | is a hit stale while the TLB was left alone? | never, 1 million states |
| `block_cache_doc` | does a store always invalidate, as ARCHITECTURE.md says? | no: see below |
| `sif_reply` | does SIF0 deliver every message once, in order, with sides that stop at different tags and walks that fail; is a list served? | holds |
| `sif_command` | the same for SIF1, whose messages span tags: is the IOP told of whole messages only? | holds, 0.6 million states |
| `sif_command_doc` | is SIF1's deadline computed from all that is copied at it? | no: see below |
| `ee_control` | are interrupts and exceptions invisible to the program, is no event lost, is each served, do handlers return? | holds |
| `vu1_pipeline` | do quotients, flags, branch operands and XGKICK's packets come out as the cycles say, whatever the program? | holds |
| `graphics_path` | are chains transferred as their tags say; does what is drawn depend on the commands only, not on packets, windings or order of vertices? | holds, 1.5 million states |
| `iop_devices_host` | ten components without common state: IOP, video clock, timers, S-commands, latches, AOT, frame loop, ELF images, voices, EE integers | holds, 1.7 million states |
| `elf_reload_doc` | is every ELF whose segments fit accepted and placed, whatever ran before? | no: see below |

**Finding.** `page_generation` is `page generation ^ mapping generation`. A block
decoded at generations (1, 1) has stamp 0; after a byte store to its page and one
TLB write they are (2, 2), stamp 0 again, and `lookup` returns the stale block.
docs/ARCHITECTURE.md:105-107 promises that this cannot happen. The interpreter
does not execute from the cache today, so nothing is miscompiled yet.
`UnmovedHitsAreFresh` is the part of the promise the code keeps.

**Finding.** The walk that computes SIF1's deadline stops at the first end tag, REFE
or IRQ with TIE (memory.cpp:1195); the walk that copies goes on past an end tag
while the message is unfinished (memory.cpp:1158). With an IRQ tag inside a message
payload is copied that was never charged for, while docs/ARCHITECTURE.md:49-51 says
that the deadline is derived from the complete chain. `NeverEarly` is the part that holds.

**Finding.** `Emulator::load_elf` clears memory but not the TLB (emulator.cpp:22);
`load_elf32` places segments through the address map of the EE, and only a load that
succeeds resets the CPU and the TLB (cpu.cpp:89). Translations that the last guest
wrote move or refuse segments at user addresses, while README.md:542-543 says that
the loader accepts ELF files whose `PT_LOAD` segments fit in EE RAM. `LoadExact` is the
part that holds.

**Bounds.** The code's 8 cycles per IOP cycle, 8 per quadword and 7 per fast-path
iteration exceed TLC, so the runs use 2 or 3, 2 or 3, and 2: what matters is that a
quadword lasts at least an IOP cycle (`ClockAssumption`), that the fast path is shorter
than a batch but longer than an instruction, and that slices end inside and at batches;
the proofs hold for all values. An edge period of 3 or 5 against a divider of 2 makes
edges fall in every phase. One quadword of RAM and QWC 0 or 1 give a transfer that starts,
one that has nothing to send and one that does not fit; the chains are an empty one, one
with payload and one that cannot be walked. `scheduler_devices` has the SIF channel whose
bursts rewrite VIF1's chain, and leaves the GIF off; `scheduler_graphics` has both
graphics channels and no others. The cache run has a page reached directly and a page
behind the TLB, two blocks that share a slot and one that does not, 3-bit generations
(`MaxGen`, `MaxMap` bound the counters; the code's 32-bit wrap is out of the model), and
stores of one and four bytes. The SIF runs have three slots and a walk of two tags, or of
three with SIF1's jumps (64 in the code), so that lists within, of exactly and beyond a
walk occur; a list beyond it is never served, which is the code's limit and not promised
otherwise. Bursts last one or two cycles, so that something may happen before a deadline.
`ee_control`'s program has every kind of instruction, loads that fault in the slots of a
likely branch and of a jump, and a critical section left by EI in a slot; two devices are
enough for one to raise its bit while the other is acknowledged. `MaxFills` is 2: a batch
ends with the IOP's turn, every eight cycles, and a fill takes seven, so each such period
has a step, and at most two fills follow each other.

`iop_devices_host`: IOP programs have six instructions, with every instruction in front
of, in and behind the slots of jumps and branches and with loads pending there; registers
hold 0..2. Timers count modulo 4 with two EE cycles per IOP cycle and prescalers 1 and 2;
video modes have rests that carry and one that does not, over 40 cycles (`Horizon`) in
steps of up to 3. S-commands have FIFOs of three bytes and at most four parameters. AOT
packages are all tables of up to three entries from good and bad ones, and good ones of
four and five, so that each side of the search is entered. The frame loop has a clock
modulo 5, budgets of 0 to 3 and a cycle counter that saturates at 7. ELF files have up to
two segments of ten kinds, or three good ones, in four cells and two pages. A voice has
three blocks of two samples, pitches 0, 1 and 5 against 2, and at most four blocks
(`MaxPath`). EE words have four bits, doublewords eight, and two instructions follow each
other (`MaxSteps`), which is what a wrong extension takes to be seen. `graphics_path`:
chains have up to five tags in RAM and two in the scratchpad with calls two deep; VIF1
streams four commands, six with BASE and OFFSET first; GIF streams up to thirteen units,
of every primitive; vertices lie on and between the samples of a 3 by 3 frame, with areas
on both sides of `AreaLimit`, beyond which a depth is split; all eight alpha comparisons
are tried below, at and above the reference. `vu1_pipeline`: programs of 7 to 11 cycles,
longer than the division's seven, over menus of at most seven pairs that interact.

**Fairness.** Only `EndBatch`: once the CPU has run its budget or stopped, run_slice,
an ordinary function, goes on. Nothing forces the guest or the host to run. In the
SIF modules, weak fairness of `Tick`: every instruction of the EE calls `advance`, and
no register write of a driver stops it. In `EeCore`, weak fairness of `Executes`, which
is `EeControl`'s `Cpu`: `Cpu::run` goes from one instruction to the next. The other runs state
safety only: their components are functions that return, or answer what a guest asks.

**Deadlock.** `CHECK_DEADLOCK FALSE` is given where behaviours end: a loaded file, a
dispatched call, a microprogram's last cycle, a stream that was sent.

**Deviation.** While VIF1 is started on a chain that cannot be walked,
a zero-fill inside a batch may repair the chain; the transfer then starts at the
end of that fill, up to `FastCycles - 1` cycles late. `ExactTimeline` therefore
calls a channel armed only when it can start.

**Limits of the code that the models keep**, and that no property or document speaks of:

* LWL and LWR back to back on the IOP: the second merges with the register before the
  first one's value has landed, so the first half is lost (iop_cpu.cpp:251-263);
  `R3000Flow` takes what is loaded from the registers before, as the code does;
* on the IOP a load lands over its slot instruction's own result to the same register
  (iop_cpu.cpp:91);
* Timer 5 in toggle mode never arms again after it fired;
* byte and halfword writes of a timer's count or target leave the target latch as it
  was (memory.cpp:509, 1599): `Timers` has the word writes of the boot path;
* a voice's loop address written between key-on and the voice's start is lost;
* an ELF whose entry lies in a valid region that is not RAM is accepted;
* a VIF1 chain that ends at a NEXT, CALL or RET by its interrupt leaves TADR behind
  that tag's data and not at its target, and the return stack is local to a transfer, so a chain
  that stops inside a called subchain cannot return later.

## 4. Proofs

`SliceSchedulerProofs`: `IInv` is the type invariant with serviced queues and the
facts that bound a batch: it never exceeds the slice (`remaining`), the IOP's turn
(`eeToIop`), the IOP clock edge, or a running GIF or VIF1 countdown, and every
countdown the budget is taken from is positive. None of the properties is
inductive alone: that no packet waits when an instruction starts needs that a
batch ends with the transfer, which needs that a transfer *started inside* the
batch outlasts it (`TransferOutlastsBatch`, from `QwCycles >= IopDivider`). One
lemma shows that `Execute` with legal arguments keeps `IInv`
(`ExecuteKeepsIInv`), and every guest action is an instance of it; `Plan` and
`EndBatch` re-establish the bounds. Assumption: `ClockAssumption`, satisfied by
the code's constants.

`TimelineTheorem` is the refinement of `ExactTimeline`. `advance` subtracts a batch's cycles
from every countdown at once; that this is what single cycles would have done needs
that no deadline lies strictly inside the cycles advanced by, which is the bound
`cycles_until_next_event` puts on a batch, and, for the fast path and a store that
arms a channel inside a batch, that what was armed meanwhile outlasts it. With it a guest
instruction, a fill, `Plan` and `EndBatch` are each an abstract step or none.

`EeCoreProofs` has the block cache and the control flow of the EE; a step of `EeCore` is one of
a single one of them, so each keeps its invariant (`Inductive`).

The block cache: a slot decoded under the present mapping generation has a
witness `g`, its page's generation at decode; generations only grow, and while the
page's generation is `g` the page is unchanged. Equal stamps under one mapping
generation mean equal page generations (`XorAssumption`).

`SifReplyProofs`, `SifCommandProofs`: for every number of slots, walk limit and charge.
A completion walk that finds an end has copied just the slots from TADR to it
(`CopiedIsPrefix`), so `ExactlyOnce` is kept by moving TADR behind it. That
nothing is copied early needs `ChargeOK`: a running burst was charged up to a
slot that was an end under the TIE of that time. In `SifReply` the invariant also says
that an IOP list in progress ends at the last slot sent (`ListOK`), which the
refinement of `MessageLink` needs; it is proved for both channels.

The control flow: for every program of the shape `ProgramAssumption` describes and any
set of devices. The invariant (`ControlInv`): a branch is pending just in the slot
of a branch and holds its target; EPC is always an *entry*, an address at which the
program may go on by itself (not the slot of a jump); EXL is set just while the pc
is in a handler. From it follow type correctness, `EventsStayVisible`, and step by
step the refinement of `GuestFlow`: entering and running a handler stutters, a
retiring slot is the abstract step of its branch. `ProgramAssumption` states what
the model asks of guest software: no branch, SYSCALL or ERET in a delay slot, no
branch into a slot, and a program that does not run into the kernel.

`IopAndHostProofs`: one lemma says that a step is one of the behaviour's own part, and each
property is then proved of its part.

The IOP: for every program of the shape `Program` describes, any registers and lines.
`ControlInv` is as in `EeCoreProofs`, with the pending load: none is on its
way while a branch waits for its slot, which is why returning to the branch runs
nothing twice; interrupts are off while the handler runs and while the cache is isolated,
so that saving the registers reaches memory. `RegisterInv` says where the program's
registers are while the handler runs, and that with the last load landed they are all
back (`Landed(reg, load) = saved`). Each action is then a step of `R3000Flow` or a stutter
(`ProgramKept`); `LinesStayPending` needs only that acknowledging clears just what was noted.

The other parts:

* `SignalsTheorem` has the IOP's lines and the latches. In the latches, whether zeros or
  ones clear a register, a clearing write takes out just what was read, so an event raised
  between read and clear is kept.
* `TimersTheorem`: in `VideoInv`, `ideal = Divisor * (elapsed + remaining) + carry` with
  the carry below the divisor, so that edges never drift from their rational instants
  through any steps and mode switches. For the timers, a countdown crosses at most one
  tick per step, and each tick counts, flags and interrupts as the registers say
  (`AdvanceExact`).
* `FramesTheorem`: `BudgetInv`, `ReportInv` and `ProgressInv`. The budget's result is true
  (stopped for "elapsed" only when the time is reached, never more quanta than allowed); a
  guest that stops is reported and does not run on; no progress report is written twice.
* `CommandsTheorem`: `CdvdInv` ties the FIFOs, the drive's configuration and the answer to
  the driver's history (`FifoAgrees`, `ConfigAgrees`, `AnswerAgrees`, `ReadingAgrees`): an
  answer read whole is that command's, to what was sent for it.
* `DispatchTheorem`: the search keeps an address that is in the table between its bounds
  (`Excluded`), tables being sorted as validation found them, so that a miss means there
  is none; what ran is within the budget and reported (`Counted`, `Ended`).
* `LoadTheorem`: `Loading` and `Loaded` say that memory is always what the segments up to
  here lay over it (`Laid`); a file that does not fit leaves nothing that can be run. It
  speaks of a machine on which no translation was left: with one it is not so (section 3).
* `VoiceTheorem`: the samples taken are as many as the pitches add up to, and come from
  blocks that follow each other as flags and loop addresses say; the envelope falls silent
  for a reason only, and a key-off is never lost.

`Vu1PipelineProofs`: for every microprogram, register set, memory size and bound. A pair is
taken apart into the stages of `Vu1::step` (ready, upper, lower, retired, finished), and
each part of `Inv` has a lemma per stage. `QInv`: at most one division is under way, it began
when the one before it was over, and `q` is the latest that is over. `FlagsInv`: entry `i`
of the pipeline is the latest flag write up to its cycle, stalls included. `OldInv`: a value
is kept just in the cycle after a write, and is the one from before the unbroken run of writes.
`FlowInv`: the pair before decides. `SentInv`: what a transfer reads is compared with `StoredOf`,
a function of cell and time built from the stores alone; a transfer reads memory late, at
the next pair's issue, and the invariant says why it sees nothing newer than was due: a pair
transfers whatever is due before it stores. Each transferred qword makes `Moves` grow, which
is below `MaxMoves` while a packet may continue, so the loop ends with nothing due.
Assumption: `SizeAssumption`.

`GraphicsPathProofs`: for every chain, menu of the guest's tags and size of memory.

* `ChainTheorem`, that every transfer carries what its tags say. `ChainInv` is about two
  sequences of tags that are never compared as wholes: those of the transfers before
  (`path`) and those of the walk. Each tag of the two together follows from the one before it
  (`Linked`, `LeadsTo`), the data read is theirs in order (`ReadSoFar`), and where a tag
  returns to is the call on top of the stack: `Calls` matches the stack with the calls of the
  path that have not returned, counted as the property counts them (`Matched`). The scratchpad
  splits a piece of data where it wraps; `Spread` says that the spans cover the packet, each
  cell in its place, and is kept by appending one (`SpreadJoin`).
* `DrawnTheorem` and `ImageTheorem`, that what the GIF drew and transferred depends on what the
  guest wrote and not on submit's packets. The machine and the property read the same log in
  opposite ways, a state carried forward and a search backwards for the latest write, so neither
  property is inductive. `AsLog` ties them: the state is what a backward reader finds at the end
  of a log (`Registers`; `Assembled`: what is kept of the vertices since PRIM; `DrawnIs`;
  `ImageIs`). `EffectLogged` shows that one entry more keeps it, over every kind of entry and of
  primitive; a slot of a tag is an entry (`Effect`), a complete tag the sequence of its
  slots, and a packet the sequence of the tags it completes. `GifInv` then says that buffer and
  unsubmitted words together are whole tags and the tag being written, and that the log is
  the one the state stands for followed by what those tags write. With nothing left
  unsubmitted, what remains is too short to be a tag, and the state stands for the whole log.

`Vif1StreamProofs`: for every set of streams in which the commands that have payload have some,
and every size of VU memory; `OutputTheorem` and `UploadTheorem`. `submit` carries a state
over the units of a packet, while the properties speak of whole commands and of which of them
took effect, so the invariant has to say how far into which command the parser is. Between
packets that kept in step there is a command `c` whose units have been reached (`Where`), and the
state is what the commands taken, `T`, have made of it (`Tracked`):

* the registers are those of the last command of `T` that writes them (`Settings`), and the
  qword at TOPS is the last upload for the next program (`Buffers`), over all swaps between;
* each program run so far saw what it should (`Seen`), also when later commands are taken;
* what was handed on, what is queued and what PATH1 holds is, in this order, the output of the
  commands of `T`, a DIRECT payload counting from its last qword on (`Given`).

That taking command `c` keeps `Tracked` with `T` and `c` is a lemma for each kind of command
(`Interpreted`). Within a packet each turn of `submit`'s loop leaves the parser either with every
command up to here taken or with one that was refused and the rest of the packet dropped
(`After`, kept by `TurnTaken`); `EffectiveGoing` and `EffectiveStopped` say that the commands
taken are then those of `Effective`, and `Landed` that a packet which cuts no other payload
leaves the parser between two commands or inside a DIRECT payload.

The parts of `GraphicsPath` use the library's `Max`, `FlattenSeq` and others through their
instances; `SameSets`, `SameSequences`, `GifSets`, `GifSequences`, `VifSets` and `VifSequences`
say that these are the library's own. Assumption: `Constants`.

Induction over data. The library's theorems take a predicate, which the provers cannot
instantiate. Where a recursive function or a sequence asks for induction, the proofs
use the least element of a *set* of naturals (`Least`): the set of counterexamples, when not
empty, has a least one, and that contradicts the step (`Induction`, `Iterated`). The
existence of a recursively defined function is proved in the same way.

Only model-checked:

* the liveness properties `CompletedIsServiced`, `Served`, `Answered` and `HandlersReturn`
  (liveness and ENABLED are out of the prover's reach);
* `IntegersExact`: arithmetic modulo `2 ^ w`, which the SMT backend does not know;
* `SharedEdges` and `PixelsExact`: `GsRaster`'s functions use bitwise operators, with which the
  SMT backend is lost.

## 5. Plan

Done: the scheduler and its timeline, the block cache, the SIF channels, the control
flow of both CPUs, the graphics path from DMA chain to pixel, VU1's timing, timers and
video, S-commands, voices, latches, AOT, the frame loop, ELF loading, EE integers.

Left, in this order:

1. a fault inside an EE handler (`raise_exception` under EXL, cpu.cpp:214) and ERL;
2. timer writes narrower than a word, once the code says what they should do;
3. the composition of `VifChain`, `Vif1Stream` and `Vu1Pipeline` with one another: today each
   is checked against any input the one before can produce.

## 6. Not modelled

Floating-point and vector arithmetic (COP1, VU0, VU1), MMI's packed operations, GS pixel
storage formats, swizzling and CLUTs, and the ADPCM filter: data without control, whose
reference would be a second copy of the same formulas. MMIO that is storage only. The
census, frontend drawing, dumps, host tools (src/tools) and generators: no state the
running core depends on. PROJECT.json lists every component with its status.

Coarser than the code, in modules that model the control around it: an UNPACK of several
vectors is seen by its first address, and a kick under way when a run of VU1 stops counts to
that run (`Vif1Stream`); a vertex carries colour and Q, not ST and UV (`GifStream`); a VU1
instruction with several effects (LQI, SQI, MTIR, BAL) is checked effect by effect
(`Vu1Pipeline`); addresses of an ELF are cells, and its entry one of them (`ElfImage`);
sources of GIF and VIF1 transfers are valid or not by one rule (`Fits`), though scratchpad
sources have another.
