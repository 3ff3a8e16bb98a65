----------------------------- MODULE IopAndHost ------------------------------
(***************************************************************************)
(* The IOP, the devices on its bus, the video clock, the EE's integer unit  *)
(* and the host's side of the emulator: each behaviour is one of a single   *)
(* part, since no part here reads another's state.  What a part takes from  *)
(* the others, an interrupt line, time that passes, an ELF that does not    *)
(* load, is any input there.  The constants are explained where each part   *)
(* declares them.                                                           *)
(***************************************************************************)
EXTENDS Integers

CONSTANTS
  UserSize, Programs, IopRegs, Values, Alu(_), Merge(_, _), LastLoaded, Sources, \* IopControl
  Modes, Cycles, Rest, Divisor, MaxAdvance, Horizon,                  \* Cadence
  Modulus, PerIop, EeModes, IopModes,                                 \* Timers
  Fifo, CdvdBytes, MaxSent,                                           \* CdvdCommands
  Bits,                                                               \* EventLatches
  Packages, Addresses, Align, FunctionBudgets, Costs,                 \* AotDispatch
  Clock, FrameBudgets, Interval, MaxCycles, CycleCap,                 \* FrameLoop
  RamSize, Page, Kseg, Images, Tlbs,                                  \* ElfImage
  Blocks, Samples, One, Pitches, Full, Knee, Settings, SoundMemories, MaxPath,
  MaxOwed,                                                            \* Spu2Voice
  Byte, EeRegs, Words, EeMemories, Immediates, Shifts, MaxSteps       \* EeIntegers

None == -1

VARIABLES
  part,       \* the one this behaviour is of
  code, branch, reg, load, mem, iso, epc, cause, ie, stat, mask, saved, seen,
  mode, phase, remaining, carry, elapsed, ideal,
  ee, iop,
  params, result, pos, config, driver,
  register, latch, read, acked,
  package, first, last, calls, instructions, exit, ran,
  running, showGs, showTarget, cycles, nextDue, lastDue, loop, reason, reported,
  image, next, loaded, ok, ram, tlb, left,
  memory, setting, delay, voice, stream, env, note,
  gpr, acc, bytes, half, exact, steps,
  pc, want, step, ready, budget   \* of two or three parts each

-----------------------------------------------------------------------------
Iop     == INSTANCE IopControl WITH Regs <- IopRegs
Video   == INSTANCE Cadence
Timer   == INSTANCE Timers
Cdvd    == INSTANCE CdvdCommands WITH Bytes <- CdvdBytes
Latch   == INSTANCE EventLatches
Aot     == INSTANCE AotDispatch WITH Budgets <- FunctionBudgets
Frame   == INSTANCE FrameLoop WITH Budgets <- FrameBudgets
Elf     == INSTANCE ElfImage
Voice   == INSTANCE Spu2Voice WITH Memories <- SoundMemories
Integer == INSTANCE EeIntegers WITH Regs <- EeRegs, Memories <- EeMemories

ASSUME Constants == /\ Iop!MachineAssumption /\ Video!CadenceAssumption /\ Timer!TimerAssumption
                    /\ Cdvd!CdvdAssumption /\ Aot!AotAssumption /\ Frame!FrameAssumption
                    /\ Elf!ElfAssumption /\ Voice!VoiceAssumption
                    /\ Integer!IntegersAssumption

iopVars     == <<code, branch, reg, load, mem, iso, epc, cause, ie, stat, mask, saved,
                 seen>>
videoVars   == <<mode, phase, remaining, carry, elapsed, ideal>>
timersVars  == <<ee, iop>>
cdvdVars    == <<params, result, pos, config, driver>>
latchesVars == <<register, latch, read, acked>>
aotVars     == <<package, first, last, calls, instructions, exit, ran>>
frameVars   == <<running, showGs, showTarget, cycles, nextDue, lastDue, loop, reason,
                 reported>>
elfVars     == <<image, next, loaded, ok, ram, tlb, left>>
voiceVars   == <<memory, setting, delay, voice, stream, env, note>>
integerVars == <<gpr, acc, bytes, half, exact, steps>>
vars == <<part, iopVars, videoVars, timersVars, cdvdVars, latchesVars, aotVars, frameVars,
                elfVars, voiceVars, integerVars, pc, want, step, ready, budget>>

(* The state of a part that a behaviour is not of.                           *)
NoIop   == code = None /\ branch = None /\ reg = None /\ load = None /\ mem = None
           /\ iso = None /\ epc = None /\ cause = None /\ ie = None /\ stat = None
           /\ mask = None /\ saved = None /\ seen = None
NoVideo == mode = None /\ phase = None /\ remaining = None /\ carry = None
           /\ elapsed = None /\ ideal = None
NoTimer == ee = None /\ iop = None
NoCdvd  == params = None /\ result = None /\ pos = None /\ config = None /\ driver = None
NoLatch == register = None /\ latch = None /\ read = None /\ acked = None
NoAot   == package = None /\ first = None /\ last = None /\ calls = None
           /\ instructions = None /\ exit = None /\ ran = None
NoFrame == running = None /\ showGs = None /\ showTarget = None /\ cycles = None
           /\ nextDue = None /\ lastDue = None /\ loop = None /\ reason = None
           /\ reported = None
NoElf   == image = None /\ next = None /\ loaded = None /\ ok = None /\ ram = None
           /\ tlb = None /\ left = None
NoVoice == memory = None /\ setting = None /\ delay = None /\ voice = None
           /\ stream = None /\ env = None /\ note = None
NoInteger == gpr = None /\ acc = None /\ bytes = None /\ half = None /\ exact = None /\ steps = None

Init == \/ part = "iop" /\ Iop!Init /\ NoInteger /\ NoVideo /\ NoTimer /\ NoCdvd /\ NoLatch /\ NoAot
           /\ NoFrame /\ NoElf /\ NoVoice /\ step = None /\ ready = None /\ budget = None
        \/ part = "video" /\ Video!Init /\ NoInteger /\ NoIop /\ NoTimer /\ NoCdvd /\ NoLatch /\ NoAot
           /\ NoFrame /\ NoElf /\ NoVoice /\ pc = None /\ want = None /\ step = None
           /\ ready = None /\ budget = None
        \/ part \in {"timer3", "timer5"} /\ Timer!Init /\ NoInteger /\ NoIop /\ NoVideo /\ NoCdvd
           /\ NoLatch /\ NoAot /\ NoFrame /\ NoElf /\ NoVoice /\ pc = None /\ want = None
           /\ step = None /\ ready = None /\ budget = None
        \/ part = "cdvd" /\ Cdvd!Init /\ NoInteger /\ NoIop /\ NoVideo /\ NoTimer /\ NoLatch /\ NoAot
           /\ NoFrame /\ NoElf /\ NoVoice /\ pc = None /\ want = None /\ step = None
           /\ budget = None
        \/ part = "latches" /\ Latch!Init /\ NoInteger /\ NoIop /\ NoVideo /\ NoTimer /\ NoCdvd
           /\ NoAot /\ NoFrame /\ NoElf /\ NoVoice /\ pc = None /\ step = None
           /\ ready = None /\ budget = None
        \/ part = "aot" /\ Aot!Init /\ NoInteger /\ NoIop /\ NoVideo /\ NoTimer /\ NoCdvd /\ NoLatch
           /\ NoFrame /\ NoElf /\ NoVoice /\ want = None /\ ready = None
        \/ part = "frame" /\ Frame!Init /\ NoInteger /\ NoIop /\ NoVideo /\ NoTimer /\ NoCdvd
           /\ NoLatch /\ NoAot /\ NoElf /\ NoVoice /\ pc = None /\ want = None
        \/ part = "elf" /\ Elf!Init /\ NoInteger /\ NoIop /\ NoVideo /\ NoTimer /\ NoCdvd /\ NoLatch
           /\ NoAot /\ NoFrame /\ NoVoice /\ pc = None /\ want = None /\ budget = None
        \/ part = "voice" /\ Voice!Init /\ NoInteger /\ NoIop /\ NoVideo /\ NoTimer /\ NoCdvd
           /\ NoLatch /\ NoAot /\ NoFrame /\ NoElf /\ pc = None /\ want = None
           /\ step = None /\ ready = None /\ budget = None
        \/ part = "integers" /\ Integer!Init /\ NoIop /\ NoVideo /\ NoTimer /\ NoCdvd
           /\ NoLatch /\ NoAot /\ NoFrame /\ NoElf /\ NoVoice /\ pc = None
           /\ want = None /\ step = None /\ ready = None /\ budget = None

Next == \/ part = "iop" /\ Iop!Next
           /\ UNCHANGED <<part, integerVars, videoVars, timersVars, cdvdVars, latchesVars, aotVars, frameVars,
                                elfVars, voiceVars, step, ready, budget>>
        \/ part = "video" /\ Video!Next
           /\ UNCHANGED <<part, integerVars, iopVars, timersVars, cdvdVars, latchesVars, aotVars, frameVars,
                                elfVars, voiceVars, integerVars, pc, want, step, ready, budget>>
        \/ /\ (part = "timer3" /\ Timer!EeNext) \/ (part = "timer5" /\ Timer!IopNext)
           /\ UNCHANGED <<part, integerVars, iopVars, videoVars, cdvdVars, latchesVars, aotVars, frameVars,
                                elfVars, voiceVars, integerVars, pc, want, step, ready, budget>>
        \/ part = "cdvd" /\ Cdvd!Next
           /\ UNCHANGED <<part, integerVars, iopVars, videoVars, timersVars, latchesVars, aotVars, frameVars,
                                elfVars, voiceVars, integerVars, pc, want, step, budget>>
        \/ part = "latches" /\ Latch!Next
           /\ UNCHANGED <<part, integerVars, iopVars, videoVars, timersVars, cdvdVars, aotVars, frameVars,
                                elfVars, voiceVars, pc, step, ready, budget>>
        \/ part = "aot" /\ Aot!Next
           /\ UNCHANGED <<part, integerVars, iopVars, videoVars, timersVars, cdvdVars, latchesVars, frameVars,
                                elfVars, voiceVars, want, ready>>
        \/ part = "frame" /\ Frame!Next
           /\ UNCHANGED <<part, integerVars, iopVars, videoVars, timersVars, cdvdVars, latchesVars, aotVars,
                                elfVars, voiceVars, pc, want>>
        \/ part = "elf" /\ Elf!Next
           /\ UNCHANGED <<part, integerVars, iopVars, videoVars, timersVars, cdvdVars, latchesVars, aotVars,
                                frameVars, voiceVars, pc, want, budget>>
        \/ part = "voice" /\ Voice!Next
           /\ UNCHANGED <<part, integerVars, iopVars, videoVars, timersVars, cdvdVars, latchesVars, aotVars,
                                frameVars, elfVars, pc, want, step, ready, budget>>
        \/ part = "integers" /\ Integer!Next
           /\ UNCHANGED <<part, iopVars, videoVars, timersVars, cdvdVars, latchesVars, aotVars,
                                frameVars, elfVars, voiceVars, pc, want, step, ready, budget>>

Spec == Init /\ [][Next]_vars

-----------------------------------------------------------------------------
(* The properties of each part, stated and explained in its module.          *)

(* IopControl: interrupts and traps are invisible to the program.            *)
KeepsProgram == /\ part = "iop" => Iop!Flow!Init
                /\ [][part = "iop" => [Iop!Flow!Next]_Iop!program]_vars
(* Cadence and Timers: video edges do not drift, timers tick and interrupt   *)
(* as their latches' purpose says, however time is cut into advances.        *)
TimersExact == /\ part = "video" => Video!NoDrift
               /\ part \in {"timer3", "timer5"} => Timer!EeExact /\ Timer!IopExact
(* CdvdCommands: each answer is read whole, and is of its own command.       *)
CommandResults == part = "cdvd" => Cdvd!CommandResults
(* EventLatches and IopControl: an event raised beside an acknowledgement is *)
(* not lost, and a raised line stays pending until the kernel serves it.     *)
SignalsKept == /\ part = "latches" => Latch!SignalsKept
               /\ part = "iop" => Iop!EventsStayPending
(* AotDispatch: native code runs exactly where an accepted package has it.   *)
DispatchExact == part = "aot" => Aot!DispatchExact
(* FrameLoop: budget, stop reports and progress hold under any buttons.      *)
FramesKept == part = "frame" => Frame!FramesKept
(* ElfImage: a load is exact, or leaves nothing that can be run.             *)
LoadExact == part = "elf" => Elf!LoadExact
(* EeIntegers: words stay words, whatever computes, shifts, loads them.      *)
IntegersExact == part = "integers" => Integer!IntegersExact
(* Spu2Voice: a voice plays the note its registers say, and ends it.         *)
VoiceExact == part = "voice" => Voice!VoiceExact
===============================================================================
