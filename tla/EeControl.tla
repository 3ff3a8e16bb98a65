------------------------------- MODULE EeControl -------------------------------
(***************************************************************************)
(* The control flow of the EE: Cpu::step with its branch state, interrupt   *)
(* and exception entry and ERET, the interrupt lines Memory derives from    *)
(* status and mask, and the writes that acknowledge and mask.               *)
(*                                                                         *)
(* The guest's memory holds a program of kinds of instruction, and behind   *)
(* it the kernel's handlers: at IntVec look, ack, serve, eret, at ExcVec    *)
(* fix, eret.  The program runs in kernel mode with IE, the lines' IM bits  *)
(* and exception_mode_ set (boot_bios); it has no branch, SYSCALL or ERET   *)
(* in a delay slot, and the handlers do not fault.                          *)
(*                                                                         *)
(* Abstracted: data (a conditional branch may go either way; "mapped" says  *)
(* whether loads find a translation), the two status registers (INTC and    *)
(* DMAC) as one set of sources, the zero-fill loop's seven instructions as  *)
(* one, and unused parts of Cause and Status.  Ends of the run (BREAK       *)
(* outside exception_mode_, halts, fetch faults) are in SliceScheduler.     *)
(***************************************************************************)
EXTENDS Integers

CONSTANTS
  Kind,       \* the instruction at every address of the guest's memory
  Target,     \* where a branch goes
  UserSize,   \* the program is at 0..UserSize-1
  IntVec, ExcVec,
  Sources,    \* devices that raise interrupts
  MaxFills    \* zero-fill chunks in a row: two batches of at most one IOP period each

User == 0..(UserSize - 1)
Slots == {a \in User : a - 1 \in User /\ Kind[a - 1] \in {"branch", "likely", "jump"}}
Branches == {a \in User : Kind[a] \in {"branch", "likely", "jump"}}
UserKinds == {"plain", "load", "branch", "likely", "jump", "syscall", "ei", "di", "mask", "fill"}

ProgramAssumption ==
  /\ UserSize \in Nat \ {0} /\ MaxFills \in Nat
  /\ Kind \in [0..(UserSize + 5) -> STRING] /\ Target \in [User -> User]
  /\ IntVec = UserSize /\ ExcVec = UserSize + 4
  /\ Kind[IntVec] = "look" /\ Kind[IntVec + 1] = "ack" /\ Kind[IntVec + 2] = "serve"
  /\ Kind[IntVec + 3] = "eret"
  /\ Kind[ExcVec] = "fix" /\ Kind[ExcVec + 1] = "eret"
  /\ \A a \in User : Kind[a] \in UserKinds
  /\ \A a \in Slots : Kind[a] \in {"plain", "load", "ei", "di", "mask"}
  /\ \A a \in Branches : a + 1 \in User /\ Target[a] \notin Slots
  /\ \A a \in User : \/ a + 1 \in User
                     \/ a \in Slots /\ Kind[a - 1] = "jump"
  /\ \A a \in User : Kind[a] = "likely" => a + 2 \in User

VARIABLES
  pc,
  branch,     \* branch_pending_ and pending_target_: a target, or None
  epc, exl,   \* COP0 EPC, Status.EXL
  cause,      \* Cause.ExcCode, as far as the handler reads it
  eie,        \* Status.EIE
  mapped,     \* the data page of the loads is mapped
  stat, mask, \* I_STAT and I_MASK, D_STAT and its mask
  want,       \* devices with an event the kernel has not served
  seen,       \* the handler's copy of stat
  fills,      \* zero-fill chunks since the last step
  ran         \* history: the last instruction of the program that retired, branches aside

devices  == <<stat, mask, want>>
kernel   == <<mapped, seen>>
entryRegs == <<epc, exl, cause>>
vars     == <<pc, branch, entryRegs, eie, kernel, devices, fills, ran>>

None == -1

-----------------------------------------------------------------------------
(* Cpu::step                                                                *)

Lines == stat \cap mask

(* A taken branch and its delay slot are not split, nor a handler; mutants: *)
(* one of the two is.                                                       *)
InterruptibleAnywhere == Lines # {} /\ eie /\ ~exl
InterruptibleNested == branch = None /\ Lines # {} /\ eie
Interruptible == branch = None /\ Lines # {} /\ eie /\ ~exl

TakeInterrupt ==
  /\ Interruptible
  /\ epc' = pc /\ exl' = TRUE /\ cause' = "interrupt"
  /\ pc' = IntVec /\ branch' = None
  /\ fills' = 0
  /\ UNCHANGED <<eie, kernel, devices, ran>>

(* Execute the instruction at pc, one of the given kinds, with no           *)
(* interrupt before it.                                                     *)
Runs(kinds) ==
  /\ ~Interruptible
  /\ Kind[pc] \in kinds
  /\ fills' = 0

(* The instruction retires: after a delay slot comes the branch's target.   *)
Retire ==
  /\ pc' = IF branch = None THEN pc + 1 ELSE branch
  /\ branch' = None

Note == ran' = pc

(* raise_exception: in a delay slot, EPC is the branch's address; the       *)
(* mutant returns to the slot.                                              *)
ReturnToSlot == pc
ReturnPoint == IF branch = None THEN pc ELSE pc - 1
RaiseException(code) ==
  /\ cause' = code
  /\ epc' = ReturnPoint /\ exl' = TRUE
  /\ pc' = ExcVec /\ branch' = None
  /\ UNCHANGED <<eie, kernel, devices, ran>>

Plain ==
  /\ Runs({"plain", "load"})
  /\ Kind[pc] = "load" => mapped
  /\ Retire /\ Note
  /\ UNCHANGED <<entryRegs, eie, kernel, devices>>

LoadFault == Runs({"load"}) /\ ~mapped /\ RaiseException("fault")

Syscall == Runs({"syscall"}) /\ RaiseException("syscall")

Branch ==
  /\ Runs({"branch", "likely", "jump"})
  /\ \/ pc' = pc + 1 /\ branch' = Target[pc]
     \/ Kind[pc] = "branch" /\ pc' = pc + 1 /\ branch' = None
     \/ Kind[pc] = "likely" /\ pc' = pc + 2 /\ branch' = None
  /\ UNCHANGED <<entryRegs, eie, kernel, devices, ran>>

EnableDisable ==
  /\ Runs({"ei", "di"})
  /\ eie' = (Kind[pc] = "ei")
  /\ Retire /\ Note
  /\ UNCHANGED <<entryRegs, kernel, devices>>

(* The loop's seven instructions, one round.                                *)
FillStep ==
  /\ Runs({"fill"})
  /\ pc' \in {pc, pc + 1} /\ branch' = None
  /\ Note
  /\ UNCHANGED <<entryRegs, eie, kernel, devices>>

(* try_fast_zero_fill runs before step and looks at no interrupt.           *)
FastFill ==
  /\ Kind[pc] = "fill" /\ branch = None
  /\ fills < MaxFills /\ fills' = fills + 1
  /\ pc' \in {pc, pc + 1} /\ branch' = None
  /\ Note
  /\ UNCHANGED <<entryRegs, eie, kernel, devices>>

Eret ==
  /\ Runs({"eret"})
  /\ pc' = epc /\ exl' = FALSE /\ branch' = None
  /\ UNCHANGED <<epc, cause, eie, kernel, devices, ran>>

-----------------------------------------------------------------------------
(* Memory::write32 on I_STAT, D_STAT and the masks                          *)

(* Status bits are cleared by writing ones; mutants: the value written      *)
(* stays, the whole register clears.                                        *)
Overwritten(bits) == bits
AllCleared(bits) == {}
Cleared(bits) == stat \ bits

(* Mask bits toggle.                                                        *)
Toggled(bits) == (mask \ bits) \cup (bits \ mask)

(* The program toggles mask bits.                                           *)
MaskWrite ==
  /\ Runs({"mask"})
  /\ \E bits \in SUBSET Sources : mask' = Toggled(bits)
  /\ Retire /\ Note
  /\ UNCHANGED <<entryRegs, eie, kernel, stat, want>>

(* The interrupt handler: read what is pending, acknowledge it, serve it    *)
(* (which may evict a translation), return.                                 *)
Look ==
  /\ Runs({"look"})
  /\ seen' = Lines
  /\ Retire
  /\ UNCHANGED <<entryRegs, eie, mapped, devices, ran>>

Acknowledge ==
  /\ Runs({"ack"})
  /\ stat' = Cleared(seen)
  /\ Retire
  /\ UNCHANGED <<entryRegs, eie, kernel, mask, want, ran>>

Serve ==
  /\ Runs({"serve"})
  /\ want' = want \ seen /\ seen' = {}
  /\ mapped' \in {mapped, FALSE}
  /\ Retire
  /\ UNCHANGED <<entryRegs, eie, stat, mask, ran>>

(* The exception handler: step over a SYSCALL, map the page of a fault.     *)
Fix ==
  /\ Runs({"fix"})
  /\ IF cause = "syscall" THEN epc' = epc + 1 /\ ran' = epc /\ UNCHANGED mapped
                          ELSE mapped' = TRUE /\ UNCHANGED <<epc, ran>>
  /\ Retire
  /\ UNCHANGED <<exl, cause, eie, seen, devices>>

(* advance, at the end of any step, raises a device's bit.                  *)
Raise ==
  /\ \E s \in Sources : stat' = stat \cup {s} /\ want' = want \cup {s}
  /\ UNCHANGED <<pc, branch, entryRegs, eie, kernel, mask, fills, ran>>

Init ==
  /\ pc = 0 /\ branch = None /\ epc = 0 /\ exl = FALSE /\ cause = "interrupt" /\ eie = FALSE
  /\ mapped = FALSE /\ seen = {} /\ stat = {} /\ mask = {} /\ want = {}
  /\ fills = 0 /\ ran = 0

Cpu == \/ TakeInterrupt \/ Plain \/ LoadFault \/ Syscall \/ Branch \/ EnableDisable
       \/ FillStep \/ FastFill \/ Eret
       \/ MaskWrite \/ Look \/ Acknowledge \/ Serve \/ Fix

Next == Cpu \/ Raise

(* Cpu::run goes from one instruction to the next.                          *)
Spec == Init /\ [][Next]_vars /\ WF_vars(Cpu)

-----------------------------------------------------------------------------
(* Properties                                                               *)

(* Every variable keeps its type.                                           *)
TypeOK ==
  /\ pc \in DOMAIN Kind /\ branch \in User \cup {None}
  /\ epc \in User /\ exl \in BOOLEAN /\ cause \in {"interrupt", "fault", "syscall"}
  /\ eie \in BOOLEAN /\ mapped \in BOOLEAN
  /\ stat \subseteq Sources /\ mask \subseteq Sources /\ want \subseteq Sources
  /\ seen \subseteq Sources /\ fills \in 0..MaxFills /\ ran \in User

(* An event stays visible until the kernel serves it: its status bit is set *)
(* or the handler, between acknowledging and serving, knows of it, although *)
(* devices raise bits between its read of the status and its write.         *)
EventsStayVisible == want \subseteq stat \cup (IF Kind[pc] = "serve" THEN seen ELSE {})

(* As long as the program keeps returning to where interrupts are enabled,  *)
(* a device that it does not keep masked is served: no delay slot, handler, *)
(* fault or zero-fill starves it.                                           *)
Answered ==
  \A s \in Sources :
    []<>(eie /\ ~exl /\ s \in mask) => (s \in want ~> s \notin want)

(* A handler returns: the line that called it stays up until it writes the  *)
(* status, but does not call it again.                                      *)
HandlersReturn == exl ~> ~exl

(* A handler in progress is where the program stands; so is the branch of a *)
(* delay slot.                                                              *)
At == IF exl THEN epc ELSE IF branch = None THEN pc ELSE pc - 1

(* Interrupts and exceptions are invisible to the program.                  *)
Flow == INSTANCE GuestFlow WITH at <- At, Entry <- 0
KeepsFlow == Flow!Spec
===============================================================================
