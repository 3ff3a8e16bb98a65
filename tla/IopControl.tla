------------------------------ MODULE IopControl ------------------------------
(***************************************************************************)
(* The IOP's R3000A: IopCpu::step with its two delays, branch and load,     *)
(* interrupt and trap entry, the status stack and RFE, cache isolation, and *)
(* the interrupt controller's status and mask.                              *)
(*                                                                         *)
(* The guest's memory holds a program and behind it the kernel's handler.   *)
(* Programs have no branch, trap or fetch fault in a delay slot, isolate    *)
(* the cache only with interrupts off and do not trap then; the handler     *)
(* uses registers of its own (k0, k1) until it has saved the program's.     *)
(*                                                                         *)
(* Abstracted: the conditions of branches, the addresses of loads and       *)
(* stores (one cell of memory), link registers, HI and LO, and the fields   *)
(* of Cause but the one that tells an interrupt from a trap.  I_CTRL, which *)
(* enables all of I_MASK, is on.                                            *)
(***************************************************************************)
EXTENDS Integers

CONSTANTS
  UserSize,   \* a program is at 0..UserSize-1
  Programs,
  Regs, Values,
  Alu(_),     \* any computation
  Merge(_, _),\* LWL and LWR: of the register and the memory
  LastLoaded, \* the register the handler restores last
  Sources     \* lines of the interrupt controller

User == 0..(UserSize - 1)
Straight == {"alu", "load", "merge", "store", "isolate", "expose", "mask", "ei", "di"}
Branches == {"branch", "jump"}
Traps == {"syscall", "hole"}      \* any exception of execute; a fetch that fails
Instruction == [op : Straight \cup Branches \cup Traps, rd : Regs, rs : Regs, to : User]

Slots(p) == {a \in User : a - 1 \in User /\ p[a - 1].op \in Branches}
Program == {p \in [User -> Instruction] :
  /\ \A a \in Slots(p) : p[a].op \in Straight
  /\ \A a \in User : p[a].op \in Branches => a + 1 \in User /\ p[a].to \notin Slots(p)
  /\ \A a \in User : a + 1 \in User \/ (a \in Slots(p) /\ p[a - 1].op = "jump")}

(* What the constants must be.                                              *)
MachineAssumption ==
  /\ UserSize \in Nat \ {0} /\ LastLoaded \in Regs
  /\ \A p \in Programs : p \in Program
  /\ \A v \in Values : Alu(v) \in Values /\ \A w \in Values : Merge(v, w) \in Values

(* The handler, one operation at each address from Enter to Rfe.            *)
Enter == UserSize
Save == UserSize + 1
Look == UserSize + 2
Ack == UserSize + 3
Serve == UserSize + 4
Restore == UserSize + 5
Back == UserSize + 6
Rfe == UserSize + 7

VARIABLES
  code,
  pc, branch, \* state_.pc; branch_pending_ with pending_target_, or None
  reg, load,  \* state_.gpr; load_pending_ with its register and value: at most one pair
  mem, iso,   \* the cell; Status.IsC
  epc, cause, \* COP0 EPC, Cause
  ie,         \* Status.IEc, IEp, IEo
  stat, mask, \* I_STAT, I_MASK
  saved,      \* the handler's copy of the registers
  seen,       \* the handler's copy of the pending lines
  want        \* devices with an event the kernel has not served

data     == <<reg, load, mem, iso>>
entry    == <<epc, cause, ie>>
lines    == <<stat, mask, want>>
kernel   == <<saved, seen>>
vars     == <<code, pc, branch, data, entry, lines, kernel>>

None == -1

-----------------------------------------------------------------------------
(* IopCpu::step                                                             *)

(* iop_interrupt_pending, with the enable bit of Status.                    *)
Pending == stat \cap mask # {}
Interrupted == Pending /\ ie[1]

(* raise_exception.  In a delay slot EPC is the branch's address; the       *)
(* mutant returns to the slot.                                              *)
ReturnToSlot == pc
ReturnPoint == IF branch = None THEN pc ELSE pc - 1
RaiseException(code_) ==
  /\ epc' = ReturnPoint /\ cause' = code_
  /\ ie' = <<FALSE, ie[1], ie[2]>>
  /\ pc' = Enter /\ branch' = None
  /\ UNCHANGED <<code, mem, iso, lines, kernel>>

(* Neither an interrupt nor a failed fetch touches the pending load: it is  *)
(* for the handler's first instruction.                                     *)
TakeInterrupt == Interrupted /\ RaiseException("interrupt") /\ UNCHANGED <<reg, load>>

(* What the program leaves alone while the cache is isolated.               *)
Cautious(op) == /\ op = "isolate" => ~ie[1]
                /\ op \in Traps \cup {"ei"} => ~iso
Executes(op) == ~Interrupted /\ pc \in User /\ code[pc].op = op /\ Cautious(op)
Handles(address) == ~Interrupted /\ pc = address

FetchFault == Executes("hole") /\ RaiseException("trap") /\ UNCHANGED <<reg, load>>

(* set_reg of the load that was pending before this instruction, after what *)
(* the instruction itself wrote.                                            *)
Landed(regs, values) == [r \in Regs |-> IF \E v \in values : v[1] = r
                                         THEN (CHOOSE v \in values : v[1] = r)[2]
                                         ELSE regs[r]]

(* An instruction that traps executes, so that the load lands; the mutant   *)
(* drops it.                                                                *)
SyscallDropsLoad == Executes("syscall") /\ RaiseException("trap") /\ load' = {} /\ UNCHANGED reg
Syscall == Executes("syscall") /\ RaiseException("trap") /\ load' = {} /\ reg' = Landed(reg, load)

(* After a delay slot comes the branch's target.                            *)
Advance ==
  /\ pc' = IF branch = None THEN pc + 1 ELSE branch
  /\ branch' = None

(* What an instruction does to registers and memory, by what it reads       *)
(* before the pending load lands.                                           *)
Own(i, regs) == IF i.op = "alu" THEN [regs EXCEPT ![i.rd] = Alu(regs[i.rs])] ELSE regs
Loaded(i, regs, m) ==
  CASE i.op = "load"  -> {<<i.rd, m>>}
    [] i.op = "merge" -> {<<i.rd, Merge(regs[i.rd], m)>>}
    [] OTHER -> {}
Stored(i, regs, m, isolated) == IF i.op = "store" /\ ~isolated THEN regs[i.rs] ELSE m
Isolated(i, isolated) == IF i.op \in {"isolate", "expose"} THEN i.op = "isolate" ELSE isolated

Works ==
  /\ reg' = Landed(Own(code[pc], reg), load)
  /\ load' = Loaded(code[pc], reg, mem)
  /\ mem' = Stored(code[pc], reg, mem, iso)
  /\ iso' = Isolated(code[pc], iso)
  /\ Advance
  /\ UNCHANGED <<code, epc, cause, kernel>>

Execute ==
  /\ \E op \in {"alu", "load", "merge", "store", "isolate", "expose"} : Executes(op)
  /\ Works
  /\ UNCHANGED <<ie, lines>>

EnableDisable ==
  /\ Executes("ei") \/ Executes("di")
  /\ Works
  /\ ie' = <<code[pc].op = "ei", ie[2], ie[3]>>
  /\ UNCHANGED lines

MaskWrite ==
  /\ Executes("mask")
  /\ Works
  /\ mask' \in SUBSET Sources
  /\ UNCHANGED <<ie, stat, want>>

Branch ==
  /\ Executes("branch") \/ Executes("jump")
  /\ pc' = pc + 1
  /\ \/ branch' = code[pc].to
     \/ code[pc].op = "branch" /\ branch' = None
  /\ reg' = Landed(reg, load) /\ load' = {}
  /\ UNCHANGED <<code, mem, iso, entry, lines, kernel>>

-----------------------------------------------------------------------------
(* The handler, of the same processor: note the pending lines, acknowledge  *)
(* what was noted, serve it or step over the trap, return.                  *)

(* An instruction of the handler that branches nowhere.                     *)
HandlerStep(address) ==
  /\ Handles(address)
  /\ pc' = pc + 1 /\ branch' = branch
  /\ UNCHANGED <<code, mem, iso, mask>>

EnterHandler ==
  /\ HandlerStep(Enter)
  /\ reg' = Landed(reg, load) /\ load' = {}
  /\ UNCHANGED <<entry, stat, want, kernel>>

(* SW, which cache isolation would suppress.                                *)
SaveRegisters ==
  /\ HandlerStep(Save)
  /\ saved' = IF iso THEN saved ELSE reg
  /\ UNCHANGED <<reg, load, entry, stat, want, seen>>

LookAtLines ==
  /\ HandlerStep(Look)
  /\ seen' = stat \cap mask
  /\ reg' \in {[r \in Regs |-> v] : v \in Values}
  /\ UNCHANGED <<load, entry, stat, want, saved>>

(* iop_write32 on I_STAT keeps the bits that are written as ones; mutant:   *)
(* the value written is 0.                                                  *)
AckAll(bits) == {}
Acked(bits) == stat \ bits

Acknowledge ==
  /\ HandlerStep(Ack)
  /\ stat' = Acked(seen)
  /\ UNCHANGED <<reg, load, entry, want, kernel>>

ServeLines ==
  /\ HandlerStep(Serve)
  /\ want' = want \ seen /\ seen' = {}
  /\ epc' = IF cause = "trap" THEN epc + 1 ELSE epc
  /\ UNCHANGED <<reg, load, cause, ie, stat, saved>>

(* A row of LW: the last one is still on its way.                           *)
RestoreRegisters ==
  /\ HandlerStep(Restore)
  /\ reg' = [saved EXCEPT ![LastLoaded] = reg[LastLoaded]]
  /\ load' = {<<LastLoaded, saved[LastLoaded]>>}
  /\ UNCHANGED <<entry, stat, want, kernel>>

JumpBack ==
  /\ Handles(Back)
  /\ pc' = pc + 1 /\ branch' = epc
  /\ reg' = Landed(reg, load) /\ load' = {}
  /\ UNCHANGED <<code, mem, iso, entry, lines, kernel>>

ReturnFromException ==
  /\ Handles(Rfe)
  /\ ie' = <<ie[2], ie[3], ie[3]>>
  /\ Advance
  /\ UNCHANGED <<code, data, epc, cause, lines, kernel>>

(* A device raises a line: Memory::advance, or a register write.            *)
Raise ==
  /\ \E s \in Sources : stat' = stat \cup {s} /\ want' = want \cup {s}
  /\ UNCHANGED <<code, pc, branch, data, entry, mask, kernel>>

Init ==
  /\ code \in Programs /\ pc = 0 /\ branch = None
  /\ \E v \in Values : reg = [r \in Regs |-> v] /\ saved = reg
  /\ load = {} /\ mem \in Values /\ iso = FALSE
  /\ epc = 0 /\ cause = "interrupt" /\ ie = <<FALSE, FALSE, FALSE>>
  /\ stat = {} /\ mask = {} /\ seen = {} /\ want = {}

Handler == \/ EnterHandler \/ SaveRegisters \/ LookAtLines \/ Acknowledge
           \/ ServeLines \/ RestoreRegisters \/ JumpBack \/ ReturnFromException

Next == \/ TakeInterrupt \/ FetchFault \/ Syscall \/ Execute \/ EnableDisable
        \/ MaskWrite \/ Branch \/ Handler \/ Raise

Spec == Init /\ [][Next]_vars

-----------------------------------------------------------------------------
(* Properties                                                               *)

(* A line stays pending until the kernel serves it, although devices raise  *)
(* lines between the handler's read of I_STAT and its write.                *)
EventsStayPending == want \subseteq stat \cup (IF pc = Serve THEN seen ELSE {})

(* The program's state: while the handler runs, where it will return to and *)
(* the registers it has saved.                                              *)
At == IF pc >= UserSize THEN epc ELSE IF branch = None THEN pc ELSE pc - 1
Registers == IF pc > Save THEN saved ELSE reg
Late == IF pc > Save THEN {} ELSE load

(* Interrupts and traps are invisible to the program: not a register, not a *)
(* delay slot, not a loaded value is lost to them.                          *)
Flow == INSTANCE R3000Flow WITH
  at <- At, reg <- Registers, late <- Late, Entry <- 0
program == <<code, At, Registers, Late, mem, iso>>
KeepsProgram == Flow!Spec
===============================================================================
