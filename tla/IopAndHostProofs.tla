--------------------------- MODULE IopAndHostProofs ---------------------------
(***************************************************************************)
(* The parts of IopAndHost for every value of their constants: a behaviour  *)
(* is one of a single part, so that each property is an invariant, or an    *)
(* action property, of that part's own steps.                               *)
(***************************************************************************)
EXTENDS IopAndHost, Sequences, WellFoundedInduction, TLAPS

(* A behaviour starts as one of its part.                                   *)
LEMMA PartInit ==
  ASSUME Init
  PROVE  /\ part = "iop" => Iop!Init
         /\ part = "video" => Video!Init
         /\ part \in {"timer3", "timer5"} => Timer!Init
         /\ part = "cdvd" => Cdvd!Init
         /\ part = "latches" => Latch!Init
         /\ part = "aot" => Aot!Init
         /\ part = "frame" => Frame!Init
         /\ part = "elf" => Elf!Init
         /\ part = "voice" => Voice!Init
         /\ part = "integers" => Integer!Init
  BY DEF Init

(* Every step is one of the same part, or changes nothing of it.            *)
LEMMA PartStep ==
  ASSUME [Next]_vars
  PROVE  /\ part' = part
         /\ part = "iop" => [Iop!Next]_Iop!vars
         /\ part = "video" => [Video!Next]_Video!vars
         /\ part = "timer3" => [Timer!EeNext]_Timer!vars
         /\ part = "timer5" => [Timer!IopNext]_Timer!vars
         /\ part = "cdvd" => [Cdvd!Next]_Cdvd!vars
         /\ part = "latches" => [Latch!Next]_Latch!vars
         /\ part = "aot" => [Aot!Next]_Aot!vars
         /\ part = "frame" => [Frame!Next]_Frame!vars
         /\ part = "elf" => [Elf!Next]_Elf!vars
         /\ part = "voice" => [Voice!Next]_Voice!vars
         /\ part = "integers" => [Integer!Next]_Integer!vars
<1>1. CASE Next
  BY <1>1 DEF Next
<1>2. CASE UNCHANGED vars
  BY <1>2 DEF vars, iopVars, videoVars, timersVars, cdvdVars, latchesVars, aotVars, frameVars,
              elfVars, voiceVars, integerVars, Iop!vars, Iop!data, Iop!entry, Iop!lines, Iop!kernel,
              Video!vars, Timer!vars, Cdvd!vars, Latch!vars, Aot!vars, Frame!vars, Elf!vars,
              Voice!vars, Integer!vars
<1> QED BY <1>1, <1>2

-----------------------------------------------------------------------------
(* IopControl: interrupts and traps are invisible to the program, although  *)
(* its loads and branches may be half done when they come, and no raised    *)
(* line is forgotten before the kernel has served it.  A branch is pending  *)
(* just in the slot of a branch, and no load then; EPC is always an address *)
(* at which the program may go on by itself; and the handler runs with      *)
(* interrupts off and the cache in use.                                     *)

(* Where the program may be entered: not in the slot of a jump.             *)
Entries == {a \in Iop!User : ~(a - 1 \in Iop!User /\ code[a - 1].op = "jump")}

InProgram ==
  \/ branch = Iop!None /\ pc \in Entries
  \/ branch # Iop!None /\ pc \in Iop!Slots(code) /\ branch = code[pc - 1].to /\ load = {}

InHandler ==
  /\ epc \in Entries /\ ~ie[1] /\ ~iso
  /\ branch = IF pc = Iop!Rfe THEN epc ELSE Iop!None
  /\ cause = "trap" /\ pc \in {Iop!Enter, Iop!Save, Iop!Look, Iop!Ack, Iop!Serve}
       => code[epc].op \in Iop!Traps

ControlInv ==
  /\ code \in Iop!Program /\ pc \in 0..(UserSize + 7)
  /\ pc \in Iop!User => InProgram
  /\ pc \notin Iop!User => InHandler
  /\ iso => ~ie[1]

(* The program's registers are where At says the program is.                *)
RegisterInv ==
  /\ reg = [r \in IopRegs |-> reg[r]] /\ saved = [r \in IopRegs |-> saved[r]]
  /\ pc \in {Iop!Save, Iop!Look, Iop!Ack, Iop!Serve, Iop!Restore} => load = {}
  /\ pc = Iop!Back => Iop!Landed(reg, load) = saved
  /\ pc = Iop!Rfe => reg = saved /\ load = {}

IopInv == ControlInv /\ RegisterInv /\ Iop!EventsStayPending

-----------------------------------------------------------------------------
(* The layout of memory                                                     *)

Kernel == {Iop!Enter, Iop!Save, Iop!Look, Iop!Ack, Iop!Serve, Iop!Restore, Iop!Back, Iop!Rfe}

(* The program's addresses, and the handler's behind them.                  *)
LEMMA Places ==
  ASSUME Iop!MachineAssumption
  PROVE  /\ 0 \in Iop!User
         /\ \A a \in Iop!User : /\ ~(a >= UserSize) /\ ~(a > Iop!Save) /\ a \in 0..(UserSize + 7)
                                /\ a \in Int /\ a \notin Kernel /\ a # Iop!None /\ (a + 1) - 1 = a /\ (a - 1) + 1 = a
         /\ \A k \in Kernel : k >= UserSize /\ k \notin Iop!User /\ k \in 0..(UserSize + 7) /\ k \in Int
         /\ \A a \in 0..(UserSize + 7) : a \in Iop!User \/ a \in Kernel
         /\ ~(Iop!Enter > Iop!Save) /\ ~(Iop!Save > Iop!Save)
         /\ \A k \in {Iop!Look, Iop!Ack, Iop!Serve, Iop!Restore, Iop!Back, Iop!Rfe} : k > Iop!Save
  BY DEF Iop!MachineAssumption, Iop!User, Kernel, Iop!Enter, Iop!Save, Iop!Look, Iop!Ack, Iop!Serve,
     Iop!Restore, Iop!Back, Iop!Rfe, Iop!None

(* The handler goes from one operation to the next.                         *)
LEMMA Successors ==
  ASSUME Iop!MachineAssumption
  PROVE  /\ Iop!Enter + 1 = Iop!Save /\ Iop!Save + 1 = Iop!Look /\ Iop!Look + 1 = Iop!Ack
         /\ Iop!Ack + 1 = Iop!Serve
         /\ Iop!Serve + 1 = Iop!Restore /\ Iop!Restore + 1 = Iop!Back /\ Iop!Back + 1 = Iop!Rfe
         /\ Iop!Enter \notin {Iop!Save, Iop!Look, Iop!Ack, Iop!Serve, Iop!Restore, Iop!Back, Iop!Rfe}
         /\ Iop!Save \notin {Iop!Look, Iop!Ack, Iop!Serve, Iop!Restore, Iop!Back, Iop!Rfe}
         /\ Iop!Look \notin {Iop!Ack, Iop!Serve, Iop!Restore, Iop!Back, Iop!Rfe}
         /\ Iop!Ack \notin {Iop!Serve, Iop!Restore, Iop!Back, Iop!Rfe}
         /\ Iop!Serve \notin {Iop!Restore, Iop!Back, Iop!Rfe}
         /\ Iop!Restore \notin {Iop!Back, Iop!Rfe} /\ Iop!Back # Iop!Rfe
  BY DEF Iop!MachineAssumption, Iop!Enter, Iop!Save, Iop!Look, Iop!Ack, Iop!Serve, Iop!Restore,
     Iop!Back, Iop!Rfe

(* A branch is followed by its slot, and leads to an entry.                 *)
LEMMA BranchFacts ==
  ASSUME Iop!MachineAssumption, code \in Iop!Program, NEW a \in Iop!User, code[a].op \in Iop!Branches
  PROVE  /\ a + 1 \in Iop!Slots(code) /\ a + 1 \in Iop!User
         /\ code[a].to \in Entries /\ a \in Entries
         /\ code[a].op = "branch" => a + 1 \in Entries
<1>1. a + 1 \in Iop!User /\ code[a].to \notin Iop!Slots(code) /\ (a + 1) - 1 = a
  BY Places DEF Iop!Program
<1>2. a + 1 \in Iop!Slots(code)
  BY <1>1 DEF Iop!Slots
<1>3. code[a].to \in Iop!User
  BY DEF Iop!Program, Iop!Instruction
<1>4. code[a].to \in Entries
  BY <1>1, <1>3 DEF Entries, Iop!Slots, Iop!Branches
<1>5. a \notin Iop!Slots(code)
  BY DEF Iop!Program, Iop!Straight, Iop!Branches
<1>6. a \in Entries
  BY <1>5 DEF Entries, Iop!Slots, Iop!Branches
<1>7. code[a].op = "branch" => a + 1 \in Entries
  BY <1>1 DEF Entries
<1> QED BY <1>1, <1>2, <1>4, <1>6, <1>7

(* An entry that does not branch is followed by another.                    *)
LEMMA EntryFacts ==
  ASSUME Iop!MachineAssumption, code \in Iop!Program, NEW a \in Entries, code[a].op \notin Iop!Branches
  PROVE  a + 1 \in Entries
<1>1. a \in Iop!User /\ (a + 1) - 1 = a
  BY Places DEF Entries
<1>2. a + 1 \in Iop!User
  BY <1>1 DEF Iop!Program, Entries, Iop!Slots
<1> QED BY <1>1, <1>2 DEF Entries, Iop!Branches

(* A slot follows a branch.                                                 *)
LEMMA SlotFacts ==
  ASSUME Iop!MachineAssumption, code \in Iop!Program, NEW a \in Iop!Slots(code)
  PROVE  /\ a \in Iop!User /\ a - 1 \in Iop!User /\ (a - 1) + 1 = a /\ code[a].op \in Iop!Straight
         /\ code[a - 1].op \in Iop!Branches
<1>1. a \in Iop!User /\ a - 1 \in Iop!User /\ code[a - 1].op \in Iop!Branches
  BY DEF Iop!Slots
<1> QED BY <1>1, Places DEF Iop!Program

-----------------------------------------------------------------------------
(* What the program sees                                                    *)

(* While it runs, its registers are the CPU's, and it stands at its branch  *)
(* while the slot runs.                                                     *)
LEMMA ProgramView ==
  ASSUME Iop!MachineAssumption, pc \in Iop!User
  PROVE  /\ Iop!Registers = reg /\ Iop!Late = load
         /\ Iop!At = IF branch = Iop!None THEN pc ELSE pc - 1
  BY Places DEF Iop!Registers, Iop!Late, Iop!At

LEMMA ProgramViewNext ==
  ASSUME Iop!MachineAssumption, pc' \in Iop!User
  PROVE  /\ Iop!Registers' = reg' /\ Iop!Late' = load'
         /\ Iop!At' = IF branch' = Iop!None THEN pc' ELSE pc' - 1
<1>1. ~(pc' >= UserSize) /\ ~(pc' > Iop!Save)
  BY Places
<1> QED BY <1>1 DEF Iop!Registers, Iop!Late, Iop!At

(* While the handler runs, EPC tells where, and once they are saved its     *)
(* copy has the registers.                                                  *)
LEMMA HandlerView ==
  ASSUME Iop!MachineAssumption, pc \in Kernel
  PROVE  /\ Iop!At = epc
         /\ pc \in {Iop!Enter, Iop!Save} => Iop!Registers = reg /\ Iop!Late = load
         /\ pc \notin {Iop!Enter, Iop!Save} => Iop!Registers = saved /\ Iop!Late = {}
  BY Places DEF Iop!Registers, Iop!Late, Iop!At, Kernel

LEMMA HandlerViewNext ==
  ASSUME Iop!MachineAssumption, pc' \in Kernel
  PROVE  /\ Iop!At' = epc'
         /\ pc' \in {Iop!Enter, Iop!Save} => Iop!Registers' = reg' /\ Iop!Late' = load'
         /\ pc' \notin {Iop!Enter, Iop!Save} => Iop!Registers' = saved' /\ Iop!Late' = {}
<1>1. pc' >= UserSize
  BY Places
<1>2. pc' \in {Iop!Enter, Iop!Save} => ~(pc' > Iop!Save)
  BY Places
<1>3. pc' \notin {Iop!Enter, Iop!Save} => pc' > Iop!Save
  BY Places DEF Kernel
<1> QED BY <1>1, <1>2, <1>3 DEF Iop!Registers, Iop!Late, Iop!At

(* Nothing lands when nothing is on its way.                                *)
LEMMA NothingLands ==
  ASSUME reg = [r \in IopRegs |-> reg[r]]
  PROVE  Iop!Landed(reg, {}) = reg
  BY DEF Iop!Landed

(* The abstract program lands values the same way.                          *)
LEMMA SameLanding ==
  ASSUME NEW regs, regs = [r \in IopRegs |-> regs[r]], NEW values
  PROVE  Iop!Flow!Landed(regs, values) = Iop!Landed(regs, values)
<1>1. DOMAIN regs = IopRegs
  OBVIOUS
<1> QED BY <1>1 DEF Iop!Landed, Iop!Flow!Landed

(* So does what an instruction wrote itself.                                *)
LEMMA OwnIsFunction ==
  ASSUME NEW i, NEW regs, regs = [r \in IopRegs |-> regs[r]]
  PROVE  Iop!Own(i, regs) = [r \in IopRegs |-> Iop!Own(i, regs)[r]]
<1>1. DOMAIN regs = IopRegs
  OBVIOUS
<1> QED BY <1>1 DEF Iop!Own

(* A step after which the program is where it was, and a value may have     *)
(* landed.                                                                  *)
LEMMA LandingStep ==
  ASSUME RegisterInv, UNCHANGED <<code, mem, iso>>, Iop!At' = Iop!At, Iop!Registers = reg,
           Iop!Late = load,
         Iop!Registers' = Iop!Landed(reg, load), Iop!Late' = {}
  PROVE  [Iop!Flow!Next]_Iop!program
<1>1. CASE load = {}
  <2>1. Iop!Registers' = Iop!Registers /\ Iop!Late' = Iop!Late
    BY <1>1, NothingLands DEF RegisterInv
  <2> QED BY <2>1 DEF Iop!program
<1>2. CASE load # {}
  <2>1. Iop!Flow!Lands
    BY <1>2, SameLanding DEF Iop!Flow!Lands, RegisterInv
  <2> QED BY <2>1 DEF Iop!Flow!Next
<1> QED BY <1>1, <1>2

-----------------------------------------------------------------------------
(* The invariant after a step, by where it leads                            *)

(* To the program: an entry, or the slot of a pending branch.               *)
LEMMA ToProgram ==
  ASSUME Iop!MachineAssumption, code \in Iop!Program, code' = code, iso' => ~ie'[1],
         \/ branch' = Iop!None /\ pc' \in Entries
         \/ branch' # Iop!None /\ pc' \in Iop!Slots(code) /\ branch' = code[pc' - 1].to /\ load' = {},
         reg' = [r \in IopRegs |-> reg'[r]], saved' = [r \in IopRegs |-> saved'[r]]
  PROVE  ControlInv' /\ RegisterInv' /\ pc' \in Iop!User
<1>1. Entries' = Entries
  BY DEF Entries
<1>2. pc' \in Iop!User
  BY DEF Entries, Iop!Slots
<1>3. pc' \in 0..(UserSize + 7) /\ pc' \notin Kernel
  BY <1>2, Places
<1>4. InProgram'
  BY <1>1 DEF InProgram
<1>5. ControlInv'
  BY <1>2, <1>3, <1>4, Zenon DEF ControlInv
<1>6. RegisterInv'
  BY <1>3 DEF RegisterInv, Kernel
<1> QED BY <1>2, <1>5, <1>6

(* To the handler.                                                          *)
LEMMA ToHandler ==
  ASSUME Iop!MachineAssumption, code \in Iop!Program, code' = code, pc' \in Kernel,
         epc' \in Entries, ~ie'[1], ~iso', branch' = IF pc' = Iop!Rfe THEN epc' ELSE Iop!None,
         cause' = "trap" /\ pc' \in {Iop!Enter, Iop!Save, Iop!Look, Iop!Ack, Iop!Serve}
           => code[epc'].op \in Iop!Traps
  PROVE  ControlInv'
<1>1. Entries' = Entries
  BY DEF Entries
<1>2. pc' \in 0..(UserSize + 7) /\ pc' \notin Iop!User
  BY Places
<1>3. InHandler'
  BY <1>1, Zenon DEF InHandler
<1> QED BY <1>2, <1>3, Zenon DEF ControlInv

(* What a step of the program or the handler has to establish.              *)
IopKeeps == ControlInv' /\ RegisterInv' /\ [Iop!Flow!Next]_Iop!program

-----------------------------------------------------------------------------
(* Interrupts and traps                                                     *)

(* The handler's interrupts are off: nothing interrupts it.                 *)
LEMMA InterruptedInProgram ==
  ASSUME Iop!MachineAssumption, ControlInv, Iop!Interrupted
  PROVE  pc \in Iop!User /\ ~iso
<1>1. ie[1]
  BY Zenon DEF Iop!Interrupted
<1>2. pc \in Iop!User
  BY <1>1, Zenon DEF ControlInv, InHandler
<1>3. ~iso
  BY <1>1, Zenon DEF ControlInv
<1> QED BY <1>2, <1>3

(* The return point is where the program is, an entry, whether or not the   *)
(* next instruction is in the slot of a branch.                             *)
LEMMA ReturnPointIsAt ==
  ASSUME Iop!MachineAssumption, ControlInv, pc \in Iop!User
  PROVE  Iop!ReturnPoint = Iop!At /\ Iop!ReturnPoint \in Entries
<1>1. Iop!At = IF branch = Iop!None THEN pc ELSE pc - 1
  BY ProgramView
<1>2. CASE branch = Iop!None
  BY <1>1, <1>2 DEF Iop!ReturnPoint, ControlInv, InProgram
<1>3. CASE branch # Iop!None
  <2>1. pc \in Iop!Slots(code)
    BY <1>3 DEF ControlInv, InProgram
  <2>2. pc - 1 \in Entries
    BY <2>1, SlotFacts, BranchFacts DEF ControlInv
  <2> QED BY <1>1, <1>3, <2>2 DEF Iop!ReturnPoint
<1> QED BY <1>2, <1>3

(* An entry to the handler leaves the program where it was.                 *)
LEMMA RaiseControl ==
  ASSUME Iop!MachineAssumption, ControlInv, RegisterInv, pc \in Iop!User, ~iso,
         NEW c, Iop!RaiseException(c), c = "trap" => code[Iop!ReturnPoint].op \in Iop!Traps
  PROVE  ControlInv' /\ pc' = Iop!Enter /\ Iop!At' = Iop!At /\ UNCHANGED <<code, mem, iso, saved>>
<1>1. /\ epc' = Iop!ReturnPoint /\ cause' = c /\ pc' = Iop!Enter /\ branch' = Iop!None
      /\ code' = code /\ UNCHANGED <<mem, iso, saved>>
  BY DEF Iop!RaiseException, Iop!kernel
<1>2. ~ie'[1]
  BY DEF Iop!RaiseException
<1>3. pc' \in Kernel /\ pc' # Iop!Rfe
  BY <1>1, Successors DEF Kernel
<1>4. Iop!ReturnPoint = Iop!At /\ Iop!ReturnPoint \in Entries
  BY ReturnPointIsAt
<1>5. ~iso'
  BY <1>1
<1>6. cause' = "trap" => code[epc'].op \in Iop!Traps
  BY <1>1
<1>7. ControlInv'
  BY <1>1, <1>2, <1>3, <1>4, <1>5, <1>6, ToHandler DEF ControlInv
<1>8. Iop!At' = Iop!At
  BY <1>1, <1>3, <1>4, HandlerViewNext
<1> QED BY <1>1, <1>7, <1>8

(* An interrupt, and a fetch that fails: the pending load waits for the     *)
(* handler's first instruction.                                             *)
LEMMA RaiseKeeps ==
  ASSUME Iop!MachineAssumption, ControlInv, RegisterInv, pc \in Iop!User, ~iso, UNCHANGED <<reg, load>>,
         NEW c, Iop!RaiseException(c), c = "trap" => code[Iop!ReturnPoint].op \in Iop!Traps
  PROVE  IopKeeps
<1>1. ControlInv' /\ pc' = Iop!Enter /\ Iop!At' = Iop!At /\ UNCHANGED <<code, mem, iso, saved>>
  BY RaiseControl
<1>2. RegisterInv'
  BY <1>1, Successors DEF RegisterInv
<1>3. Iop!Registers' = Iop!Registers /\ Iop!Late' = Iop!Late
  BY <1>1, ProgramView, HandlerViewNext DEF Kernel
<1> QED BY <1>1, <1>2, <1>3 DEF IopKeeps, Iop!program

LEMMA TakeInterruptKeeps ==
  ASSUME Iop!MachineAssumption, ControlInv, RegisterInv, Iop!TakeInterrupt
  PROVE  IopKeeps
<1>1. Iop!RaiseException("interrupt") /\ UNCHANGED <<reg, load>> /\ pc \in Iop!User /\ ~iso
  BY InterruptedInProgram DEF Iop!TakeInterrupt
<1> QED BY <1>1, RaiseKeeps

(* A trap is never in a slot, and never with the cache isolated.            *)
LEMMA TrapPlace ==
  ASSUME Iop!MachineAssumption, ControlInv, NEW op \in Iop!Traps, Iop!Executes(op)
  PROVE  /\ pc \in Iop!User /\ ~iso /\ branch = Iop!None /\ Iop!ReturnPoint = pc
         /\ code[Iop!ReturnPoint].op \in Iop!Traps
<1>1. pc \in Iop!User /\ code[pc].op \in Iop!Traps
  BY DEF Iop!Executes
<1>2. ~iso
  BY Zenon DEF Iop!Executes, Iop!Cautious
<1>3. branch = Iop!None
  BY <1>1, SlotFacts DEF ControlInv, InProgram, Iop!Straight, Iop!Traps
<1> QED BY <1>1, <1>2, <1>3 DEF Iop!ReturnPoint

LEMMA FetchFaultKeeps ==
  ASSUME Iop!MachineAssumption, ControlInv, RegisterInv, Iop!FetchFault
  PROVE  IopKeeps
<1>1. Iop!RaiseException("trap") /\ UNCHANGED <<reg, load>> /\ Iop!Executes("hole")
  BY DEF Iop!FetchFault
<1>2. "hole" \in Iop!Traps
  BY DEF Iop!Traps
<1> QED BY <1>1, <1>2, TrapPlace, RaiseKeeps

LEMMA SyscallKeeps ==
  ASSUME Iop!MachineAssumption, ControlInv, RegisterInv, Iop!Syscall
  PROVE  IopKeeps
<1>1. Iop!RaiseException("trap") /\ load' = {} /\ reg' = Iop!Landed(reg, load)
      /\ Iop!Executes("syscall")
  BY DEF Iop!Syscall
<1>2. "syscall" \in Iop!Traps
  BY DEF Iop!Traps
<1>3. pc \in Iop!User /\ ~iso /\ code[Iop!ReturnPoint].op \in Iop!Traps
  BY <1>1, <1>2, TrapPlace
<1>4. ControlInv' /\ pc' = Iop!Enter /\ Iop!At' = Iop!At /\ UNCHANGED <<code, mem, iso, saved>>
  BY <1>1, <1>3, RaiseControl
<1>5. RegisterInv'
  BY <1>1, <1>4, Successors DEF RegisterInv, Iop!Landed
<1>6. Iop!Registers = reg /\ Iop!Late = load
  BY <1>3, ProgramView
<1>7. Iop!Registers' = Iop!Landed(reg, load) /\ Iop!Late' = {}
  BY <1>1, <1>4, HandlerViewNext DEF Kernel
<1>8. UNCHANGED <<code, mem, iso>>
  BY <1>4
<1>9. [Iop!Flow!Next]_Iop!program
  BY <1>4, <1>6, <1>7, <1>8, LandingStep
<1> QED BY <1>4, <1>5, <1>9 DEF IopKeeps

-----------------------------------------------------------------------------
(* The program's own instructions                                           *)

(* What an instruction does is what the program expects of it.              *)
LEMMA WorksRetires ==
  ASSUME Iop!MachineAssumption, RegisterInv, pc \in Iop!User, pc' \in Iop!User, Iop!Works
  PROVE  Iop!Flow!Retires(pc)
<1>1. Iop!Registers = reg /\ Iop!Late = load /\ Iop!Registers' = reg' /\ Iop!Late' = load'
  BY ProgramView, ProgramViewNext
<1>2. reg' = Iop!Flow!Landed(Iop!Own(code[pc], reg), load)
  <2>1. Iop!Own(code[pc], reg) = [r \in IopRegs |-> Iop!Own(code[pc], reg)[r]]
    BY OwnIsFunction DEF RegisterInv
  <2>2. Iop!Flow!Landed(Iop!Own(code[pc], reg), load) = Iop!Landed(Iop!Own(code[pc], reg), load)
    BY <2>1, SameLanding
  <2> QED BY <2>2 DEF Iop!Works
<1>3. load' = Iop!Loaded(code[pc], reg, mem) /\ mem' = Iop!Stored(code[pc], reg, mem, iso)
  BY DEF Iop!Works
<1>4. iso' = Iop!Isolated(code[pc], iso)
  BY Zenon DEF Iop!Works
<1>5. UNCHANGED code
  BY DEF Iop!Works
<1> QED BY <1>1, <1>2, <1>3, <1>4, <1>5, Zenon DEF Iop!Flow!Retires

LEMMA WorksKeeps ==
  ASSUME Iop!MachineAssumption, ControlInv, RegisterInv, pc \in Iop!User, code[pc].op \in Iop!Straight,
         Iop!Works, iso' => ~ie'[1]
  PROVE  IopKeeps
<1>1. code \in Iop!Program /\ code' = code /\ InProgram
  BY DEF ControlInv, Iop!Works
<1>2. pc' = (IF branch = Iop!None THEN pc + 1 ELSE branch) /\ branch' = Iop!None
  BY DEF Iop!Works, Iop!Advance
<1>3. /\ reg' = [r \in IopRegs |-> reg'[r]]
      /\ saved' = [r \in IopRegs |-> saved'[r]]
  BY DEF Iop!Works, Iop!kernel, Iop!Landed, RegisterInv
<1>4. Iop!At = IF branch = Iop!None THEN pc ELSE pc - 1
  BY ProgramView
<1>5. CASE branch = Iop!None
  <2>1. pc \in Entries /\ code[pc].op \notin Iop!Branches
    BY <1>1, <1>5 DEF InProgram, Iop!Straight, Iop!Branches
  <2>2. pc + 1 \in Entries
    BY <1>1, <2>1, EntryFacts
  <2>3. ControlInv' /\ RegisterInv' /\ pc' \in Iop!User
    BY <1>1, <1>2, <1>3, <1>5, <2>2, ToProgram
  <2>4. Iop!At' = Iop!At + 1 /\ Iop!At = pc
    BY <1>2, <1>4, <1>5, <2>3, ProgramViewNext
  <2>5. Iop!Flow!Sequential
    BY <2>3, <2>4, WorksRetires DEF Iop!Flow!Sequential
  <2> QED BY <2>3, <2>5 DEF IopKeeps, Iop!Flow!Next
<1>6. CASE branch # Iop!None
  <2>1. pc \in Iop!Slots(code) /\ branch = code[pc - 1].to /\ load = {}
    BY <1>1, <1>6 DEF InProgram
  <2>2. pc - 1 \in Iop!User /\ (pc - 1) + 1 = pc /\ code[pc - 1].op \in Iop!Branches
    BY <1>1, <2>1, SlotFacts
  <2>3. branch \in Entries
    BY <1>1, <2>1, <2>2, BranchFacts
  <2>4. ControlInv' /\ RegisterInv' /\ pc' \in Iop!User
    BY <1>1, <1>2, <1>3, <1>6, <2>3, ToProgram
  <2>5. Iop!At = pc - 1 /\ Iop!At' = code[Iop!At].to /\ Iop!Late = {}
    BY <1>2, <1>4, <1>6, <2>1, <2>4, ProgramViewNext, ProgramView
  <2>6. Iop!Flow!Taken
    BY <2>2, <2>4, <2>5, WorksRetires DEF Iop!Flow!Taken
  <2> QED BY <2>4, <2>6 DEF IopKeeps, Iop!Flow!Next
<1> QED BY <1>5, <1>6

(* The cache is isolated with interrupts off, and then they stay off.       *)
LEMMA IopExecuteKeeps ==
  ASSUME Iop!MachineAssumption, ControlInv, RegisterInv, Iop!Execute
  PROVE  IopKeeps
<1>1. PICK op \in {"alu", "load", "merge", "store", "isolate", "expose"} : Iop!Executes(op)
  BY DEF Iop!Execute
<1>2. pc \in Iop!User /\ code[pc].op = op /\ op \in Iop!Straight
  BY <1>1 DEF Iop!Executes, Iop!Straight
<1>3. Iop!Works /\ ie' = ie
  BY DEF Iop!Execute
<1>4. iso' => iso \/ op = "isolate"
  BY <1>2, <1>3, Zenon DEF Iop!Works, Iop!Isolated
<1>5. op = "isolate" => ~ie[1]
  BY <1>1, Zenon DEF Iop!Executes, Iop!Cautious
<1>6. iso => ~ie[1]
  BY Zenon DEF ControlInv
<1>7. iso' => ~ie'[1]
  BY <1>3, <1>4, <1>5, <1>6, Zenon
<1> QED BY <1>2, <1>3, <1>7, WorksKeeps

LEMMA EnableDisableKeeps ==
  ASSUME Iop!MachineAssumption, ControlInv, RegisterInv, Iop!EnableDisable
  PROVE  IopKeeps
<1>1. Iop!Works /\ ie' = <<code[pc].op = "ei", ie[2], ie[3]>>
  BY DEF Iop!EnableDisable
<1>2. /\ pc \in Iop!User /\ code[pc].op \in Iop!Straight
      /\ code[pc].op \notin {"isolate", "expose"}
  BY DEF Iop!EnableDisable, Iop!Executes, Iop!Straight
<1>3. code[pc].op = "ei" => ~iso
  BY Zenon DEF Iop!EnableDisable, Iop!Executes, Iop!Cautious
<1>4. iso' = iso
  BY <1>1, <1>2, Zenon DEF Iop!Works, Iop!Isolated
<1>5. ie'[1] = (code[pc].op = "ei")
  BY <1>1
<1>6. iso' => ~ie'[1]
  BY <1>3, <1>4, <1>5, Zenon
<1> QED BY <1>1, <1>2, <1>6, WorksKeeps

LEMMA MaskWriteKeeps ==
  ASSUME Iop!MachineAssumption, ControlInv, RegisterInv, Iop!MaskWrite
  PROVE  IopKeeps
<1>1. Iop!Works /\ ie' = ie
  BY DEF Iop!MaskWrite
<1>2. /\ pc \in Iop!User /\ code[pc].op \in Iop!Straight
      /\ code[pc].op \notin {"isolate", "expose"}
  BY DEF Iop!MaskWrite, Iop!Executes, Iop!Straight
<1>3. iso' = iso
  BY <1>1, <1>2, Zenon DEF Iop!Works, Iop!Isolated
<1>4. iso' => ~ie'[1]
  BY <1>1, <1>3, Zenon DEF ControlInv
<1> QED BY <1>1, <1>2, <1>4, WorksKeeps

(* A branch: the pending load lands and none is left for the slot.          *)
LEMMA BranchKeeps ==
  ASSUME Iop!MachineAssumption, ControlInv, RegisterInv, Iop!Branch
  PROVE  IopKeeps
<1>1. /\ pc' = pc + 1 /\ reg' = Iop!Landed(reg, load) /\ load' = {}
      /\ UNCHANGED <<code, mem, iso>> /\ saved' = saved /\ ie' = ie
      /\ \/ branch' = code[pc].to
         \/ code[pc].op = "branch" /\ branch' = Iop!None
  BY DEF Iop!Branch, Iop!entry, Iop!kernel
<1>2. code \in Iop!Program /\ pc \in Iop!User /\ code[pc].op \in Iop!Branches
  BY DEF ControlInv, Iop!Branch, Iop!Executes, Iop!Branches
<1>3. branch = Iop!None /\ pc \in Entries
  BY <1>2, SlotFacts DEF ControlInv, InProgram, Iop!Straight, Iop!Branches
<1>4. /\ pc + 1 \in Iop!Slots(code) /\ code[pc].to \in Entries
      /\ code[pc].op = "branch" => pc + 1 \in Entries
  BY <1>2, BranchFacts
<1>5. (pc + 1) - 1 = pc /\ code[pc].to # Iop!None
  BY <1>2, <1>4, Places DEF Entries
<1>6. /\ reg' = [r \in IopRegs |-> reg'[r]]
      /\ saved' = [r \in IopRegs |-> saved'[r]]
  BY <1>1 DEF Iop!Landed, RegisterInv
<1>7. iso' => ~ie'[1]
  BY <1>1, Zenon DEF ControlInv
<1>8. \/ branch' = Iop!None /\ pc' \in Entries
      \/ branch' # Iop!None /\ pc' \in Iop!Slots(code) /\ branch' = code[pc' - 1].to /\ load' = {}
  BY <1>1, <1>4, <1>5
<1>9. ControlInv' /\ RegisterInv' /\ pc' \in Iop!User
  BY <1>1, <1>2, <1>6, <1>7, <1>8, ToProgram
<1>10. /\ Iop!Registers = reg /\ Iop!Late = load /\ Iop!Registers' = reg' /\ Iop!Late' = {}
       /\ Iop!At = pc /\ Iop!At' = IF branch' = Iop!None THEN pc' ELSE pc' - 1
  BY <1>1, <1>2, <1>3, <1>9, ProgramView, ProgramViewNext
<1>11. [Iop!Flow!Next]_Iop!program
  <2>1. CASE branch' = Iop!None
    <3>1. code[pc].op = "branch"
      BY <1>1, <1>5, <2>1
    <3>2. Iop!Registers' = Iop!Flow!Landed(Iop!Registers, Iop!Late)
      BY <1>1, <1>10, SameLanding DEF RegisterInv
    <3>3. Iop!Flow!NotTaken
      BY <1>1, <1>10, <2>1, <3>1, <3>2 DEF Iop!Flow!NotTaken
    <3> QED BY <3>3 DEF Iop!Flow!Next
  <2>2. CASE branch' # Iop!None
    <3>1. Iop!At' = Iop!At
      BY <1>1, <1>5, <1>10, <2>2
    <3> QED BY <1>1, <1>10, <3>1, LandingStep
  <2> QED BY <2>1, <2>2
<1> QED BY <1>9, <1>11 DEF IopKeeps

-----------------------------------------------------------------------------
(* The handler                                                              *)

(* It is in its place, interrupts off and the cache in use.                 *)
LEMMA HandlerFacts ==
  ASSUME Iop!MachineAssumption, ControlInv, pc \in Kernel
  PROVE  /\ epc \in Entries /\ ~ie[1] /\ ~iso /\ code \in Iop!Program
         /\ branch = IF pc = Iop!Rfe THEN epc ELSE Iop!None
         /\ cause = "trap" /\ pc \in {Iop!Enter, Iop!Save, Iop!Look, Iop!Ack, Iop!Serve}
              => code[epc].op \in Iop!Traps
         /\ Iop!At = epc
<1>1. pc \notin Iop!User
  BY Places
<1> QED BY <1>1, HandlerView, Zenon DEF ControlInv, InHandler

(* An operation that leaves EPC, Cause and Status alone.                    *)
LEMMA HandlerControl ==
  ASSUME Iop!MachineAssumption, ControlInv, UNCHANGED <<code, mem, iso, Iop!entry>>,
         pc \in Kernel \ {Iop!Rfe}, pc' = pc + 1,
         branch' = IF pc = Iop!Back THEN epc ELSE branch
  PROVE  ControlInv' /\ pc' \in Kernel /\ Iop!At' = Iop!At
<1>1. /\ epc \in Entries /\ ~ie[1] /\ ~iso /\ code \in Iop!Program /\ branch = Iop!None
      /\ cause = "trap" /\ pc \in {Iop!Enter, Iop!Save, Iop!Look, Iop!Ack, Iop!Serve}
           => code[epc].op \in Iop!Traps
      /\ Iop!At = epc
  BY HandlerFacts
<1>2. /\ pc' \in Kernel
      /\ pc' = Iop!Rfe <=> pc = Iop!Back
      /\ pc' \in {Iop!Enter, Iop!Save, Iop!Look, Iop!Ack, Iop!Serve}
           => pc \in {Iop!Enter, Iop!Save, Iop!Look, Iop!Ack, Iop!Serve}
  BY Successors DEF Kernel
<1>3. /\ epc' = epc /\ cause' = cause /\ code' = code
      /\ branch' = IF pc' = Iop!Rfe THEN epc' ELSE Iop!None
  BY <1>1, <1>2 DEF Iop!entry
<1>4. ~ie'[1] /\ ~iso'
  BY <1>1, Zenon DEF Iop!entry
<1>5. cause' = "trap" /\ pc' \in {Iop!Enter, Iop!Save, Iop!Look, Iop!Ack, Iop!Serve}
      => code[epc'].op \in Iop!Traps
  BY <1>1, <1>2, <1>3
<1>6. epc' \in Entries
  BY <1>1, <1>3
<1>7. ControlInv'
  BY <1>1, <1>2, <1>3, <1>4, <1>5, <1>6, ToHandler
<1>8. Iop!At' = Iop!At
  BY <1>1, <1>2, <1>3, HandlerViewNext
<1> QED BY <1>2, <1>7, <1>8

LEMMA StepControl ==
  ASSUME Iop!MachineAssumption, ControlInv, NEW k \in Kernel \ {Iop!Back, Iop!Rfe}, Iop!HandlerStep(k),
         UNCHANGED Iop!entry
  PROVE  ControlInv' /\ pc = k /\ pc' = k + 1 /\ Iop!At' = Iop!At /\ UNCHANGED <<code, mem, iso>>
<1>1. /\ pc = k /\ pc' = k + 1 /\ branch' = branch /\ UNCHANGED <<code, mem, iso>>
  BY DEF Iop!HandlerStep, Iop!Handles
<1>2. UNCHANGED <<code, mem, iso, Iop!entry>>
  BY <1>1
<1>3. pc \in Kernel \ {Iop!Rfe} /\ pc # Iop!Back /\ pc' = pc + 1
  BY <1>1
<1>4. ControlInv' /\ Iop!At' = Iop!At
  BY <1>1, <1>2, <1>3, HandlerControl
<1> QED BY <1>1, <1>4

(* The first instruction: what the program loaded last lands before its     *)
(* registers are saved.                                                     *)
LEMMA EnterKeeps ==
  ASSUME Iop!MachineAssumption, ControlInv, RegisterInv, Iop!EnterHandler
  PROVE  IopKeeps
<1>1. /\ Iop!HandlerStep(Iop!Enter) /\ UNCHANGED Iop!entry /\ saved' = saved
      /\ reg' = Iop!Landed(reg, load) /\ load' = {}
  BY DEF Iop!EnterHandler, Iop!kernel
<1>2. Iop!Enter \in Kernel \ {Iop!Back, Iop!Rfe}
  BY Successors DEF Kernel
<1>3. ControlInv' /\ pc = Iop!Enter /\ pc' = Iop!Save /\ Iop!At' = Iop!At
      /\ UNCHANGED <<code, mem, iso>>
  BY <1>1, <1>2, StepControl, Successors
<1>4. RegisterInv'
  BY <1>1, <1>3, Successors DEF RegisterInv, Iop!Landed
<1>5. /\ Iop!Registers = reg /\ Iop!Late = load
      /\ Iop!Registers' = Iop!Landed(reg, load) /\ Iop!Late' = {}
  BY <1>1, <1>3, HandlerView, HandlerViewNext DEF Kernel
<1>6. UNCHANGED <<code, mem, iso>>
  BY <1>3
<1>7. [Iop!Flow!Next]_Iop!program
  BY <1>3, <1>5, <1>6, LandingStep
<1> QED BY <1>3, <1>4, <1>7 DEF IopKeeps

LEMMA SaveKeeps ==
  ASSUME Iop!MachineAssumption, ControlInv, RegisterInv, Iop!SaveRegisters
  PROVE  IopKeeps
<1>1. /\ Iop!HandlerStep(Iop!Save) /\ UNCHANGED Iop!entry /\ UNCHANGED <<reg, load>>
      /\ saved' = IF iso THEN saved ELSE reg
  BY DEF Iop!SaveRegisters
<1>2. Iop!Save \in Kernel \ {Iop!Back, Iop!Rfe}
  BY Successors DEF Kernel
<1>3. ControlInv' /\ pc = Iop!Save /\ pc' = Iop!Look /\ Iop!At' = Iop!At /\ UNCHANGED <<code, mem, iso>>
  BY <1>1, <1>2, StepControl, Successors
<1>4. ~iso
  BY <1>2, <1>3, HandlerFacts
<1>5. saved' = reg /\ load = {}
  BY <1>1, <1>3, <1>4 DEF RegisterInv
<1>6. RegisterInv'
  BY <1>1, <1>3, <1>5, Successors DEF RegisterInv
<1>7. Iop!Registers' = Iop!Registers /\ Iop!Late' = Iop!Late
  BY <1>1, <1>2, <1>3, <1>5, HandlerView, HandlerViewNext, Successors DEF Kernel
<1> QED BY <1>3, <1>6, <1>7 DEF IopKeeps, Iop!program

(* Once the registers are saved the handler has them for itself.            *)
LEMMA SavedKeeps ==
  ASSUME Iop!MachineAssumption, ControlInv', Iop!At' = Iop!At, UNCHANGED <<code, mem, iso, saved>>,
         pc \in Kernel \ {Iop!Enter, Iop!Save}, pc' \in Kernel \ {Iop!Enter, Iop!Save}, RegisterInv'
  PROVE  IopKeeps
<1>1. Iop!Registers' = Iop!Registers /\ Iop!Late' = Iop!Late
  BY HandlerView, HandlerViewNext
<1> QED BY <1>1 DEF IopKeeps, Iop!program

LEMMA LookKeeps ==
  ASSUME Iop!MachineAssumption, ControlInv, RegisterInv, Iop!LookAtLines
  PROVE  IopKeeps
<1>1. /\ Iop!HandlerStep(Iop!Look) /\ UNCHANGED Iop!entry /\ UNCHANGED <<load, saved>>
      /\ reg' = [r \in IopRegs |-> reg'[r]]
  BY DEF Iop!LookAtLines
<1>2. Iop!Look \in Kernel \ {Iop!Enter, Iop!Save, Iop!Back, Iop!Rfe}
      /\ Iop!Ack \in Kernel \ {Iop!Enter, Iop!Save}
  BY Successors DEF Kernel
<1>3. ControlInv' /\ pc = Iop!Look /\ pc' = Iop!Ack /\ Iop!At' = Iop!At /\ UNCHANGED <<code, mem, iso>>
  BY <1>1, <1>2, StepControl, Successors
<1>4. RegisterInv'
  BY <1>1, <1>3, Successors DEF RegisterInv
<1> QED BY <1>1, <1>2, <1>3, <1>4, SavedKeeps

LEMMA AcknowledgeKeeps ==
  ASSUME Iop!MachineAssumption, ControlInv, RegisterInv, Iop!Acknowledge
  PROVE  IopKeeps
<1>1. /\ Iop!HandlerStep(Iop!Ack) /\ UNCHANGED Iop!entry /\ UNCHANGED <<reg, load, saved>>
  BY DEF Iop!Acknowledge, Iop!kernel
<1>2. Iop!Ack \in Kernel \ {Iop!Enter, Iop!Save, Iop!Back, Iop!Rfe}
      /\ Iop!Serve \in Kernel \ {Iop!Enter, Iop!Save}
  BY Successors DEF Kernel
<1>3. ControlInv' /\ pc = Iop!Ack /\ pc' = Iop!Serve /\ Iop!At' = Iop!At /\ UNCHANGED <<code, mem, iso>>
  BY <1>1, <1>2, StepControl, Successors
<1>4. RegisterInv'
  BY <1>1, <1>3, Successors DEF RegisterInv
<1> QED BY <1>1, <1>2, <1>3, <1>4, SavedKeeps

LEMMA RestoreKeeps ==
  ASSUME Iop!MachineAssumption, ControlInv, RegisterInv, Iop!RestoreRegisters
  PROVE  IopKeeps
<1>1. /\ Iop!HandlerStep(Iop!Restore) /\ UNCHANGED Iop!entry /\ saved' = saved
      /\ reg' = [saved EXCEPT ![LastLoaded] = reg[LastLoaded]]
      /\ load' = {<<LastLoaded, saved[LastLoaded]>>}
  BY DEF Iop!RestoreRegisters, Iop!kernel
<1>2. Iop!Restore \in Kernel \ {Iop!Enter, Iop!Save, Iop!Back, Iop!Rfe}
      /\ Iop!Back \in Kernel \ {Iop!Enter, Iop!Save}
  BY Successors DEF Kernel
<1>3. ControlInv' /\ pc = Iop!Restore /\ pc' = Iop!Back /\ Iop!At' = Iop!At
      /\ UNCHANGED <<code, mem, iso>>
  BY <1>1, <1>2, StepControl, Successors
<1>4. reg' = [r \in IopRegs |-> reg'[r]] /\ saved' = [r \in IopRegs |-> saved'[r]]
  BY <1>1 DEF RegisterInv
<1>5. Iop!Landed(reg', load') = saved'
  <2>1. \A r \in IopRegs : r # LastLoaded => reg'[r] = saved[r]
    BY <1>1 DEF RegisterInv
  <2>2. \A r \in IopRegs : (\E v \in load' : v[1] = r) <=> r = LastLoaded
    BY <1>1
  <2>3. (CHOOSE v \in load' : v[1] = LastLoaded) = <<LastLoaded, saved[LastLoaded]>>
    BY <1>1
  <2>4. \A r \in IopRegs : r # LastLoaded => Iop!Landed(reg', load')[r] = saved[r]
    BY <2>1, <2>2 DEF Iop!Landed
  <2>5. \A r \in IopRegs : r = LastLoaded => Iop!Landed(reg', load')[r] = saved[r]
    BY <2>2, <2>3, <1>1 DEF Iop!Landed
  <2> QED BY <1>1, <2>4, <2>5 DEF Iop!Landed, RegisterInv
<1>6. RegisterInv'
  BY <1>3, <1>4, <1>5, Successors DEF RegisterInv, Iop!Landed
<1> QED BY <1>1, <1>2, <1>3, <1>6, SavedKeeps

LEMMA JumpBackKeeps ==
  ASSUME Iop!MachineAssumption, ControlInv, RegisterInv, Iop!JumpBack
  PROVE  IopKeeps
<1>1. /\ pc = Iop!Back /\ pc' = Iop!Rfe /\ pc' = pc + 1 /\ branch' = epc /\ saved' = saved
      /\ reg' = Iop!Landed(reg, load) /\ load' = {} /\ UNCHANGED <<code, mem, iso, Iop!entry>>
  BY Successors DEF Iop!JumpBack, Iop!Handles, Iop!kernel
<1>2. Iop!Back \in Kernel \ {Iop!Enter, Iop!Save, Iop!Rfe} /\ Iop!Rfe \in Kernel \ {Iop!Enter, Iop!Save}
  BY Successors DEF Kernel
<1>3. UNCHANGED <<code, mem, iso, Iop!entry>>
  BY <1>1
<1>4. ControlInv' /\ Iop!At' = Iop!At
  BY <1>1, <1>2, <1>3, HandlerControl
<1>5. RegisterInv'
  BY <1>1, Successors DEF RegisterInv
<1>6. UNCHANGED <<code, mem, iso, saved>>
  BY <1>1
<1> QED BY <1>1, <1>2, <1>4, <1>5, <1>6, SavedKeeps

(* Serving a trap steps over the instruction that raised it, which does not *)
(* branch.                                                                  *)
LEMMA ServeKeeps ==
  ASSUME Iop!MachineAssumption, ControlInv, RegisterInv, Iop!ServeLines
  PROVE  IopKeeps
<1>1. /\ pc = Iop!Serve /\ pc' = Iop!Restore /\ branch' = branch
      /\ UNCHANGED <<code, mem, iso, reg, load, cause, ie, saved>>
      /\ epc' = IF cause = "trap" THEN epc + 1 ELSE epc
  BY Successors DEF Iop!ServeLines, Iop!HandlerStep, Iop!Handles
<1>2. Iop!Serve \in Kernel \ {Iop!Enter, Iop!Save, Iop!Rfe}
      /\ Iop!Restore \in Kernel \ {Iop!Enter, Iop!Save, Iop!Rfe}
  BY Successors DEF Kernel
<1>3. /\ epc \in Entries /\ ~ie[1] /\ ~iso /\ code \in Iop!Program /\ branch = Iop!None
      /\ cause = "trap" => code[epc].op \in Iop!Traps
      /\ Iop!At = epc
  BY <1>1, <1>2, HandlerFacts
<1>4. epc' \in Entries
  BY <1>1, <1>3, EntryFacts DEF Iop!Traps, Iop!Branches
<1>5. ~ie'[1] /\ ~iso'
  BY <1>1, <1>3, Zenon
<1>6. ~(pc' \in {Iop!Enter, Iop!Save, Iop!Look, Iop!Ack, Iop!Serve})
  BY <1>1, Successors
<1>7. ControlInv'
  BY <1>1, <1>2, <1>3, <1>4, <1>5, <1>6, ToHandler
<1>8. RegisterInv'
  BY <1>1, Successors DEF RegisterInv
<1>9. /\ Iop!At' = epc' /\ Iop!Registers = saved /\ Iop!Registers' = saved /\ Iop!Late = {}
      /\ Iop!Late' = {}
  BY <1>1, <1>2, HandlerView, HandlerViewNext
<1>10. CASE cause = "trap"
  <2>1. Iop!Flow!Trap
    BY <1>1, <1>3, <1>9, <1>10 DEF Iop!Flow!Trap
  <2> QED BY <1>7, <1>8, <2>1 DEF IopKeeps, Iop!Flow!Next
<1>11. CASE cause # "trap"
  BY <1>1, <1>3, <1>7, <1>8, <1>9, <1>11 DEF IopKeeps, Iop!program
<1> QED BY <1>10, <1>11

LEMMA ReturnKeeps ==
  ASSUME Iop!MachineAssumption, ControlInv, RegisterInv, Iop!ReturnFromException
  PROVE  IopKeeps
<1>1. /\ pc = Iop!Rfe /\ UNCHANGED <<code, reg, load, mem, iso, saved>>
      /\ pc' = (IF branch = Iop!None THEN pc + 1 ELSE branch) /\ branch' = Iop!None
  BY DEF Iop!ReturnFromException, Iop!Handles, Iop!Advance, Iop!data, Iop!kernel
<1>2. Iop!Rfe \in Kernel \ {Iop!Enter, Iop!Save}
  BY Successors DEF Kernel
<1>3. epc \in Entries /\ ~iso /\ code \in Iop!Program /\ branch = epc /\ Iop!At = epc
  BY <1>1, <1>2, HandlerFacts
<1>4. epc # Iop!None
  BY <1>3, Places DEF Entries
<1>5. pc' = epc /\ ~iso' /\ code' = code
  BY <1>1, <1>3, <1>4
<1>6. reg = saved /\ load = {}
  BY <1>1 DEF RegisterInv
<1>7. /\ reg' = [r \in IopRegs |-> reg'[r]]
      /\ saved' = [r \in IopRegs |-> saved'[r]]
  BY <1>1 DEF RegisterInv
<1>8. ControlInv' /\ RegisterInv' /\ pc' \in Iop!User
  BY <1>1, <1>3, <1>5, <1>7, ToProgram
<1>9. Iop!At' = Iop!At /\ Iop!Registers' = Iop!Registers /\ Iop!Late' = Iop!Late
  BY <1>1, <1>2, <1>3, <1>5, <1>6, <1>8, HandlerView, ProgramViewNext
<1> QED BY <1>1, <1>8, <1>9 DEF IopKeeps, Iop!program

(* A device's line is nothing to the program until it interrupts.           *)
LEMMA RaiseLineKeeps ==
  ASSUME ControlInv, RegisterInv, UNCHANGED <<code, pc, branch, Iop!data, Iop!entry, Iop!kernel>>
  PROVE  IopKeeps
<1>1. /\ UNCHANGED <<code, pc, branch, reg, load, mem, iso, epc, cause, ie, saved>>
  BY DEF Iop!data, Iop!entry, Iop!kernel
<1>2. UNCHANGED <<Iop!At, Iop!Registers, Iop!Late>>
  BY <1>1 DEF Iop!At, Iop!Registers, Iop!Late
<1>3. ControlInv'
  BY <1>1 DEF ControlInv, InProgram, InHandler, Entries
<1>4. RegisterInv'
  BY <1>1 DEF RegisterInv, Iop!Landed
<1> QED BY <1>1, <1>2, <1>3, <1>4 DEF IopKeeps, Iop!program

-----------------------------------------------------------------------------
(* The theorems                                                             *)

LEMMA IopInit ==
  ASSUME Iop!MachineAssumption, Iop!Init
  PROVE  IopInv /\ Iop!Flow!Init
<1>1. /\ pc = 0 /\ branch = Iop!None /\ load = {} /\ code \in Iop!Program /\ want = {}
      /\ \E v \in Values : reg = [r \in IopRegs |-> v] /\ saved = reg
  BY DEF Iop!Init, Iop!MachineAssumption
<1>2. ~iso
  BY Zenon DEF Iop!Init
<1>3. pc \in Iop!User /\ pc \notin Kernel /\ pc \in 0..(UserSize + 7)
  BY <1>1, Places
<1>4. pc \in Entries
  BY <1>1, <1>3 DEF Entries, Iop!User
<1>5. ControlInv
  BY <1>1, <1>2, <1>3, <1>4, Zenon DEF ControlInv, InProgram
<1>6. RegisterInv
  BY <1>1, <1>3 DEF RegisterInv, Kernel
<1>7. Iop!EventsStayPending
  BY <1>1 DEF Iop!EventsStayPending
<1>8. Iop!At = 0 /\ Iop!Late = {}
  BY <1>1, <1>3, ProgramView
<1> QED BY <1>2, <1>5, <1>6, <1>7, <1>8 DEF IopInv, Iop!Flow!Init

(* Every step keeps the control state, and is a step of the program alone   *)
(* or invisible to it.                                                      *)
LEMMA IopStep ==
  ASSUME Iop!MachineAssumption, ControlInv, RegisterInv, [Iop!Next]_Iop!vars
  PROVE  IopKeeps
<1>1. CASE Iop!TakeInterrupt
  BY <1>1, TakeInterruptKeeps
<1>2. CASE Iop!FetchFault
  BY <1>2, FetchFaultKeeps
<1>3. CASE Iop!Syscall
  BY <1>3, SyscallKeeps
<1>4. CASE Iop!Execute
  BY <1>4, IopExecuteKeeps
<1>5. CASE Iop!EnableDisable
  BY <1>5, EnableDisableKeeps
<1>6. CASE Iop!MaskWrite
  BY <1>6, MaskWriteKeeps
<1>7. CASE Iop!Branch
  BY <1>7, BranchKeeps
<1>8. CASE Iop!Handler
  BY <1>8, EnterKeeps, SaveKeeps, LookKeeps, AcknowledgeKeeps, ServeKeeps, RestoreKeeps,
     JumpBackKeeps, ReturnKeeps DEF Iop!Handler
<1>9. CASE Iop!Raise
  BY <1>9, RaiseLineKeeps DEF Iop!Raise
<1>10. CASE UNCHANGED Iop!vars
  BY <1>10, RaiseLineKeeps DEF Iop!vars
<1> QED BY <1>1, <1>2, <1>3, <1>4, <1>5, <1>6, <1>7, <1>8, <1>9, <1>10 DEF Iop!Next

(* The handler acknowledges just what it has noted and serves just that, so *)
(* a line raised in between stays pending.                                  *)
LEMMA IopPending ==
  ASSUME Iop!MachineAssumption, ControlInv, Iop!EventsStayPending, [Iop!Next]_Iop!vars
  PROVE  Iop!EventsStayPending'
<1>1. want \subseteq stat \cup (IF pc = Iop!Serve THEN seen ELSE {})
  BY DEF Iop!EventsStayPending
<1>2. CASE pc = Iop!Serve
  <2>1. ~Iop!Interrupted /\ pc \notin Iop!User
        /\ pc \notin {Iop!Enter, Iop!Save, Iop!Look, Iop!Ack, Iop!Restore, Iop!Back, Iop!Rfe}
    BY <1>2, InterruptedInProgram, Places, Successors DEF Kernel
  <2>2. CASE Iop!ServeLines
    BY <1>1, <1>2, <2>2 DEF Iop!ServeLines, Iop!EventsStayPending
  <2>3. CASE Iop!Raise
    BY <1>1, <1>2, <2>3 DEF Iop!Raise, Iop!EventsStayPending, Iop!kernel
  <2>4. CASE UNCHANGED Iop!vars
    BY <1>1, <1>2, <2>4 DEF Iop!vars, Iop!lines, Iop!kernel, Iop!EventsStayPending
  <2> QED BY <1>2, <2>1, <2>2, <2>3, <2>4 DEF Iop!Next, Iop!TakeInterrupt, Iop!FetchFault,
             Iop!Syscall, Iop!Execute, Iop!EnableDisable, Iop!MaskWrite, Iop!Branch, Iop!Executes,
             Iop!Handler, Iop!EnterHandler, Iop!SaveRegisters, Iop!LookAtLines, Iop!Acknowledge,
             Iop!RestoreRegisters, Iop!JumpBack, Iop!ReturnFromException, Iop!HandlerStep,
             Iop!Handles
<1>3. CASE pc # Iop!Serve
  <2>1. CASE Iop!Acknowledge
    <3>1. want' = want /\ stat' = stat \ seen /\ seen' = seen /\ pc' = Iop!Serve
      BY <2>1, Successors DEF Iop!Acknowledge, Iop!HandlerStep, Iop!Handles, Iop!Acked, Iop!kernel
    <3> QED BY <1>1, <1>3, <3>1 DEF Iop!EventsStayPending
  <2>2. CASE ~Iop!Acknowledge
    <3>1. want' \subseteq stat'
      BY <1>1, <1>3, <2>2 DEF Iop!Next, Iop!vars, Iop!lines, Iop!TakeInterrupt, Iop!FetchFault,
         Iop!Syscall, Iop!Execute, Iop!EnableDisable, Iop!MaskWrite, Iop!Branch, Iop!RaiseException,
         Iop!Handler, Iop!EnterHandler, Iop!SaveRegisters, Iop!LookAtLines, Iop!ServeLines,
         Iop!RestoreRegisters, Iop!JumpBack, Iop!ReturnFromException, Iop!HandlerStep, Iop!Handles,
         Iop!Raise
    <3> QED BY <3>1 DEF Iop!EventsStayPending
  <2> QED BY <2>1, <2>2
<1> QED BY <1>2, <1>3

(* Interrupts and traps are invisible to the program the IOP runs: every     *)
(* step of it is a step of R3000Flow, or none.                              *)
THEOREM ProgramTheorem == Spec => KeepsProgram
<1>0. Iop!MachineAssumption
  BY Constants
<1> DEFINE IopGood == part = "iop" => IopInv
<1>1. Init => IopGood /\ (part = "iop" => Iop!Flow!Init)
  BY <1>0, PartInit, IopInit
<1>2. IopGood /\ [Next]_vars => IopGood'
  BY <1>0, PartStep, IopStep, IopPending DEF IopInv, IopKeeps
<1>3. IopGood /\ [Next]_vars => (part = "iop" => [Iop!Flow!Next]_Iop!program)
  BY <1>0, PartStep, IopStep DEF IopInv, IopKeeps
<1> QED BY <1>1, <1>2, <1>3, PTL DEF Spec, KeepsProgram

-----------------------------------------------------------------------------
(* The latches                                                              *)

(* The invariant: SignalsKept with the types it needs.                      *)
LatchInv ==
  /\ register \in Latch!Registers
  /\ latch \subseteq Bits /\ read \subseteq Bits /\ want \subseteq Bits
  /\ acked \in BOOLEAN
  /\ Latch!SignalsKept

(* A clearing write leaves the bits that were not read.                     *)
LEMMA ClearingExact ==
  ASSUME register \in Latch!Registers, latch \subseteq Bits, NEW bits \in SUBSET Bits
  PROVE  Latch!Cleared(bits) = latch \ bits
<1>1. CASE register \in {"smflag", "intc"}
  BY <1>1 DEF Latch!Cleared, Latch!EeWrites
<1>2. CASE register = "istat"
  BY <1>2 DEF Latch!Cleared, Latch!IopWrites
<1>3. CASE register \in {"msflag", "dicr"}
  BY <1>3 DEF Latch!Cleared, Latch!IopWrites
<1> QED BY <1>1, <1>2, <1>3 DEF Latch!Registers

(* Raising bits leaves the others as they are.                              *)
LEMMA RaisingExact ==
  ASSUME register \in Latch!Registers, NEW bits
  PROVE  Latch!Sent(bits) = latch \cup bits
  BY DEF Latch!Sent, Latch!EeWrites, Latch!IopWrites, Latch!Registers

(* So every step keeps SignalsKept.                                         *)
LEMMA LatchStep ==
  ASSUME LatchInv, [Latch!Next]_Latch!vars
  PROVE  LatchInv'
<1>1. CASE Latch!Raise
  <2>1. PICK bits \in SUBSET Bits : latch' = latch \cup bits /\ want' = want \cup bits
    BY <1>1, RaisingExact DEF Latch!Raise, LatchInv
  <2>2. register' = register /\ read' = read
    BY <1>1 DEF Latch!Raise
  <2>3. acked' = acked
    BY <1>1 DEF Latch!Raise
  <2> QED BY <2>1, <2>2, <2>3 DEF LatchInv, Latch!SignalsKept
<1>2. CASE Latch!Read
  BY <1>2 DEF Latch!Read, LatchInv, Latch!SignalsKept
<1>3. CASE Latch!Clear
  <2>1. latch' = latch \ read
    BY <1>3, ClearingExact DEF Latch!Clear, LatchInv
  <2> QED BY <1>3, <2>1 DEF Latch!Clear, LatchInv, Latch!SignalsKept
<1>4. CASE Latch!Serve
  BY <1>4 DEF Latch!Serve, LatchInv, Latch!SignalsKept
<1>5. CASE UNCHANGED Latch!vars
  BY <1>5 DEF Latch!vars, LatchInv, Latch!SignalsKept
<1> QED BY <1>1, <1>2, <1>3, <1>4, <1>5 DEF Latch!Next

(* No event is lost between the CPUs and the devices of either: MSFLG,      *)
(* SMFLG, I_STAT, DICR and INTC_STAT, each cleared in its own way, whatever *)
(* is raised between a read and its clearing write; and a line of the IOP   *)
(* stays pending through its handler until the kernel has served it.        *)
THEOREM SignalsTheorem == Spec => []SignalsKept
<1>0. Iop!MachineAssumption
  BY Constants
<1> DEFINE LatchPart == part = "latches" => LatchInv
           IopPart   == part = "iop" => IopInv
<1>1. Init => LatchPart
  BY PartInit DEF Latch!Init, LatchInv, Latch!SignalsKept
<1>2. Init => IopPart
  BY <1>0, PartInit, IopInit
<1>3. LatchPart /\ [Next]_vars => LatchPart'
  BY PartStep, LatchStep
<1>4. IopPart /\ [Next]_vars => IopPart'
  BY <1>0, PartStep, IopStep, IopPending DEF IopInv, IopKeeps
<1>5. LatchPart /\ IopPart => SignalsKept
  BY DEF SignalsKept, LatchInv, IopInv
<1> QED BY <1>1, <1>2, <1>3, <1>4, <1>5, PTL DEF Spec

-----------------------------------------------------------------------------
(* The video clock                                                          *)

(* The invariant: NoDrift from an equation.                                 *)
VideoInv == Video!TypeOK /\ ideal = Divisor[mode] * (elapsed + remaining) + carry

(* The type of the constants.                                               *)
LEMMA CadenceFacts ==
  ASSUME Video!CadenceAssumption, NEW m \in Modes, NEW p \in 1..2
  PROVE  /\ Divisor[m] \in Nat \ {0} /\ Cycles[m][p] \in Nat /\ Rest[m][p] \in Nat
         /\ Cycles[m][p] >= MaxAdvance /\ Rest[m][p] < Divisor[m] /\ MaxAdvance \in Nat \ {0}
<1>1. Cycles[m] \in Nat \X Nat /\ Rest[m] \in Nat \X Nat /\ Divisor[m] \in Nat \ {0}
  BY DEF Video!CadenceAssumption
<1>2. p = 1 \/ p = 2
  OBVIOUS
<1> QED BY <1>1, <1>2 DEF Video!CadenceAssumption

(* The carry and the extra cycle make up the rest.                          *)
LEMMA CarryExact ==
  ASSUME Video!CadenceAssumption, NEW m \in Modes, NEW p \in 1..2, NEW c \in Nat, c < Divisor[m]
  PROVE  /\ Video!NextCarry(m, p, c) \in Nat /\ Video!NextCarry(m, p, c) < Divisor[m]
         /\ Video!Duration(m, p, c) \in Nat /\ Video!Duration(m, p, c) >= MaxAdvance
         /\ Divisor[m] * Video!Duration(m, p, c) + Video!NextCarry(m, p, c)
              = Divisor[m] * Cycles[m][p] + Rest[m][p] + c
<1> DEFINE d == Divisor[m] r == Rest[m][p] k == Cycles[m][p]
<1>1. d \in Nat \ {0} /\ r \in Nat /\ k \in Nat /\ r < d /\ k >= MaxAdvance /\ MaxAdvance \in Nat
  BY CadenceFacts
<1>2. CASE c + r >= d
  <2>1. Video!NextCarry(m, p, c) = c + r - d /\ Video!Duration(m, p, c) = k + 1
    BY <1>2 DEF Video!NextCarry, Video!Duration
  <2> HIDE DEF d, r, k
  <2>2. d * (k + 1) = d * k + d
    BY <1>1
  <2>3. d * k \in Nat
    BY <1>1
  <2>4. c < d
    BY DEF d
  <2>5. d * (k + 1) + (c + r - d) = d * k + r + c
    BY <1>1, <2>2, <2>3
  <2> QED BY <1>1, <1>2, <2>1, <2>4, <2>5 DEF d, r, k
<1>3. CASE ~(c + r >= d)
  <2>1. Video!NextCarry(m, p, c) = c + r /\ Video!Duration(m, p, c) = k
    BY <1>1, <1>3 DEF Video!NextCarry, Video!Duration
  <2> HIDE DEF d, r, k
  <2>2. d * k \in Nat
    BY <1>1
  <2>3. d * k + (c + r) = d * k + r + c
    BY <1>1, <2>2
  <2> QED BY <1>1, <1>3, <2>1, <2>3 DEF d, r, k
<1> QED BY <1>2, <1>3

LEMMA WaitKeeps ==
  ASSUME Video!CadenceAssumption, VideoInv, NEW n \in 1..MaxAdvance, Video!Wait(n)
  PROVE  VideoInv'
<1>1. n \in Nat \ {0}
  BY DEF Video!CadenceAssumption
<1>2. /\ remaining' = remaining - n /\ elapsed' = elapsed + n /\ n < remaining
      /\ mode' = mode /\ phase' = phase /\ carry' = carry /\ ideal' = ideal
  BY DEF Video!Wait
<1>3. \A e, r \in Nat : n < r => /\ (e + n) + (r - n) = e + r /\ r - n \in Nat \ {0} /\ e + n \in Nat
  BY <1>1
<1>4. elapsed \in Nat /\ remaining \in Nat
  BY DEF VideoInv, Video!TypeOK
<1>5. (elapsed + n) + (remaining - n) = elapsed + remaining /\ remaining' \in Nat \ {0}
      /\ elapsed' \in Nat
  BY <1>2, <1>3, <1>4
<1> QED BY <1>2, <1>5 DEF VideoInv, Video!TypeOK

LEMMA EdgeKeeps ==
  ASSUME Video!CadenceAssumption, VideoInv, NEW n \in 1..MaxAdvance, Video!Edge(n)
  PROVE  VideoInv'
<1> DEFINE p == 3 - phase
           t == Video!Duration(mode, p, carry)
           c == Video!NextCarry(mode, p, carry)
           d == Divisor[mode]
           gain == d * Cycles[mode][p] + Rest[mode][p]
<1>1. n \in Nat \ {0} /\ n <= MaxAdvance
  BY DEF Video!CadenceAssumption
<1>2. /\ remaining \in Nat \ {0} /\ carry \in Nat /\ carry < d /\ elapsed \in Nat /\ ideal \in Nat
      /\ mode \in Modes /\ ideal = d * (elapsed + remaining) + carry
  BY DEF VideoInv, Video!TypeOK
<1>3. p \in 1..2
  BY DEF VideoInv, Video!TypeOK
<1>4. /\ c \in Nat /\ c < d /\ t \in Nat /\ t >= MaxAdvance
      /\ d * t + c = gain + carry
  BY <1>2, <1>3, CarryExact, CadenceFacts
<1>5. d \in Nat \ {0} /\ gain \in Nat /\ MaxAdvance \in Nat
  BY <1>2, <1>3, CadenceFacts
<1>6. /\ phase' = p /\ remaining' = t - (n - remaining) /\ carry' = c
      /\ elapsed' = elapsed + n /\ ideal' = ideal + gain /\ mode' = mode /\ n >= remaining
  <2>1. phase' = p
    BY DEF Video!Edge
  <2>2. /\ remaining' = t - (n - remaining) /\ carry' = c /\ elapsed' = elapsed + n
        /\ mode' = mode /\ n >= remaining
    BY <2>1 DEF Video!Edge
  <2>3. ideal' = ideal + d * Cycles[mode][p] + Rest[mode][p]
    BY <2>1 DEF Video!Edge
  <2>4. ideal + d * Cycles[mode][p] + Rest[mode][p] = ideal + gain
    BY <1>2, <1>3, <1>5, CadenceFacts
  <2> QED BY <2>1, <2>2, <2>3, <2>4
<1> HIDE DEF p, t, c, d, gain
<1>7. \A e, r \in Nat : n >= r /\ r # 0 =>
        (e + n) + (t - (n - r)) = (e + r) + t /\ t - (n - r) \in Nat \ {0} /\ e + n \in Nat
  BY <1>1, <1>4, <1>5
<1>8. \A x \in Nat : d * (x + t) = d * x + d * t
  BY <1>4, <1>5
<1>9. /\ (elapsed + n) + (t - (n - remaining)) = (elapsed + remaining) + t
      /\ remaining' \in Nat \ {0} /\ elapsed' \in Nat
  BY <1>2, <1>6, <1>7
<1>10. d * ((elapsed + remaining) + t) = d * (elapsed + remaining) + d * t
  BY <1>2, <1>8
<1>11. \A x, y \in Nat : y + carry + gain = y + (d * t) + c
  BY <1>2, <1>4, <1>5
<1>12. d * (elapsed + remaining) \in Nat /\ d * t \in Nat
  BY <1>2, <1>4, <1>5
<1>13. ideal + gain = d * ((elapsed + remaining) + t) + c
  BY <1>2, <1>4, <1>5, <1>10, <1>12
<1>14. ideal' = d * (elapsed' + remaining') + carry' /\ ideal' \in Nat
  BY <1>2, <1>5, <1>6, <1>9, <1>13
<1>15. mode' \in Modes /\ phase' \in 1..2 /\ carry' \in Nat /\ carry' < d /\ Divisor[mode'] = d
  BY <1>2, <1>3, <1>4, <1>6 DEF d
<1> QED BY <1>9, <1>14, <1>15 DEF VideoInv, Video!TypeOK

LEMMA SelectKeeps ==
  ASSUME Video!CadenceAssumption, VideoInv, NEW m \in Modes, Video!Select(m)
  PROVE  VideoInv'
<1>1. /\ mode' = m /\ carry' = 0 /\ elapsed' = 0 /\ ideal' = Divisor[m] * remaining
      /\ remaining' = remaining /\ phase' = phase
  BY DEF Video!Select
<1>2. Divisor[m] \in Nat \ {0} /\ remaining \in Nat \ {0} /\ phase \in 1..2
  BY CadenceFacts DEF VideoInv, Video!TypeOK
<1>3. Divisor[m] * (0 + remaining) + 0 = Divisor[m] * remaining /\ Divisor[m] * remaining \in Nat
  BY <1>2
<1> QED BY <1>1, <1>2, <1>3 DEF VideoInv, Video!TypeOK

(* The invariant holds at first, and every step keeps it.                   *)
LEMMA VideoInit ==
  ASSUME Video!CadenceAssumption, Video!Init
  PROVE  VideoInv
<1>1. mode \in Modes /\ 1 \in 1..2 /\ phase = 1 /\ remaining = Cycles[mode][1] /\ carry = 0
      /\ elapsed = 0 /\ ideal = Divisor[mode] * remaining
  BY DEF Video!Init
<1>2. remaining \in Nat \ {0} /\ Divisor[mode] \in Nat \ {0}
  BY <1>1, CadenceFacts
<1>3. Divisor[mode] * (0 + remaining) + 0 = Divisor[mode] * remaining
      /\ Divisor[mode] * remaining \in Nat /\ 0 < Divisor[mode]
  BY <1>2
<1> QED BY <1>1, <1>2, <1>3 DEF VideoInv, Video!TypeOK

LEMMA VideoStep ==
  ASSUME Video!CadenceAssumption, VideoInv, [Video!Next]_Video!vars
  PROVE  VideoInv'
<1>1. CASE \E n \in 1..MaxAdvance : Video!Wait(n) \/ Video!Edge(n)
  BY <1>1, WaitKeeps, EdgeKeeps
<1>2. CASE \E m \in Modes : Video!Select(m)
  BY <1>2, SelectKeeps
<1>3. CASE UNCHANGED Video!vars
  BY <1>3 DEF Video!vars, VideoInv, Video!TypeOK
<1> QED BY <1>1, <1>2, <1>3 DEF Video!Next

(* With the carry below the divisor, the equation is NoDrift.               *)
LEMMA VideoExact ==
  ASSUME Video!CadenceAssumption, VideoInv
  PROVE  Video!NoDrift
<1> DEFINE d == Divisor[mode] due == elapsed + remaining
<1>1. d \in Nat \ {0} /\ due \in Nat /\ carry \in Nat /\ carry < d /\ ideal = d * due + carry
  BY CadenceFacts DEF VideoInv, Video!TypeOK
<1>2. d * due <= ideal /\ ideal < d * (due + 1)
  <2> HIDE DEF d, due
  <2>1. d * (due + 1) = d * due + d /\ d * due \in Nat
    BY <1>1
  <2> QED BY <1>1, <2>1
<1> QED BY <1>2 DEF Video!NoDrift


-----------------------------------------------------------------------------
(* Timer 3                                                                  *)

Flags == {"target", "overflow"}
EeTimer == [count : Timer!Count, target : Timer!Count, flags : SUBSET Flags,
            future : BOOLEAN, irq : BOOLEAN,
            mode : [counts : BOOLEAN, zero : BOOLEAN, compare : BOOLEAN, overflow : BOOLEAN]]

(* The latch is clear while the target is ahead of the count.               *)
LatchBehind(t) == t.count < t.target => ~t.future
Timer3Inv == ee \in EeTimer /\ LatchBehind(ee)

(* Raising a flag changes no more than the flags and the interrupt.         *)
LEMMA EeRaises ==
  ASSUME NEW t \in EeTimer, NEW enabled \in BOOLEAN, NEW flag \in Flags
  PROVE  LET r == Timer!EeRaise(t, enabled, flag)
         IN  /\ r \in EeTimer
             /\ r.count = t.count /\ r.target = t.target /\ r.mode = t.mode
             /\ r.flags = t.flags \cup (IF enabled THEN {flag} ELSE {})
             /\ r.future <=> t.future
             /\ r.irq <=> (t.irq \/ (enabled /\ flag \notin t.flags))
<1> DEFINE r == Timer!EeRaise(t, enabled, flag)
<1>1. CASE enabled /\ flag \notin t.flags
  <2>1. r = [t EXCEPT !.flags = t.flags \cup {flag}, !.irq = TRUE]
    BY <1>1 DEF Timer!EeRaise
  <2>2. t.flags \cup {flag} \in SUBSET Flags
    BY DEF EeTimer
  <2> HIDE DEF r
  <2>3. r \in EeTimer
    BY <2>1, <2>2 DEF EeTimer
  <2>4. /\ r.count = t.count /\ r.target = t.target /\ r.mode = t.mode
        /\ r.flags = t.flags \cup {flag}
    BY <2>1 DEF EeTimer
  <2>5. r.irq /\ (r.future <=> t.future)
    BY <2>1 DEF EeTimer
  <2> QED BY <1>1, <2>3, <2>4, <2>5 DEF r
<1>2. CASE ~(enabled /\ flag \notin t.flags)
  <2>1. r = t
    BY <1>2 DEF Timer!EeRaise
  <2>2. t.flags \cup (IF enabled THEN {flag} ELSE {}) = t.flags
    BY <1>2 DEF EeTimer
  <2> HIDE DEF r
  <2> QED BY <1>2, <2>1, <2>2 DEF r
<1> QED BY <1>1, <1>2

(* Setting the latch, or the count, changes just that.                      *)
LEMMA EeSetsCount ==
  ASSUME NEW t \in EeTimer, NEW c \in Timer!Count, NEW r, r = [t EXCEPT !.count = c]
  PROVE  /\ r \in EeTimer /\ r.count = c /\ r.target = t.target /\ r.mode = t.mode
         /\ r.flags = t.flags /\ (r.future <=> t.future) /\ (r.irq <=> t.irq)
  BY DEF EeTimer

LEMMA EeSetsFuture ==
  ASSUME NEW t \in EeTimer, NEW r, r = [t EXCEPT !.future = FALSE]
  PROVE  /\ r \in EeTimer /\ r.count = t.count /\ r.target = t.target /\ r.mode = t.mode
         /\ r.flags = t.flags /\ ~r.future /\ (r.irq <=> t.irq)
  BY DEF EeTimer

(* What an HBlank does to a counting timer: it wraps, reaches the target, or *)
(* goes on, and the three exclude each other.                               *)
LEMMA HBlankExact ==
  ASSUME Timer!TimerAssumption, NEW t \in EeTimer, LatchBehind(t), t.mode.counts
  PROVE  LET r == Timer!HBlank(t)
             events == Timer!Reached(t) \cap Timer!Enabled(t)
         IN  /\ r \in EeTimer /\ LatchBehind(r)
             /\ r.count = Timer!NextCount(t)
             /\ r.flags = t.flags \cup events
             /\ r.irq <=> (t.irq \/ ~(events \subseteq t.flags))
<1> DEFINE r == Timer!HBlank(t)
           events == Timer!Reached(t) \cap Timer!Enabled(t)
           o == Timer!EeRaise(t, t.mode.overflow, "overflow")
           f == Timer!EeRaise(t, t.mode.compare, "target")
<1>0. /\ Modulus \in Nat /\ Modulus > 1
      /\ t.count \in 0..(Modulus - 1) /\ t.target \in 0..(Modulus - 1)
      /\ t.mode.overflow \in BOOLEAN /\ t.mode.compare \in BOOLEAN
      /\ t.flags \in SUBSET Flags
  BY DEF Timer!TimerAssumption, EeTimer, Timer!Count
<1>1. CASE t.count = Modulus - 1
  <2>1. /\ o \in EeTimer /\ o.count = t.count /\ o.target = t.target /\ o.mode = t.mode
        /\ o.flags = t.flags \cup (IF t.mode.overflow THEN {"overflow"} ELSE {})
        /\ o.irq <=> (t.irq \/ (t.mode.overflow /\ "overflow" \notin t.flags))
    BY <1>0, EeRaises DEF Flags
  <2> DEFINE u == [o EXCEPT !.future = FALSE]
  <2>2. /\ u \in EeTimer /\ u.count = t.count /\ u.flags = o.flags
        /\ ~u.future /\ (u.irq <=> o.irq)
    BY <2>1, EeSetsFuture
  <2>3. ~(t.count < t.target)
    BY <1>0, <1>1
  <2>4. r = [u EXCEPT !.count = (u.count + 1) % Modulus]
    BY <1>1, <2>3 DEF Timer!HBlank, Timer!EePassed
  <2> HIDE DEF r, o, u
  <2>5. (u.count + 1) % Modulus = 0 /\ 0 \in Timer!Count
    BY <1>0, <1>1, <2>2 DEF Timer!Count
  <2>6. /\ r \in EeTimer /\ r.count = 0 /\ r.flags = u.flags
        /\ ~r.future /\ (r.irq <=> u.irq)
    <3>1. r = [u EXCEPT !.count = 0]
      BY <2>4, <2>5
    <3> QED BY <2>2, <2>5, <3>1, EeSetsCount
  <2>7. t.target # t.count + 1
    BY <1>0, <1>1
  <2>8. events = IF t.mode.overflow THEN {"overflow"} ELSE {}
    BY <1>1, <2>7 DEF Timer!Reached, Timer!Enabled
  <2>9. Timer!NextCount(t) = 0
    BY <1>0, <1>1, <2>7 DEF Timer!NextCount
  <2> HIDE DEF events
  <2> QED BY <2>1, <2>2, <2>6, <2>8, <2>9 DEF r, events, LatchBehind
<1>2. CASE t.count # Modulus - 1 /\ t.target = t.count + 1
  <2>1. /\ f \in EeTimer /\ f.count = t.count /\ f.target = t.target /\ f.mode = t.mode
        /\ f.flags = t.flags \cup (IF t.mode.compare THEN {"target"} ELSE {})
        /\ f.future <=> t.future
        /\ f.irq <=> (t.irq \/ (t.mode.compare /\ "target" \notin t.flags))
    BY <1>0, EeRaises DEF Flags
  <2>2. /\ t.count < t.target /\ t.count + 1 >= t.target /\ t.target # 0 /\ ~t.future
        /\ t.count + 1 \in Timer!Count /\ 0 \in Timer!Count
        /\ (t.count + 1) % Modulus = t.count + 1
    BY <1>0, <1>2 DEF LatchBehind, Timer!Count
  <2>3. r = IF t.mode.zero THEN [f EXCEPT !.count = 0]
            ELSE [f EXCEPT !.count = f.count + 1, !.future = TRUE]
    BY <1>2, <2>2 DEF Timer!HBlank, Timer!EePassed
  <2>4. events = IF t.mode.compare THEN {"target"} ELSE {}
    BY <1>2 DEF Timer!Reached, Timer!Enabled
  <2>5. Timer!NextCount(t) = IF t.mode.zero THEN 0 ELSE t.count + 1
    BY <1>2, <2>2 DEF Timer!NextCount
  <2> HIDE DEF r, f, events
  <2>6. CASE t.mode.zero
    <3>1. r = [f EXCEPT !.count = 0]
      BY <2>3, <2>6
    <3>2. /\ r \in EeTimer /\ r.count = 0 /\ r.flags = f.flags
          /\ ~r.future /\ (r.irq <=> f.irq)
      BY <2>1, <2>2, <3>1, EeSetsCount
    <3> QED BY <2>1, <2>4, <2>5, <2>6, <3>2 DEF r, events, LatchBehind
  <2>7. CASE ~t.mode.zero
    <3>1. r = [f EXCEPT !.count = t.count + 1, !.future = TRUE]
      BY <2>1, <2>3, <2>7
    <3>2. /\ r \in EeTimer /\ r.count = t.count + 1 /\ r.target = t.target
          /\ r.flags = f.flags /\ (r.irq <=> f.irq)
      <4>1. PICK c \in Timer!Count : c = t.count + 1
        BY <2>2
      <4>2. r = [f EXCEPT !.count = c, !.future = TRUE]
        BY <3>1, <4>1
      <4>3. /\ r \in EeTimer /\ r.count = c /\ r.target = f.target
            /\ r.flags = f.flags /\ (r.irq <=> f.irq)
        <5>1. f \in EeTimer
          BY <2>1
        <5>2. r \in EeTimer
          BY <5>1, <4>2 DEF EeTimer
        <5>3. r.count = c /\ r.target = f.target /\ r.flags = f.flags
          BY <5>1, <4>2 DEF EeTimer
        <5>4. r.irq <=> f.irq
          BY <5>1, <4>2 DEF EeTimer
        <5> QED BY <5>2, <5>3, <5>4
      <4> QED BY <2>1, <4>1, <4>3
    <3>3. ~(r.count < r.target)
      BY <1>0, <1>2, <3>2
    <3> QED BY <2>1, <2>4, <2>5, <2>7, <3>2, <3>3 DEF r, events, LatchBehind
  <2> QED BY <2>6, <2>7
<1>3. CASE t.count # Modulus - 1 /\ t.target # t.count + 1
  <2>1. ~(t.count < t.target /\ t.count + 1 >= t.target)
        /\ t.count + 1 \in Timer!Count /\ (t.count + 1) % Modulus = t.count + 1
    BY <1>0, <1>3 DEF Timer!Count
  <2>2. r = [t EXCEPT !.count = t.count + 1]
    BY <1>3, <2>1 DEF Timer!HBlank, Timer!EePassed
  <2>3. events = {}
    BY <1>3 DEF Timer!Reached, Timer!Enabled
  <2>4. Timer!NextCount(t) = t.count + 1
    BY <1>3, <2>1 DEF Timer!NextCount
  <2> HIDE DEF r, events
  <2>5. /\ r \in EeTimer /\ r.count = t.count + 1 /\ r.target = t.target
        /\ r.flags = t.flags /\ (r.future <=> t.future) /\ (r.irq <=> t.irq)
    BY <2>1, <2>2, EeSetsCount
  <2>6. r.count < r.target => t.count < t.target
    BY <1>0, <2>5
  <2> QED BY <2>3, <2>4, <2>5, <2>6 DEF r, events, LatchBehind
<1> QED BY <1>1, <1>2, <1>3


(* What Timer 3's registers and its HBlanks keep.                           *)
LEMMA Timer3Step ==
  ASSUME Timer!TimerAssumption, Timer3Inv, Timer!EeNext
  PROVE  Timer3Inv'
<1>1. /\ ee \in EeTimer /\ LatchBehind(ee)
      /\ Modulus \in Nat /\ \A v \in Timer!Count : v \in Nat
  BY DEF Timer3Inv, Timer!TimerAssumption, Timer!Count
<1>2. ASSUME NEW r, r \in EeTimer, LatchBehind(r), ee' = r
      PROVE  Timer3Inv'
  BY <1>2 DEF Timer3Inv, LatchBehind
<1>3. CASE ee' = Timer!HBlank(ee)
  <2> DEFINE r == Timer!HBlank(ee)
  <2>1. CASE ee.mode.counts
    <3> HIDE DEF r
    <3>1. r \in EeTimer /\ LatchBehind(r)
      BY <1>1, <2>1, HBlankExact DEF r
    <3> QED BY <1>2, <1>3, <3>1 DEF r
  <2>2. CASE ~ee.mode.counts
    BY <1>1, <1>2, <1>3, <2>2 DEF Timer!HBlank
  <2> QED BY <2>1, <2>2
<1>4. ASSUME NEW v \in Timer!Count, ee' = Timer!EeCount(ee, v)
      PROVE  Timer3Inv'
  <2> DEFINE r == [ee EXCEPT !.count = v, !.future = v >= ee.target]
  <2>1. (v >= ee.target) \in BOOLEAN
    OBVIOUS
  <2>2. r \in EeTimer
    BY <1>1, <2>1 DEF EeTimer
  <2>3. r.count = v /\ r.target = ee.target
    BY <1>1 DEF EeTimer
  <2>4. r.future <=> v >= ee.target
    BY <1>1 DEF EeTimer
  <2>5. ee.target \in Nat /\ v \in Nat
    BY <1>1 DEF EeTimer
  <2>6. ee' = r
    BY <1>4 DEF Timer!EeCount
  <2> HIDE DEF r
  <2>7. LatchBehind(r)
    BY <2>3, <2>4, <2>5 DEF LatchBehind
  <2> QED BY <1>2, <2>2, <2>6, <2>7
<1>5. ASSUME NEW v \in Timer!Count, ee' = Timer!EeTarget(ee, v)
      PROVE  Timer3Inv'
  <2> DEFINE r == [ee EXCEPT !.target = v, !.future = v <= ee.count]
  <2>1. (v <= ee.count) \in BOOLEAN
    OBVIOUS
  <2>2. r \in EeTimer
    BY <1>1, <2>1 DEF EeTimer
  <2>3. r.target = v /\ r.count = ee.count
    BY <1>1 DEF EeTimer
  <2>4. r.future <=> v <= ee.count
    BY <1>1 DEF EeTimer
  <2>5. ee.count \in Nat /\ v \in Nat
    BY <1>1 DEF EeTimer
  <2>6. ee' = r
    BY <1>5 DEF Timer!EeTarget
  <2> HIDE DEF r
  <2>7. LatchBehind(r)
    BY <2>3, <2>4, <2>5 DEF LatchBehind
  <2> QED BY <1>2, <2>2, <2>6, <2>7
<1>6. ASSUME NEW m \in EeModes, NEW cleared \in SUBSET Flags, ee' = Timer!EeMode(ee, m, cleared)
      PROVE  Timer3Inv'
  <2> DEFINE r == [ee EXCEPT !.mode = m, !.flags = ee.flags \ cleared]
  <2>1. m \in [counts : BOOLEAN, zero : BOOLEAN, compare : BOOLEAN, overflow : BOOLEAN]
    BY DEF Timer!TimerAssumption
  <2>2. ee.flags \ cleared \in SUBSET Flags
    BY <1>1 DEF EeTimer
  <2>3. r \in EeTimer
    BY <1>1, <2>1, <2>2 DEF EeTimer
  <2>4. r.target = ee.target /\ r.count = ee.count
    BY <1>1 DEF EeTimer
  <2>5. r.future <=> ee.future
    BY <1>1 DEF EeTimer
  <2>6. ee' = r
    BY <1>6 DEF Timer!EeMode
  <2> HIDE DEF r
  <2>7. LatchBehind(r)
    BY <1>1, <2>4, <2>5 DEF LatchBehind
  <2> QED BY <1>2, <2>3, <2>6, <2>7
<1>7. CASE ee' = [ee EXCEPT !.irq = FALSE]
  <2> DEFINE r == [ee EXCEPT !.irq = FALSE]
  <2>1. r \in EeTimer
    BY <1>1 DEF EeTimer
  <2>2. r.target = ee.target /\ r.count = ee.count
    BY <1>1 DEF EeTimer
  <2>3. r.future <=> ee.future
    BY <1>1 DEF EeTimer
  <2> HIDE DEF r
  <2>4. LatchBehind(r)
    BY <1>1, <2>2, <2>3 DEF LatchBehind
  <2> QED BY <1>2, <1>7, <2>1, <2>4 DEF r
<1> QED BY <1>3, <1>4, <1>5, <1>6, <1>7 DEF Timer!EeNext, Flags

LEMMA Timer3Exact ==
  ASSUME Timer!TimerAssumption, Timer3Inv
  PROVE  Timer!EeExact
<1> DEFINE r == Timer!HBlank(ee)
           events == Timer!Reached(ee) \cap Timer!Enabled(ee)
<1> SUFFICES ASSUME ee.mode.counts
             PROVE  /\ r.count = Timer!NextCount(ee)
                    /\ r.flags = ee.flags \cup events
                    /\ r.irq = (ee.irq \/ ~(events \subseteq ee.flags))
  BY DEF Timer!EeExact
<1> HIDE DEF r, events
<1>1. /\ r \in EeTimer
      /\ r.count = Timer!NextCount(ee) /\ r.flags = ee.flags \cup events
      /\ r.irq <=> (ee.irq \/ ~(events \subseteq ee.flags))
  BY HBlankExact DEF Timer3Inv, r, events
<1>2. r.irq \in BOOLEAN /\ ee.irq \in BOOLEAN
  BY <1>1 DEF Timer3Inv, EeTimer
<1>3. r.irq = (ee.irq \/ ~(events \subseteq ee.flags))
  BY <1>1, <1>2, Zenon
<1> QED BY <1>1, <1>3


-----------------------------------------------------------------------------
(* Timer 5                                                                  *)

IopMode == [gate : BOOLEAN, zero : BOOLEAN, compare : BOOLEAN, overflow : BOOLEAN,
            repeat : BOOLEAN, toggle : BOOLEAN, rate : Nat \ {0}]
IopTimer == [count : Timer!Count, target : Timer!Count, flags : SUBSET Flags,
             future : BOOLEAN, irq : BOOLEAN, armed : BOOLEAN,
             phase : 0..(PerIop - 1), pre : Nat, mode : IopMode]

Timer5Inv == iop \in IopTimer /\ LatchBehind(iop) /\ iop.pre < iop.mode.rate

(* The parts of Timer 5 that ticks leave alone.                             *)
SamePace(r, t) == r.mode = t.mode /\ r.phase = t.phase /\ r.pre = t.pre

(* Firing changes the flags, the interrupt and whether it is armed.         *)
Asks(t, enabled, flag) == enabled /\ t.armed /\ (t.mode.repeat \/ flag \notin t.flags)
LEMMA IopFires ==
  ASSUME NEW t \in IopTimer, NEW enabled \in BOOLEAN, NEW flag \in Flags
  PROVE  LET r == Timer!Fire(t, enabled, flag)
         IN  /\ r \in IopTimer /\ SamePace(r, t)
             /\ r.count = t.count /\ r.target = t.target
             /\ r.flags = t.flags \cup {flag}
             /\ r.future <=> t.future
             /\ r.irq <=> (t.irq \/ Asks(t, enabled, flag))
<1> DEFINE r == Timer!Fire(t, enabled, flag)
<1>1. t.flags \cup {flag} \in SUBSET Flags
  BY DEF IopTimer
<1>2. CASE enabled /\ t.armed
  <2> DEFINE i == t.irq \/ t.mode.repeat \/ flag \notin t.flags
             a == ~(t.mode.repeat \/ t.mode.toggle)
  <2>1. r = [t EXCEPT !.irq = i, !.armed = a, !.flags = t.flags \cup {flag}]
    BY <1>2 DEF Timer!Fire
  <2>2. i \in BOOLEAN /\ a \in BOOLEAN
    BY Zenon
  <2>3. Asks(t, enabled, flag) <=> (t.mode.repeat \/ flag \notin t.flags)
    BY <1>2 DEF Asks
  <2> DEFINE f == t.flags \cup {flag}
  <2>4. f \in SUBSET Flags
    BY <1>1
  <2> HIDE DEF r, i, a, f
  <2>5. r \in IopTimer
    BY <2>1, <2>2, <2>4 DEF IopTimer, f
  <2>6. r.count = t.count /\ r.target = t.target /\ r.flags = f /\ SamePace(r, t)
    BY <2>1 DEF IopTimer, SamePace, f
  <2>7. r.future <=> t.future
    BY <2>1 DEF IopTimer
  <2>8. r.irq <=> i
    BY <2>1 DEF IopTimer
  <2>9. r.irq <=> (t.irq \/ Asks(t, enabled, flag))
    BY <2>3, <2>8 DEF i
  <2> QED BY <2>5, <2>6, <2>7, <2>9 DEF r, f
<1>3. CASE ~(enabled /\ t.armed)
  <2>1. r = [t EXCEPT !.flags = t.flags \cup {flag}]
    BY <1>3 DEF Timer!Fire
  <2>2. ~Asks(t, enabled, flag)
    BY <1>3 DEF Asks
  <2> HIDE DEF r
  <2>3. r \in IopTimer
    BY <1>1, <2>1 DEF IopTimer
  <2>4. r.count = t.count /\ r.target = t.target /\ SamePace(r, t)
        /\ r.flags = t.flags \cup {flag}
    BY <2>1 DEF IopTimer, SamePace
  <2>5. (r.future <=> t.future) /\ (r.irq <=> t.irq)
    BY <2>1 DEF IopTimer
  <2> QED BY <2>2, <2>3, <2>4, <2>5 DEF r
<1> QED BY <1>2, <1>3


(* Setting the count or the latch changes just that.                        *)
LEMMA IopSetsCount ==
  ASSUME NEW t \in IopTimer, NEW c \in Timer!Count, NEW r, r = [t EXCEPT !.count = c]
  PROVE  /\ r \in IopTimer /\ r.count = c /\ r.target = t.target /\ r.flags = t.flags
         /\ SamePace(r, t) /\ (r.future <=> t.future) /\ (r.irq <=> t.irq)
<1>1. r \in IopTimer
  BY DEF IopTimer
<1>2. r.count = c /\ r.target = t.target /\ r.flags = t.flags /\ SamePace(r, t)
  BY DEF IopTimer, SamePace
<1>3. (r.future <=> t.future) /\ (r.irq <=> t.irq)
  BY DEF IopTimer
<1> QED BY <1>1, <1>2, <1>3

LEMMA IopClearsFuture ==
  ASSUME NEW t \in IopTimer, NEW r, r = [t EXCEPT !.future = FALSE]
  PROVE  /\ r \in IopTimer /\ r.count = t.count /\ r.target = t.target /\ r.flags = t.flags
         /\ SamePace(r, t) /\ ~r.future /\ (r.irq <=> t.irq)
<1>1. r \in IopTimer
  BY DEF IopTimer
<1>2. r.count = t.count /\ r.target = t.target /\ r.flags = t.flags /\ SamePace(r, t)
  BY DEF IopTimer, SamePace
<1>3. ~r.future /\ (r.irq <=> t.irq)
  BY DEF IopTimer
<1> QED BY <1>1, <1>2, <1>3

LEMMA IopSetsFuture ==
  ASSUME NEW t \in IopTimer, NEW r, r = [t EXCEPT !.future = TRUE]
  PROVE  /\ r \in IopTimer /\ r.count = t.count /\ r.target = t.target /\ r.flags = t.flags
         /\ SamePace(r, t) /\ r.future /\ (r.irq <=> t.irq)
<1>1. r \in IopTimer
  BY DEF IopTimer
<1>2. r.count = t.count /\ r.target = t.target /\ r.flags = t.flags /\ SamePace(r, t)
  BY DEF IopTimer, SamePace
<1>3. r.future /\ (r.irq <=> t.irq)
  BY DEF IopTimer
<1> QED BY <1>1, <1>2, <1>3

(* What a tick does: the counter reaches its target, wraps or goes on, and  *)
(* the three exclude each other.                                            *)
Fires(t) == \E f \in Timer!Reached(t) \cap Timer!Enabled(t) :
              t.armed /\ (t.mode.repeat \/ f \notin t.flags)

LEMMA TickExact ==
  ASSUME Timer!TimerAssumption, NEW t \in IopTimer, LatchBehind(t)
  PROVE  LET r == Timer!Ticks(t, 1)
         IN  /\ r \in IopTimer /\ LatchBehind(r) /\ SamePace(r, t)
             /\ r.count = Timer!NextCount(t)
             /\ r.flags = t.flags \cup Timer!Reached(t)
             /\ r.irq <=> (t.irq \/ Fires(t))
<1> DEFINE r == Timer!Ticks(t, 1)
<1>0. /\ Modulus \in Nat /\ Modulus > 1
      /\ t.count \in 0..(Modulus - 1) /\ t.target \in 0..(Modulus - 1)
      /\ t.mode.overflow \in BOOLEAN /\ t.mode.compare \in BOOLEAN
      /\ t.flags \in SUBSET Flags
  BY DEF Timer!TimerAssumption, IopTimer, IopMode, Timer!Count
<1>1. CASE t.count = Modulus - 1
  <2> DEFINE w == [t EXCEPT !.count = 0]
             f == Timer!Fire(w, w.mode.overflow, "overflow")
  <2>1. /\ ~(t.count < t.target) /\ t.target # t.count + 1
        /\ (t.count + 1) % Modulus = 0 /\ t.count + 1 >= Modulus
    BY <1>0, <1>1
  <2>2. 0 \in Timer!Count
    BY <1>0 DEF Timer!Count
  <2>3. r = [f EXCEPT !.future = FALSE]
    BY <2>1 DEF Timer!Ticks, Timer!Wrap
  <2> HIDE DEF r, f, w
  <2>4. /\ w \in IopTimer /\ w.count = 0 /\ w.flags = t.flags /\ SamePace(w, t)
        /\ w.irq <=> t.irq
    BY <2>2, IopSetsCount DEF w
  <2>5. w.armed <=> t.armed
    BY DEF w, IopTimer
  <2>6. w.mode = t.mode
    BY <2>4 DEF SamePace
  <2>7. /\ f \in IopTimer /\ SamePace(f, w) /\ f.count = w.count
        /\ f.flags = w.flags \cup {"overflow"}
        /\ f.irq <=> (w.irq \/ Asks(w, w.mode.overflow, "overflow"))
    <3>1. w \in IopTimer /\ w.mode.overflow \in BOOLEAN /\ "overflow" \in Flags
      BY <1>0, <2>4, <2>6 DEF Flags
    <3> QED BY <3>1, IopFires DEF f
  <2>8. /\ r \in IopTimer /\ SamePace(r, f) /\ r.count = f.count /\ r.flags = f.flags
        /\ ~r.future /\ (r.irq <=> f.irq)
    BY <2>3, <2>7, IopClearsFuture
  <2>9. Timer!Reached(t) = {"overflow"}
    BY <1>1, <2>1 DEF Timer!Reached
  <2>10. Timer!NextCount(t) = 0
    BY <2>1 DEF Timer!NextCount
  <2>11. Asks(w, w.mode.overflow, "overflow")
           <=> t.mode.overflow /\ t.armed /\ (t.mode.repeat \/ "overflow" \notin t.flags)
    BY <2>4, <2>5, <2>6 DEF Asks
  <2>12. Fires(t) <=> Asks(w, w.mode.overflow, "overflow")
    BY <2>9, <2>11 DEF Fires, Timer!Enabled
  <2>13. SamePace(r, t)
    BY <2>4, <2>7, <2>8 DEF SamePace
  <2>14. r.irq <=> (t.irq \/ Fires(t))
    BY <2>4, <2>7, <2>8, <2>12
  <2>15. r.flags = t.flags \cup Timer!Reached(t)
    BY <2>4, <2>7, <2>8, <2>9
  <2>16. r.count = Timer!NextCount(t) /\ LatchBehind(r)
    BY <2>4, <2>7, <2>8, <2>10 DEF LatchBehind
  <2> QED BY <2>8, <2>13, <2>14, <2>15, <2>16 DEF r
<1>2. CASE t.count # Modulus - 1 /\ t.target = t.count + 1
  <2> DEFINE f == Timer!Fire(t, t.mode.compare, "target")
             c == IF t.mode.zero THEN 0 ELSE t.target
  <2>1. /\ t.count < t.target /\ t.count + 1 >= t.target /\ t.target # 0 /\ ~t.future
        /\ t.target \in Timer!Count /\ 0 \in Timer!Count /\ ~(t.count + 1 >= Modulus)
        /\ t.target % Modulus = t.target
    BY <1>0, <1>2 DEF LatchBehind, Timer!Count
  <2>2. t.target % t.target = 0
    BY <1>0, <2>1
  <2>3. r = IF t.mode.zero THEN [f EXCEPT !.count = 0]
            ELSE [f EXCEPT !.count = t.target, !.future = TRUE]
    BY <1>2, <2>1, <2>2 DEF Timer!Ticks, Timer!Reach
  <2>4. /\ f \in IopTimer /\ SamePace(f, t) /\ f.count = t.count /\ f.target = t.target
        /\ f.flags = t.flags \cup {"target"}
        /\ f.future <=> t.future
        /\ f.irq <=> (t.irq \/ Asks(t, t.mode.compare, "target"))
    BY <1>0, IopFires DEF Flags
  <2>5. Timer!Reached(t) = {"target"}
    BY <1>2 DEF Timer!Reached
  <2>6. Timer!NextCount(t) = c
    BY <1>2, <2>1 DEF Timer!NextCount
  <2>7. Fires(t) <=> Asks(t, t.mode.compare, "target")
    BY <2>5 DEF Fires, Timer!Enabled, Asks
  <2> HIDE DEF r, f
  <2>8. /\ r \in IopTimer /\ SamePace(r, f) /\ r.count = c /\ r.flags = f.flags
        /\ (r.irq <=> f.irq) /\ LatchBehind(r)
    <3>1. CASE t.mode.zero
      <4>1. r = [f EXCEPT !.count = 0]
        BY <2>3, <3>1
      <4>2. /\ r \in IopTimer /\ SamePace(r, f) /\ r.count = 0 /\ r.flags = f.flags
            /\ (r.irq <=> f.irq) /\ (r.future <=> f.future)
        BY <2>1, <2>4, <4>1, IopSetsCount
      <4> QED BY <2>1, <2>4, <3>1, <4>2 DEF LatchBehind
    <3>2. CASE ~t.mode.zero
      <4> DEFINE g == [f EXCEPT !.count = t.target]
      <4>1. /\ g \in IopTimer /\ SamePace(g, f) /\ g.count = t.target /\ g.target = t.target
            /\ g.flags = f.flags /\ (g.irq <=> f.irq)
        BY <2>1, <2>4, IopSetsCount
      <4>2. r = [g EXCEPT !.future = TRUE]
        BY <2>3, <3>2
      <4> HIDE DEF g
      <4>3. /\ r \in IopTimer /\ SamePace(r, g) /\ r.count = g.count /\ r.target = g.target
            /\ r.flags = g.flags /\ (r.irq <=> g.irq)
        BY <4>1, <4>2, IopSetsFuture
      <4>4. SamePace(r, f)
        BY <4>1, <4>3 DEF SamePace
      <4>5. LatchBehind(r)
        BY <1>0, <4>1, <4>3 DEF LatchBehind
      <4> QED BY <3>2, <4>1, <4>3, <4>4, <4>5
    <3> QED BY <3>1, <3>2
  <2>9. SamePace(r, t)
    BY <2>4, <2>8 DEF SamePace
  <2>10. r.irq <=> (t.irq \/ Fires(t))
    BY <2>4, <2>7, <2>8
  <2>11. r.flags = t.flags \cup Timer!Reached(t)
    BY <2>4, <2>5, <2>8
  <2> HIDE DEF c
  <2> QED BY <2>6, <2>8, <2>9, <2>10, <2>11 DEF r
<1>3. CASE t.count # Modulus - 1 /\ t.target # t.count + 1
  <2>1. /\ ~(t.count < t.target /\ t.count + 1 >= t.target) /\ ~(t.count + 1 >= Modulus)
        /\ t.count + 1 \in Timer!Count /\ (t.count + 1) % Modulus = t.count + 1
    BY <1>0, <1>3 DEF Timer!Count
  <2>2. r = [t EXCEPT !.count = t.count + 1]
    BY <1>3, <2>1 DEF Timer!Ticks
  <2>3. Timer!Reached(t) = {}
    BY <1>3 DEF Timer!Reached
  <2>4. Timer!NextCount(t) = t.count + 1
    BY <1>3, <2>1 DEF Timer!NextCount
  <2>5. ~Fires(t)
    BY <2>3 DEF Fires
  <2> HIDE DEF r
  <2>6. /\ r \in IopTimer /\ r.count = t.count + 1 /\ r.target = t.target
        /\ r.flags = t.flags /\ SamePace(r, t) /\ (r.future <=> t.future) /\ (r.irq <=> t.irq)
    BY <2>1, <2>2, IopSetsCount
  <2>7. r.count < r.target => t.count < t.target
    BY <1>0, <2>6
  <2>8. LatchBehind(r)
    BY <2>6, <2>7 DEF LatchBehind
  <2>9. r.flags = t.flags \cup Timer!Reached(t)
    BY <2>3, <2>6
  <2> QED BY <2>4, <2>5, <2>6, <2>8, <2>9 DEF r
<1> QED BY <1>1, <1>2, <1>3


(* A time step is at most an IOP cycle long, so ends at most one, and that  *)
(* at most one tick of the prescaler.                                       *)
LEMMA OnceAround ==
  ASSUME NEW p \in Nat \ {0}, NEW a \in Nat, a < p + p
  PROVE  /\ a < p => a \div p = 0 /\ a % p = a
         /\ a >= p => a \div p = 1 /\ a % p = a - p
<1>1. CASE a < p
  BY <1>1
<1>2. CASE a >= p
  <2> DEFINE q == a \div p
             m == a % p
  <2>1. q \in Int /\ m \in 0..(p - 1) /\ a = p * q + m
    OBVIOUS
  <2> HIDE DEF q, m
  <2>2. q = 1
    <3>1. CASE q <= 0
      <4>1. p * q <= 0
        BY <2>1, <3>1
      <4> QED BY <2>1, <1>2, <4>1
    <3>2. CASE q >= 2
      <4>1. p * q >= p + p
        BY <2>1, <3>2
      <4> QED BY <2>1, <4>1
    <3> QED BY <2>1, <3>1, <3>2
  <2>3. m = a - p
    BY <2>1, <2>2
  <2> QED BY <1>2, <2>2, <2>3 DEF q, m
<1> QED BY <1>1, <1>2

(* How long Timer 5 has to its next tick, by the cycles that go before it.  *)
LEMMA DueFrom ==
  ASSUME NEW p \in Nat \ {0}, NEW x \in Nat \ {0}, NEW f \in 0..(p - 1), NEW n \in 1..p
  PROVE  /\ x * p \in Nat /\ (x - 1) * p = x * p - p
         /\ f + n < p => n < x * p - f
         /\ f + n >= p /\ x # 1 => n < x * p - f
         /\ f + n >= p /\ x = 1 => ~(n < x * p - f)
<1>1. x * p \in Nat /\ (x - 1) * p = x * p - p
  OBVIOUS
<1>2. x * p >= p
  OBVIOUS
<1>3. x # 1 => x * p >= p + p
  OBVIOUS
<1>4. x = 1 => x * p = p
  OBVIOUS
<1> DEFINE y == x * p
<1> HIDE DEF y
<1> QED BY <1>1, <1>2, <1>3, <1>4 DEF y


(* What an advance of up to an IOP cycle does to Timer 5.                   *)
TickLike(r, t) == /\ r.count = Timer!NextCount(t)
                  /\ r.flags = t.flags \cup Timer!Reached(t)
StillLike(r, t) == r.count = t.count /\ r.flags = t.flags
Pulse(t) == t.mode.repeat /\ ~t.mode.toggle
FiresOrPulses(t) == \E f \in Timer!Reached(t) \cap Timer!Enabled(t) :
                      Pulse(t) \/ (t.armed /\ (t.mode.repeat \/ f \notin t.flags))

LEMMA AdvanceExact ==
  ASSUME Timer!TimerAssumption, NEW t \in IopTimer, LatchBehind(t), t.pre < t.mode.rate,
         NEW n \in 1..PerIop
  PROVE  LET r == Timer!Advance(t, n)
         IN  /\ r \in IopTimer /\ LatchBehind(r) /\ r.pre < r.mode.rate
             /\ ~t.mode.gate /\ n < Timer!Due(t) =>
                  /\ Timer!Due(r) = Timer!Due(t) - n
                  /\ StillLike(r, t) /\ (r.irq <=> t.irq)
             /\ ~t.mode.gate /\ ~(n < Timer!Due(t)) =>
                  /\ Timer!Due(r) = Timer!Due(t) - n + t.mode.rate * PerIop
                  /\ TickLike(r, t) /\ (r.irq <=> (t.irq \/ FiresOrPulses(t)))
<1> DEFINE r == Timer!Advance(t, n)
           x == t.mode.rate - t.pre
           whole == (t.phase + n) \div PerIop
           rest == (t.phase + n) % PerIop
           p == [t EXCEPT !.phase = rest]
           armed == p.armed \/ (t.mode.repeat /\ ~t.mode.toggle)
           prescaled == t.pre + whole
<1>9. r = IF whole = 0 \/ t.mode.gate THEN p
        ELSE IF prescaled \div t.mode.rate = 0
        THEN [p EXCEPT !.pre = prescaled % t.mode.rate]
        ELSE Timer!Ticks([p EXCEPT !.armed = @ \/ (t.mode.repeat /\ ~t.mode.toggle),
                                   !.pre = prescaled % t.mode.rate],
                         prescaled \div t.mode.rate)
  BY DEF Timer!Advance
<1>0. /\ PerIop \in Nat \ {0} /\ n \in 1..PerIop /\ t.phase \in 0..(PerIop - 1)
      /\ t.pre \in Nat /\ t.mode.rate \in Nat \ {0} /\ x \in Nat \ {0}
  BY DEF Timer!TimerAssumption, IopTimer, IopMode
<1>1. /\ t.phase + n < PerIop => whole = 0 /\ rest = t.phase + n
      /\ t.phase + n >= PerIop => whole = 1 /\ rest = t.phase + n - PerIop
  <2> DEFINE a == t.phase + n
  <2>1. PerIop \in Nat \ {0} /\ a \in Nat /\ a < PerIop + PerIop
    BY <1>0
  <2> HIDE DEF a
  <2>2. /\ a < PerIop => a \div PerIop = 0 /\ a % PerIop = a
        /\ a >= PerIop => a \div PerIop = 1 /\ a % PerIop = a - PerIop
    BY <2>1, OnceAround, Zenon
  <2> QED BY <1>0, <2>1, <2>2 DEF a
<1>2. rest \in 0..(PerIop - 1)
  BY <1>0, <1>1
<1>3. /\ x * PerIop \in Nat /\ (x - 1) * PerIop = x * PerIop - PerIop
      /\ t.phase + n < PerIop => n < Timer!Due(t)
      /\ t.phase + n >= PerIop /\ x # 1 => n < Timer!Due(t)
      /\ t.phase + n >= PerIop /\ x = 1 => ~(n < Timer!Due(t))
      /\ Timer!Due(t) = x * PerIop - t.phase
  <2>1. Timer!Due(t) = x * PerIop - t.phase
    BY DEF Timer!Due
  <2> QED BY <1>0, <2>1, DueFrom
<1>4. /\ p \in IopTimer /\ p.count = t.count /\ p.target = t.target /\ p.flags = t.flags
      /\ p.mode = t.mode /\ p.pre = t.pre /\ p.phase = rest
      /\ (p.future <=> t.future) /\ (p.irq <=> t.irq)
  <2> HIDE DEF rest
  <2>1. p \in IopTimer
    BY <1>2 DEF IopTimer
  <2>2. /\ p.count = t.count /\ p.target = t.target /\ p.flags = t.flags
        /\ p.mode = t.mode /\ p.pre = t.pre /\ p.phase = rest
    BY DEF IopTimer
  <2>3. (p.future <=> t.future) /\ (p.irq <=> t.irq)
    BY DEF IopTimer
  <2> QED BY <2>1, <2>2, <2>3
<1> HIDE DEF p, rest, whole, r
<1>5. CASE t.phase + n < PerIop
  <2>1. r = p
    BY <1>1, <1>5, <1>9
  <2>2. Timer!Due(p) = x * PerIop - (t.phase + n)
    BY <1>1, <1>4, <1>5 DEF Timer!Due
  <2>3. Timer!Due(p) = Timer!Due(t) - n
    BY <1>0, <1>3, <2>2
  <2> HIDE DEF r, x
  <2> QED BY <1>3, <1>4, <1>5, <2>1, <2>3 DEF r, LatchBehind, StillLike
<1>6. CASE t.phase + n >= PerIop /\ t.mode.gate
  <2>1. r = p
    BY <1>1, <1>6, <1>9
  <2> HIDE DEF r, x
  <2> QED BY <1>4, <1>6, <2>1 DEF r, LatchBehind
<1>7. CASE t.phase + n >= PerIop /\ ~t.mode.gate /\ x # 1
  <2>1. /\ (t.pre + 1) \div t.mode.rate = 0 /\ (t.pre + 1) % t.mode.rate = t.pre + 1
        /\ t.pre + 1 < t.mode.rate
    <3>1. t.pre + 1 \in Nat /\ t.pre + 1 < t.mode.rate /\ t.pre + 1 < t.mode.rate + t.mode.rate
      BY <1>0, <1>7
    <3> QED BY <1>0, <3>1, OnceAround, Zenon
  <2>2. r = [p EXCEPT !.pre = t.pre + 1]
    BY <1>1, <1>7, <1>9, <2>1
  <2> HIDE DEF r
  <2>3. r \in IopTimer
    BY <1>0, <1>4, <2>2 DEF IopTimer
  <2>4. /\ r.count = t.count /\ r.target = t.target /\ r.flags = t.flags
        /\ r.mode = t.mode /\ r.pre = t.pre + 1 /\ r.phase = rest
    BY <1>4, <2>2 DEF IopTimer
  <2>5. (r.future <=> t.future) /\ (r.irq <=> t.irq)
    BY <1>4, <2>2 DEF IopTimer
  <2>6. t.mode.rate - (t.pre + 1) = x - 1
    BY <1>0
  <2>7. Timer!Due(r) = (x - 1) * PerIop - (t.phase + n - PerIop)
    BY <1>1, <1>7, <2>4, <2>6 DEF Timer!Due
  <2> HIDE DEF x
  <2>8. Timer!Due(r) = Timer!Due(t) - n
    BY <1>0, <1>3, <2>7
  <2> QED BY <1>3, <1>7, <2>1, <2>3, <2>4, <2>5, <2>8 DEF r, LatchBehind, StillLike
<1>8. CASE t.phase + n >= PerIop /\ ~t.mode.gate /\ x = 1
  <2> DEFINE c == [p EXCEPT !.armed = armed, !.pre = 0]
  <2>1. (t.pre + 1) \div t.mode.rate = 1 /\ (t.pre + 1) % t.mode.rate = 0
    <3>1. t.pre + 1 = t.mode.rate
      BY <1>0, <1>8
    <3> QED BY <1>0, <3>1, OnceAround
  <2>3. p.armed <=> t.armed
    BY DEF p, IopTimer
  <2>4. r = Timer!Ticks(c, 1)
    <3>1. whole = 1 /\ prescaled \div t.mode.rate = 1 /\ prescaled % t.mode.rate = 0
      BY <1>1, <1>8, <2>1
    <3> HIDE DEF prescaled
    <3>2. r = Timer!Ticks([p EXCEPT !.armed = @ \/ (t.mode.repeat /\ ~t.mode.toggle),
                                    !.pre = prescaled % t.mode.rate],
                          prescaled \div t.mode.rate)
      BY <1>8, <1>9, <3>1
    <3> QED BY <3>1, <3>2
  <2> HIDE DEF r
  <2>5. armed \in BOOLEAN
    BY Zenon
  <2> HIDE DEF armed
  <2>6. c \in IopTimer
    BY <1>4, <2>5 DEF IopTimer
  <2>7. /\ c.count = t.count /\ c.target = t.target /\ c.flags = t.flags
        /\ c.mode = t.mode /\ c.pre = 0 /\ c.phase = rest
    BY <1>4 DEF IopTimer
  <2>8. (c.future <=> t.future) /\ (c.irq <=> t.irq) /\ (c.armed <=> armed)
    BY <1>4, <2>5 DEF IopTimer
  <2> HIDE DEF c
  <2>9. LatchBehind(c)
    BY <2>7, <2>8 DEF LatchBehind
  <2>10. /\ r \in IopTimer /\ LatchBehind(r) /\ SamePace(r, c)
         /\ r.count = Timer!NextCount(c)
         /\ r.flags = c.flags \cup Timer!Reached(c)
         /\ r.irq <=> (c.irq \/ Fires(c))
    BY <2>4, <2>6, <2>9, TickExact
  <2>11. Timer!NextCount(c) = Timer!NextCount(t)
    BY <2>7 DEF Timer!NextCount
  <2>12. Timer!Reached(c) = Timer!Reached(t) /\ Timer!Enabled(c) = Timer!Enabled(t)
    BY <2>7 DEF Timer!Reached, Timer!Enabled
  <2>13. Fires(c) <=> FiresOrPulses(t)
    BY <2>3, <2>7, <2>8, <2>12 DEF Fires, FiresOrPulses, armed, Pulse
  <2>14. r.pre = 0 /\ r.phase = rest /\ r.mode = t.mode
    BY <2>7, <2>10 DEF SamePace
  <2>15. Timer!Due(r) = t.mode.rate * PerIop - (t.phase + n - PerIop)
    BY <1>0, <1>1, <1>8, <2>14 DEF Timer!Due
  <2>16. t.mode.rate * PerIop \in Nat
    BY <1>0
  <2>17. Timer!Due(r) = Timer!Due(t) - n + t.mode.rate * PerIop
    <3>1. x * PerIop = PerIop
      BY <1>0, <1>8
    <3> HIDE DEF x
    <3> QED BY <1>0, <1>3, <2>15, <2>16, <3>1
  <2>18. TickLike(r, t)
    BY <2>7, <2>10, <2>11, <2>12 DEF TickLike
  <2>19. r.irq <=> (t.irq \/ FiresOrPulses(t))
    BY <2>8, <2>10, <2>13
  <2>20. r.pre < r.mode.rate
    BY <1>0, <2>14
  <2> HIDE DEF x
  <2> QED BY <1>3, <1>8, <2>10, <2>17, <2>18, <2>19, <2>20 DEF r
<1> HIDE DEF r, x
<1> QED BY <1>0, <1>5, <1>6, <1>7, <1>8 DEF r


(* What Timer 5's registers and the time that passes keep.                  *)
LEMMA Timer5Step ==
  ASSUME Timer!TimerAssumption, Timer5Inv, Timer!IopNext
  PROVE  Timer5Inv'
<1>1. /\ iop \in IopTimer /\ LatchBehind(iop) /\ iop.pre < iop.mode.rate
      /\ \A v \in Timer!Count : v \in Nat
      /\ 0 \in Timer!Count /\ {} \in SUBSET Flags
      /\ iop.count \in Nat /\ iop.target \in Nat
  BY DEF Timer5Inv, IopTimer, Timer!TimerAssumption, Timer!Count
<1>2. ASSUME NEW r, r \in IopTimer, LatchBehind(r), r.pre < r.mode.rate, iop' = r
      PROVE  Timer5Inv'
  BY <1>2 DEF Timer5Inv, LatchBehind
<1>3. ASSUME NEW n \in 1..PerIop, iop' = Timer!Advance(iop, n)
      PROVE  Timer5Inv'
  <2> DEFINE r == Timer!Advance(iop, n)
  <2> HIDE DEF r
  <2>1. r \in IopTimer /\ LatchBehind(r) /\ r.pre < r.mode.rate
    BY <1>1, AdvanceExact DEF r
  <2> QED BY <1>2, <1>3, <2>1 DEF r
<1>4. ASSUME NEW v \in Timer!Count, iop' = Timer!IopCount(iop, v)
      PROVE  Timer5Inv'
  <2> DEFINE r == [iop EXCEPT !.count = v, !.future = v > iop.target]
  <2>1. (v > iop.target) \in BOOLEAN
    OBVIOUS
  <2>2. r \in IopTimer
    BY <1>1, <2>1 DEF IopTimer
  <2>3. r.count = v /\ r.target = iop.target /\ r.pre = iop.pre /\ r.mode = iop.mode
    BY <1>1 DEF IopTimer
  <2>4. r.future <=> v > iop.target
    BY <1>1 DEF IopTimer
  <2>5. iop' = r
    BY <1>4 DEF Timer!IopCount
  <2> HIDE DEF r
  <2>6. LatchBehind(r)
    BY <1>1, <2>3, <2>4 DEF LatchBehind
  <2> QED BY <1>1, <1>2, <2>2, <2>3, <2>5, <2>6
<1>5. ASSUME NEW v \in Timer!Count, iop' = Timer!IopTarget(iop, v)
      PROVE  Timer5Inv'
  <2> DEFINE r == [iop EXCEPT !.target = v, !.future = v <= iop.count]
  <2>1. (v <= iop.count) \in BOOLEAN
    OBVIOUS
  <2>2. r \in IopTimer
    BY <1>1, <2>1 DEF IopTimer
  <2>3. r.target = v /\ r.count = iop.count /\ r.pre = iop.pre /\ r.mode = iop.mode
    BY <1>1 DEF IopTimer
  <2>4. r.future <=> v <= iop.count
    BY <1>1 DEF IopTimer
  <2>5. iop' = r
    BY <1>5 DEF Timer!IopTarget
  <2> HIDE DEF r
  <2>6. LatchBehind(r)
    BY <1>1, <2>3, <2>4 DEF LatchBehind
  <2> QED BY <1>1, <1>2, <2>2, <2>3, <2>5, <2>6
<1>6. ASSUME NEW m \in IopModes, iop' = Timer!IopMode(iop, m)
      PROVE  Timer5Inv'
  <2> DEFINE event == iop.flags # {} /\ (iop.mode.compare \/ iop.mode.overflow)
             f == IF event THEN iop.flags ELSE {}
             a == IF event THEN iop.armed ELSE TRUE
             r == [iop EXCEPT !.mode = m, !.count = 0, !.pre = 0, !.future = FALSE,
                              !.flags = f, !.armed = a]
  <2>1. m \in IopMode
    BY DEF Timer!TimerAssumption, IopMode
  <2>2. f \in SUBSET Flags
    BY <1>1 DEF IopTimer
  <2>3. a \in BOOLEAN
    <3>1. iop.armed \in BOOLEAN
      BY <1>1 DEF IopTimer
    <3> QED BY <3>1
  <2>4. iop' = r
    BY <1>6 DEF Timer!IopMode
  <2> HIDE DEF event, f, a
  <2>5. r \in IopTimer
    BY <1>1, <2>1, <2>2, <2>3 DEF IopTimer
  <2>6. r.pre = 0 /\ r.mode = m
    BY <1>1 DEF IopTimer
  <2>7. ~r.future
    BY <1>1 DEF IopTimer
  <2> HIDE DEF r
  <2>8. r.pre < r.mode.rate
    BY <2>1, <2>6 DEF IopMode
  <2> QED BY <1>2, <2>4, <2>5, <2>7, <2>8 DEF LatchBehind
<1>7. CASE iop' = Timer!IopModeRead(iop)
  <2> DEFINE r == [iop EXCEPT !.flags = {}, !.armed = TRUE]
  <2>1. r \in IopTimer
    BY <1>1 DEF IopTimer
  <2>2. r.count = iop.count /\ r.target = iop.target /\ r.pre = iop.pre /\ r.mode = iop.mode
    BY <1>1 DEF IopTimer
  <2>3. r.future <=> iop.future
    BY <1>1 DEF IopTimer
  <2>4. iop' = r
    BY <1>7 DEF Timer!IopModeRead
  <2> HIDE DEF r
  <2>5. LatchBehind(r)
    BY <1>1, <2>2, <2>3 DEF LatchBehind
  <2> QED BY <1>1, <1>2, <2>1, <2>2, <2>4, <2>5
<1>8. CASE iop' = [iop EXCEPT !.irq = FALSE]
  <2> DEFINE r == [iop EXCEPT !.irq = FALSE]
  <2>1. r \in IopTimer
    BY <1>1 DEF IopTimer
  <2>2. r.count = iop.count /\ r.target = iop.target /\ r.pre = iop.pre /\ r.mode = iop.mode
    BY <1>1 DEF IopTimer
  <2>3. r.future <=> iop.future
    BY <1>1 DEF IopTimer
  <2> HIDE DEF r
  <2>4. LatchBehind(r)
    BY <1>1, <2>2, <2>3 DEF LatchBehind
  <2> QED BY <1>1, <1>2, <1>8, <2>1, <2>2, <2>4 DEF r
<1> QED BY <1>3, <1>4, <1>5, <1>6, <1>7, <1>8 DEF Timer!IopNext

LEMMA Timer5Exact ==
  ASSUME Timer!TimerAssumption, Timer5Inv
  PROVE  Timer!IopExact
<1> SUFFICES ASSUME NEW n \in 1..PerIop, ~iop.mode.gate
             PROVE  LET r == Timer!Advance(iop, n)
                    IN  IF n < Timer!Due(iop)
                        THEN /\ Timer!Due(r) = Timer!Due(iop) - n
                             /\ r.count = iop.count /\ r.flags = iop.flags /\ r.irq = iop.irq
                        ELSE /\ Timer!Due(r) = Timer!Due(iop) - n + iop.mode.rate * PerIop
                             /\ r.count = Timer!NextCount(iop)
                             /\ r.flags = iop.flags \cup Timer!Reached(iop)
                             /\ r.irq = (iop.irq \/ FiresOrPulses(iop))
  BY DEF Timer!IopExact, FiresOrPulses, Pulse
<1> DEFINE r == Timer!Advance(iop, n)
<1> HIDE DEF r
<1>1. /\ r \in IopTimer
      /\ n < Timer!Due(iop) =>
           /\ Timer!Due(r) = Timer!Due(iop) - n
           /\ StillLike(r, iop) /\ (r.irq <=> iop.irq)
      /\ ~(n < Timer!Due(iop)) =>
           /\ Timer!Due(r) = Timer!Due(iop) - n + iop.mode.rate * PerIop
           /\ TickLike(r, iop) /\ (r.irq <=> (iop.irq \/ FiresOrPulses(iop)))
  BY AdvanceExact DEF Timer5Inv, r
<1>2. r.irq \in BOOLEAN /\ iop.irq \in BOOLEAN
  BY <1>1 DEF Timer5Inv, IopTimer
<1>3. /\ (r.irq <=> iop.irq) => r.irq = iop.irq
      /\ (r.irq <=> (iop.irq \/ FiresOrPulses(iop))) => r.irq = (iop.irq \/ FiresOrPulses(iop))
  BY <1>2, Zenon
<1> QED BY <1>1, <1>3, Zenon DEF r, StillLike, TickLike

LEMMA TimersInit ==
  ASSUME Timer!TimerAssumption, Timer!Init
  PROVE  Timer3Inv /\ Timer5Inv
<1>1. 0 \in Timer!Count /\ 0 \in 0..(PerIop - 1) /\ {} \in SUBSET Flags
  BY DEF Timer!TimerAssumption, Timer!Count
<1>2. Timer3Inv
  BY <1>1 DEF Timer!Init, Timer3Inv, Timer!EeReset, EeTimer, LatchBehind
<1>3. Timer5Inv
  BY <1>1 DEF Timer!Init, Timer5Inv, Timer!IopReset, IopTimer, IopMode, LatchBehind
<1> QED BY <1>2, <1>3

(* The clocks of the machine are exact for every video mode, rate, counter  *)
(* width and cut of time into steps: video edges never drift from their     *)
(* rational instants, and both timers count, flag and interrupt at each     *)
(* tick as their registers say.                                             *)
THEOREM TimersTheorem == Spec => []TimersExact
<1>0. Video!CadenceAssumption /\ Timer!TimerAssumption
  BY Constants
<1> DEFINE VideoPart == part = "video" => VideoInv
           TimersPart == part \in {"timer3", "timer5"} => Timer3Inv /\ Timer5Inv
<1>1. Init => VideoPart /\ TimersPart
  BY <1>0, PartInit, VideoInit, TimersInit
<1>2. VideoPart /\ [Next]_vars => VideoPart'
  BY <1>0, PartStep, VideoStep
<1>3. TimersPart /\ [Next]_vars => TimersPart'
  <2> SUFFICES ASSUME part \in {"timer3", "timer5"}, Timer3Inv, Timer5Inv, [Next]_vars
               PROVE  Timer3Inv' /\ Timer5Inv'
    BY PartStep
  <2>1. CASE Timer!EeNext
    <3>1. Timer5Inv'
      BY <2>1 DEF Timer!EeNext, Timer5Inv, LatchBehind
    <3> QED BY <1>0, <2>1, <3>1, Timer3Step
  <2>2. CASE Timer!IopNext
    <3>1. Timer3Inv'
      BY <2>2 DEF Timer!IopNext, Timer3Inv, LatchBehind
    <3> QED BY <1>0, <2>2, <3>1, Timer5Step
  <2>3. CASE UNCHANGED Timer!vars
    BY <2>3 DEF Timer!vars, Timer3Inv, Timer5Inv, LatchBehind
  <2> QED BY <2>1, <2>2, <2>3, PartStep
<1>4. VideoPart /\ TimersPart => TimersExact
  BY <1>0, VideoExact, Timer3Exact, Timer5Exact DEF TimersExact
<1> QED BY <1>1, <1>2, <1>3, <1>4, PTL DEF Spec


-----------------------------------------------------------------------------
(* The frontend's frames                                                    *)

(* Why run_execution_budget stops, as one of its conditions each.           *)
LEMMA StopReasons ==
  ASSUME NEW kept \in BOOLEAN, NEW now, NEW spent, NEW quanta
  PROVE  LET s == Frame!StopReason(kept, now, spent, quanta)
         IN  /\ s = "callback" <=> ~kept
             /\ s = "elapsed" => spent >= Frame!Microseconds
             /\ s = "none" => /\ ~(now < loop.previous) /\ ~(spent >= Frame!Microseconds)
                              /\ quanta # Frame!MaxQuanta
  BY Zenon DEF Frame!StopReason


(* What the budget's loop keeps: while a quantum is due the budget is not   *)
(* spent, and time is measured from the start to the last good sample.      *)
Stops == {"none", "callback", "backwards", "stalled", "elapsed", "quanta", "invalid"}
Loops == [start : Frame!Times, previous : Frame!Times, elapsed : Frame!Times, quanta : Nat,
          stop : Stops]

LoopGood(l, microseconds, maxQuanta) ==
  /\ l \in Loops /\ l.start <= l.previous /\ l.quanta <= maxQuanta
  /\ l.stop = "elapsed" => l.elapsed >= microseconds
  /\ l.stop = "none" /\ l.quanta > 0 => /\ l.elapsed < microseconds
                                        /\ l.quanta < maxQuanta
                                        /\ l.elapsed = l.previous - l.start

BudgetInv ==
  /\ budget \in FrameBudgets
  /\ LoopGood(loop, Frame!Microseconds, Frame!MaxQuanta)
  /\ step = "quantum" => loop.stop = "none" /\ Frame!MaxQuanta # 0 /\ Frame!Microseconds # 0
  /\ step = "after" => (loop.stop = "callback" <=> reason = "fault")

LEMMA BudgetTypes ==
  ASSUME Frame!FrameAssumption, budget \in FrameBudgets
  PROVE  Frame!Microseconds \in Nat /\ Frame!MaxQuanta \in Nat
  BY DEF Frame!FrameAssumption, Frame!Microseconds, Frame!MaxQuanta

(* A loop that has not begun is in order, whatever its budget.              *)
LEMMA NoLoopGood ==
  ASSUME Frame!FrameAssumption, NEW m \in Nat, NEW k \in Nat, NEW r \in Loops,
         r.elapsed = 0, r.quanta = 0, r.start = r.previous, r.stop # "elapsed"
  PROVE  LoopGood(r, m, k)
  BY DEF LoopGood, Loops, Frame!Times, Frame!FrameAssumption

LEMMA QuantumKeepsBudget ==
  ASSUME Frame!FrameAssumption, BudgetInv, Frame!Quantum
  PROVE  BudgetInv'
<1> DEFINE m == Frame!Microseconds
           k == Frame!MaxQuanta
           kept == reason' = "limit"
<1>0. /\ LoopGood(loop, m, k) /\ loop.stop = "none" /\ m \in Nat /\ k \in Nat \ {0}
      /\ m # 0 /\ budget' = budget /\ kept \in BOOLEAN /\ reason' \in {"limit", "fault"}
  <2>1. kept \in BOOLEAN
    BY Zenon
  <2> QED BY <2>1, BudgetTypes DEF BudgetInv, Frame!Quantum, Frame!Slice
<1>1. PICK now \in Frame!Times :
        LET e == IF now >= loop.previous THEN now - loop.start ELSE loop.elapsed
            q == loop.quanta + 1
            s == Frame!StopReason(kept, now, e, q)
        IN  /\ loop' = [loop EXCEPT !.quanta = q, !.elapsed = e, !.stop = s,
                                    !.previous = IF s = "none" THEN now ELSE @]
            /\ step' = IF s = "none" THEN "quantum" ELSE "after"
  BY DEF Frame!Quantum
<1> DEFINE e == IF now >= loop.previous THEN now - loop.start ELSE loop.elapsed
           q == loop.quanta + 1
           s == Frame!StopReason(kept, now, e, q)
           p == IF s = "none" THEN now ELSE loop.previous
           r == [loop EXCEPT !.quanta = q, !.elapsed = e, !.stop = s, !.previous = p]
<1>2. loop' = r /\ step' = IF s = "none" THEN "quantum" ELSE "after"
  BY <1>1
<1>3. /\ s \in Stops /\ (s = "callback" <=> ~kept)
      /\ s = "elapsed" => e >= m
      /\ s = "none" => ~(now < loop.previous) /\ ~(e >= m) /\ q # k
  <2>1. s \in Stops
    BY DEF Frame!StopReason, Stops
  <2> HIDE DEF e, q, kept
  <2> QED BY <1>0, <2>1, StopReasons
<1>4. /\ loop.start \in Nat /\ loop.previous \in Nat /\ loop.elapsed \in Nat /\ loop.quanta \in Nat
      /\ loop.start \in Frame!Times /\ loop.previous \in Frame!Times
      /\ loop.elapsed \in Frame!Times
      /\ loop.start <= loop.previous /\ now \in Nat
      /\ loop.quanta < k
  BY <1>0 DEF LoopGood, Loops, Frame!Times, Frame!FrameAssumption
<1>5. e \in Frame!Times /\ e \in Nat /\ q \in Nat /\ q <= k /\ p \in Frame!Times
  BY <1>0, <1>4 DEF Frame!Times, Frame!FrameAssumption
<1>6. p \in Nat /\ loop.start <= p
  <2> HIDE DEF s
  <2> QED BY <1>3, <1>4
<1>7. s = "none" => e = p - loop.start
  <2> HIDE DEF s
  <2> QED BY <1>3, <1>4
<1> HIDE DEF e, q, s, p
<1>8. /\ r \in Loops /\ r.start = loop.start /\ r.previous = p /\ r.elapsed = e /\ r.quanta = q
      /\ r.stop = s
  <2>1. loop \in Loops
    BY <1>0 DEF LoopGood
  <2>2. r \in Loops
    BY <1>3, <1>5, <2>1 DEF Loops
  <2>3. /\ r.start = loop.start /\ r.previous = p /\ r.elapsed = e /\ r.quanta = q
        /\ r.stop = s
    BY <2>1 DEF Loops
  <2> QED BY <2>2, <2>3
<1>9. LoopGood(r, m, k)
  <2> HIDE DEF r
  <2> QED BY <1>0, <1>3, <1>4, <1>5, <1>6, <1>7, <1>8 DEF LoopGood
<1>10. m' = m /\ k' = k
  BY <1>0 DEF Frame!Microseconds, Frame!MaxQuanta
<1> HIDE DEF m, k
<1>11. LoopGood(loop', m', k')
  BY <1>2, <1>9, <1>10
<1>12. loop'.stop = s
  BY <1>2, <1>8
<1>13. step' = "quantum" => loop'.stop = "none" /\ k' # 0 /\ m' # 0
  BY <1>0, <1>2, <1>10, <1>12
<1>14. step' = "after" => (loop'.stop = "callback" <=> reason' = "fault")
  BY <1>0, <1>3, <1>12 DEF kept
<1> QED BY <1>0, <1>11, <1>13, <1>14 DEF BudgetInv, m, k


LEMMA BudgetStep ==
  ASSUME Frame!FrameAssumption, BudgetInv, [Frame!Next]_Frame!vars
  PROVE  BudgetInv'
<1> DEFINE m == Frame!Microseconds
           k == Frame!MaxQuanta
<1>0. m \in Nat /\ k \in Nat /\ 0 \in Frame!Times /\ 0 \in Nat
      /\ budget \in FrameBudgets /\ LoopGood(loop, m, k)
  BY BudgetTypes DEF BudgetInv, Frame!Times, Frame!FrameAssumption
<1>1. ASSUME budget' = budget
      PROVE  m' = m /\ k' = k
  BY <1>1 DEF Frame!Microseconds, Frame!MaxQuanta
<1>2. ASSUME budget' = budget, loop' = loop, step' \notin {"quantum", "after"}
      PROVE  BudgetInv'
  <2>1. LoopGood(loop', m', k')
    BY <1>0, <1>1, <1>2
  <2> QED BY <1>0, <1>2, <2>1 DEF BudgetInv
<1>3. ASSUME NEW r \in Loops, r.elapsed = 0, r.quanta = 0, r.start = r.previous,
             r.stop # "elapsed", loop' = r, budget' = budget
      PROVE  LoopGood(loop', m', k')
  <2> HIDE DEF m, k
  <2>1. LoopGood(r, m, k)
    BY <1>0, <1>3, NoLoopGood
  <2> QED BY <1>1, <1>3, <2>1
<1>4. CASE Frame!Views \/ Frame!LoadElf \/ Frame!BootBios \/ Frame!RunPause \/ Frame!Reset
           \/ Frame!SingleStep \/ Frame!NotPressed \/ Frame!AfterBudget
  <2>1. budget' = budget /\ loop' = loop /\ step' \notin {"quantum", "after"}
    BY <1>4 DEF Frame!Views, Frame!LoadElf, Frame!BootBios, Frame!RunPause, Frame!Reset,
                Frame!SingleStep, Frame!NotPressed, Frame!AfterBudget, Frame!Skip, Frame!Go
  <2> QED BY <1>2, <2>1
<1>5. CASE Frame!Begin
  <2>1. PICK t \in Frame!Times : loop' = [Frame!NoLoop EXCEPT !.start = t, !.previous = t]
    BY <1>5 DEF Frame!Begin
  <2> DEFINE r == [Frame!NoLoop EXCEPT !.start = t, !.previous = t]
  <2>2. r \in Loops /\ r.elapsed = 0 /\ r.quanta = 0 /\ r.start = t /\ r.previous = t
        /\ r.stop = "none"
    BY <1>0 DEF Loops, Stops, Frame!NoLoop
  <2>3. budget' = budget /\ step' = "quantum" /\ m # 0 /\ k # 0
    BY <1>5 DEF Frame!Begin, Frame!Go
  <2> HIDE DEF r
  <2>4. loop' = r
    BY <2>1 DEF r
  <2>5. LoopGood(loop', m', k')
    BY <1>3, <2>2, <2>3, <2>4
  <2> QED BY <1>0, <1>1, <2>2, <2>3, <2>4, <2>5 DEF BudgetInv
<1>6. CASE Frame!Invalid
  <2> DEFINE r == [Frame!NoLoop EXCEPT !.stop = "invalid"]
  <2>1. r \in Loops /\ r.elapsed = 0 /\ r.quanta = 0 /\ r.start = 0 /\ r.previous = 0
        /\ r.stop = "invalid"
    BY <1>0 DEF Loops, Stops, Frame!NoLoop
  <2>2. loop' = r /\ budget' = budget /\ step' = "after" /\ reason' = "limit"
    BY <1>6 DEF Frame!Invalid, Frame!Go
  <2> HIDE DEF r
  <2>3. LoopGood(loop', m', k')
    BY <1>3, <2>1, <2>2
  <2> QED BY <1>0, <2>1, <2>2, <2>3 DEF BudgetInv
<1>7. CASE Frame!Quantum
  BY <1>7, QuantumKeepsBudget
<1>8. CASE Frame!Draw
  <2>1. Frame!NoLoop \in Loops /\ Frame!NoLoop.elapsed = 0 /\ Frame!NoLoop.quanta = 0
        /\ Frame!NoLoop.start = Frame!NoLoop.previous /\ Frame!NoLoop.stop # "elapsed"
    BY <1>0 DEF Loops, Stops, Frame!NoLoop
  <2>2. loop' = Frame!NoLoop /\ budget' = budget /\ step' = "views"
    BY <1>8 DEF Frame!Draw, Frame!Go
  <2>3. LoopGood(loop', m', k')
    BY <1>3, <2>1, <2>2
  <2> QED BY <1>0, <2>2, <2>3 DEF BudgetInv
<1>9. CASE UNCHANGED Frame!vars
  <2>1. budget' = budget /\ loop' = loop /\ step' = step /\ reason' = reason
    BY <1>9 DEF Frame!vars
  <2>2. m' = m /\ k' = k
    BY <1>1, <2>1
  <2>3. LoopGood(loop', m', k')
    BY <1>0, <2>1, <2>2
  <2> QED BY <2>1, <2>2, <2>3 DEF BudgetInv
<1> QED BY <1>4, <1>5, <1>6, <1>7, <1>8, <1>9 DEF Frame!Next

(* The reports: running needs something to run, and a stop that is over is  *)
(* reported.                                                                *)
ReportInv ==
  /\ step \in {"quantum", "after"} => running /\ ready
  /\ running => ready
  /\ reason = "fault" /\ step # "after" => reported
  /\ step = "draw" /\ reason = "fault" => ~running

LEMMA ReportStep ==
  ASSUME ReportInv, [Frame!Next]_Frame!vars
  PROVE  ReportInv'
<1>1. CASE Frame!Views
  BY <1>1 DEF Frame!Views, Frame!Go, ReportInv
<1>2. CASE Frame!LoadElf
  BY <1>2 DEF Frame!LoadElf, Frame!Go, ReportInv
<1>3. CASE Frame!BootBios
  BY <1>3 DEF Frame!BootBios, Frame!Go, ReportInv
<1>4. CASE Frame!RunPause
  BY <1>4 DEF Frame!RunPause, Frame!Go, ReportInv
<1>5. CASE Frame!Reset
  BY <1>5 DEF Frame!Reset, Frame!Go, ReportInv
<1>6. CASE Frame!SingleStep
  BY <1>6 DEF Frame!SingleStep, Frame!Slice, Frame!Go, ReportInv
<1>7. CASE Frame!Begin
  BY <1>7 DEF Frame!Begin, Frame!Go, ReportInv
<1>8. CASE Frame!Invalid
  BY <1>8 DEF Frame!Invalid, Frame!Go, ReportInv
<1>9. CASE Frame!Quantum
  <2>1. step = "quantum" /\ reason' \in {"limit", "fault"} /\ running' = running /\ ready' = ready
    BY <1>9 DEF Frame!Quantum, Frame!Slice
  <2>2. step' = "after" \/ (step' = "quantum" /\ reason' = "limit")
    <3>1. PICK now, e, q, s :
            /\ s = Frame!StopReason(reason' = "limit", now, e, q)
            /\ step' = IF s = "none" THEN "quantum" ELSE "after"
      BY <1>9 DEF Frame!Quantum
    <3>2. reason' # "limit" => s # "none"
      BY <3>1 DEF Frame!StopReason
    <3> QED BY <3>1, <3>2
  <2> QED BY <2>1, <2>2 DEF ReportInv
<1>10. CASE Frame!AfterBudget
  BY <1>10 DEF Frame!AfterBudget, Frame!Go, ReportInv
<1>11. CASE Frame!Draw
  BY <1>11 DEF Frame!Draw, Frame!Go, ReportInv
<1>12. CASE Frame!NotPressed
  BY <1>12 DEF Frame!NotPressed, Frame!Skip, Frame!Go, ReportInv
<1>13. CASE UNCHANGED Frame!vars
  BY <1>13 DEF Frame!vars, ReportInv
<1> QED BY <1>1, <1>2, <1>3, <1>4, <1>5, <1>6, <1>7, <1>8, <1>9, <1>10, <1>11, <1>12, <1>13
        DEF Frame!Next


(* Progress: the guest's cycles only grow between resets, and stay where    *)
(* they can be counted.                                                     *)
ProgressInv ==
  /\ cycles \in Nat /\ cycles <= CycleCap /\ nextDue \in Nat /\ lastDue \in Nat
  /\ Frame!ProgressAdvances

LEMMA ProgressStep ==
  ASSUME Frame!FrameAssumption, ProgressInv, [Frame!Next]_Frame!vars
  PROVE  ProgressInv'
<1>0. /\ Interval \in Nat \ {0} /\ MaxCycles \in Nat /\ CycleCap \in Nat /\ CycleCap <= MaxCycles
      /\ cycles \in Nat /\ cycles <= CycleCap /\ nextDue \in Nat /\ lastDue \in Nat
      /\ lastDue <= cycles /\ (nextDue > lastDue \/ lastDue = MaxCycles)
  BY DEF Frame!FrameAssumption, ProgressInv, Frame!ProgressAdvances
<1>1. ASSUME NEW c, NEW d, NEW l, c \in Nat, c <= CycleCap, d \in Nat, l \in Nat, l <= c,
             d > l \/ l = MaxCycles, cycles' = c, nextDue' = d, lastDue' = l
      PROVE  ProgressInv'
  BY <1>1 DEF ProgressInv, Frame!ProgressAdvances
<1>2. CASE UNCHANGED <<cycles, nextDue, lastDue>>
  BY <1>0, <1>1, <1>2
<1>3. CASE cycles' \in {0, cycles} /\ Frame!ResetProgress
  BY <1>0, <1>1, <1>3 DEF Frame!ResetProgress
<1>4. CASE Frame!Slice /\ UNCHANGED <<nextDue, lastDue>>
  <2>1. PICK n \in 1..2 : cycles' = IF cycles + n > CycleCap THEN CycleCap ELSE cycles + n
    BY <1>4 DEF Frame!Slice
  <2> DEFINE c == IF cycles + n > CycleCap THEN CycleCap ELSE cycles + n
  <2>2. c \in Nat /\ c <= CycleCap /\ lastDue <= c
    BY <1>0
  <2> HIDE DEF c
  <2>3. cycles' = c
    BY <2>1 DEF c
  <2> QED BY <1>0, <1>1, <1>4, <2>2, <2>3
<1>5. CASE cycles' = cycles /\ lastDue' = cycles /\ nextDue' = Frame!NextProgress(cycles)
  <2> DEFINE d == Frame!NextProgress(cycles)
  <2>1. d \in Nat /\ (d > cycles \/ cycles = MaxCycles)
    BY <1>0 DEF Frame!NextProgress
  <2> HIDE DEF d
  <2>2. nextDue' = d
    BY <1>5 DEF d
  <2> QED BY <1>0, <1>1, <1>5, <2>1, <2>2
<1>6. CASE Frame!Views \/ Frame!RunPause \/ Frame!Begin \/ Frame!Invalid \/ Frame!Draw
           \/ Frame!NotPressed \/ UNCHANGED Frame!vars
  BY <1>2, <1>6 DEF Frame!Views, Frame!RunPause, Frame!Begin, Frame!Invalid, Frame!Draw,
                    Frame!NotPressed, Frame!Skip, Frame!progress, Frame!vars
<1>7. CASE Frame!LoadElf \/ Frame!BootBios \/ Frame!Reset
  BY <1>2, <1>3, <1>7 DEF Frame!LoadElf, Frame!BootBios, Frame!Reset, Frame!progress
<1>8. CASE Frame!SingleStep \/ Frame!Quantum
  BY <1>4, <1>8 DEF Frame!SingleStep, Frame!Quantum, Frame!progress
<1>9. CASE Frame!AfterBudget
  BY <1>2, <1>5, <1>9 DEF Frame!AfterBudget, Frame!progress
<1> QED BY <1>6, <1>7, <1>8, <1>9 DEF Frame!Next

LEMMA FrameInit ==
  ASSUME Frame!FrameAssumption, Frame!Init
  PROVE  BudgetInv /\ ReportInv /\ ProgressInv
<1>1. ReportInv
  <2>1. running = FALSE \/ running = ready
    BY Zenon DEF Frame!Init
  <2>2. running => ready
    BY <2>1, Zenon
  <2>3. step = "views" /\ reason = "none"
    BY DEF Frame!Init
  <2> QED BY <2>2, <2>3 DEF ReportInv
<1>2. ProgressInv
  <2>1. cycles = 0 /\ nextDue = Interval /\ lastDue = 0
    BY DEF Frame!Init
  <2> QED BY <2>1 DEF Frame!FrameAssumption, ProgressInv, Frame!ProgressAdvances
<1>3. BudgetInv
  <2>1. budget \in FrameBudgets /\ step = "views" /\ loop = Frame!NoLoop
    BY DEF Frame!Init
  <2>2. 0 \in Frame!Times /\ 0 \in Nat
    BY DEF Frame!FrameAssumption, Frame!Times
  <2>3. Frame!NoLoop \in Loops /\ Frame!NoLoop.elapsed = 0 /\ Frame!NoLoop.quanta = 0
        /\ Frame!NoLoop.start = Frame!NoLoop.previous /\ Frame!NoLoop.stop # "elapsed"
    BY <2>2 DEF Loops, Stops, Frame!NoLoop
  <2>4. LoopGood(loop, Frame!Microseconds, Frame!MaxQuanta)
    BY <2>1, <2>3, BudgetTypes, NoLoopGood
  <2> QED BY <2>1, <2>4 DEF BudgetInv
<1> QED BY <1>1, <1>2, <1>3

(* A frame of the host keeps its promises for every budget, clock and order *)
(* of buttons: the budget's result is true, a guest that stops is reported  *)
(* and does not run on, and no progress report is written twice.            *)
THEOREM FramesTheorem == Spec => []FramesKept
<1>0. Frame!FrameAssumption
  BY Constants
<1> DEFINE FramePart == part = "frame" => BudgetInv /\ ReportInv /\ ProgressInv
<1>1. Init => FramePart
  BY <1>0, PartInit, FrameInit
<1>2. FramePart /\ [Next]_vars => FramePart'
  BY <1>0, PartStep, BudgetStep, ReportStep, ProgressStep
<1>3. FramePart => FramesKept
  <2> SUFFICES ASSUME part = "frame", BudgetInv, ReportInv, ProgressInv
               PROVE  Frame!FramesKept
    BY DEF FramesKept
  <2>1. Frame!BudgetKept
    BY DEF BudgetInv, LoopGood, Loops, Frame!BudgetKept
  <2>2. Frame!StopsReported
    BY DEF ReportInv, Frame!StopsReported
  <2> QED BY <2>1, <2>2 DEF Frame!FramesKept, ProgressInv
<1> QED BY <1>1, <1>2, <1>3, PTL DEF Spec


-----------------------------------------------------------------------------
(* The CDVD's commands                                                      *)

Answers == {"zero", "mecha", "forbid", "region", "error", "refused"}
Refusals == {"error", "refused"}
CdvdDriver == [sent : Seq(CdvdBytes), got : Seq(Answers), length : Nat, refused : BOOLEAN,
               opened : Nat \cup {None}]

(* The FIFO has the beginning of what was sent for the next command.        *)
FifoAgrees ==
  /\ params \in Seq(CdvdBytes)
  /\ Len(params) = IF Len(driver.sent) < Fifo THEN Len(driver.sent) ELSE Fifo
  /\ \A i \in 1..Len(params) : params[i] = driver.sent[i]

(* The configuration area is open the way the last OPEN said.               *)
ConfigAgrees ==
  /\ config \in [rw : Nat, blocks : Nat, index : Nat]
  /\ config.index <= config.blocks
  /\ config.rw = IF driver.opened = None THEN 0 ELSE driver.opened

(* The latest answer is its command's, and what was read of it is in order. *)
AnswerAgrees ==
  /\ result \in Seq(Answers) /\ Len(result) = driver.length
  /\ Len(result) > 0 => (result[1] \in Refusals <=> driver.refused)
  /\ \A i \in 2..Len(result) : result[i] \notin Refusals
ReadingAgrees ==
  /\ pos = IF Len(driver.got) < Len(result) THEN Len(driver.got) ELSE Len(result)
  /\ ready \in BOOLEAN /\ (ready <=> pos < Len(result))
  /\ \A i \in 1..Len(driver.got) :
       driver.got[i] = IF i <= Len(result) THEN result[i] ELSE "zero"

CdvdInv == driver \in CdvdDriver /\ FifoAgrees /\ ConfigAgrees /\ AnswerAgrees /\ ReadingAgrees

LEMMA BlankIs ==
  ASSUME NEW n \in Nat
  PROVE  /\ Cdvd!Blank(n) \in Seq(Answers) /\ Len(Cdvd!Blank(n)) = n
         /\ \A i \in 1..n : Cdvd!Blank(n)[i] = "zero"
<1>1. Cdvd!Blank(n) \in Seq(Answers)
  BY DEF Cdvd!Blank, Answers
<1> QED BY <1>1 DEF Cdvd!Blank

(* The FIFO is as good as what was sent, for the commands that look at it.  *)
LEMMA FifoIsSent ==
  ASSUME Cdvd!CdvdAssumption, driver \in CdvdDriver, FifoAgrees
  PROVE  /\ params = <<>> <=> driver.sent = <<>>
         /\ params # <<>> => params[1] = Head(driver.sent) /\ params[1] \in Nat
         /\ Len(params) >= 3 <=> Len(driver.sent) >= 3
         /\ Len(params) >= 3 => params[3] \in Nat /\ params # <<>>
<1> DEFINE sent == driver.sent
<1>1. /\ sent \in Seq(CdvdBytes) /\ Fifo \in Nat /\ Fifo >= 3 /\ params \in Seq(CdvdBytes)
      /\ CdvdBytes \subseteq Nat
      /\ Len(params) = IF Len(sent) < Fifo THEN Len(sent) ELSE Fifo
      /\ \A i \in 1..Len(params) : params[i] = sent[i]
  BY DEF CdvdDriver, Cdvd!CdvdAssumption, FifoAgrees
<1> HIDE DEF sent
<1>2. Len(params) \in Nat /\ Len(sent) \in Nat
  BY <1>1
<1>3. /\ params = <<>> <=> Len(params) = 0
      /\ sent = <<>> <=> Len(sent) = 0
  BY <1>1
<1>4. params = <<>> <=> sent = <<>>
  BY <1>1, <1>2, <1>3
<1>5. Len(params) >= 3 <=> Len(sent) >= 3
  BY <1>1, <1>2
<1>6. \A i \in 1..Len(params) : params[i] \in Nat /\ params[i] = sent[i]
  <2>1. params \in Seq(CdvdBytes)
    BY <1>1
  <2>2. \A i \in 1..Len(params) : params[i] \in CdvdBytes
    BY <2>1
  <2>3. \A i \in 1..Len(params) : params[i] = sent[i]
    BY <1>1
  <2>4. \A v \in CdvdBytes : v \in Nat
    BY <1>1
  <2> QED BY <2>2, <2>3, <2>4, Zenon
<1>7. params # <<>> => params[1] = Head(sent) /\ params[1] \in Nat
  <2>1. sent # <<>> => Head(sent) = sent[1]
    BY <1>1
  <2>2. Len(params) # 0 => 1 \in 1..Len(params)
    BY <1>2
  <2> QED BY <1>3, <1>4, <1>6, <2>1, <2>2
<1>8. Len(params) >= 3 => params[3] \in Nat /\ params # <<>>
  <2>1. Len(params) >= 3 => 3 \in 1..Len(params) /\ Len(params) # 0
    BY <1>2
  <2> QED BY <1>3, <1>6, <2>1
<1> QED BY <1>4, <1>5, <1>7, <1>8 DEF sent

(* An answer as its driver expects it.                                      *)
GoodAnswer(a, length, refused) ==
  /\ a \in Seq(Answers) /\ Len(a) = length /\ length > 0
  /\ a[1] \in Refusals <=> refused
  /\ \A i \in 2..length : a[i] \notin Refusals

LEMMA ByteIsGood ==
  ASSUME NEW v \in Answers, NEW refused, refused <=> v \in Refusals
  PROVE  GoodAnswer(<<v>>, 1, refused)
<1>1. <<v>> \in Seq(Answers) /\ Len(<<v>>) = 1 /\ <<v>>[1] = v
  OBVIOUS
<1> QED BY <1>1 DEF GoodAnswer

LEMMA ConcatIs ==
  ASSUME NEW S, NEW s \in Seq(S), NEW t \in Seq(S)
  PROVE  /\ s \o t \in Seq(S) /\ Len(s \o t) = Len(s) + Len(t)
         /\ \A i \in 1..(Len(s) + Len(t)) : (s \o t)[i] = IF i <= Len(s) THEN s[i] ELSE t[i - Len(s)]
  OBVIOUS

LEMMA AnswerIs ==
  ASSUME Cdvd!CdvdAssumption, driver \in CdvdDriver, FifoAgrees, ConfigAgrees,
         NEW c \in Cdvd!Commands
  PROVE  GoodAnswer(Cdvd!Answer(c), Cdvd!Length(c, driver.sent),
                    Cdvd!Refused(c, driver.sent, driver.opened))
<1> DEFINE a == Cdvd!Answer(c)
           n == Cdvd!Length(c, driver.sent)
           refused == Cdvd!Refused(c, driver.sent, driver.opened)
<1> SUFFICES GoodAnswer(a, n, refused)
  OBVIOUS
<1> HIDE DEF a, n, refused
<1>0. ASSUME NEW v \in Answers, a = <<v>>, n = 1, refused <=> v \in Refusals
      PROVE  GoodAnswer(a, n, refused)
  BY <1>0, ByteIsGood
<1>1. CASE c = "mecha"
  <2>1. a = IF params # <<>> /\ params[1] = 0 THEN <<"mecha", "mecha", "mecha", "zero">>
                                              ELSE <<"refused">>
    BY <1>1 DEF a, Cdvd!Answer
  <2>2. refused <=> driver.sent = <<>> \/ Head(driver.sent) # 0
    BY <1>1 DEF refused, Cdvd!Refused
  <2>3. n = IF driver.sent # <<>> /\ Head(driver.sent) = 0 THEN 4 ELSE 1
    BY <1>1 DEF n, Cdvd!Length
  <2>4. CASE params # <<>> /\ params[1] = 0
    <3>1. a = <<"mecha", "mecha", "mecha", "zero">> /\ ~refused /\ n = 4
      BY <2>1, <2>2, <2>3, <2>4, FifoIsSent
    <3>2. /\ a \in Seq(Answers) /\ Len(a) = 4
          /\ a[1] = "mecha" /\ a[2] = "mecha" /\ a[3] = "mecha" /\ a[4] = "zero"
      BY <3>1 DEF Answers
    <3>3. \A i \in 2..4 : i = 2 \/ i = 3 \/ i = 4
      OBVIOUS
    <3> QED BY <3>1, <3>2, <3>3 DEF GoodAnswer, Refusals
  <2>5. CASE ~(params # <<>> /\ params[1] = 0)
    <3>1. a = <<"refused">> /\ refused /\ n = 1
      BY <2>1, <2>2, <2>3, <2>5, FifoIsSent
    <3> QED BY <1>0, <3>1 DEF Answers, Refusals
  <2> QED BY <2>4, <2>5
<1>2. CASE c = "forbid"
  <2>1. a = <<"forbid">> /\ ~refused /\ n = 1
    BY <1>2 DEF a, n, refused, Cdvd!Answer, Cdvd!Refused, Cdvd!Length
  <2> QED BY <1>0, <2>1 DEF Answers, Refusals
<1>3. CASE c = "wakeup"
  <2>1. a = Cdvd!Blank(10)
    BY <1>3 DEF a, Cdvd!Answer
  <2>2. ~refused /\ n = 10
    BY <1>3 DEF n, refused, Cdvd!Refused, Cdvd!Length
  <2>3. a \in Seq(Answers) /\ Len(a) = 10 /\ \A i \in 1..10 : a[i] = "zero"
    BY <2>1, BlankIs
  <2> QED BY <2>2, <2>3 DEF GoodAnswer, Refusals
<1>4. CASE c = "region"
  <2> DEFINE b == <<"zero", "region", "zero">>
             d == [i \in 1..7 |-> "region"]
             e == Cdvd!Blank(5)
             f == b \o d
  <2>1. a = f \o e
    BY <1>4 DEF a, Cdvd!Answer
  <2>8. ~refused /\ n = 15
    BY <1>4 DEF n, refused, Cdvd!Refused, Cdvd!Length
  <2>2. b \in Seq(Answers) /\ Len(b) = 3 /\ \A i \in 1..3 : b[i] \in {"zero", "region"}
    <3>1. b \in Seq(Answers) /\ Len(b) = 3 /\ b[1] = "zero" /\ b[2] = "region" /\ b[3] = "zero"
      BY DEF Answers
    <3>2. \A i \in 1..3 : i = 1 \/ i = 2 \/ i = 3
      OBVIOUS
    <3> QED BY <3>1, <3>2
  <2>3. d \in Seq(Answers) /\ Len(d) = 7 /\ \A i \in 1..7 : d[i] = "region"
    BY DEF Answers
  <2>4. e \in Seq(Answers) /\ Len(e) = 5 /\ \A i \in 1..5 : e[i] = "zero"
    BY BlankIs
  <2> HIDE DEF b, d, e
  <2>5. f \in Seq(Answers) /\ Len(f) = 10 /\ \A i \in 1..10 : f[i] \in {"zero", "region"}
    <3>1. /\ f \in Seq(Answers) /\ Len(f) = Len(b) + Len(d)
          /\ \A i \in 1..(Len(b) + Len(d)) : f[i] = IF i <= Len(b) THEN b[i] ELSE d[i - Len(b)]
      BY <2>2, <2>3, ConcatIs, Zenon
    <3> HIDE DEF f
    <3>2. f \in Seq(Answers) /\ Len(f) = 10
          /\ \A i \in 1..10 : f[i] = IF i <= 3 THEN b[i] ELSE d[i - 3]
      BY <2>2, <2>3, <3>1
    <3> QED BY <2>2, <2>3, <3>2
  <2> HIDE DEF f
  <2>6. a \in Seq(Answers) /\ Len(a) = 15 /\ \A i \in 1..15 : a[i] \in {"zero", "region"}
    <3>1. /\ (f \o e) \in Seq(Answers) /\ Len(f \o e) = Len(f) + Len(e)
          /\ \A i \in 1..(Len(f) + Len(e)) :
               (f \o e)[i] = IF i <= Len(f) THEN f[i] ELSE e[i - Len(f)]
      <4>1. f \in Seq(Answers) /\ e \in Seq(Answers)
        BY <2>4, <2>5
      <4> QED BY ONLY <4>1, ConcatIs, Zenon
    <3>3. /\ a \in Seq(Answers) /\ Len(a) = Len(f) + Len(e)
          /\ \A i \in 1..(Len(f) + Len(e)) :
               a[i] = IF i <= Len(f) THEN f[i] ELSE e[i - Len(f)]
      BY ONLY <2>1, <3>1, Zenon
    <3>2. a \in Seq(Answers) /\ Len(a) = 15
          /\ \A i \in 1..15 : a[i] = IF i <= 10 THEN f[i] ELSE e[i - 10]
      BY <2>4, <2>5, <3>3
    <3> QED BY <2>4, <2>5, <3>2
  <2>7. \A i \in 1..15 : a[i] \notin Refusals
    BY <2>6 DEF Refusals
  <2> QED BY <2>6, <2>7, <2>8 DEF GoodAnswer
<1>5. CASE c = "read"
  <2> DEFINE v == Cdvd!Error(config.rw # 0)
             b == <<v>>
             d == Cdvd!Blank(15)
  <2>1. a = b \o d
    <3>1. a = Cdvd!Head1(v, 16)
      BY <1>5 DEF a, Cdvd!Answer
    <3>2. 16 - 1 = 15
      OBVIOUS
    <3> QED BY <3>1, <3>2 DEF Cdvd!Head1
  <2>8. n = 16 /\ (refused <=> driver.opened \notin {Cdvd!None, 0})
    BY <1>5 DEF n, refused, Cdvd!Refused, Cdvd!Length
  <2>2. v = IF config.rw # 0 THEN "error" ELSE "zero"
    BY DEF Cdvd!Error
  <2>3. config.rw # 0 <=> driver.opened \notin {Cdvd!None, 0}
    BY DEF ConfigAgrees, CdvdDriver, None, Cdvd!None
  <2> HIDE DEF v
  <2>4. b \in Seq(Answers) /\ Len(b) = 1 /\ b[1] = v /\ (v \in Refusals <=> refused)
    BY <2>2, <2>3, <2>8 DEF Answers, Refusals
  <2>5. d \in Seq(Answers) /\ Len(d) = 15 /\ \A i \in 1..15 : d[i] = "zero"
    BY BlankIs
  <2> HIDE DEF b, d
  <2>6. a \in Seq(Answers) /\ Len(a) = 16 /\ a[1] = v /\ \A i \in 2..16 : a[i] = "zero"
    <3>1. /\ a \in Seq(Answers) /\ Len(a) = Len(b) + Len(d)
          /\ \A i \in 1..(Len(b) + Len(d)) :
               a[i] = IF i <= Len(b) THEN b[i] ELSE d[i - Len(b)]
      BY <2>1, <2>4, <2>5, ConcatIs, Zenon
    <3>2. a \in Seq(Answers) /\ Len(a) = 16
          /\ \A i \in 1..16 : a[i] = IF i <= 1 THEN b[i] ELSE d[i - 1]
      BY <2>4, <2>5, <3>1
    <3> QED BY <2>4, <2>5, <3>2
  <2>7. \A i \in 2..16 : a[i] \notin Refusals
    BY <2>6 DEF Refusals
  <2> QED BY <2>4, <2>6, <2>7, <2>8 DEF GoodAnswer
<1>6. CASE c = "write"
  <2> DEFINE v == Cdvd!Error(config.rw # 1)
  <2>1. a = <<v>> /\ n = 1 /\ (refused <=> driver.opened # 1)
    BY <1>6 DEF a, n, refused, Cdvd!Answer, Cdvd!Refused, Cdvd!Length
  <2>2. config.rw # 1 <=> driver.opened # 1
    BY DEF ConfigAgrees, CdvdDriver, None
  <2>3. v \in Answers /\ (v \in Refusals <=> config.rw # 1)
    BY DEF Cdvd!Error, Answers, Refusals
  <2> HIDE DEF v
  <2> QED BY <1>0, <2>1, <2>2, <2>3
<1>7. CASE c = "other"
  <2>1. a = <<"error">> /\ refused /\ n = 1
    BY <1>7 DEF a, n, refused, Cdvd!Answer, Cdvd!Refused, Cdvd!Length
  <2> QED BY <1>0, <2>1 DEF Answers, Refusals
<1>8. CASE c \in {"bypass", "open", "close"}
  <2>1. a = <<"zero">> /\ ~refused /\ n = 1
    BY <1>8 DEF a, n, refused, Cdvd!Answer, Cdvd!Refused, Cdvd!Length
  <2> QED BY <1>0, <2>1 DEF Answers, Refusals
<1> QED BY <1>1, <1>2, <1>3, <1>4, <1>5, <1>6, <1>7, <1>8 DEF Cdvd!Commands


(* A command answers its own parameters, and starts reading anew.           *)
LEMMA ExecuteKeeps ==
  ASSUME Cdvd!CdvdAssumption, CdvdInv, NEW c \in Cdvd!Commands, NEW rest \in Seq(CdvdBytes),
         Len(rest) <= 1, Cdvd!Execute(c, rest)
  PROVE  CdvdInv'
<1> DEFINE a == Cdvd!Answer(c)
           n == Cdvd!Length(c, driver.sent)
           refused == Cdvd!Refused(c, driver.sent, driver.opened)
           opened == CASE c = "open" /\ Len(driver.sent) >= 3 -> Head(driver.sent)
                       [] c = "close" -> None
                       [] OTHER -> driver.opened
           d == [sent |-> rest, got |-> <<>>, length |-> n, refused |-> refused,
                 opened |-> opened]
           k == Cdvd!Configured(c)
<1>1. /\ result' = a /\ pos' = 0 /\ ready' = TRUE /\ config' = k /\ params' = rest
      /\ driver' = d
  BY DEF Cdvd!Execute, Cdvd!Restart, Cdvd!None, None
<1>2. GoodAnswer(a, n, refused)
  BY AnswerIs DEF CdvdInv
<1>3. opened \in Nat \cup {None}
  <2>1. c = "open" /\ Len(driver.sent) >= 3 => opened = Head(driver.sent)
    OBVIOUS
  <2>2. c = "close" => opened = None
    OBVIOUS
  <2>3. ~(c = "open" /\ Len(driver.sent) >= 3) /\ c # "close" => opened = driver.opened
    OBVIOUS
  <2> HIDE DEF opened
  <2>4. Len(driver.sent) >= 3 => Head(driver.sent) \in Nat
    BY FifoIsSent DEF CdvdInv
  <2>5. driver.opened \in Nat \cup {None}
    BY DEF CdvdInv, CdvdDriver
  <2> QED BY <2>1, <2>2, <2>3, <2>4, <2>5
<1>4. /\ k \in [rw : Nat, blocks : Nat, index : Nat] /\ k.index <= k.blocks
      /\ k.rw = IF opened = None THEN 0 ELSE opened
  <2>0. /\ config \in [rw : Nat, blocks : Nat, index : Nat] /\ config.index <= config.blocks
        /\ config.rw = IF driver.opened = None THEN 0 ELSE driver.opened
        /\ params # <<>> => params[1] = Head(driver.sent) /\ params[1] \in Nat
        /\ Len(params) >= 3 <=> Len(driver.sent) >= 3
        /\ Len(params) >= 3 => params[3] \in Nat /\ params # <<>>
    BY FifoIsSent DEF CdvdInv, ConfigAgrees
  <2>1. CASE c = "open" /\ Len(params) >= 3
    <3>1. k = [rw |-> params[1], blocks |-> params[3], index |-> 0]
      BY <2>1 DEF Cdvd!Configured
    <3>2. opened = params[1] /\ params[1] \in Nat /\ params[3] \in Nat
      BY <2>0, <2>1
    <3> HIDE DEF k, opened
    <3> QED BY <3>1, <3>2 DEF None
  <2>2. CASE c \in {"read", "write"} /\ config.index < config.blocks
    <3>1. k = [config EXCEPT !.index = config.index + 1]
      BY <2>2 DEF Cdvd!Configured
    <3>2. opened = driver.opened
      BY <2>2
    <3> HIDE DEF k, opened
    <3>3. config.index \in Nat /\ config.blocks \in Nat
      BY <2>0
    <3>4. config.index + 1 \in Nat /\ config.index + 1 <= config.blocks
      BY <2>2, <3>3
    <3>5. /\ k \in [rw : Nat, blocks : Nat, index : Nat]
          /\ k.rw = config.rw /\ k.blocks = config.blocks /\ k.index = config.index + 1
      BY <2>0, <3>1, <3>4
    <3> QED BY <2>0, <3>2, <3>4, <3>5
  <2>3. CASE c = "close"
    <3>1. k = [rw |-> 0, blocks |-> 0, index |-> 0]
      BY <2>3 DEF Cdvd!Configured, Cdvd!Closed
    <3>2. opened = None
      BY <2>3
    <3> HIDE DEF k, opened
    <3> QED BY <3>1, <3>2
  <2>4. CASE /\ ~(c = "open" /\ Len(params) >= 3)
             /\ ~(c \in {"read", "write"} /\ config.index < config.blocks)
             /\ c # "close"
    <3>1. k = config
      BY <2>4 DEF Cdvd!Configured
    <3>2. opened = driver.opened
      BY <2>0, <2>4
    <3> HIDE DEF k, opened
    <3> QED BY <2>0, <3>1, <3>2
  <2> QED BY <2>1, <2>2, <2>3, <2>4
<1>5. refused \in BOOLEAN
  <2>1. CASE c = "mecha"
    <3>1. refused = (driver.sent = <<>> \/ Head(driver.sent) # 0)
      BY <2>1, Zenon DEF Cdvd!Refused
    <3> QED BY <3>1, Zenon
  <2>2. CASE c = "read"
    <3>1. refused = (driver.opened \notin {Cdvd!None, 0})
      BY <2>2, Zenon DEF Cdvd!Refused
    <3> QED BY <3>1, Zenon
  <2>3. CASE c = "write"
    <3>1. refused = (driver.opened # 1)
      BY <2>3, Zenon DEF Cdvd!Refused
    <3> QED BY <3>1, Zenon
  <2>4. CASE c \notin {"mecha", "read", "write"}
    <3>1. refused = (c = "other")
      BY <2>4, Zenon DEF Cdvd!Refused
    <3> QED BY <3>1, Zenon
  <2> QED BY <2>1, <2>2, <2>3, <2>4
<1> HIDE DEF a, n, refused, opened, k
<1>6. n \in Nat /\ Len(a) = n /\ a \in Seq(Answers) /\ n > 0
  BY <1>2 DEF GoodAnswer
<1>7. d \in CdvdDriver
  <2>1. <<>> \in Seq(Answers)
    OBVIOUS
  <2> QED BY <1>3, <1>5, <1>6, <2>1 DEF CdvdDriver
<1>8. d.sent = rest /\ d.got = <<>> /\ d.length = n /\ (d.refused <=> refused) /\ d.opened = opened
  OBVIOUS
<1> HIDE DEF d
<1>9. FifoAgrees'
  BY <1>1, <1>8 DEF FifoAgrees, Cdvd!CdvdAssumption
<1>10. ConfigAgrees'
  BY <1>1, <1>4, <1>8 DEF ConfigAgrees
<1>11. AnswerAgrees'
  BY <1>1, <1>2, <1>6, <1>8 DEF AnswerAgrees, GoodAnswer
<1>12. ReadingAgrees'
  BY <1>1, <1>6, <1>8 DEF ReadingAgrees
<1> QED BY <1>1, <1>7, <1>9, <1>10, <1>11, <1>12 DEF CdvdInv


(* A parameter goes to both what was sent and the FIFO, while that has room. *)
LEMMA ParameterKeeps ==
  ASSUME Cdvd!CdvdAssumption, CdvdInv, Cdvd!Parameter
  PROVE  CdvdInv'
<1> DEFINE s == driver.sent
<1>0. /\ s \in Seq(CdvdBytes) /\ params \in Seq(CdvdBytes) /\ driver \in CdvdDriver
      /\ Fifo \in Nat
  BY DEF CdvdInv, FifoAgrees, CdvdDriver, Cdvd!CdvdAssumption
<1>1. PICK v \in CdvdBytes : /\ params' = Cdvd!Pushed(params, v)
                             /\ driver' = [driver EXCEPT !.sent = Append(s, v)]
  BY DEF Cdvd!Parameter
<1>2. UNCHANGED <<result, pos, ready, config>>
  BY DEF Cdvd!Parameter
<1> DEFINE t == Append(s, v)
           d == [driver EXCEPT !.sent = t]
           p == Cdvd!Pushed(params, v)
<1>3. /\ t \in Seq(CdvdBytes) /\ Len(t) = Len(s) + 1 /\ t[Len(s) + 1] = v
      /\ \A i \in 1..Len(s) : t[i] = s[i]
  BY <1>0
<1>4. /\ Len(params) = IF Len(s) < Fifo THEN Len(s) ELSE Fifo
      /\ \A i \in 1..Len(params) : params[i] = s[i]
  BY DEF CdvdInv, FifoAgrees
<1>5. Len(s) \in Nat /\ Len(params) \in Nat
  BY <1>0
<1> HIDE DEF s, t
<1>6. /\ p \in Seq(CdvdBytes) /\ Len(p) = IF Len(t) < Fifo THEN Len(t) ELSE Fifo
      /\ \A i \in 1..Len(p) : p[i] = t[i]
  <2>1. CASE Len(params) < Fifo
    <3>1. p = Append(params, v)
      BY <2>1 DEF Cdvd!Pushed
    <3> HIDE DEF p
    <3>2. /\ p \in Seq(CdvdBytes) /\ Len(p) = Len(params) + 1 /\ p[Len(params) + 1] = v
          /\ \A i \in 1..Len(params) : p[i] = params[i]
      BY <1>0, <3>1
    <3>3. Len(params) = Len(s) /\ Len(p) = Len(t)
      BY <1>0, <1>3, <1>4, <1>5, <2>1, <3>2
    <3>4. \A i \in 1..Len(p) : p[i] = t[i]
      BY <1>3, <1>4, <1>5, <3>2, <3>3
    <3>5. Len(p) = IF Len(t) < Fifo THEN Len(t) ELSE Fifo
      BY <1>0, <1>3, <1>5, <2>1, <3>2, <3>3
    <3> QED BY <3>2, <3>4, <3>5
  <2>2. CASE ~(Len(params) < Fifo)
    <3>1. p = params
      BY <2>2 DEF Cdvd!Pushed
    <3> HIDE DEF p
    <3>2. \A i \in 1..Len(params) : i \in 1..Len(s)
      BY <1>0, <1>4, <1>5
    <3> QED BY <1>0, <1>3, <1>4, <1>5, <2>2, <3>1, <3>2
  <2> QED BY <2>1, <2>2
<1>7. /\ d \in CdvdDriver /\ d.sent = t /\ d.got = driver.got /\ d.length = driver.length
      /\ d.opened = driver.opened
  BY <1>0, <1>3 DEF CdvdDriver
<1>8. d.refused <=> driver.refused
  BY <1>0, <1>3 DEF CdvdDriver
<1>9. driver' = d /\ params' = p
  BY <1>1 DEF s, t
<1> HIDE DEF d, p
<1>10. FifoAgrees'
  BY <1>6, <1>7, <1>9 DEF FifoAgrees
<1>11. ConfigAgrees'
  BY <1>2, <1>7, <1>9 DEF CdvdInv, ConfigAgrees
<1>12. AnswerAgrees'
  BY <1>2, <1>7, <1>8, <1>9 DEF CdvdInv, AnswerAgrees
<1>13. ReadingAgrees'
  BY <1>2, <1>7, <1>9 DEF CdvdInv, ReadingAgrees
<1> QED BY <1>7, <1>9, <1>10, <1>11, <1>12, <1>13 DEF CdvdInv

(* A read takes the next byte of the answer, or zero after its end.         *)
LEMMA ReadKeeps ==
  ASSUME CdvdInv, Cdvd!ReadData
  PROVE  CdvdInv'
<1> DEFINE g == driver.got
           more == ready /\ pos < Len(result)
           b == IF more THEN result[pos + 1] ELSE "zero"
           t == Append(g, b)
           d == [driver EXCEPT !.got = t]
<1>0. /\ g \in Seq(Answers) /\ result \in Seq(Answers) /\ driver \in CdvdDriver
      /\ pos = IF Len(g) < Len(result) THEN Len(g) ELSE Len(result)
      /\ more <=> pos < Len(result)
      /\ \A i \in 1..Len(g) : g[i] = IF i <= Len(result) THEN result[i] ELSE "zero"
  BY DEF CdvdInv, ReadingAgrees, AnswerAgrees, CdvdDriver
<1>1. Len(g) \in Nat /\ Len(result) \in Nat
  BY <1>0
<1>2. /\ driver' = d /\ UNCHANGED <<params, result, config>>
      /\ more => pos' = pos + 1 /\ ready' = (pos + 1 < Len(result))
      /\ ~more => pos' = pos /\ ready' = ready
  <2>1. CASE more
    BY <2>1 DEF Cdvd!ReadData
  <2>2. CASE ~more
    BY <2>2 DEF Cdvd!ReadData
  <2> QED BY <2>1, <2>2
<1> HIDE DEF g, more
<1>3. b \in Answers
  <2>1. more => pos + 1 \in 1..Len(result)
    BY <1>0, <1>1
  <2>2. \A i \in 1..Len(result) : result[i] \in Answers
    BY <1>0
  <2>3. "zero" \in Answers
    BY DEF Answers
  <2> QED BY <2>1, <2>2, <2>3
<1>4. b = IF Len(g) + 1 <= Len(result) THEN result[Len(g) + 1] ELSE "zero"
  BY <1>0, <1>1
<1> HIDE DEF b
<1>5. /\ t \in Seq(Answers) /\ Len(t) = Len(g) + 1 /\ t[Len(g) + 1] = b
      /\ \A i \in 1..Len(g) : t[i] = g[i]
  BY <1>0, <1>3
<1> HIDE DEF t
<1>6. \A i \in 1..Len(t) : t[i] = IF i <= Len(result) THEN result[i] ELSE "zero"
  BY <1>0, <1>1, <1>4, <1>5
<1>7. /\ d \in CdvdDriver /\ d.sent = driver.sent /\ d.got = t /\ d.length = driver.length
      /\ d.opened = driver.opened
  BY <1>0, <1>5 DEF CdvdDriver
<1>8. d.refused <=> driver.refused
  BY <1>0, <1>5 DEF CdvdDriver
<1> HIDE DEF d
<1>9. FifoAgrees'
  BY <1>2, <1>7 DEF CdvdInv, FifoAgrees
<1>10. ConfigAgrees'
  BY <1>2, <1>7 DEF CdvdInv, ConfigAgrees
<1>11. AnswerAgrees'
  BY <1>2, <1>7, <1>8 DEF CdvdInv, AnswerAgrees
<1>12. pos' = IF Len(t) < Len(result) THEN Len(t) ELSE Len(result)
  BY <1>0, <1>1, <1>2, <1>5
<1>13. ready' \in BOOLEAN /\ (ready' <=> pos' < Len(result))
  <2>1. CASE more
    <3>1. ready' = (pos + 1 < Len(result)) /\ pos' = pos + 1
      BY <1>2, <2>1
    <3>2. (pos + 1 < Len(result)) \in BOOLEAN
      OBVIOUS
    <3>3. ready' \in BOOLEAN
      BY <3>1, <3>2, Zenon
    <3>4. ready' <=> pos' < Len(result)
      BY <3>1
    <3> QED BY <3>3, <3>4
  <2>2. CASE ~more
    BY <1>2, <2>2 DEF CdvdInv, ReadingAgrees
  <2> QED BY <2>1, <2>2
<1>14. ReadingAgrees'
  BY <1>2, <1>6, <1>7, <1>12, <1>13 DEF ReadingAgrees
<1> QED BY <1>2, <1>7, <1>9, <1>10, <1>11, <1>14 DEF CdvdInv

LEMMA CdvdStep ==
  ASSUME Cdvd!CdvdAssumption, CdvdInv, [Cdvd!Next]_Cdvd!vars
  PROVE  CdvdInv'
<1>1. CASE Cdvd!Command
  <2>1. <<>> \in Seq(CdvdBytes) /\ Len(<<>>) <= 1
    OBVIOUS
  <2> QED BY <1>1, <2>1, ExecuteKeeps DEF Cdvd!Command
<1>2. CASE Cdvd!CommandHalfword
  <2>1. PICK c \in Cdvd!Commands, v \in CdvdBytes : Cdvd!Execute(c, <<v>>)
    BY <1>2 DEF Cdvd!CommandHalfword
  <2>2. <<v>> \in Seq(CdvdBytes) /\ Len(<<v>>) <= 1
    OBVIOUS
  <2> QED BY <2>1, <2>2, ExecuteKeeps
<1>3. CASE UNCHANGED Cdvd!vars
  BY <1>3 DEF Cdvd!vars, CdvdInv, FifoAgrees, ConfigAgrees, AnswerAgrees, ReadingAgrees
<1> QED BY <1>1, <1>2, <1>3, ParameterKeeps, ReadKeeps DEF Cdvd!Next

LEMMA CdvdInit ==
  ASSUME Cdvd!CdvdAssumption, Cdvd!Init
  PROVE  CdvdInv
<1>1. <<>> \in Seq(CdvdBytes) /\ <<>> \in Seq(Answers) /\ Len(<<>>) = 0
  OBVIOUS
<1>2. driver \in CdvdDriver /\ driver.sent = <<>> /\ driver.got = <<>> /\ driver.length = 0
      /\ driver.opened = None
  BY <1>1 DEF Cdvd!Init, CdvdDriver, None, Cdvd!None
<1>3. FifoAgrees
  BY <1>1, <1>2 DEF Cdvd!Init, FifoAgrees, Cdvd!CdvdAssumption
<1>4. ConfigAgrees
  BY <1>2 DEF Cdvd!Init, ConfigAgrees, Cdvd!Closed
<1>5. /\ result \in Seq(Answers) /\ Len(result) = 0 /\ Len(driver.got) = 0
      /\ pos = 0 /\ ready \in BOOLEAN /\ ~ready
  BY <1>1, <1>2 DEF Cdvd!Init
<1>6. AnswerAgrees
  BY <1>2, <1>5 DEF AnswerAgrees
<1>7. ReadingAgrees
  BY <1>5 DEF ReadingAgrees
<1> QED BY <1>2, <1>3, <1>4, <1>6, <1>7 DEF CdvdInv

(* Reading a command's answer whole gives that command's answer, to what    *)
(* was sent for it, with neither a byte missing nor one of another.         *)
THEOREM CommandsTheorem == Spec => []CommandResults
<1>0. Cdvd!CdvdAssumption
  BY Constants
<1> DEFINE CdvdPart == part = "cdvd" => CdvdInv
<1>1. Init => CdvdPart
  BY <1>0, PartInit, CdvdInit
<1>2. CdvdPart /\ [Next]_vars => CdvdPart'
  BY <1>0, PartStep, CdvdStep
<1>3. CdvdPart => CommandResults
  <2> SUFFICES ASSUME CdvdInv PROVE Cdvd!CommandResults
    BY DEF CommandResults
  <2> DEFINE got == driver.got
             n == driver.length
  <2>1. /\ got \in Seq(Answers) /\ result \in Seq(Answers) /\ Len(result) = n
        /\ pos = IF Len(got) < Len(result) THEN Len(got) ELSE Len(result)
        /\ (ready <=> pos < Len(result))
    BY DEF CdvdInv, CdvdDriver, AnswerAgrees, ReadingAgrees
  <2>2. /\ \A i \in 1..Len(got) : got[i] = IF i <= n THEN result[i] ELSE "zero"
        /\ \A i \in 2..n : result[i] \notin Refusals
        /\ n > 0 => (result[1] \in Refusals <=> driver.refused)
        /\ config.index <= config.blocks
    BY <2>1 DEF CdvdInv, AnswerAgrees, ReadingAgrees, ConfigAgrees
  <2> HIDE DEF got, n
  <2>3. n \in Nat /\ Len(got) \in Nat /\ DOMAIN got = 1..Len(got)
    BY <2>1
  <2>4. ready <=> Len(got) < n
    BY <2>1, <2>3
  <2>5. got # <<>> => Head(got) = got[1] /\ 1 \in 1..Len(got)
    BY <2>1, <2>3
  <2>6. n > 0 /\ got # <<>> => (Head(got) \in Refusals <=> driver.refused)
    BY <2>2, <2>3, <2>5
  <2>7. ASSUME NEW i \in DOMAIN got
        PROVE  /\ i > n => got[i] = "zero"
               /\ i > 1 => got[i] \notin Refusals
               /\ i <= n => got[i] = result[i]
    <3>1. i \in 1..Len(got) /\ "zero" \notin Refusals
      BY <2>3 DEF Refusals
    <3>2. i > 1 /\ i <= n => i \in 2..n
      BY <2>3, <3>1
    <3> QED BY <2>2, <2>3, <3>1, <3>2
  <2> QED BY <2>2, <2>4, <2>6, <2>7 DEF Cdvd!CommandResults, Refusals, got, n
<1> QED BY <1>1, <1>2, <1>3, PTL DEF Spec

-----------------------------------------------------------------------------
(* Induction over the natural numbers.                                      *)
(* A set of natural numbers has a least element.                            *)
LEMMA Least ==
  ASSUME NEW T \in SUBSET Nat, T # {}
  PROVE  \E m \in T : \A n \in T : m <= n
<1> DEFINE R == OpToRel(<, Nat)
<1>1. IsWellFoundedOn(R, Nat)
  BY NatLessThanWellFounded, Zenon
<1>4. \A n, m \in Nat : n < m => <<n, m>> \in R
  BY Zenon DEF OpToRel
<1> HIDE DEF R
<1>2. PICK m \in T : \A n \in T : ~(<<n, m>> \in R)
  BY <1>1, WFMin, Zenon
<1>3. \A n \in T : ~(n < m)
  BY <1>2, <1>4
<1> QED BY <1>3

(* Induction, over a set instead of a predicate.                            *)
LEMMA Induction ==
  ASSUME NEW T, 0 \in T, \A k \in Nat : k \in T => k + 1 \in T
  PROVE  Nat \subseteq T
<1>1. SUFFICES ASSUME ~(Nat \subseteq T) PROVE FALSE
  OBVIOUS
<1>2. PICK m \in Nat \ T : \A n \in Nat \ T : m <= n
  <2>1. Nat \ T \in SUBSET Nat /\ Nat \ T # {}
    BY <1>1
  <2> QED BY <2>1, Least, Zenon
<1>3. m # 0 /\ m - 1 \in Nat
  BY <1>2
<1>4. m - 1 \in T
  BY <1>2, <1>3
<1>5. (m - 1) + 1 \in T
  BY <1>3, <1>4
<1> QED BY <1>2, <1>5
-----------------------------------------------------------------------------
(* Sums of what the items of a sequence of pairs count, as AotDispatch's    *)
(* Total of what ran.                                                       *)

Sums(f, s) == f = [i \in 0..Len(s) |-> IF i = 0 THEN 0 ELSE f[i - 1] + s[i][2]]

(* There is such a sum, built item by item.                                 *)
LEMMA SumsExist ==
  ASSUME NEW s \in Seq(Nat \X Nat)
  PROVE  \E f : Sums(f, s)
<1> DEFINE Upto(f, n) == /\ f \in [0..n -> Nat] /\ f[0] = 0
                         /\ \A i \in 1..n : f[i] = f[i - 1] + s[i][2]
           T == {n \in Nat : n <= Len(s) => \E f : Upto(f, n)}
<1>0. \A i \in 1..Len(s) : s[i][2] \in Nat
  OBVIOUS
<1>1. \A n \in Nat : n \in T <=> (n <= Len(s) => \E f : Upto(f, n))
  BY Zenon
<1> HIDE DEF T
<1>2. 0 \in T
  <2> DEFINE f == [i \in 0..0 |-> 0]
  <2>1. Upto(f, 0)
    OBVIOUS
  <2> HIDE DEF f, Upto
  <2>2. \E g : Upto(g, 0)
    BY <2>1
  <2> QED BY <1>1, <2>2
<1>3. ASSUME NEW n \in Nat, n \in T PROVE n + 1 \in T
  <2>1. CASE ~(n + 1 <= Len(s))
    BY <1>1, <1>3, <2>1
  <2>2. CASE n + 1 <= Len(s)
    <3>1. n <= Len(s) /\ n + 1 \in 1..Len(s)
      BY <1>3, <2>2
    <3>2. \E f : Upto(f, n)
      <4> HIDE DEF Upto
      <4> QED BY <1>1, <1>3, <3>1
    <3>3. PICK f : Upto(f, n)
      BY <3>2, Zenon
    <3> DEFINE v == f[n] + s[n + 1][2]
               g == [i \in 0..(n + 1) |-> IF i = n + 1 THEN v ELSE f[i]]
    <3>4. v \in Nat
      <4>1. f[n] \in Nat
        BY <1>3, <3>3
      <4> QED BY <1>0, <3>1, <4>1
    <3>5. v = f[n] + s[n + 1][2]
      OBVIOUS
    <3> HIDE DEF v
    <3>6. g \in [0..(n + 1) -> Nat]
      BY <1>3, <3>3, <3>4
    <3>7. (\A i \in 0..n : g[i] = f[i]) /\ g[n + 1] = v
      BY <1>3
    <3> HIDE DEF g
    <3>8. \A i \in 1..(n + 1) : g[i] = g[i - 1] + s[i][2]
      <4> SUFFICES ASSUME NEW i \in 1..(n + 1) PROVE g[i] = g[i - 1] + s[i][2]
        OBVIOUS
      <4>1. CASE i = n + 1
        BY <1>3, <3>5, <3>7, <4>1
      <4>2. CASE i \in 1..n
        <5>1. i \in 0..n /\ i - 1 \in 0..n
          BY <1>3, <4>2
        <5>2. f[i] = f[i - 1] + s[i][2]
          BY <3>3, <4>2
        <5> QED BY ONLY <3>7, <5>1, <5>2
      <4> QED BY <1>3, <4>1, <4>2
    <3>9. g[0] = 0
      BY <1>3, <3>3, <3>7
    <3>10. Upto(g, n + 1)
      BY <3>6, <3>8, <3>9
    <3> HIDE DEF Upto
    <3>11. n + 1 \in Nat
      BY <1>3
    <3> QED BY <1>1, <3>10, <3>11
  <2> QED BY <2>1, <2>2
<1>4. Nat \subseteq T
  BY <1>2, <1>3, Induction, Zenon
<1>5. PICK f : Upto(f, Len(s))
  <2>1. Len(s) \in T /\ Len(s) \in Nat /\ Len(s) <= Len(s)
    BY <1>4
  <2> HIDE DEF Upto
  <2> QED BY <1>1, <2>1
<1>6. \A i \in 0..Len(s) : f[i] = IF i = 0 THEN 0 ELSE f[i - 1] + s[i][2]
  BY <1>5
<1>7. f = [i \in 0..Len(s) |-> f[i]]
  BY <1>5
<1> QED BY <1>6, <1>7 DEF Sums

LEMMA SumItems ==
  ASSUME NEW s \in Seq(Nat \X Nat)
  PROVE  Len(s) \in Nat /\ \A i \in 1..Len(s) : s[i][2] \in Nat
  OBVIOUS

(* Sums of sequences agree as far as the sequences do.                      *)
LEMMA SumsAgree ==
  ASSUME NEW s \in Seq(Nat \X Nat), NEW t \in Seq(Nat \X Nat), Len(s) <= Len(t),
         \A i \in 1..Len(s) : s[i] = t[i],
         NEW f, NEW g, Sums(f, s), Sums(g, t)
  PROVE  g[Len(s)] = f[Len(s)] /\ f[Len(s)] \in Nat
<1> DEFINE T == {n \in Nat : n <= Len(s) => g[n] = f[n] /\ f[n] \in Nat}
<1>0. \A n \in Nat : n \in T <=> (n <= Len(s) => g[n] = f[n] /\ f[n] \in Nat)
  BY Zenon
<1> HIDE DEF T
<1>1. \A i \in 0..Len(s) : f[i] = IF i = 0 THEN 0 ELSE f[i - 1] + s[i][2]
  BY DEF Sums
<1>2. \A i \in 0..Len(t) : g[i] = IF i = 0 THEN 0 ELSE g[i - 1] + t[i][2]
  BY DEF Sums
<1>6. Len(s) \in Nat /\ Len(t) \in Nat /\ \A i \in 1..Len(s) : s[i][2] \in Nat
  BY SumItems, Zenon
<1>7. Len(s) <= Len(t) /\ \A i \in 1..Len(s) : s[i] = t[i]
  OBVIOUS
<1>3. 0 \in T
  BY <1>0, <1>1, <1>2, <1>6
<1>4. ASSUME NEW n \in Nat, n \in T PROVE n + 1 \in T
  <2>1. CASE ~(n + 1 <= Len(s))
    BY <1>0, <1>4, <2>1
  <2>2. CASE n + 1 <= Len(s)
    <3>1. g[n] = f[n] /\ f[n] \in Nat
      <4>1. n <= Len(s)
        BY <1>4, <1>6, <2>2
      <4> QED BY ONLY <1>0, <1>4, <4>1
    <3>2. f[n + 1] = f[n] + s[n + 1][2] /\ g[n + 1] = g[n] + t[n + 1][2]
      <4>1. n + 1 \in 0..Len(s) /\ n + 1 \in 0..Len(t) /\ n + 1 # 0 /\ (n + 1) - 1 = n
        BY ONLY <1>4, <1>6, <1>7, <2>2
      <4> QED BY ONLY <1>1, <1>2, <4>1
    <3>3. s[n + 1] = t[n + 1] /\ s[n + 1][2] \in Nat
      <4>1. n + 1 \in 1..Len(s)
        BY ONLY <1>4, <1>6, <2>2
      <4> QED BY ONLY <1>6, <1>7, <4>1
    <3>4. g[n + 1] = f[n + 1] /\ f[n + 1] \in Nat
      BY ONLY <3>1, <3>2, <3>3
    <3>5. n + 1 \in Nat
      BY <1>4
    <3> QED BY <1>0, <3>4, <3>5
  <2> QED BY <2>1, <2>2
<1>5. Nat \subseteq T
  BY <1>3, <1>4, Induction, Zenon
<1> QED BY <1>0, <1>5, <1>6

SumOf(s) == CHOOSE f : f = [i \in 0..Len(s) |-> IF i = 0 THEN 0 ELSE f[i - 1] + s[i][2]]

LEMMA SumOfIs ==
  ASSUME NEW s \in Seq(Nat \X Nat)
  PROVE  Sums(SumOf(s), s)
<1>1. \E f : f = [i \in 0..Len(s) |-> IF i = 0 THEN 0 ELSE f[i - 1] + s[i][2]]
  BY SumsExist, Zenon DEF Sums
<1> QED BY <1>1, Zenon DEF SumOf, Sums

(* What another call adds to the sum.                                       *)
LEMMA SumGrows ==
  ASSUME NEW s \in Seq(Nat \X Nat), NEW a \in Nat, NEW b \in Nat
  PROVE  LET t == Append(s, <<a, b>>)
         IN  t \in Seq(Nat \X Nat) /\ Len(t) = Len(s) + 1
             /\ SumOf(t)[Len(t)] = SumOf(s)[Len(s)] + b
<1> DEFINE t == Append(s, <<a, b>>)
           f == SumOf(s)
           g == SumOf(t)
<1>1. /\ t \in Seq(Nat \X Nat) /\ Len(t) = Len(s) + 1
      /\ \A i \in 1..Len(s) : t[i] = s[i]
      /\ t[Len(s) + 1] = <<a, b>>
  OBVIOUS
<1>2. <<a, b>>[2] = b
  OBVIOUS
<1>8. Len(s) \in Nat
  OBVIOUS
<1> SUFFICES t \in Seq(Nat \X Nat) /\ Len(t) = Len(s) + 1 /\ g[Len(t)] = f[Len(s)] + b
  BY Zenon
<1> HIDE DEF t
<1>3. Sums(f, s) /\ Sums(g, t)
  BY <1>1, SumOfIs, Zenon
<1> HIDE DEF f, g
<1>4. Len(s) <= Len(t)
  BY <1>1, <1>8
<1>5. g[Len(s)] = f[Len(s)]
  <2>1. \A i \in 1..Len(s) : s[i] = t[i]
    BY <1>1
  <2>2. s \in Seq(Nat \X Nat)
    OBVIOUS
  <2>3. t \in Seq(Nat \X Nat)
    BY <1>1
  <2>4. Sums(f, s)
    BY <1>3
  <2>5. Sums(g, t)
    BY <1>3
  <2>6. g[Len(s)] = f[Len(s)] /\ f[Len(s)] \in Nat
    BY ONLY <1>4, <2>1, <2>2, <2>3, <2>4, <2>5, SumsAgree, Zenon
  <2> QED BY <2>6
<1>6. g[Len(s) + 1] = g[Len(s)] + t[Len(s) + 1][2]
  <2>1. \A i \in 0..Len(t) : g[i] = IF i = 0 THEN 0 ELSE g[i - 1] + t[i][2]
    BY ONLY <1>3 DEF Sums
  <2>2. Len(s) + 1 \in 0..Len(t) /\ Len(s) + 1 # 0 /\ (Len(s) + 1) - 1 = Len(s)
    BY ONLY <1>1, <1>8
  <2> QED BY ONLY <2>1, <2>2
<1> QED BY ONLY <1>1, <1>2, <1>5, <1>6

-----------------------------------------------------------------------------
(* The dispatcher of native code                                            *)

(* An accepted table, whose entries are checked one by one and against the  *)
(* neighbour, is apart and in order at any distance.                        *)
EntriesApart ==
  \A i, j \in 1..Len(package.entries) :
    i < j => /\ package.entries[i].from < package.entries[j].from
             /\ package.entries[i].to <= package.entries[j].from

LEMMA ValidIsApart ==
  ASSUME Aot!AotAssumption, package \in Packages, Aot!Valid(package)
  PROVE  EntriesApart
<1> DEFINE e == package.entries
           n == Len(e)
           T == {j \in Nat : j + 1 <= n => \A i \in 1..j : e[i].to <= e[j + 1].from}
<1>1. e \in Seq(Aot!Entry) /\ n \in Nat
  BY DEF Aot!AotAssumption
<1>2. \A i \in 1..n : e[i].from \in Nat /\ e[i].to \in Nat
  <2>1. \A i \in 1..n : e[i] \in Aot!Entry
    BY <1>1
  <2> QED BY ONLY <2>1 DEF Aot!Entry
<1>3. \A i \in 1..n : e[i].from < e[i].to /\ (i = 1 \/ e[i].from >= e[i - 1].to)
  BY <1>1 DEF Aot!Valid, Aot!EntryOk, Aot!Follows
<1>0. \A j \in Nat : j \in T <=> (j + 1 <= n => \A i \in 1..j : e[i].to <= e[j + 1].from)
  BY Zenon
<1> HIDE DEF e, n, T
<1>4. 0 \in T
  BY <1>0
<1>5. ASSUME NEW j \in Nat, j \in T PROVE j + 1 \in T
  <2> SUFFICES ASSUME (j + 1) + 1 <= n, NEW i \in 1..(j + 1) PROVE e[i].to <= e[(j + 1) + 1].from
    <3>1. j + 1 \in Nat
      BY <1>5
    <3> QED BY <1>0, <3>1
  <2>1. j + 1 \in 1..n /\ j + 2 \in 1..n /\ (j + 1) + 1 = j + 2 /\ (j + 2) - 1 = j + 1 /\ j + 2 # 1
    BY <1>1, <1>5
  <2>2. e[j + 2].from >= e[j + 1].to
    BY <1>3, <2>1
  <2>3. CASE i = j + 1
    BY <1>2, <2>1, <2>2, <2>3
  <2>4. CASE i # j + 1
    <3>1. i \in 1..j /\ i \in 1..n /\ j + 1 <= n
      BY <1>1, <1>5, <2>1, <2>4
    <3>2. e[i].to <= e[j + 1].from
      BY <1>0, <1>5, <3>1
    <3>3. e[j + 1].from < e[j + 1].to
      BY <1>3, <2>1
    <3> QED BY <1>2, <2>1, <2>2, <3>1, <3>2, <3>3
  <2> QED BY <2>3, <2>4
<1>6. Nat \subseteq T
  BY <1>4, <1>5, Induction, Zenon
<1>7. ASSUME NEW i \in 1..n, NEW j \in 1..n, i < j
      PROVE  e[i].from < e[j].from /\ e[i].to <= e[j].from
  <2>1. j - 1 \in Nat /\ (j - 1) + 1 = j /\ i \in 1..(j - 1) /\ j <= n
    BY <1>1, <1>7
  <2>2. e[i].to <= e[j].from
    <3>1. j - 1 \in T
      BY <1>6, <2>1
    <3> QED BY <1>0, <2>1, <3>1
  <2> QED BY <1>2, <1>3, <1>7, <2>2
<1> QED BY <1>7 DEF EntriesApart, e, n

(* The invariant of the dispatcher: what the search has excluded, and what  *)
(* has been counted.                                                        *)
Excluded ==
  step = "search" =>
    /\ first <= last /\ last <= Len(package.entries)
    /\ \A i \in 1..Len(package.entries) :
         /\ i <= first => package.entries[i].from < pc
         /\ i > last => package.entries[i].from > pc

Counted ==
  /\ ran \in Seq(Nat \X Nat) /\ calls = Len(ran) /\ instructions = Aot!Total[Len(ran)]
  /\ \A i \in DOMAIN ran : ran[i][1] \in Aot!Starts

Ended ==
  step = "done" =>
    /\ exit.instructions = instructions /\ exit.target = pc
    /\ exit.kind \in {"interpreter", "stop"}
    /\ Aot!Valid(package) /\ pc \in Aot!Starts /\ Len(ran) = 0 => budget = 0

AotInv ==
  /\ package \in Packages /\ pc \in Nat /\ budget \in Nat
  /\ first \in Nat /\ last \in Nat /\ step \in {"search", "call", "done"}
  /\ ran # <<>> => Aot!Valid(package)
  /\ step # "done" => Aot!Valid(package) /\ calls < budget
  /\ step = "call" => pc \in Aot!Starts
  /\ calls <= budget
  /\ Excluded /\ Counted /\ Ended

LEMMA PackageFacts ==
  ASSUME Aot!AotAssumption, package \in Packages
  PROVE  /\ Len(package.entries) \in Nat /\ DOMAIN package.entries = 1..Len(package.entries)
         /\ \A i \in 1..Len(package.entries) : package.entries[i].from \in Nat
<1>1. package.entries \in Seq(Aot!Entry)
  BY DEF Aot!AotAssumption
<1> DEFINE e == package.entries
<1>2. e \in Seq(Aot!Entry)
  BY <1>1
<1> SUFFICES Len(e) \in Nat /\ DOMAIN e = 1..Len(e) /\ \A i \in 1..Len(e) : e[i].from \in Nat
  OBVIOUS
<1> HIDE DEF e
<1>3. Len(e) \in Nat /\ DOMAIN e = 1..Len(e) /\ \A i \in 1..Len(e) : e[i] \in Aot!Entry
  BY <1>2
<1> QED BY ONLY <1>3 DEF Aot!Entry

(* Nothing that only reads the package and the native calls changes these.  *)
LEMMA CountKeeps ==
  ASSUME Counted, UNCHANGED <<package, calls, instructions, ran>>
  PROVE  Counted' /\ Aot!Starts' = Aot!Starts /\ (Aot!Valid(package))' = Aot!Valid(package)
<1>1. Aot!Total' = Aot!Total
  BY DEF Aot!Total
<1>2. Aot!Starts' = Aot!Starts
  BY DEF Aot!Starts
<1>3. (Aot!Valid(package))' = Aot!Valid(package)
  BY DEF Aot!Valid, Aot!EntryOk, Aot!Follows, Aot!Aligned
<1> QED BY <1>1, <1>2, <1>3 DEF Counted

(* The middle entry is one of those that remain.                            *)
LEMMA MiddleIs ==
  ASSUME AotInv, step = "search", first < last
  PROVE  /\ Aot!Middle \in Nat /\ first <= Aot!Middle /\ Aot!Middle < last
<1>1. first \in Nat /\ last \in Nat
  BY DEF AotInv
<1> QED BY <1>1 DEF Aot!Middle

(* A step of the search throws away only entries that are not the one.      *)
LEMMA SearchStep ==
  ASSUME Aot!AotAssumption, AotInv, Aot!Lower \/ Aot!Higher
  PROVE  AotInv'
<1> DEFINE e == package.entries
           n == Len(e)
           m == Aot!Middle
           k == m + 1
<1>0. /\ package \in Packages /\ first \in Nat /\ last \in Nat /\ pc \in Nat /\ Counted
      /\ step = "search" /\ first < last /\ Aot!Valid(package)
      /\ last <= n
      /\ \A i \in 1..n : (i <= first => e[i].from < pc) /\ (i > last => e[i].from > pc)
  BY DEF Aot!Lower, Aot!Higher, AotInv, Excluded
<1>1. n \in Nat /\ \A i \in 1..n : e[i].from \in Nat
  BY <1>0, PackageFacts
<1>2. \A i, j \in 1..n : i < j => e[i].from < e[j].from
  BY <1>0, ValidIsApart DEF EntriesApart
<1>3. m \in Nat /\ first <= m /\ m < last
  BY <1>0, MiddleIs
<1>4. UNCHANGED <<package, step, pc, calls, budget, instructions, exit, ran>>
  BY DEF Aot!Lower, Aot!Higher
<1>5. \/ pc < e[k].from /\ last' = m /\ first' = first
      \/ pc > e[k].from /\ first' = k /\ last' = last
  BY DEF Aot!Lower, Aot!Higher, Aot!At, Aot!Upper
<1>6. k \in 1..n
  BY <1>0, <1>1, <1>3
<1>7. k = m + 1
  OBVIOUS
<1>8. step' = step /\ pc' = pc /\ Len(package.entries)' = n /\ package' = package
  BY <1>4
<1> HIDE DEF m, k
<1>9. /\ first' \in Nat /\ last' \in Nat
      /\ Excluded'
  <2>1. CASE pc < e[k].from /\ last' = m /\ first' = first
    <3>1. \A i \in 1..n : i > m => e[i].from > pc
      <4> SUFFICES ASSUME NEW i \in 1..n, i > m PROVE e[i].from > pc
        OBVIOUS
      <4>1. i = k \/ k < i
        BY <1>3, <1>7
      <4> HIDE DEF n, e
      <4> QED BY <1>0, <1>1, <1>2, <1>6, <2>1, <4>1
    <3> HIDE DEF n, e
    <3>2. first <= m /\ m <= n
      BY <1>0, <1>1, <1>3
    <3> QED BY <1>0, <1>3, <1>8, <2>1, <3>1, <3>2 DEF Excluded, n, e
  <2>2. CASE pc > e[k].from /\ first' = k /\ last' = last
    <3>1. \A i \in 1..n : i <= k => e[i].from < pc
      <4> SUFFICES ASSUME NEW i \in 1..n, i <= k PROVE e[i].from < pc
        OBVIOUS
      <4>1. i = k \/ i < k
        BY <1>3, <1>7
      <4> HIDE DEF n, e
      <4> QED BY <1>0, <1>1, <1>2, <1>6, <2>2, <4>1
    <3> HIDE DEF n, e
    <3>2. k \in Nat /\ k <= last
      BY <1>0, <1>3, <1>7
    <3> QED BY <1>0, <1>8, <2>2, <3>1, <3>2 DEF Excluded, n, e
  <2> QED BY <1>5, <2>1, <2>2
<1> HIDE DEF n, e
<1>10. Counted' /\ Aot!Starts' = Aot!Starts /\ (Aot!Valid(package))' = Aot!Valid(package)
  BY <1>0, <1>4, CountKeeps
<1> QED BY <1>0, <1>4, <1>9, <1>10 DEF AotInv, Ended

(* The search ends at an entry that starts at the PC, or shows there is none. *)
LEMMA FoundStep ==
  ASSUME Aot!AotAssumption, AotInv, Aot!Found
  PROVE  AotInv'
<1>1. /\ step = "search" /\ first < last /\ pc = Aot!At(Aot!Middle).from /\ step' = "call"
      /\ UNCHANGED <<package, pc, first, last, calls, budget, instructions, exit, ran>>
  BY DEF Aot!Found
<1>2. package \in Packages /\ Counted /\ last <= Len(package.entries)
  BY <1>1 DEF AotInv, Excluded
<1>3. Counted' /\ Aot!Starts' = Aot!Starts /\ (Aot!Valid(package))' = Aot!Valid(package)
  BY <1>1, <1>2, CountKeeps
<1>4. pc \in Aot!Starts
  <2> DEFINE k == Aot!Middle + 1
  <2>1. k \in 1..Len(package.entries)
    <3>1. first \in Nat /\ last \in Nat /\ Len(package.entries) \in Nat
      BY <1>2, PackageFacts DEF AotInv
    <3>2. Aot!Middle \in Nat /\ Aot!Middle < last
      BY <1>1, MiddleIs
    <3> HIDE DEF Aot!Middle
    <3> QED BY <1>2, <3>1, <3>2
  <2>2. pc = package.entries[k].from
    BY <1>1 DEF Aot!At
  <2> HIDE DEF k
  <2>3. k \in DOMAIN package.entries
    BY <1>2, <2>1, PackageFacts
  <2> QED BY <2>2, <2>3 DEF Aot!Starts
<1>5. Excluded' /\ Ended'
  BY <1>1 DEF Excluded, Ended
<1> QED BY <1>1, <1>2, <1>3, <1>4, <1>5 DEF AotInv

LEMMA MissingStep ==
  ASSUME Aot!AotAssumption, AotInv, Aot!Missing
  PROVE  AotInv'
<1>1. /\ step = "search" /\ first >= last /\ step' = "done"
      /\ exit' = [kind |-> "interpreter", target |-> pc', instructions |-> instructions']
      /\ UNCHANGED <<package, pc, first, last, calls, budget, instructions, ran>>
  BY DEF Aot!Missing, Aot!Finish
<1>2. package \in Packages /\ Counted /\ first \in Nat /\ last \in Nat /\ pc \in Nat
  BY DEF AotInv
<1>3. Counted' /\ Aot!Starts' = Aot!Starts /\ (Aot!Valid(package))' = Aot!Valid(package)
  BY <1>1, <1>2, CountKeeps
<1>4. pc \notin Aot!Starts
  <2> SUFFICES ASSUME NEW i \in DOMAIN package.entries PROVE package.entries[i].from # pc
    BY DEF Aot!Starts
  <2>1. i \in 1..Len(package.entries) /\ package.entries[i].from \in Nat
    BY <1>2, PackageFacts
  <2>2. i <= first \/ i > last
    BY <1>1, <1>2, <2>1
  <2>3. package.entries[i].from < pc \/ package.entries[i].from > pc
    BY <1>1, <2>1, <2>2 DEF AotInv, Excluded
  <2> QED BY <1>2, <2>1, <2>3
<1>5. Ended'
  BY <1>1, <1>3, <1>4 DEF Ended
<1>6. Excluded'
  BY <1>1 DEF Excluded
<1> QED BY <1>1, <1>2, <1>3, <1>5, <1>6 DEF AotInv

(* A native call is one more of the history, and one less of the budget.    *)
LEMMA CallStep ==
  ASSUME Aot!AotAssumption, AotInv, Aot!Call
  PROVE  AotInv'
<1>1. PICK kind \in Aot!Exits, target \in Addresses, n \in Costs :
         /\ pc' = target /\ instructions' = instructions + n
         /\ calls' = calls + 1 /\ ran' = Append(ran, <<pc, n>>)
         /\ UNCHANGED <<package, budget>>
         /\ IF kind \notin {"direct", "indirect"}
            THEN Aot!Finish(kind) /\ UNCHANGED <<first, last>>
            ELSE IF calls' = budget
            THEN Aot!Finish("interpreter") /\ UNCHANGED <<first, last>>
            ELSE step' = "search" /\ first' = 0 /\ last' = Len(package.entries) /\ UNCHANGED exit
  BY DEF Aot!Call
<1>2. /\ package \in Packages /\ pc \in Nat /\ budget \in Nat /\ first \in Nat /\ last \in Nat
      /\ ran \in Seq(Nat \X Nat) /\ calls = Len(ran) /\ instructions = Aot!Total[Len(ran)]
      /\ \A i \in DOMAIN ran : ran[i][1] \in Aot!Starts
      /\ Aot!Valid(package) /\ calls < budget /\ pc \in Aot!Starts
  BY DEF Aot!Call, AotInv, Counted
<1>3. target \in Nat /\ n \in Nat
  BY DEF Aot!AotAssumption
<1>4. Aot!Starts' = Aot!Starts /\ (Aot!Valid(package))' = Aot!Valid(package)
  <2>1. package' = package
    BY <1>1
  <2> QED BY <2>1 DEF Aot!Starts, Aot!Valid, Aot!EntryOk, Aot!Follows, Aot!Aligned
<1> DEFINE t == Append(ran, <<pc, n>>)
<1>5. Aot!Total = SumOf(ran) /\ Aot!Total' = SumOf(ran')
  BY DEF Aot!Total, SumOf
<1>6. /\ t \in Seq(Nat \X Nat) /\ Len(t) = Len(ran) + 1
      /\ SumOf(t)[Len(t)] = SumOf(ran)[Len(ran)] + n
  BY <1>2, <1>3, SumGrows, Zenon
<1>7. \A i \in DOMAIN t : t[i][1] \in Aot!Starts
  <2>1. /\ DOMAIN t = 1..(Len(ran) + 1) /\ DOMAIN ran = 1..Len(ran) /\ Len(ran) \in Nat
        /\ \A i \in 1..Len(ran) : t[i] = ran[i]
        /\ t[Len(ran) + 1] = <<pc, n>>
    BY <1>2, <1>3
  <2>2. <<pc, n>>[1] = pc
    OBVIOUS
  <2> HIDE DEF t
  <2> SUFFICES ASSUME NEW i \in DOMAIN t PROVE t[i][1] \in Aot!Starts
    OBVIOUS
  <2>3. i \in 1..Len(ran) \/ i = Len(ran) + 1
    BY ONLY <2>1
  <2> QED BY ONLY <1>2, <2>1, <2>2, <2>3
<1>8. ran' = t
  BY <1>1
<1> HIDE DEF t
<1>9. calls' \in Nat /\ calls' <= budget /\ Len(t) > 0 /\ t # <<>>
  BY <1>1, <1>2, <1>6
<1>10. Counted'
  <2>1. calls' = Len(t) /\ instructions' = SumOf(t)[Len(t)]
    BY ONLY <1>1, <1>2, <1>5, <1>6
  <2> QED BY <1>4, <1>5, <1>6, <1>7, <1>8, <2>1 DEF Counted
<1>11. /\ pc' \in Nat /\ package' = package /\ budget' = budget
       /\ pc' = target /\ ran' # <<>> /\ Len(ran') > 0
  BY <1>1, <1>3, <1>8, <1>9
<1>12. ASSUME NEW k \in {"interpreter", "stop"}, Aot!Finish(k), UNCHANGED <<first, last>>
       PROVE  AotInv'
  <2>1. step' = "done" /\ exit' = [kind |-> k, target |-> pc', instructions |-> instructions']
    BY <1>12 DEF Aot!Finish
  <2>2. Ended' /\ Excluded'
    BY <1>11, <1>12, <2>1 DEF Ended, Excluded
  <2> QED BY <1>2, <1>4, <1>9, <1>10, <1>11, <1>12, <2>1, <2>2 DEF AotInv
<1>13. CASE kind \notin {"direct", "indirect"}
  <2>1. kind \in {"interpreter", "stop"}
    BY <1>13 DEF Aot!Exits
  <2>2. Aot!Finish(kind) /\ UNCHANGED <<first, last>>
    BY <1>1, <1>13
  <2> QED BY <1>12, <2>1, <2>2
<1>14. CASE kind \in {"direct", "indirect"} /\ calls' = budget
  <2>1. Aot!Finish("interpreter") /\ UNCHANGED <<first, last>>
    BY <1>1, <1>14
  <2> QED BY <1>12, <2>1
<1>15. CASE kind \in {"direct", "indirect"} /\ calls' # budget
  <2>1. step' = "search" /\ first' = 0 /\ last' = Len(package.entries)
    BY <1>1, <1>15
  <2>2. /\ Len(package.entries) \in Nat
        /\ \A i \in 1..Len(package.entries) : package.entries[i].from \in Nat
    BY <1>2, PackageFacts
  <2>3. Excluded'
    <3>1. \A i \in 1..Len(package.entries) : ~(i <= 0) /\ ~(i > Len(package.entries))
      BY <2>2
    <3>2. 0 <= Len(package.entries) /\ Len(package.entries) <= Len(package.entries)
      BY <2>2
    <3> QED BY <1>11, <2>1, <3>1, <3>2 DEF Excluded
  <2>4. calls' < budget
    BY <1>2, <1>9, <1>15
  <2>5. Ended'
    BY <2>1 DEF Ended
  <2> QED BY <1>2, <1>4, <1>9, <1>10, <1>11, <2>1, <2>2, <2>3, <2>4, <2>5 DEF AotInv
<1> QED BY <1>13, <1>14, <1>15

LEMMA AotStep ==
  ASSUME Aot!AotAssumption, AotInv, [Aot!Next]_Aot!vars
  PROVE  AotInv'
<1>1. CASE UNCHANGED Aot!vars
  <2>1. UNCHANGED <<package, step, pc, first, last, calls, budget, instructions, exit, ran>>
    BY <1>1 DEF Aot!vars
  <2>2. Counted' /\ Aot!Starts' = Aot!Starts /\ (Aot!Valid(package))' = Aot!Valid(package)
    BY <2>1, CountKeeps DEF AotInv
  <2> QED BY <2>1, <2>2 DEF AotInv, Excluded, Ended
<1> QED BY <1>1, SearchStep, FoundStep, MissingStep, CallStep DEF Aot!Next

LEMMA AotInit ==
  ASSUME Aot!AotAssumption, Aot!Init
  PROVE  AotInv
<1>1. /\ package \in Packages /\ pc \in Nat /\ budget \in Nat
      /\ first = 0 /\ last = Len(package.entries) /\ calls = 0 /\ instructions = 0 /\ ran = <<>>
  BY DEF Aot!Init, Aot!AotAssumption
<1>2. \/ Aot!Valid(package) /\ budget > 0 /\ step = "search"
      \/ /\ ~(Aot!Valid(package) /\ budget > 0) /\ step = "done"
         /\ exit = [kind |-> "interpreter", target |-> pc, instructions |-> 0]
  BY DEF Aot!Init
<1>3. /\ Len(package.entries) \in Nat
      /\ \A i \in 1..Len(package.entries) : package.entries[i].from \in Nat
  BY <1>1, PackageFacts
<1>4. Counted
  <2>1. ran \in Seq(Nat \X Nat) /\ Len(ran) = 0 /\ DOMAIN ran = {}
    BY <1>1
  <2>2. Aot!Total = SumOf(ran)
    BY DEF Aot!Total, SumOf
  <2>3. Sums(SumOf(ran), ran)
    BY <2>1, SumOfIs, Zenon
  <2> DEFINE f == SumOf(ran)
  <2>4. f = [i \in 0..Len(ran) |-> IF i = 0 THEN 0 ELSE f[i - 1] + ran[i][2]]
    BY <2>3 DEF Sums
  <2>5. f[0] = 0
    <3> HIDE DEF f
    <3>1. 0 \in 0..Len(ran)
      BY <2>1
    <3> QED BY ONLY <2>4, <3>1
  <2> QED BY <1>1, <2>1, <2>2, <2>5 DEF Counted
<1>5. Excluded
  <2>1. \A i \in 1..Len(package.entries) : ~(i <= 0) /\ ~(i > Len(package.entries))
    BY <1>3
  <2>2. 0 <= Len(package.entries) /\ Len(package.entries) <= Len(package.entries)
    BY <1>3
  <2> QED BY <1>1, <2>1, <2>2 DEF Excluded
<1>6. Ended
  <2>1. budget > 0 \/ budget = 0
    BY <1>1
  <2> QED BY <1>1, <1>2, <2>1 DEF Ended
<1> QED BY <1>1, <1>2, <1>3, <1>4, <1>5, <1>6 DEF AotInv

(* Native code runs at an address exactly when an accepted package has an   *)
(* entry that starts there, within the budget, and every instruction that   *)
(* ran is reported: for tables of any size, searched as the code does.      *)
THEOREM DispatchTheorem == Spec => []DispatchExact
<1>0. Aot!AotAssumption
  BY Constants
<1> DEFINE AotPart == part = "aot" => AotInv
<1>1. Init => AotPart
  BY <1>0, PartInit, AotInit
<1>2. AotPart /\ [Next]_vars => AotPart'
  BY <1>0, PartStep, AotStep
<1>3. AotPart => DispatchExact
  <2> SUFFICES ASSUME AotInv PROVE Aot!DispatchExact
    BY DEF DispatchExact
  <2>1. Aot!Disjoint
    <3> SUFFICES ASSUME Aot!Valid(package), NEW i \in DOMAIN package.entries,
                        NEW j \in DOMAIN package.entries, i < j
                 PROVE  package.entries[i].to <= package.entries[j].from
      BY DEF Aot!Disjoint
    <3>1. package \in Packages
      BY DEF AotInv
    <3> QED BY <1>0, <3>1, PackageFacts, ValidIsApart DEF EntriesApart
  <2>2. Len(ran) <= budget
    BY DEF AotInv, Counted
  <2>3. step = "done" =>
          /\ exit.instructions = Aot!Total[Len(ran)] /\ exit.target = pc
          /\ exit.kind \in {"interpreter", "stop"}
          /\ Aot!Valid(package) /\ pc \in Aot!Starts /\ Len(ran) = 0 => budget = 0
    BY DEF AotInv, Counted, Ended
  <2>4. /\ step = "call" => pc \in Aot!Starts
        /\ \A i \in DOMAIN ran : ran[i][1] \in Aot!Starts
        /\ ran # <<>> => Aot!Valid(package)
    BY DEF AotInv, Counted
  <2> QED BY <2>1, <2>2, <2>3, <2>4 DEF Aot!DispatchExact
<1> QED BY <1>1, <1>2, <1>3, PTL DEF Spec


-----------------------------------------------------------------------------
(* The ELF loader                                                           *)

(* An address's page and offset give it back.                               *)
LEMMA PagesGiveBack ==
  ASSUME NEW p \in Nat \ {0}, NEW k \in Nat, NEW a \in Nat, a < k
  PROVE  a \div p \in 0..(k \div p) /\ (a \div p) * p + (a % p) = a
<1> DEFINE x == a \div p
           y == k \div p
<1>1. /\ x \in Nat /\ a % p \in Nat /\ a % p < p /\ a = p * x + (a % p)
      /\ y \in Nat /\ k % p \in Nat /\ k % p < p /\ k = p * y + (k % p)
  OBVIOUS
<1> HIDE DEF x, y
<1>2. x <= y
  <2>1. SUFFICES ASSUME x >= y + 1 PROVE FALSE
    BY <1>1
  <2>2. p * x >= p * (y + 1)
    BY <1>1, <2>1
  <2>3. p * (y + 1) = p * y + p
    BY <1>1
  <2> QED BY <1>1, <2>2, <2>3
<1>3. x * p = p * x
  BY <1>1
<1>4. (a \div p) * p + (a % p) = a
  BY <1>1, <1>3 DEF x
<1> QED BY <1>1, <1>2, <1>4 DEF x, y

(* Without translations an address is that of its cell.                     *)
LEMMA Untranslated ==
  ASSUME Elf!ElfAssumption, NEW a \in Nat
  PROVE  Elf!Physical(a, Elf!Unmapped) = IF a >= Kseg THEN a - Kseg ELSE a
<1>1. CASE a >= Kseg
  BY <1>1 DEF Elf!Physical
<1>2. CASE ~(a >= Kseg)
  <2>1. Page \in Nat \ {0} /\ Kseg \in Nat /\ a < Kseg
    BY <1>2 DEF Elf!ElfAssumption
  <2>2. a \div Page \in 0..(Kseg \div Page) /\ (a \div Page) * Page + (a % Page) = a
    BY <2>1, PagesGiveBack, Zenon
  <2>3. Elf!Unmapped[a \div Page] = a \div Page
    BY <2>2 DEF Elf!Unmapped
  <2>4. Elf!Physical(a, Elf!Unmapped) = (a \div Page) * Page + (a % Page)
    BY <1>2, <2>3, Zenon DEF Elf!Physical
  <2> QED BY ONLY <1>2, <2>2, <2>4
<1> QED BY <1>1, <1>2

(* What a file must be like for segment s to be taken.                      *)
Takes(s) == s.inFile /\ s.filesz <= s.memsz /\ Elf!First(s) + s.memsz <= RamSize

(* Where a taken segment's bytes and its zeros go.                          *)
LEMMA SegmentPlace ==
  ASSUME Elf!ElfAssumption, NEW s \in Elf!Segment, Takes(s)
  PROVE  /\ Elf!First(s) \in Nat
         /\ Elf!Physical(s.vaddr, Elf!Unmapped) = Elf!First(s)
         /\ Elf!Physical(s.vaddr + s.filesz, Elf!Unmapped) = Elf!First(s) + s.filesz
<1>1. RamSize \in Nat /\ Kseg \in Nat /\ RamSize < Kseg
  BY DEF Elf!ElfAssumption
<1>2. /\ s.vaddr \in Nat /\ s.filesz \in Nat /\ s.memsz \in Nat
      /\ s.filesz <= s.memsz /\ Elf!First(s) + s.memsz <= RamSize
      /\ Elf!First(s) = IF s.vaddr >= Kseg THEN s.vaddr - Kseg ELSE s.vaddr
  BY DEF Elf!Segment, Takes, Elf!First
<1> DEFINE v == s.vaddr
           f == s.filesz
           a == v + f
<1>3. v \in Nat /\ a \in Nat
  BY <1>2
<1>4. /\ Elf!Physical(v, Elf!Unmapped) = IF v >= Kseg THEN v - Kseg ELSE v
      /\ Elf!Physical(a, Elf!Unmapped) = IF a >= Kseg THEN a - Kseg ELSE a
  <2> HIDE DEF v, a
  <2> QED BY <1>3, Untranslated
<1>5. a >= Kseg <=> v >= Kseg
  BY <1>1, <1>2
<1> QED BY <1>1, <1>2, <1>4, <1>5

(* On a machine without translations, LoadSegment's checks are Takes.       *)
LEMMA SegmentChecks ==
  ASSUME Elf!ElfAssumption, NEW s \in Elf!Segment
  PROVE  LET start == Elf!Physical(s.vaddr, Elf!Unmapped)
             rest == Elf!Physical(s.vaddr + s.filesz, Elf!Unmapped)
         IN  /\ s.filesz <= s.memsz /\ s.inFile
             /\ Elf!InRam(start, s.memsz) \/ Elf!Elsewhere(start, s.memsz)
             /\ Elf!InRam(start, s.filesz) /\ Elf!InRam(rest, s.memsz - s.filesz)
             <=> Takes(s)
<1> DEFINE start == Elf!Physical(s.vaddr, Elf!Unmapped)
           rest == Elf!Physical(s.vaddr + s.filesz, Elf!Unmapped)
           lhs == /\ s.filesz <= s.memsz /\ s.inFile
                  /\ Elf!InRam(start, s.memsz) \/ Elf!Elsewhere(start, s.memsz)
                  /\ Elf!InRam(start, s.filesz) /\ Elf!InRam(rest, s.memsz - s.filesz)
<1>1. RamSize \in Nat /\ Kseg \in Nat /\ RamSize < Kseg /\ Page \in Nat \ {0}
  BY DEF Elf!ElfAssumption
<1>2. s.vaddr \in Nat /\ s.filesz \in Nat /\ s.memsz \in Nat
  BY DEF Elf!Segment
<1>3. start = Elf!First(s)
  BY <1>2, Untranslated DEF Elf!First
<1>4. Elf!First(s) \in Nat
  BY <1>1, <1>2 DEF Elf!First
<1>5. ASSUME Takes(s) PROVE lhs
  <2>1. rest = start + s.filesz
    BY <1>3, <1>5, SegmentPlace
  <2> HIDE DEF start, rest
  <2> QED BY <1>1, <1>2, <1>3, <1>4, <1>5, <2>1 DEF Takes, Elf!InRam
<1>6. ASSUME lhs PROVE Takes(s)
  <2> HIDE DEF start, rest
  <2> QED BY <1>1, <1>2, <1>3, <1>4, <1>6 DEF Takes, Elf!InRam, Elf!Elsewhere
<1>7. lhs <=> Takes(s)
  BY <1>5, <1>6
<1> QED BY <1>7, Zenon

(* A cell is as the segments before n leave it: the last one's that covers   *)
(* it, or zero.                                                             *)
Laid(c, n) ==
  \/ \E i \in Elf!Loads :
       /\ i < n /\ Elf!Covers(i, c)
       /\ \A j \in Elf!Loads : j < n /\ Elf!Covers(j, c) => j <= i
       /\ ram[c] = IF c - Elf!First(image.segments[i]) < image.segments[i].filesz
                   THEN <<i, c - Elf!First(image.segments[i])>> ELSE Elf!Zero
  \/ (\A i \in Elf!Loads : i < n => ~Elf!Covers(i, c)) /\ ram[c] = Elf!Zero

(* The invariant: half a load from an empty memory has placed the segments   *)
(* it has come to, and a whole one all of them.                             *)
Loading ==
  step = "segment" =>
    /\ image \in Images /\ image.header /\ tlb = left
    /\ next \in 1..(Len(image.segments) + 1) /\ loaded \in Nat
    /\ left = Elf!Unmapped =>
         /\ \A i \in Elf!Loads : i < next => Takes(image.segments[i])
         /\ loaded # 0 <=> \E i \in Elf!Loads : i < next
         /\ \A c \in Elf!Cells : Laid(c, next)

Loaded ==
  step = "done" =>
    /\ image \in Images
    /\ ok <=> ready
    /\ left = Elf!Unmapped => (Elf!Fits => ok) /\ (ok => Elf!Placed)
    /\ left = Elf!Unmapped /\ ok =>
         \A c \in Elf!Cells : Laid(c, Len(image.segments) + 1)

ElfInv ==
  /\ step \in {"idle", "segment", "done"} /\ ok \in BOOLEAN /\ ready \in BOOLEAN
  /\ Loading /\ Loaded

LEMMA ImageFacts ==
  ASSUME Elf!ElfAssumption, image \in Images
  PROVE  /\ Len(image.segments) \in Nat /\ DOMAIN image.segments = 1..Len(image.segments)
         /\ \A i \in 1..Len(image.segments) : image.segments[i] \in Elf!Segment
         /\ Elf!Loads = {i \in 1..Len(image.segments) : image.segments[i].load}
         /\ image.header \in BOOLEAN /\ image.entry \in Nat
<1>1. /\ image.segments \in Seq(Elf!Segment)
      /\ image.header \in BOOLEAN /\ image.entry \in Nat
  BY DEF Elf!ElfAssumption
<1> DEFINE s == image.segments
<1>2. s \in Seq(Elf!Segment)
  BY <1>1
<1>5. Elf!Loads = {i \in DOMAIN s : s[i].load}
  BY DEF Elf!Loads
<1> SUFFICES /\ Len(s) \in Nat /\ DOMAIN s = 1..Len(s)
             /\ \A i \in 1..Len(s) : s[i] \in Elf!Segment
             /\ Elf!Loads = {i \in 1..Len(s) : s[i].load}
  BY <1>1
<1> HIDE DEF s
<1>3. Len(s) \in Nat /\ DOMAIN s = 1..Len(s) /\ \A i \in 1..Len(s) : s[i] \in Elf!Segment
  BY <1>2
<1> QED BY ONLY <1>3, <1>5

(* Fits and Placed are Takes of every PT_LOAD segment, and an entry in RAM. *)
LEMMA PlacedIs ==
  Elf!Placed <=> /\ image.header /\ Elf!Loads # {}
                 /\ \A i \in Elf!Loads : Takes(image.segments[i])
  BY DEF Elf!Placed, Takes

LEMMA EntryChecks ==
  ASSUME Elf!ElfAssumption, NEW a \in Nat, a < RamSize \/ a - Kseg \in Elf!Cells
  PROVE  Elf!InRam(Elf!Physical(a, Elf!Unmapped), 1)
<1>1. RamSize \in Nat /\ Kseg \in Nat /\ RamSize < Kseg
  BY DEF Elf!ElfAssumption
<1>2. Elf!Physical(a, Elf!Unmapped) = IF a >= Kseg THEN a - Kseg ELSE a
  BY Untranslated
<1> DEFINE p == Elf!Physical(a, Elf!Unmapped)
<1>3. p = IF a >= Kseg THEN a - Kseg ELSE a
  BY <1>2
<1> HIDE DEF p
<1>4. p + 1 <= RamSize /\ p \in Nat
  BY <1>1, <1>3 DEF Elf!Cells
<1>5. Elf!InRam(p, 1)
  BY <1>1, <1>4 DEF Elf!InRam
<1> QED BY <1>5 DEF p

(* Once every segment has been laid, memory is as expected.                 *)
LEMMA LaidIsExpected ==
  ASSUME Elf!ElfAssumption, image \in Images, NEW c, Laid(c, Len(image.segments) + 1)
  PROVE  ram[c] = Elf!Expected(c)
<1> DEFINE n == Len(image.segments) + 1
           covering == {i \in Elf!Loads : Elf!Covers(i, c)}
           top == Elf!Max(covering)
<1>1. n \in Nat /\ \A i \in Elf!Loads : i \in Nat /\ i < n
  BY ImageFacts
<1>2. Elf!Expected(c) = IF covering # {} /\ c - Elf!First(image.segments[top])
                                             < image.segments[top].filesz
                        THEN <<top, c - Elf!First(image.segments[top])>> ELSE Elf!Zero
  BY DEF Elf!Expected
<1>3. CASE (\A i \in Elf!Loads : i < n => ~Elf!Covers(i, c)) /\ ram[c] = Elf!Zero
  <2>1. covering = {}
    BY <1>1, <1>3
  <2> HIDE DEF covering, top
  <2> QED BY <1>2, <1>3, <2>1
<1>4. ASSUME NEW i \in Elf!Loads, i < n, Elf!Covers(i, c),
             \A j \in Elf!Loads : j < n /\ Elf!Covers(j, c) => j <= i,
             ram[c] = IF c - Elf!First(image.segments[i]) < image.segments[i].filesz
                      THEN <<i, c - Elf!First(image.segments[i])>> ELSE Elf!Zero
      PROVE  ram[c] = Elf!Expected(c)
  <2>1. i \in covering /\ \A j \in covering : i >= j
    BY <1>1, <1>4
  <2>2. \A j \in covering : j \in Nat
    BY <1>1
  <2>3. top = CHOOSE x \in covering : \A y \in covering : x >= y
    BY DEF Elf!Max
  <2> HIDE DEF covering
  <2>4. top \in covering /\ \A y \in covering : top >= y
    <3>1. \E x \in covering : \A y \in covering : x >= y
      BY <2>1
    <3> HIDE DEF top
    <3> QED BY ONLY <2>3, <3>1, Zenon
  <2> HIDE DEF top
  <2>5. top = i
    BY <2>1, <2>2, <2>4
  <2> QED BY <1>2, <1>4, <2>1, <2>5
<1> QED BY <1>3, <1>4 DEF Laid

(* What copying a segment in and clearing the rest of it leaves in a cell.   *)
LEMMA SegmentLaid ==
  ASSUME Elf!ElfAssumption, NEW s \in Elf!Segment, Takes(s), NEW i, NEW m,
         tlb = Elf!Unmapped, NEW c \in Elf!Cells
  PROVE  LET offset == c - Elf!First(s)
         IN  Elf!Bss(Elf!CopyIn(m, i, s), s)[c] =
               IF offset \in 0..(s.memsz - 1)
               THEN IF offset < s.filesz THEN <<i, offset>> ELSE Elf!Zero
               ELSE m[c]
<1> DEFINE start == Elf!First(s)
           rest == start + s.filesz
           q == Elf!CopyIn(m, i, s)
           r == Elf!Bss(q, s)
<1>1. /\ start \in Nat
      /\ Elf!Physical(s.vaddr, Elf!Unmapped) = start
      /\ Elf!Physical(s.vaddr + s.filesz, Elf!Unmapped) = rest
  BY SegmentPlace
<1>2. s.filesz \in Nat /\ s.memsz \in Nat /\ s.filesz <= s.memsz
  BY DEF Elf!Segment, Takes
<1>3. c \in Nat
  BY DEF Elf!Cells
<1>4. q[c] = IF c \in start..(start + s.filesz - 1) THEN <<i, c - start>> ELSE m[c]
  BY <1>1 DEF Elf!CopyIn
<1> HIDE DEF q
<1>5. r[c] = IF c \in rest..(rest + s.memsz - s.filesz - 1) THEN Elf!Zero ELSE q[c]
  BY <1>1 DEF Elf!Bss
<1>6. rest = start + s.filesz
  OBVIOUS
<1> HIDE DEF r, rest, start
<1> DEFINE f == s.filesz
           z == s.memsz
<1> DEFINE d == c - start
<1>7. /\ c \in start..(start + f - 1) <=> d \in 0..(z - 1) /\ d < f
      /\ c \in rest..(rest + z - f - 1) <=> d \in 0..(z - 1) /\ ~(d < f)
  <2>1. f \in Nat /\ z \in Nat /\ f <= z /\ rest = start + f
    BY <1>2, <1>6
  <2>2. d \in Int /\ d = c - start
    BY <1>1, <1>3
  <2> HIDE DEF f, z, d
  <2>3. c \in start..(start + f - 1) <=> d \in 0..(z - 1) /\ d < f
    BY ONLY <1>1, <1>3, <2>1, <2>2
  <2>4. c \in rest..(rest + z - f - 1) <=> d \in 0..(z - 1) /\ ~(d < f)
    BY ONLY <1>1, <1>3, <2>1, <2>2
  <2> QED BY <2>3, <2>4
<1>8. r[c] = IF c - start \in 0..(z - 1)
             THEN IF c - start < f THEN <<i, c - start>> ELSE Elf!Zero
             ELSE m[c]
  BY ONLY <1>4, <1>5, <1>7
<1> QED BY <1>8, Zenon DEF r, q, start

(* A segment the loader takes is laid over those before it.                 *)
LEMMA TakenStep ==
  ASSUME Elf!ElfAssumption, image \in Images, tlb = Elf!Unmapped,
         NEW n \in Elf!Loads, Takes(image.segments[n]),
         image' = image, ram' = Elf!Bss(Elf!CopyIn(ram, n, image.segments[n]), image.segments[n]),
         NEW c \in Elf!Cells, Laid(c, n)
  PROVE  Laid(c, n + 1)'
<1> DEFINE s == image.segments[n]
           offset == c - Elf!First(s)
           r == Elf!Bss(Elf!CopyIn(ram, n, s), s)
           Bytes(i) == IF c - Elf!First(image.segments[i]) < image.segments[i].filesz
                       THEN <<i, c - Elf!First(image.segments[i])>> ELSE Elf!Zero
           Last(i) == /\ i < n + 1 /\ Elf!Covers(i, c)
                      /\ \A j \in Elf!Loads : j < n + 1 /\ Elf!Covers(j, c) => j <= i
                      /\ r[c] = Bytes(i)
<1>1. n \in Nat /\ s \in Elf!Segment /\ \A i \in Elf!Loads : i \in Nat
  BY ImageFacts
<1>2. r[c] = IF offset \in 0..(s.memsz - 1)
             THEN IF offset < s.filesz THEN <<n, offset>> ELSE Elf!Zero
             ELSE ram[c]
  <2>1. Takes(s) /\ tlb = Elf!Unmapped /\ c \in Elf!Cells /\ Elf!ElfAssumption
    OBVIOUS
  <2> HIDE DEF s
  <2> QED BY ONLY <1>1, <2>1, SegmentLaid, Zenon DEF r, offset
<1>3. Elf!Covers(n, c) <=> offset \in 0..(s.memsz - 1)
  BY DEF Elf!Covers
<1>4. ram' = r /\ image' = image
  OBVIOUS
<1> HIDE DEF r
<1>5. \A i \in Elf!Loads : i < n + 1 <=> i < n \/ i = n
  <2>1. \A i \in Nat : i < n + 1 <=> i < n \/ i = n
    BY ONLY <1>1
  <2> QED BY ONLY <1>1, <2>1
<1>6. /\ \A i \in Elf!Loads : i < n => i <= n
      /\ n <= n /\ n < n + 1
  BY ONLY <1>1
<1>7. \/ \E i \in Elf!Loads : Last(i)
      \/ (\A i \in Elf!Loads : i < n + 1 => ~Elf!Covers(i, c)) /\ r[c] = Elf!Zero
  <2>1. CASE Elf!Covers(n, c)
    <3>1. r[c] = Bytes(n)
      BY <1>2, <1>3, <2>1
    <3> HIDE DEF Bytes
    <3>2. Last(n)
      BY ONLY <1>5, <1>6, <2>1, <3>1
    <3> QED BY <3>2
  <2>2. CASE ~Elf!Covers(n, c)
    <3>1. r[c] = ram[c]
      BY <1>2, <1>3, <2>2
    <3>2. CASE (\A i \in Elf!Loads : i < n => ~Elf!Covers(i, c)) /\ ram[c] = Elf!Zero
      BY <1>5, <2>2, <3>1, <3>2
    <3>3. ASSUME NEW i \in Elf!Loads, i < n, Elf!Covers(i, c),
                 \A j \in Elf!Loads : j < n /\ Elf!Covers(j, c) => j <= i, ram[c] = Bytes(i)
          PROVE  Last(i)
      <4> HIDE DEF Bytes
      <4> QED BY <1>5, <2>2, <3>1, <3>3
    <3> QED BY <3>2, <3>3 DEF Laid
  <2> QED BY <2>1, <2>2
<1>8. /\ Elf!Loads' = Elf!Loads
      /\ \A i : (Elf!Covers(i, c))' <=> Elf!Covers(i, c)
  BY <1>4 DEF Elf!Loads, Elf!Covers, Elf!First
<1>9. \A i : Bytes(i)' = Bytes(i)
  BY <1>4 DEF Elf!First, Elf!Zero
<1> HIDE DEF Bytes
<1>10. CASE \E i \in Elf!Loads : Last(i)
  <2>1. PICK i \in Elf!Loads : Last(i)
    BY <1>10
  <2>2. i \in Elf!Loads' /\ (Elf!Covers(i, c))' /\ ram'[c] = Bytes(i)'
    BY <1>4, <1>8, <1>9, <2>1
  <2>3. i < n + 1 /\ \A j \in Elf!Loads' : j < n + 1 /\ (Elf!Covers(j, c))' => j <= i
    BY <1>8, <2>1
  <2> QED BY <2>2, <2>3 DEF Laid, Bytes
<1>11. CASE (\A i \in Elf!Loads : i < n + 1 => ~Elf!Covers(i, c)) /\ r[c] = Elf!Zero
  BY <1>4, <1>8, <1>11 DEF Laid, Elf!Zero
<1> QED BY <1>7, <1>10, <1>11

LEMMA ImageIndices ==
  ASSUME Elf!ElfAssumption, NEW m \in Images
  PROVE  /\ Len(m.segments) \in Nat /\ m.header \in BOOLEAN
         /\ \A i \in DOMAIN m.segments : ~(i < 1)
<1>1. m.segments \in Seq(Elf!Segment) /\ m.header \in BOOLEAN
  BY DEF Elf!ElfAssumption
<1> DEFINE s == m.segments
<1>2. s \in Seq(Elf!Segment)
  BY <1>1
<1> HIDE DEF s
<1>3. Len(s) \in Nat /\ \A i \in DOMAIN s : ~(i < 1)
  BY <1>2
<1> QED BY <1>1, <1>3 DEF s

LEMMA LoadStep ==
  ASSUME Elf!ElfAssumption, ElfInv, Elf!Load
  PROVE  ElfInv'
<1>1. /\ image' \in Images /\ ram' = Elf!Blank /\ next' = 1 /\ loaded' = 0
      /\ left' = tlb /\ tlb' = tlb
  BY DEF Elf!Load
<1>2. /\ Len(image'.segments) \in Nat /\ image'.header \in BOOLEAN
      /\ \A i \in DOMAIN image'.segments : ~(i < 1)
  BY <1>1, ImageIndices
<1>3. CASE image'.header
  <2>1. step' = "segment" /\ ok' = ok /\ ready' = ready
    BY <1>3 DEF Elf!Load
  <2>2. 1 \in 1..(Len(image'.segments) + 1) /\ 0 \in Nat
    BY <1>2
  <2>3. \A i \in Elf!Loads' : ~(i < 1)
    BY <1>2 DEF Elf!Loads
  <2>4. \A c \in Elf!Cells : Laid(c, next)'
    <3> SUFFICES ASSUME NEW c \in Elf!Cells PROVE Laid(c, next)'
      OBVIOUS
    <3>1. ram'[c] = Elf!Zero
      BY <1>1 DEF Elf!Blank
    <3> QED BY <1>1, <2>3, <3>1 DEF Laid, Elf!Zero
  <2>5. Loading'
    BY <1>1, <1>3, <2>1, <2>2, <2>3, <2>4 DEF Loading, Elf!Cells
  <2>6. Loaded'
    BY <2>1 DEF Loaded
  <2> QED BY <2>1, <2>5, <2>6 DEF ElfInv
<1>4. CASE ~image'.header
  <2>1. step' = "done" /\ ok' = FALSE /\ ready' = FALSE
    BY <1>4 DEF Elf!Load, Elf!Fail
  <2>2. ~Elf!Fits'
    BY <1>4 DEF Elf!Fits, Elf!Placed
  <2>3. Loading' /\ Loaded'
    BY <1>1, <2>1, <2>2 DEF Loading, Loaded
  <2> QED BY <2>1, <2>3 DEF ElfInv
<1> QED BY <1>3, <1>4

(* A load that fails leaves nothing that can be run; it must have been of a  *)
(* file that does not fit.                                                  *)
LEMMA FailKeeps ==
  ASSUME ElfInv, image' \in Images, Elf!Fail, left' = Elf!Unmapped => ~Elf!Fits'
  PROVE  ElfInv'
<1>1. step' = "done" /\ ok' = FALSE /\ ready' = FALSE
  BY DEF Elf!Fail
<1>2. Loading' /\ Loaded'
  BY <1>1 DEF Loading, Loaded
<1> QED BY <1>1, <1>2 DEF ElfInv

LEMMA LoadSegmentStep ==
  ASSUME Elf!ElfAssumption, ElfInv, Elf!LoadSegment
  PROVE  ElfInv'
<1> DEFINE s == image.segments[next]
           start == Elf!Physical(s.vaddr, tlb)
           rest == Elf!Physical(s.vaddr + s.filesz, tlb)
           placed == /\ s.filesz <= s.memsz /\ s.inFile
                     /\ Elf!Valid(s.vaddr, s.memsz) /\ Elf!InRam(start, s.filesz)
           mapped == placed /\ Elf!InRam(rest, s.memsz - s.filesz)
<1>1. /\ step = "segment" /\ next <= Len(image.segments)
      /\ UNCHANGED <<image, tlb, left>>
      /\ \/ ~s.load /\ next' = next + 1 /\ UNCHANGED <<step, loaded, ok, ready, ram>>
         \/ /\ s.load /\ mapped
            /\ ram' = Elf!Bss(Elf!CopyIn(ram, next, s), s)
            /\ next' = next + 1 /\ loaded' = loaded + 1 /\ UNCHANGED <<step, ok, ready>>
         \/ s.load /\ ~mapped /\ Elf!Fail
  BY DEF Elf!LoadSegment
<1>2. /\ image \in Images /\ image.header /\ tlb = left
      /\ next \in 1..(Len(image.segments) + 1) /\ loaded \in Nat
  BY <1>1 DEF ElfInv, Loading
<1>3. left = Elf!Unmapped =>
         /\ \A i \in Elf!Loads : i < next => Takes(image.segments[i])
         /\ loaded # 0 <=> \E i \in Elf!Loads : i < next
         /\ \A c \in Elf!Cells : Laid(c, next)
  BY <1>1 DEF ElfInv, Loading
<1>4. /\ next \in 1..Len(image.segments) /\ s \in Elf!Segment
      /\ next + 1 \in 1..(Len(image.segments) + 1)
  <2>1. Len(image.segments) \in Nat
    BY <1>2, ImageFacts
  <2>2. next \in 1..Len(image.segments) /\ next + 1 \in 1..(Len(image.segments) + 1)
    BY <1>1, <1>2, <2>1
  <2> QED BY <1>2, <2>2, ImageFacts
<1>5. next \in Elf!Loads <=> s.load
  BY <1>2, <1>4, ImageFacts
<1>6. left = Elf!Unmapped => (mapped <=> Takes(s))
  <2> SUFFICES ASSUME tlb = Elf!Unmapped PROVE mapped <=> Takes(s)
    BY <1>2
  <2>1. /\ start = Elf!Physical(s.vaddr, Elf!Unmapped)
        /\ rest = Elf!Physical(s.vaddr + s.filesz, Elf!Unmapped)
    OBVIOUS
  <2>2. Elf!Valid(s.vaddr, s.memsz) <=> Elf!InRam(start, s.memsz) \/ Elf!Elsewhere(start, s.memsz)
    BY DEF Elf!Valid
  <2>3. /\ s.filesz <= s.memsz /\ s.inFile
        /\ Elf!InRam(start, s.memsz) \/ Elf!Elsewhere(start, s.memsz)
        /\ Elf!InRam(start, s.filesz) /\ Elf!InRam(rest, s.memsz - s.filesz)
        <=> Takes(s)
    BY <1>4, <2>1, SegmentChecks, Zenon
  <2> HIDE DEF start, rest, s
  <2> QED BY <2>2, <2>3
<1>7. /\ Elf!Loads' = Elf!Loads /\ \A i : Takes(image.segments[i])' = Takes(image.segments[i])
      /\ Elf!Placed' = Elf!Placed /\ Elf!Fits' = Elf!Fits
  <2>1. image' = image
    BY <1>1
  <2> QED BY <2>1 DEF Elf!Loads, Takes, Elf!First, Elf!Placed, Elf!Fits
<1>8. \A i \in Elf!Loads : i < next + 1 <=> i < next \/ i = next
  <2>1. \A i \in Nat : i < next + 1 <=> i < next \/ i = next
    BY ONLY <1>4
  <2>2. \A i \in Elf!Loads : i \in Nat
    BY <1>2, ImageFacts
  <2> QED BY ONLY <2>1, <2>2
<1> HIDE DEF mapped
<1>9. CASE ~s.load /\ next' = next + 1 /\ UNCHANGED <<step, loaded, ok, ready, ram>>
  <2> DEFINE n == next
             m == n + 1
  <2>1. m \in 1..(Len(image.segments) + 1) /\ next' = m
    BY <1>4, <1>9
  <2>2. \A i \in Elf!Loads : i < m <=> i < n
    BY <1>5, <1>8, <1>9
  <2> HIDE DEF m, n
  <2>3. \A c : Laid(c, n) => Laid(c, next)'
    <3> SUFFICES ASSUME NEW c, Laid(c, n) PROVE Laid(c, next)'
      OBVIOUS
    <3>1. \A i : (Elf!Covers(i, c))' <=> Elf!Covers(i, c)
      BY <1>1 DEF Elf!Covers, Elf!First
    <3>2. \A i : (Elf!First(image.segments[i]))' = Elf!First(image.segments[i])
      BY <1>1 DEF Elf!First
    <3>3. ram' = ram /\ image' = image
      BY <1>1, <1>9
    <3> QED BY <1>7, <2>1, <2>2, <3>1, <3>2, <3>3 DEF Laid, Elf!Zero
  <2>4. Loading'
    BY <1>1, <1>2, <1>3, <1>7, <1>9, <2>1, <2>2, <2>3 DEF Loading, n, Elf!Unmapped, Elf!Cells
  <2>5. Loaded'
    BY <1>1, <1>9 DEF Loaded
  <2> QED BY <1>1, <1>9, <2>4, <2>5 DEF ElfInv
<1>10. CASE /\ s.load /\ mapped
            /\ ram' = Elf!Bss(Elf!CopyIn(ram, next, s), s)
            /\ next' = next + 1 /\ loaded' = loaded + 1 /\ UNCHANGED <<step, ok, ready>>
  <2> DEFINE n == next
             m == n + 1
  <2>1. m \in 1..(Len(image.segments) + 1) /\ next' = m /\ n \in Elf!Loads
    BY <1>4, <1>5, <1>10
  <2>2. \A i \in Elf!Loads : i < m <=> i < n \/ i = n
    BY <1>8
  <2>6. loaded' \in Nat /\ loaded' # 0
    BY <1>2, <1>10
  <2>3. left = Elf!Unmapped => Takes(s)
    BY <1>6, <1>10
  <2>4. left = Elf!Unmapped => \A c \in Elf!Cells : Laid(c, next)'
    <3> SUFFICES ASSUME left = Elf!Unmapped, NEW c \in Elf!Cells PROVE Laid(c, next)'
      OBVIOUS
    <3>1. tlb = Elf!Unmapped /\ Laid(c, n)
      BY <1>2, <1>3
    <3>2. image' = image /\ ram' = Elf!Bss(Elf!CopyIn(ram, n, image.segments[n]), image.segments[n])
      BY <1>1, <1>10
    <3>3. PICK k : k = n
      OBVIOUS
    <3>4. Laid(c, k + 1)'
      <4>1. k \in Elf!Loads /\ Laid(c, k) /\ Takes(image.segments[k])
        BY <2>1, <2>3, <3>1, <3>3
      <4>2. ram' = Elf!Bss(Elf!CopyIn(ram, k, image.segments[k]), image.segments[k])
        BY <3>2, <3>3
      <4> QED BY <1>2, <3>1, <3>2, <4>1, <4>2, TakenStep
    <3>5. next' = k + 1
      BY <2>1, <3>3
    <3> HIDE DEF m, n
    <3> QED BY <3>4, <3>5 DEF Laid
  <2> HIDE DEF m, n
  <2>5. left = Elf!Unmapped => /\ \A i \in Elf!Loads : i < m => Takes(image.segments[i])
                               /\ \E i \in Elf!Loads : i < m
    BY <1>3, <2>1, <2>2, <2>3 DEF n
  <2>7. Loading'
    BY <1>1, <1>2, <1>7, <1>10, <2>1, <2>4, <2>5, <2>6 DEF Loading, Elf!Unmapped, Elf!Cells
  <2>8. Loaded'
    BY <1>1, <1>10 DEF Loaded
  <2> QED BY <1>1, <1>10, <2>7, <2>8 DEF ElfInv
<1>11. CASE s.load /\ ~mapped /\ Elf!Fail
  <2>1. left' = Elf!Unmapped => ~Elf!Fits'
    BY <1>1, <1>5, <1>6, <1>7, <1>11, PlacedIs DEF Elf!Fits
  <2> QED BY <1>1, <1>2, <1>11, <2>1, FailKeeps
<1> QED BY <1>1, <1>9, <1>10, <1>11

LEMMA FinishStep ==
  ASSUME Elf!ElfAssumption, ElfInv, Elf!FinishLoad
  PROVE  ElfInv'
<1>1. /\ step = "segment" /\ next > Len(image.segments)
      /\ UNCHANGED <<image, next, loaded, ram, left>>
      /\ \/ /\ loaded # 0 /\ Elf!Valid(image.entry, 1)
            /\ step' = "done" /\ ok' = TRUE /\ ready' = TRUE /\ tlb' = Elf!Unmapped
         \/ ~(loaded # 0 /\ Elf!Valid(image.entry, 1)) /\ Elf!Fail /\ UNCHANGED tlb
  BY DEF Elf!FinishLoad
<1>2. /\ image \in Images /\ image.header /\ tlb = left
      /\ next \in 1..(Len(image.segments) + 1)
      /\ left = Elf!Unmapped =>
           /\ \A i \in Elf!Loads : i < next => Takes(image.segments[i])
           /\ loaded # 0 <=> \E i \in Elf!Loads : i < next
           /\ \A c \in Elf!Cells : Laid(c, next)
  BY <1>1 DEF ElfInv, Loading
<1>3. Len(image.segments) \in Nat /\ \A i \in Elf!Loads : i \in 1..Len(image.segments)
  BY <1>2, ImageFacts
<1>4. next = Len(image.segments) + 1 /\ \A i \in Elf!Loads : i < next
  <2>1. next = Len(image.segments) + 1
    BY <1>1, <1>2, <1>3
  <2> QED BY ONLY <1>3, <2>1
<1>5. image' = image /\ ram' = ram /\ left' = left
  BY <1>1
<1>6. Elf!Placed' = Elf!Placed /\ Elf!Fits' = Elf!Fits
  BY <1>5 DEF Elf!Loads, Elf!First, Elf!Placed, Elf!Fits
<1>7. CASE /\ loaded # 0 /\ Elf!Valid(image.entry, 1)
           /\ step' = "done" /\ ok' = TRUE /\ ready' = TRUE /\ tlb' = Elf!Unmapped
  <2>1. left = Elf!Unmapped => Elf!Placed
    BY <1>2, <1>4, <1>7, PlacedIs
  <2>2. left = Elf!Unmapped => \A c \in Elf!Cells : Laid(c, Len(image.segments) + 1)
    BY <1>2, <1>4
  <2>3. \A c, n : Laid(c, n)' <=> Laid(c, n)
    <3>1. Elf!Loads' = Elf!Loads /\ \A i, c : (Elf!Covers(i, c))' <=> Elf!Covers(i, c)
      BY <1>5 DEF Elf!Loads, Elf!Covers, Elf!First
    <3>2. \A i : (Elf!First(image.segments[i]))' = Elf!First(image.segments[i])
      BY <1>5 DEF Elf!First
    <3> QED BY <1>5, <3>1, <3>2 DEF Laid, Elf!Zero
  <2>4. Loaded'
    <3>1. left = Elf!Unmapped => \A c \in Elf!Cells : Laid(c, Len(image.segments) + 1)'
      <4> SUFFICES ASSUME left = Elf!Unmapped, NEW c \in Elf!Cells
                   PROVE  Laid(c, Len(image.segments) + 1)'
        OBVIOUS
      <4>1. Laid(c, Len(image.segments) + 1)
        BY <2>2
      <4>2. PICK n : n = Len(image.segments) + 1
        OBVIOUS
      <4>3. n = Len(image'.segments) + 1 /\ Laid(c, n)'
        BY <1>5, <2>3, <4>1, <4>2
      <4> QED BY <4>3 DEF Laid
    <3> QED BY <1>2, <1>5, <1>6, <1>7, <2>1, <3>1 DEF Loaded, Elf!Unmapped, Elf!Cells
  <2>5. Loading'
    BY <1>7 DEF Loading
  <2> QED BY <1>7, <2>4, <2>5 DEF ElfInv
<1>8. CASE ~(loaded # 0 /\ Elf!Valid(image.entry, 1)) /\ Elf!Fail
  <2>1. left = Elf!Unmapped => ~Elf!Fits
    <3> SUFFICES ASSUME left = Elf!Unmapped, Elf!Fits PROVE FALSE
      OBVIOUS
    <3>1. Elf!Loads # {} /\ (image.entry < RamSize \/ image.entry - Kseg \in Elf!Cells)
      BY DEF Elf!Fits, Elf!Placed
    <3>2. loaded # 0
      BY <1>2, <1>4, <3>1
    <3>3. image.entry \in Nat
      BY <1>2, ImageFacts
    <3>4. Elf!Valid(image.entry, 1)
      BY <1>2, <3>1, <3>3, EntryChecks DEF Elf!Valid
    <3> QED BY <1>8, <3>2, <3>4
  <2> QED BY <1>2, <1>5, <1>6, <1>8, <2>1, FailKeeps
<1> QED BY <1>1, <1>7, <1>8

LEMMA ElfStep ==
  ASSUME Elf!ElfAssumption, ElfInv, [Elf!Next]_Elf!vars
  PROVE  ElfInv'
<1>1. ASSUME step' = "idle", ok' \in BOOLEAN, ready' \in BOOLEAN PROVE ElfInv'
  BY <1>1 DEF ElfInv, Loading, Loaded
<1>2. CASE Elf!BootBios
  BY <1>1, <1>2 DEF Elf!BootBios
<1>3. CASE Elf!Run
  BY <1>1, <1>3 DEF Elf!Run, ElfInv
<1>4. CASE UNCHANGED Elf!vars
  <2>1. UNCHANGED <<step, image, next, loaded, ok, ready, ram, tlb, left>>
    BY <1>4 DEF Elf!vars
  <2>2. /\ Elf!Loads' = Elf!Loads /\ \A i, c : (Elf!Covers(i, c))' <=> Elf!Covers(i, c)
        /\ Elf!Placed' = Elf!Placed /\ Elf!Fits' = Elf!Fits
    BY <2>1 DEF Elf!Loads, Elf!Covers, Elf!First, Elf!Placed, Elf!Fits
  <2>3. Loading' /\ Loaded'
    BY <2>1 DEF ElfInv, Loading, Loaded, Laid, Elf!Loads, Elf!Covers, Elf!First, Elf!Placed,
                Elf!Fits, Takes, Elf!Zero, Elf!Unmapped, Elf!Cells
  <2> QED BY <2>1, <2>3 DEF ElfInv
<1> QED BY <1>2, <1>3, <1>4, LoadStep, LoadSegmentStep, FinishStep DEF Elf!Next

(* On a machine without translations a load is all or nothing: a file that  *)
(* fits is in memory segment by segment, whatever its segments' order and   *)
(* overlaps, and any other leaves nothing that can be run.                  *)
THEOREM LoadTheorem == Spec => []LoadExact
<1>0. Elf!ElfAssumption
  BY Constants
<1> DEFINE ElfPart == part = "elf" => ElfInv
<1>1. Init => ElfPart
  BY PartInit DEF Elf!Init, ElfInv, Loading, Loaded
<1>2. ElfPart /\ [Next]_vars => ElfPart'
  BY <1>0, PartStep, ElfStep
<1>3. ElfPart => LoadExact
  <2> SUFFICES ASSUME ElfInv PROVE Elf!LoadExact
    BY DEF LoadExact
  <2> SUFFICES ASSUME step = "done"
               PROVE  /\ left = Elf!Unmapped /\ Elf!Fits => Elf!Exact
                      /\ ok <=> ready
                      /\ left = Elf!Unmapped /\ ok => Elf!Placed
    BY DEF Elf!LoadExact
  <2>1. Loaded
    BY DEF ElfInv
  <2>2. ASSUME left = Elf!Unmapped, Elf!Fits PROVE Elf!Exact
    <3>1. ok /\ ready /\ image \in Images
      BY <2>1, <2>2 DEF Loaded
    <3>2. \A c \in Elf!Cells : Laid(c, Len(image.segments) + 1)
      BY <2>1, <2>2, <3>1 DEF Loaded
    <3>3. \A c \in Elf!Cells : ram[c] = Elf!Expected(c)
      BY <1>0, <3>1, <3>2, LaidIsExpected
    <3> QED BY <3>1, <3>3 DEF Elf!Exact
  <2> QED BY <2>1, <2>2 DEF Loaded
<1> QED BY <1>1, <1>2, <1>3, PTL DEF Spec


-----------------------------------------------------------------------------
(* A voice of the SPU2                                                      *)

PathItem ==
  [block : Voice!BlockAddresses, manual : Voice!BlockAddresses \cup {None}]
VoicePart == [active : BOOLEAN, error : BOOLEAN, index : 0..Samples, pending : Nat]
StreamPart ==
  [next : Voice!BlockAddresses, loop : Voice!BlockAddresses, active : BOOLEAN, manual : BOOLEAN]
EnvelopePart == [phase : Voice!Phases, level : 0..Full, counter : Nat]
NotePart == [path : Seq(PathItem), owed : Nat, taken : Nat, wanted : BOOLEAN]
VoiceState == [voice : VoicePart, stream : StreamPart, env : EnvelopePart, note : NotePart]

(* The invariant of a voice, in parts: what VoiceExact says of it, and that  *)
(* the stream is where the path so far leaves it.                           *)
PitchGood(t) ==
  t.voice.active \/ t.note.path # <<>> =>
    /\ t.note.taken * One + t.voice.pending = One + t.note.owed
    /\ t.note.taken = (Len(t.note.path) - 1) * Samples + t.voice.index

PathGood(path) ==
  /\ \A i \in 1..Len(path) : ~memory[path[i].block].bad
  /\ \A i \in 1..(Len(path) - 1) : Voice!Follows(path, i)

Goes(b) == ~b.end \/ b.repeat
StreamGood(path, s) ==
  /\ path = <<>> => (~s.manual => s.loop = s.next)
  /\ path # <<>> =>
       LET n == Len(path)
           b == memory[path[n].block]
       IN  /\ s.next = IF b.end THEN Voice!LoopOf(path, n, path[n].manual)
                                ELSE (path[n].block + 1) % Blocks
           /\ s.active <=> Goes(b)
           /\ ~s.manual => s.loop = Voice!LoopOf(path, n, None)

StopGood(t) ==
  /\ t.voice.active => ~t.voice.error
  /\ ~t.voice.active /\ t.note.path # <<>> =>
       \/ t.env.phase = "stopped" /\ ~t.voice.error
       \/ /\ t.voice.index = Samples
          /\ t.voice.error <=> Goes(memory[t.note.path[Len(t.note.path)].block])

VoiceGood(t) ==
  /\ t \in VoiceState
  /\ PitchGood(t) /\ PathGood(t.note.path) /\ StreamGood(t.note.path, t.stream) /\ StopGood(t)

LEMMA VoiceFacts ==
  ASSUME Voice!VoiceAssumption
  PROVE  /\ Blocks \in Nat \ {0} /\ Samples \in Nat \ {0} /\ One \in Nat \ {0} /\ Full \in Nat \ {0}
         /\ \A a \in Voice!BlockAddresses :
              a \in Nat /\ a # None /\ (a + 1) % Blocks \in Voice!BlockAddresses
<1>1. Blocks \in Nat \ {0}
  BY DEF Voice!VoiceAssumption
<1>2. \A a \in Nat : (a + 1) % Blocks \in 0..(Blocks - 1)
  BY <1>1
<1>3. \A a \in 0..(Blocks - 1) : a \in Nat /\ a # -1
  BY <1>1
<1> QED BY <1>2, <1>3 DEF Voice!VoiceAssumption, Voice!BlockAddresses, None

(* The loop's last start mark, when there is another block.                 *)
LEMMA LoopOfAppend ==
  ASSUME NEW path \in Seq(PathItem), NEW x \in PathItem, NEW manual
  PROVE  LET q == Append(path, x)
             n == Len(path) + 1
         IN  /\ \A i \in 1..Len(path) : Voice!LoopOf(q, i, manual) = Voice!LoopOf(path, i, manual)
             /\ manual # None => Voice!LoopOf(q, n, manual) = manual
             /\ manual = None /\ memory[x.block].start => Voice!LoopOf(q, n, manual) = x.block
             /\ manual = None /\ ~memory[x.block].start =>
                  Voice!LoopOf(q, n, manual) =
                    IF path = <<>> THEN x.block ELSE Voice!LoopOf(path, Len(path), manual)
<1> DEFINE q == Append(path, x)
           n == Len(path) + 1
           Starts(p, i) == {j \in 1..i : memory[p[j].block].start}
<1>1. /\ Len(path) \in Nat /\ n = Len(path) + 1 /\ n \in Nat /\ q[n] = x
      /\ \A j \in 1..Len(path) : q[j] = path[j]
      /\ path = <<>> <=> Len(path) = 0
  OBVIOUS
<1>0. None = Voice!None
  BY DEF None, Voice!None
<1>2. \A p, i : Voice!LoopOf(p, i, manual) =
                  IF manual # Voice!None THEN manual
                  ELSE IF Starts(p, i) = {} THEN p[1].block ELSE p[Voice!Max(Starts(p, i))].block
  BY DEF Voice!LoopOf
<1> HIDE DEF q, n
<1>3. \A i \in 1..Len(path) : Starts(q, i) = Starts(path, i)
  BY <1>1
<1>4. \A i : Starts(path, i) \subseteq 1..i
  OBVIOUS
<1>5. \A i \in Nat : Starts(path, i) # {} => Voice!Max(Starts(path, i)) \in Starts(path, i)
  <2> SUFFICES ASSUME NEW i \in Nat, Starts(path, i) # {}
               PROVE  Voice!Max(Starts(path, i)) \in Starts(path, i)
    OBVIOUS
  <2> DEFINE S == Starts(path, i)
             T == {i - j : j \in S}
  <2>1. \A j \in S : j \in 1..i
    BY <1>4
  <2> HIDE DEF Starts
  <2>2. T \in SUBSET Nat /\ T # {}
    BY <2>1
  <2>3. PICK m \in T : \A k \in T : m <= k
    BY <2>2, Least, Zenon
  <2>4. PICK j \in S : m = i - j
    BY <2>3
  <2>5. \A k \in S : j >= k
    <3>1. \A k \in S : i - k \in T
      OBVIOUS
    <3> HIDE DEF S, T
    <3>2. \A k \in S : i - j <= i - k
      BY ONLY <2>3, <2>4, <3>1
    <3> QED BY ONLY <2>1, <2>4, <3>2
  <2>6. \E y \in S : \A k \in S : y >= k
    BY <2>4, <2>5
  <2> HIDE DEF S, T
  <2>7. Voice!Max(S) = CHOOSE y \in S : \A k \in S : y >= k
    BY DEF Voice!Max
  <2> QED BY <2>6, <2>7, Zenon DEF S
<1>6. \A i \in 1..Len(path) : Voice!LoopOf(q, i, manual) = Voice!LoopOf(path, i, manual)
  <2> SUFFICES ASSUME NEW i \in 1..Len(path)
               PROVE  Voice!LoopOf(q, i, manual) = Voice!LoopOf(path, i, manual)
    OBVIOUS
  <2>1. i \in Nat /\ 1 \in 1..Len(path) /\ \A j \in 1..i : j \in 1..Len(path)
    BY <1>1
  <2>2. Starts(path, i) # {} => Voice!Max(Starts(path, i)) \in 1..Len(path)
    BY <1>4, <1>5, <2>1
  <2>3. Starts(q, i) = Starts(path, i)
    BY <1>3
  <2> HIDE DEF Starts
  <2> QED BY <1>1, <1>2, <2>1, <2>2, <2>3
<1>7. manual = None /\ memory[x.block].start => Voice!LoopOf(q, n, manual) = x.block
  <2> SUFFICES ASSUME manual = None, memory[x.block].start
               PROVE  Voice!LoopOf(q, n, manual) = x.block
    OBVIOUS
  <2> DEFINE S == Starts(q, n)
  <2>1. n \in Nat /\ n \in S /\ \A j \in S : j \in Nat /\ n >= j
    BY <1>1
  <2> HIDE DEF Starts
  <2>2. Voice!Max(S) = CHOOSE y \in S : \A k \in S : y >= k
    BY DEF Voice!Max
  <2> HIDE DEF S
  <2>3. Voice!Max(S) \in S /\ \A k \in S : Voice!Max(S) >= k
    <3>1. \E y \in S : \A k \in S : y >= k
      BY <2>1
    <3> QED BY ONLY <2>2, <3>1, Zenon
  <2>4. Voice!Max(S) = n
    <3>1. PICK r : r = Voice!Max(S)
      OBVIOUS
    <3>2. r \in Nat /\ n \in Nat /\ n >= r /\ r >= n
      BY ONLY <2>1, <2>3, <3>1
    <3>3. r = n
      BY ONLY <3>2
    <3> QED BY ONLY <3>1, <3>3
  <2> QED BY <1>0, <1>1, <1>2, <2>1, <2>4 DEF S
<1>8. manual = None /\ ~memory[x.block].start =>
        Voice!LoopOf(q, n, manual) =
          IF path = <<>> THEN x.block ELSE Voice!LoopOf(path, Len(path), manual)
  <2> SUFFICES ASSUME manual = None, ~memory[x.block].start
               PROVE  Voice!LoopOf(q, n, manual) =
                        IF path = <<>> THEN x.block ELSE Voice!LoopOf(path, Len(path), manual)
    OBVIOUS
  <2>1. Starts(q, n) = Starts(path, Len(path))
    BY <1>1
  <2>2. path = <<>> => Starts(path, Len(path)) = {} /\ q[1] = x
    BY <1>1
  <2>3. path # <<>> => q[1] = path[1]
    BY <1>1
  <2>4. Starts(path, Len(path)) # {} =>
          /\ Voice!Max(Starts(path, Len(path))) \in 1..Len(path)
    BY <1>1, <1>4, <1>5
  <2> HIDE DEF Starts
  <2> QED BY <1>0, <1>1, <1>2, <2>1, <2>2, <2>3, <2>4
<1>9. manual # None => Voice!LoopOf(q, n, manual) = manual
  BY <1>0, <1>2
<1> QED BY <1>6, <1>7, <1>8, <1>9 DEF q, n

(* Decoding a block takes the path one block on, as the flags say.          *)
LEMMA DecodeKeeps ==
  ASSUME Voice!VoiceAssumption, memory \in SoundMemories,
         NEW path \in Seq(PathItem), NEW s \in StreamPart,
         StreamGood(path, s), PathGood(path), s.active, ~memory[s.next].bad
  PROVE  LET x == [block |-> s.next, manual |-> IF s.manual THEN s.loop ELSE None]
             q == Append(path, x)
             r == Voice!DecodeNext(s)
         IN  /\ q \in Seq(PathItem) /\ Len(q) = Len(path) + 1 /\ q # <<>>
             /\ r \in StreamPart /\ StreamGood(q, r) /\ PathGood(q)
<1> DEFINE man == IF s.manual THEN s.loop ELSE None
           x == [block |-> s.next, manual |-> man]
           q == Append(path, x)
           r == Voice!DecodeNext(s)
           b == memory[s.next]
           back == IF b.start /\ ~s.manual THEN s.next ELSE s.loop
           n == Len(path) + 1
<1>1. /\ s.next \in Voice!BlockAddresses /\ s.loop \in Voice!BlockAddresses
      /\ s.active \in BOOLEAN /\ s.manual \in BOOLEAN
  BY DEF StreamPart
<1>2. /\ memory \in [Voice!BlockAddresses -> Voice!Block]
      /\ b.end \in BOOLEAN /\ b.repeat \in BOOLEAN /\ b.start \in BOOLEAN
  BY <1>1 DEF Voice!VoiceAssumption, Voice!Block
<1>3. x \in PathItem /\ x.block = s.next /\ x.manual = man
  BY <1>1 DEF PathItem
<1>4. /\ s.loop # None /\ (s.next + 1) % Blocks \in Voice!BlockAddresses
      /\ None = Voice!None
  BY <1>1, VoiceFacts DEF None, Voice!None
<1>5. /\ r \in StreamPart /\ r.loop = back /\ r.manual = s.manual
      /\ r.next = IF b.end THEN back ELSE (s.next + 1) % Blocks
  BY <1>1, <1>2, <1>4 DEF StreamPart, Voice!DecodeNext
<1>6. r.active <=> Goes(b)
  BY <1>1, <1>2, <1>4 DEF StreamPart, Voice!DecodeNext, Goes
<1>7. /\ \A manual, i : i \in 1..Len(path) =>
            Voice!LoopOf(q, i, manual) = Voice!LoopOf(path, i, manual)
      /\ \A manual : manual # None => Voice!LoopOf(q, n, manual) = manual
      /\ memory[x.block].start => Voice!LoopOf(q, n, None) = x.block
      /\ ~memory[x.block].start =>
           Voice!LoopOf(q, n, None) = IF path = <<>> THEN x.block
                                                     ELSE Voice!LoopOf(path, Len(path), None)
  <2> HIDE DEF x
  <2>1. ASSUME NEW manual
        PROVE  /\ \A i \in 1..Len(path) :
                    Voice!LoopOf(q, i, manual) = Voice!LoopOf(path, i, manual)
               /\ manual # None => Voice!LoopOf(q, n, manual) = manual
               /\ manual = None /\ memory[x.block].start => Voice!LoopOf(q, n, manual) = x.block
               /\ manual = None /\ ~memory[x.block].start =>
                    Voice!LoopOf(q, n, manual) =
                      IF path = <<>> THEN x.block ELSE Voice!LoopOf(path, Len(path), manual)
    BY <1>3, LoopOfAppend
  <2> HIDE DEF q, n
  <2> QED BY <2>1
<1> HIDE DEF x, man
<1>8. /\ q \in Seq(PathItem) /\ Len(q) = n /\ q # <<>> /\ q[n] = x
      /\ \A i \in 1..Len(path) : q[i] = path[i]
      /\ Len(path) \in Nat /\ n \in Nat /\ n = Len(path) + 1
      /\ path = <<>> <=> Len(path) = 0
  BY <1>3
<1> HIDE DEF q, r, n
<1>9. Voice!LoopOf(q, n, man) = back
  <2>1. CASE s.manual
    BY <1>4, <1>7, <2>1 DEF man
  <2>2. CASE ~s.manual
    <3>1. man = None /\ (path = <<>> => s.loop = s.next)
          /\ (path # <<>> => s.loop = Voice!LoopOf(path, Len(path), None))
      BY <2>2 DEF StreamGood, man
    <3> QED BY <1>3, <1>7, <2>2, <3>1
  <2> QED BY <2>1, <2>2
<1>10. ~s.manual => r.loop = Voice!LoopOf(q, n, None)
  BY <1>5, <1>9 DEF man
<1>11. StreamGood(q, r)
  <2>1. memory[q[n].block] = b /\ q[n].manual = man /\ q[n].block = s.next
    BY <1>3, <1>8
  <2> HIDE DEF b, back
  <2>2. r.next = IF b.end THEN Voice!LoopOf(q, n, q[n].manual) ELSE (q[n].block + 1) % Blocks
    BY <1>5, <1>9, <2>1
  <2> QED BY <1>5, <1>6, <1>8, <1>10, <2>1, <2>2 DEF StreamGood
<1>12. PathGood(q)
  <2>1. \A i \in 1..Len(q) : ~memory[q[i].block].bad
    <3> SUFFICES ASSUME NEW i \in 1..n PROVE ~memory[q[i].block].bad
      BY <1>8
    <3>1. i \in 1..Len(path) \/ i = n
      BY <1>8
    <3> QED BY <1>3, <1>8, <3>1 DEF PathGood
  <2>2. \A i \in 1..(Len(q) - 1) : Voice!Follows(q, i)
    <3> SUFFICES ASSUME NEW i \in 1..Len(path) PROVE Voice!Follows(q, i)
      BY <1>8
    <3> DEFINE d == memory[path[i].block]
    <3>1. /\ q[i] = path[i] /\ ~d.bad
          /\ Voice!LoopOf(q, i, path[i].manual) = Voice!LoopOf(path, i, path[i].manual)
      BY <1>7, <1>8 DEF PathGood
    <3>2. CASE i \in 1..(Len(path) - 1)
      <4>1. Voice!Follows(path, i) /\ q[i + 1] = path[i + 1]
        BY <1>8, <3>2 DEF PathGood
      <4> QED BY <3>1, <4>1 DEF Voice!Follows
    <3>3. CASE i = Len(path)
      <4>1. q[i + 1].block = s.next
        BY <1>3, <1>8, <3>3
      <4>2. /\ s.next = IF d.end THEN Voice!LoopOf(path, i, path[i].manual)
                                 ELSE (path[i].block + 1) % Blocks
            /\ s.active <=> Goes(d)
        BY <1>8, <3>3 DEF StreamGood
      <4> QED BY <3>1, <4>1, <4>2 DEF Voice!Follows, Goes
    <3> QED BY <1>8, <3>2, <3>3
  <2> QED BY <2>1, <2>2 DEF PathGood
<1>13. q \in Seq(PathItem) /\ Len(q) = Len(path) + 1 /\ q # <<>> /\ r \in StreamPart
  BY <1>5, <1>8
<1> QED BY <1>11, <1>12, <1>13, Zenon DEF q, r, x, man


LEMMA OneMore ==
  ASSUME NEW a \in Int, NEW b \in Nat
  PROVE  /\ a * b \in Int /\ (a + 1) * b = (a * b) + b
         /\ (a + 1) - 1 = a /\ ((a - 1) * b) + b = a * b
<1>1. (a + 1) * b = a * b + b
  OBVIOUS
<1>2. (a - 1) * b = a * b - b
  OBVIOUS
<1> QED BY <1>1, <1>2

(* A sample taken keeps the invariant.                                      *)
LEMMA TakeSampleKeeps ==
  ASSUME Voice!VoiceAssumption, memory \in SoundMemories, NEW t, VoiceGood(t)
  PROVE  LET r == Voice!TakeSample(t)
         IN  VoiceGood(r) /\ r.env = t.env /\ r.note.wanted = t.note.wanted
<1> DEFINE r == Voice!TakeSample(t)
           path == t.note.path
           x == [block |-> t.stream.next, manual |-> IF t.stream.manual THEN t.stream.loop ELSE None]
           q == Append(path, x)
           v == t.voice
           dec == Voice!Decodes(t)
<1> SUFFICES VoiceGood(r) /\ r.env = t.env /\ r.note.wanted = t.note.wanted
  OBVIOUS
<1>1. t \in VoiceState
  BY DEF VoiceGood
<1>2. /\ v \in VoicePart /\ t.stream \in StreamPart /\ t.env \in EnvelopePart
      /\ t.note \in NotePart /\ path \in Seq(PathItem)
      /\ t = [voice |-> v, stream |-> t.stream, env |-> t.env, note |-> t.note]
  BY <1>1 DEF VoiceState, NotePart
<1>3. /\ v.active \in BOOLEAN /\ v.error \in BOOLEAN /\ v.index \in 0..Samples /\ v.pending \in Nat
      /\ t.note.taken \in Nat /\ t.note.owed \in Nat /\ t.note.wanted \in BOOLEAN
      /\ t.stream.active \in BOOLEAN
  BY <1>2 DEF VoicePart, NotePart, StreamPart
<1>4. Samples \in Nat \ {0} /\ One \in Nat \ {0}
  BY VoiceFacts
<1>5. CASE ~v.active \/ v.pending < One
  <2>1. r = t
    BY <1>5 DEF Voice!TakeSample
  <2> QED BY <2>1
<1>6. CASE v.active /\ ~(v.pending < One) /\ v.index = Samples /\ ~dec
  <2> DEFINE w == [v EXCEPT !.error = t.stream.active, !.active = FALSE]
  <2>1. r = [t EXCEPT !.voice = w]
    BY <1>1, <1>6 DEF Voice!TakeSample, VoiceState
  <2>2. w \in VoicePart /\ ~w.active /\ w.index = v.index /\ w.pending = v.pending
    BY <1>2, <1>3 DEF VoicePart
  <2>3. w.error <=> t.stream.active
    BY <1>2, <1>3 DEF VoicePart
  <2> HIDE DEF w
  <2>4. /\ r \in VoiceState /\ r.voice = w /\ r.stream = t.stream /\ r.env = t.env
        /\ r.note = t.note
    BY <1>1, <2>1, <2>2 DEF VoiceState
  <2> HIDE DEF r
  <2>5. PitchGood(r)
    BY <1>6, <2>2, <2>4 DEF VoiceGood, PitchGood
  <2>6. StopGood(r)
    <3>1. path # <<>> => (w.error <=> Goes(memory[path[Len(path)].block]))
      BY <2>3 DEF VoiceGood, StreamGood
    <3> QED BY <1>6, <2>2, <2>4, <3>1 DEF StopGood
  <2> QED BY <2>4, <2>5, <2>6 DEF VoiceGood
<1>7. CASE v.active /\ ~(v.pending < One) /\ dec
  <2> DEFINE w == [v EXCEPT !.index = 1, !.pending = v.pending - One]
             n == [t.note EXCEPT !.path = q, !.taken = t.note.taken + 1]
             s == Voice!DecodeNext(t.stream)
  <2>0. v.index = Samples /\ t.stream.active /\ ~memory[t.stream.next].bad
    BY <1>7 DEF Voice!Decodes
  <2>1. r = [voice |-> w, stream |-> s, env |-> t.env, note |-> n]
    <3>1. None = Voice!None /\ 0 + 1 = 1
      BY DEF None, Voice!None
    <3> DEFINE d == [t EXCEPT !.stream = Voice!DecodeNext(@), !.voice.index = 0,
                              !.note.path = Append(@, x)]
    <3>2. r = [d EXCEPT !.voice.index = @ + 1, !.voice.pending = @ - One, !.note.taken = @ + 1]
      BY <1>7, <3>1 DEF Voice!TakeSample
    <3>3. d = [voice |-> [v EXCEPT !.index = 0], stream |-> s, env |-> t.env,
               note |-> [t.note EXCEPT !.path = q]]
      <4> DEFINE y == [v EXCEPT !.index = 0]
                 m == [t.note EXCEPT !.path = q]
      <4>1. d = [t EXCEPT !.stream = s, !.voice = y, !.note = m]
        OBVIOUS
      <4> HIDE DEF y, m, s, d
      <4> QED BY <1>2, <4>1 DEF y, m
    <3> HIDE DEF d, s, x
    <3>4. /\ d.voice.index = 0 /\ d.voice.pending = v.pending /\ d.note.taken = t.note.taken
          /\ d.voice = [v EXCEPT !.index = 0] /\ d.note = [t.note EXCEPT !.path = q]
      BY <1>2, <3>3 DEF VoicePart, NotePart
    <3>5. r = [voice |-> [d.voice EXCEPT !.index = 1, !.pending = v.pending - One],
               stream |-> s, env |-> t.env,
               note |-> [d.note EXCEPT !.taken = t.note.taken + 1]]
      <4> DEFINE y == [d.voice EXCEPT !.index = 1, !.pending = v.pending - One]
                 m == [d.note EXCEPT !.taken = t.note.taken + 1]
      <4> HIDE DEF r
      <4>1. r = [d EXCEPT !.voice = y, !.note = m]
        BY ONLY <3>1, <3>2, <3>4
      <4> HIDE DEF y, m
      <4>2. r = [voice |-> y, stream |-> s, env |-> t.env, note |-> m]
        BY ONLY <3>3, <4>1
      <4> QED BY <4>2 DEF y, m
    <3>6. [d.voice EXCEPT !.index = 1, !.pending = v.pending - One] = w
      BY <1>2, <3>4 DEF VoicePart
    <3>7. [d.note EXCEPT !.taken = t.note.taken + 1] = n
      BY <1>2, <3>4 DEF NotePart
    <3> QED BY <3>5, <3>6, <3>7
  <2>2. /\ q \in Seq(PathItem) /\ Len(q) = Len(path) + 1 /\ q # <<>>
        /\ s \in StreamPart /\ StreamGood(q, s) /\ PathGood(q)
    BY <1>2, <2>0, DecodeKeeps DEF VoiceGood
  <2> HIDE DEF q, s
  <2>3. w \in VoicePart /\ w.active /\ ~w.error /\ w.index = 1 /\ w.pending = v.pending - One
    <3>1. v.pending - One \in Nat /\ 1 \in 0..Samples
      BY <1>3, <1>4, <1>7
    <3>2. ~v.error
      BY <1>7 DEF VoiceGood, StopGood
    <3> QED BY <1>2, <1>7, <3>1, <3>2 DEF VoicePart
  <2>4. /\ n \in NotePart /\ n.path = q /\ n.taken = t.note.taken + 1 /\ n.owed = t.note.owed
        /\ n.wanted = t.note.wanted
    <3>1. t.note.taken + 1 \in Nat
      BY <1>3
    <3>2. t.note \in NotePart /\ q \in Seq(PathItem)
      BY <1>2, <2>2
    <3>3. PICK k : k = t.note.taken + 1
      OBVIOUS
    <3>4. k \in Nat
      BY <3>1, <3>3
    <3> HIDE DEF path, q
    <3>5. PICK m \in NotePart : m = t.note
      BY ONLY <3>2, Zenon
    <3>6. PICK p \in Seq(PathItem) : p = q
      BY ONLY <3>2, Zenon
    <3>7. n = [m EXCEPT !.path = p, !.taken = k]
      BY ONLY <3>3, <3>5, <3>6, Zenon DEF n
    <3> HIDE DEF n
    <3>8. /\ n \in NotePart /\ n.path = p /\ n.taken = k /\ n.owed = m.owed /\ n.wanted = m.wanted
      <4>1. m \in NotePart /\ p \in Seq(PathItem) /\ k \in Nat
        BY <3>4, <3>5, <3>6
      <4> QED BY ONLY <3>7, <4>1 DEF NotePart
    <3> QED BY ONLY <3>3, <3>5, <3>6, <3>8, Zenon
  <2> HIDE DEF w, n
  <2>5. /\ r \in VoiceState /\ r.voice = w /\ r.stream = s /\ r.env = t.env /\ r.note = n
    BY <1>2, <2>1, <2>2, <2>3, <2>4 DEF VoiceState
  <2> HIDE DEF r
  <2>6. PitchGood(r)
    <3>1. /\ t.note.taken * One + v.pending = One + t.note.owed
          /\ t.note.taken = (Len(path) - 1) * Samples + Samples
      BY <1>7, <2>0 DEF VoiceGood, PitchGood
    <3>2. Len(path) \in Nat /\ (Len(path) + 1) - 1 = Len(path)
      BY <1>2
    <3>3. (t.note.taken + 1) * One = (t.note.taken * One) + One /\ t.note.taken * One \in Int
      BY <1>3, <1>4, OneMore
    <3>4. (t.note.taken + 1) * One + (v.pending - One) = One + t.note.owed
      <4> DEFINE a == t.note.taken * One
                 b == (t.note.taken + 1) * One
      <4>1. a \in Int /\ b = a + One /\ a + v.pending = One + t.note.owed
        BY <3>1, <3>3
      <4> HIDE DEF a, b
      <4>2. b + (v.pending - One) = One + t.note.owed
        BY <1>3, <1>4, <4>1
      <4> QED BY <4>2 DEF b
    <3>5. t.note.taken + 1 = Len(path) * Samples + 1
      BY <1>4, <3>1, <3>2, OneMore
    <3> QED BY <2>2, <2>3, <2>4, <2>5, <3>2, <3>4, <3>5 DEF PitchGood
  <2>7. StopGood(r)
    BY <2>3, <2>5 DEF StopGood
  <2> QED BY <2>2, <2>4, <2>5, <2>6, <2>7 DEF VoiceGood
<1>8. CASE v.active /\ ~(v.pending < One) /\ v.index # Samples /\ ~dec
  <2> DEFINE w == [v EXCEPT !.index = v.index + 1, !.pending = v.pending - One]
             n == [t.note EXCEPT !.taken = t.note.taken + 1]
  <2>1. r = [voice |-> w, stream |-> t.stream, env |-> t.env, note |-> n]
    <3>1. r = [t EXCEPT !.voice.index = @ + 1, !.voice.pending = @ - One, !.note.taken = @ + 1]
      BY <1>8 DEF Voice!TakeSample
    <3> HIDE DEF r
    <3>2. r = [t EXCEPT !.voice = w, !.note = n]
      BY <1>2, <3>1 DEF VoicePart, NotePart
    <3> HIDE DEF w, n
    <3> QED BY <1>2, <3>2
  <2>3. /\ w \in VoicePart /\ w.active /\ ~w.error /\ w.index = v.index + 1
        /\ w.pending = v.pending - One
    <3>1. v.pending - One \in Nat /\ v.index + 1 \in 0..Samples
      BY <1>3, <1>4, <1>8
    <3>2. ~v.error
      BY <1>8 DEF VoiceGood, StopGood
    <3> QED BY <1>2, <1>8, <3>1, <3>2 DEF VoicePart
  <2>4. /\ n \in NotePart /\ n.path = path /\ n.taken = t.note.taken + 1 /\ n.owed = t.note.owed
        /\ n.wanted = t.note.wanted
    BY <1>2, <1>3 DEF NotePart
  <2> HIDE DEF w, n
  <2>5. /\ r \in VoiceState /\ r.voice = w /\ r.stream = t.stream /\ r.env = t.env /\ r.note = n
    BY <1>2, <2>1, <2>3, <2>4 DEF VoiceState
  <2> HIDE DEF r
  <2>6. PitchGood(r)
    <3> DEFINE a == t.note.taken * One
               b == (t.note.taken + 1) * One
               c == (Len(path) - 1) * Samples
    <3>1. a \in Int /\ b = a + One /\ c \in Int
      <4>1. Len(path) - 1 \in Int /\ t.note.taken \in Int /\ One \in Nat /\ Samples \in Nat
        BY <1>2, <1>3, <1>4
      <4>2. a \in Int /\ b = a + One
        BY ONLY <4>1, OneMore
      <4>3. c \in Int
        BY ONLY <4>1
      <4> QED BY <4>2, <4>3
    <3>2. a + v.pending = One + t.note.owed /\ t.note.taken = c + v.index
      BY <1>8 DEF VoiceGood, PitchGood
    <3> HIDE DEF a, b, c
    <3>3. b + (v.pending - One) = One + t.note.owed /\ t.note.taken + 1 = c + (v.index + 1)
      BY <1>3, <1>4, <3>1, <3>2
    <3> QED BY <2>3, <2>4, <2>5, <3>3 DEF PitchGood, b, c
  <2>7. StopGood(r)
    BY <2>3, <2>5 DEF StopGood
  <2> QED BY <2>4, <2>5, <2>6, <2>7 DEF VoiceGood
<1>9. dec => v.index = Samples
  BY DEF Voice!Decodes
<1> HIDE DEF r, dec
<1> QED BY <1>5, <1>6, <1>7, <1>8, <1>9

(* A function iterated on a set that it keeps within.                       *)
Iterates(f, F, x, G, k) ==
  f \in [0..k -> G] /\ f[0] = x /\ \A i \in 1..k : f[i] = F[f[i - 1]]

LEMMA Iterated ==
  ASSUME NEW G, NEW F \in [G -> G], NEW x \in G, NEW k \in Nat
  PROVE  \E f : Iterates(f, F, x, G, k)
<1> DEFINE Upto(f, n) == f \in [0..n -> G] /\ f[0] = x /\ \A i \in 1..n : f[i] = F[f[i - 1]]
           T == {n \in Nat : \E f : Upto(f, n)}
<1>1. \A n \in Nat : n \in T <=> \E f : Upto(f, n)
  BY Zenon
<1> HIDE DEF T
<1>2. 0 \in T
  <2> DEFINE f == [i \in 0..0 |-> x]
  <2>1. Upto(f, 0)
    OBVIOUS
  <2> HIDE DEF f, Upto
  <2>2. \E g : Upto(g, 0)
    BY <2>1
  <2> QED BY <1>1, <2>2
<1>3. ASSUME NEW n \in Nat, n \in T PROVE n + 1 \in T
  <2>1. PICK f : Upto(f, n)
    BY <1>1, <1>3, Zenon
  <2> DEFINE v == F[f[n]]
             g == [i \in 0..(n + 1) |-> IF i = n + 1 THEN v ELSE f[i]]
  <2>2. v \in G
    BY <1>3, <2>1
  <2>3. v = F[f[n]]
    OBVIOUS
  <2> HIDE DEF v
  <2>4. g \in [0..(n + 1) -> G]
    BY <1>3, <2>1, <2>2
  <2>5. (\A i \in 0..n : g[i] = f[i]) /\ g[n + 1] = v
    BY <1>3
  <2> HIDE DEF g
  <2>6. \A i \in 1..(n + 1) : g[i] = F[g[i - 1]]
    <3> SUFFICES ASSUME NEW i \in 1..(n + 1) PROVE g[i] = F[g[i - 1]]
      OBVIOUS
    <3>1. CASE i = n + 1
      BY <1>3, <2>3, <2>5, <3>1
    <3>2. CASE i \in 1..n
      <4>1. i \in 0..n /\ i - 1 \in 0..n
        BY <1>3, <3>2
      <4>2. f[i] = F[f[i - 1]]
        BY <2>1, <3>2
      <4> QED BY ONLY <2>5, <4>1, <4>2
    <3> QED BY <1>3, <3>1, <3>2
  <2>7. g[0] = x
    BY <1>3, <2>1, <2>5
  <2>8. Upto(g, n + 1)
    BY <2>4, <2>6, <2>7
  <2> HIDE DEF Upto
  <2>9. n + 1 \in Nat
    BY <1>3
  <2> QED BY <1>1, <2>8, <2>9
<1>4. Nat \subseteq T
  BY <1>2, <1>3, Induction, Zenon
<1>5. PICK f : Upto(f, k)
  <2> HIDE DEF Upto
  <2> QED BY <1>1, <1>4
<1> QED BY <1>5 DEF Iterates

(* So do as many samples as the voice owes.                                 *)
LEMMA ConsumeKeeps ==
  ASSUME Voice!VoiceAssumption, memory \in SoundMemories, NEW t, VoiceGood(t)
  PROVE  LET r == Voice!Consume(t)
         IN  VoiceGood(r) /\ r.env = t.env /\ r.note.wanted = t.note.wanted
<1> DEFINE G == {u \in VoiceState : /\ VoiceGood(u) /\ u.env = t.env
                                    /\ u.note.wanted = t.note.wanted}
           F == [u \in G |-> Voice!TakeSample(u)]
           k == t.voice.pending \div One
           Runs(f) == f = [n \in 0..k |-> IF n = 0 THEN t ELSE Voice!TakeSample(f[n - 1])]
           after == CHOOSE f : Runs(f)
<1>1. k \in Nat
  <2>1. t.voice.pending \in Nat /\ One \in Nat \ {0}
    BY VoiceFacts DEF VoiceGood, VoiceState, VoicePart
  <2> QED BY ONLY <2>1
<1>2. t \in G
  BY DEF VoiceGood
<1>3. \A u \in G : Voice!TakeSample(u) \in G
  <2> SUFFICES ASSUME NEW u \in G PROVE Voice!TakeSample(u) \in G
    OBVIOUS
  <2>1. VoiceGood(u) /\ u.env = t.env /\ u.note.wanted = t.note.wanted
    OBVIOUS
  <2>2. LET r == Voice!TakeSample(u)
        IN  VoiceGood(r) /\ r.env = u.env /\ r.note.wanted = u.note.wanted
    BY <2>1, TakeSampleKeeps
  <2>3. Voice!TakeSample(u) \in VoiceState
    BY <2>2 DEF VoiceGood
  <2> QED BY <2>1, <2>2, <2>3
<1> HIDE DEF G, k
<1>4. F \in [G -> G] /\ \A u \in G : F[u] = Voice!TakeSample(u)
  BY <1>3
<1> HIDE DEF F
<1>5. PICK f \in [0..k -> G] : f[0] = t /\ \A i \in 1..k : f[i] = F[f[i - 1]]
  <2>1. F \in [G -> G]
    BY <1>4
  <2>2. \E f : Iterates(f, F, t, G, k)
    BY ONLY <1>1, <1>2, <2>1, Iterated, Zenon
  <2>3. PICK f : Iterates(f, F, t, G, k)
    BY <2>2, Zenon
  <2> QED BY ONLY <2>3 DEF Iterates
<1>6. Runs(f)
  <2>1. \A i \in 0..k : f[i] = IF i = 0 THEN t ELSE Voice!TakeSample(f[i - 1])
    <3> SUFFICES ASSUME NEW i \in 0..k, i # 0 PROVE f[i] = Voice!TakeSample(f[i - 1])
      BY <1>5
    <3>1. i \in 1..k /\ i - 1 \in 0..k
      BY <1>1
    <3>2. f[i - 1] \in G /\ f[i] = F[f[i - 1]]
      BY <1>5, <3>1
    <3> QED BY <1>4, <3>2
  <2>2. f = [i \in 0..k |-> f[i]]
    BY <1>5
  <2> QED BY <2>1, <2>2
<1>7. Runs(after)
  <2> HIDE DEF Runs
  <2>1. \E g : Runs(g)
    BY <1>6
  <2> QED BY <2>1, Zenon
<1>8. Voice!Consume(t) = after[k]
  BY DEF Voice!Consume, k
<1> HIDE DEF after
<1>9. \A i \in 0..k : after[i] = IF i = 0 THEN t ELSE Voice!TakeSample(after[i - 1])
  <2> DEFINE a == [n \in 0..k |-> IF n = 0 THEN t ELSE Voice!TakeSample(after[n - 1])]
  <2>1. \A i \in 0..k : a[i] = IF i = 0 THEN t ELSE Voice!TakeSample(after[i - 1])
    OBVIOUS
  <2>2. after = a
    BY <1>7
  <2> HIDE DEF a
  <2> QED BY ONLY <2>1, <2>2
<1> HIDE DEF Runs
<1> DEFINE T == {n \in Nat : n <= k => after[n] \in G}
<1>10. \A n \in Nat : n \in T <=> (n <= k => after[n] \in G)
  BY Zenon
<1> HIDE DEF T
<1>11. 0 \in T
  <2>1. 0 \in 0..k
    BY <1>1
  <2>2. after[0] = t
    BY <1>9, <2>1
  <2> QED BY <1>2, <1>10, <2>2
<1>12. ASSUME NEW n \in Nat, n \in T PROVE n + 1 \in T
  <2>1. n + 1 \in Nat /\ (n + 1 <= k) \in BOOLEAN
    OBVIOUS
  <2>2. CASE n + 1 <= k
    <3>1. n + 1 \in 0..k /\ n + 1 # 0 /\ (n + 1) - 1 = n /\ n <= k
      BY <1>1, <2>2
    <3>2. after[n] \in G
      BY <1>10, <1>12, <3>1
    <3>3. after[n + 1] = Voice!TakeSample(after[n])
      BY ONLY <1>9, <3>1
    <3> QED BY ONLY <1>3, <1>10, <2>1, <3>2, <3>3
  <2>3. CASE ~(n + 1 <= k)
    BY <1>10, <2>1, <2>3
  <2> QED BY <2>2, <2>3
<1>13. Nat \subseteq T
  BY <1>11, <1>12, Induction, Zenon
<1>14. after[k] \in G
  <2>1. k \in T /\ k <= k
    BY <1>1, <1>13
  <2> QED BY ONLY <1>1, <1>10, <2>1
<1> QED BY <1>8, <1>14 DEF G

-----------------------------------------------------------------------------
(* The envelope of a voice                                                  *)

LEMMA MaxOfTwo ==
  ASSUME NEW a \in Int, NEW b \in Int
  PROVE  Voice!Max({a, b}) = IF a >= b THEN a ELSE b
<1> DEFINE S == {a, b}
           r == IF a >= b THEN a ELSE b
<1>1. r \in S /\ r \in Int /\ S \subseteq Int /\ \A y \in S : r >= y
  OBVIOUS
<1>2. \E x \in S : \A y \in S : x >= y
  BY <1>1
<1>3. Voice!Max(S) = CHOOSE x \in S : \A y \in S : x >= y
  BY DEF Voice!Max
<1> HIDE DEF S, r
<1>4. PICK m : m = Voice!Max(S)
  OBVIOUS
<1>5. m \in S /\ \A y \in S : m >= y
  BY ONLY <1>2, <1>3, <1>4, Zenon
<1>6. m \in Int /\ m >= r /\ r >= m
  BY ONLY <1>1, <1>5
<1>7. m = r
  BY ONLY <1>1, <1>6
<1> QED BY <1>4, <1>7 DEF S, r

LEMMA MinOfTwo ==
  ASSUME NEW a \in Int, NEW b \in Int
  PROVE  Voice!Min({a, b}) = IF a <= b THEN a ELSE b
<1> DEFINE S == {a, b}
           r == IF a <= b THEN a ELSE b
<1>1. r \in S /\ r \in Int /\ S \subseteq Int /\ \A y \in S : r <= y
  OBVIOUS
<1>2. \E x \in S : \A y \in S : x <= y
  BY <1>1
<1>3. Voice!Min(S) = CHOOSE x \in S : \A y \in S : x <= y
  BY DEF Voice!Min
<1> HIDE DEF S, r
<1>4. PICK m : m = Voice!Min(S)
  OBVIOUS
<1>5. m \in S /\ \A y \in S : m <= y
  BY ONLY <1>2, <1>3, <1>4, Zenon
<1>6. m \in Int /\ m <= r /\ r <= m
  BY ONLY <1>1, <1>5
<1>7. m = r
  BY ONLY <1>1, <1>6
<1> QED BY <1>4, <1>7 DEF S, r

LEMMA Clamped ==
  ASSUME Voice!VoiceAssumption, NEW l \in Int
  PROVE  /\ Voice!Clamp(l) \in 0..Full
         /\ \A k \in Nat : k > 0 /\ l < k => Voice!Clamp(l) < k
<1> DEFINE a == IF l <= Full THEN l ELSE Full
<1>1. Full \in Nat \ {0}
  BY VoiceFacts
<1>2. Voice!Min({l, Full}) = a
  BY <1>1, MinOfTwo
<1>3. a \in Int /\ a <= Full /\ a <= l
  BY <1>1
<1> HIDE DEF a
<1>4. Voice!Max({0, a}) = IF 0 >= a THEN 0 ELSE a
  BY <1>3, MaxOfTwo
<1>5. Voice!Clamp(l) = IF 0 >= a THEN 0 ELSE a
  BY <1>2, <1>4 DEF Voice!Clamp
<1>6. PICK r : r = IF 0 >= a THEN 0 ELSE a
  OBVIOUS
<1>7. r \in 0..Full /\ \A k \in Nat : k > 0 /\ l < k => r < k
  BY ONLY <1>1, <1>3, <1>6
<1> QED BY ONLY <1>5, <1>6, <1>7

(* Rounding down never leaves a falling level where it is.                  *)
LEMMA FloorFalls ==
  ASSUME NEW d \in Int, NEW l \in Nat, NEW f \in Nat \ {0}, d < 0
  PROVE  /\ Voice!FloorDiv(d * l, f) \in Int
         /\ Voice!FloorDiv(d * l, f) <= 0
         /\ l > 0 => Voice!FloorDiv(d * l, f) < 0
<1>1. d * l \in Int /\ (l > 0 => d * l < 0) /\ (l = 0 => d * l = 0)
  <2>1. PICK e \in Nat : d = -e /\ e > 0
    BY DEF Nat
  <2>2. d * l = -(e * l)
    BY <2>1
  <2>3. e * l \in Nat /\ (l > 0 => e * l > 0) /\ (l = 0 => e * l = 0)
    BY <2>1
  <2> QED BY <2>2, <2>3
<1>2. PICK p : p = d * l
  OBVIOUS
<1>3. p \in Int /\ (l > 0 => p < 0) /\ (l = 0 => p = 0)
  BY ONLY <1>1, <1>2
<1>4. CASE l = 0
  <2>1. 0 \div f = 0
    BY f \in Nat \ {0}
  <2> QED BY <1>2, <1>3, <1>4, <2>1 DEF Voice!FloorDiv, Voice!CDiv
<1>5. CASE l > 0
  <2>1. (-p) + f - 1 \in Nat /\ (-p) + f - 1 >= f /\ ~(p >= 0) /\ (-p) + f - 1 >= 0
    BY <1>3, <1>5
  <2>2. PICK m : m = (-p) + f - 1
    OBVIOUS
  <2>3. m \in Nat /\ m >= f
    BY ONLY <2>1, <2>2
  <2>4. m \div f \in Nat /\ m \div f >= 1
    BY ONLY <2>3, f \in Nat \ {0}
  <2>5. PICK s : s = m \div f
    OBVIOUS
  <2>6. Voice!FloorDiv(p, f) = -s
    BY <2>1, <2>2, <2>5 DEF Voice!FloorDiv, Voice!CDiv
  <2>7. s \in Nat /\ s >= 1
    BY ONLY <2>4, <2>5
  <2>8. -s \in Int /\ -s < 0
    BY ONLY <2>7
  <2> QED BY ONLY <1>2, <2>6, <2>8
<1> QED BY <1>4, <1>5

LEMMA IncrementIs ==
  ASSUME NEW r \in Voice!Rate, NEW l \in Nat
  PROVE  Voice!Increment(r, l) \in Nat /\ Voice!Increment(r, l) >= 1
<1> DEFINE c == IF r.exp /\ ~r.down /\ l > Knee THEN r.increment \div 4 ELSE r.increment
<1>1. c \in Int
  <2>1. r.increment \in Nat /\ r.increment \div 4 \in Int
    BY DEF Voice!Rate
  <2> QED BY <2>1
<1> HIDE DEF c
<1>2. Voice!Max({1, c}) = IF 1 >= c THEN 1 ELSE c
  BY <1>1, MaxOfTwo
<1>3. PICK m : m = IF 1 >= c THEN 1 ELSE c
  OBVIOUS
<1>4. m \in Nat /\ m >= 1
  BY ONLY <1>1, <1>3
<1>5. Voice!Increment(r, l) = Voice!Max({1, c})
  BY DEF Voice!Increment, c
<1> QED BY <1>2, <1>3, <1>4, <1>5

LEMMA DeltaIs ==
  ASSUME Voice!VoiceAssumption, NEW r \in Voice!Rate, r.down <=> r.delta < 0, NEW l \in Nat
  PROVE  /\ Voice!Delta(r, l) \in Int
         /\ r.down => Voice!Delta(r, l) <= 0
         /\ r.down /\ l > 0 => Voice!Delta(r, l) < 0
<1>1. r.delta \in Int /\ Full + 1 \in Nat \ {0}
  BY VoiceFacts DEF Voice!Rate
<1>2. r.down => /\ Voice!FloorDiv(r.delta * l, Full + 1) \in Int
                /\ Voice!FloorDiv(r.delta * l, Full + 1) <= 0
                /\ l > 0 => Voice!FloorDiv(r.delta * l, Full + 1) < 0
  BY <1>1, FloorFalls
<1>3. Voice!Delta(r, l) = IF r.exp /\ r.down THEN Voice!FloorDiv(r.delta * l, Full + 1)
                                              ELSE r.delta
  BY DEF Voice!Delta
<1>4. PICK x : x = Voice!FloorDiv(r.delta * l, Full + 1)
  OBVIOUS
<1>5. PICK y : y = Voice!Delta(r, l)
  OBVIOUS
<1>6. y = IF r.exp /\ r.down THEN x ELSE r.delta
  BY ONLY <1>3, <1>4, <1>5
<1>7. r.down => x \in Int /\ x <= 0 /\ (l > 0 => x < 0)
  BY ONLY <1>2, <1>4
<1>8. y \in Int /\ (r.down => y <= 0) /\ (r.down /\ l > 0 => y < 0)
  BY ONLY <1>1, <1>6, <1>7, r.down <=> r.delta < 0
<1> QED BY ONLY <1>5, <1>8

(* What a tick makes of the envelope: a stopped one stays so, a released    *)
(* one is released or stopped, and a fading one moves on.                   *)
LEMMA EnvelopeFacts ==
  ASSUME Voice!VoiceAssumption, setting \in Settings, NEW e \in EnvelopePart
  PROVE  LET r == Voice!Envelope(e)
         IN  /\ r \in EnvelopePart
             /\ e.phase \in {"release", "stopped"} => r.phase \in {"release", "stopped"}
             /\ e.phase = "stopped" => r.phase = "stopped"
             /\ e.phase \in {"release", "decay"} /\ r.phase = e.phase =>
                  r.level < e.level \/ (r.level = e.level /\ r.counter > e.counter)
<1> DEFINE r == Voice!Envelope(e)
           q == setting[e.phase]
           counter == e.counter + Voice!Increment(q, e.level)
           due == counter >= Full + 1
           sum == e.level + Voice!Delta(q, e.level)
           level == IF due THEN Voice!Clamp(sum) ELSE e.level
           onward == Voice!NextPhase(e.phase, level)
<1>1. e.phase \in Voice!Phases /\ e.level \in 0..Full /\ e.counter \in Nat
  BY DEF EnvelopePart
<1>2. CASE e.phase = "stopped"
  <2>1. r = e
    BY <1>2 DEF Voice!Envelope
  <2> QED BY <1>2, <2>1
<1>3. CASE e.phase # "stopped"
  <2>0. Full \in Nat \ {0}
    BY VoiceFacts
  <2>1. /\ q \in Voice!Rate /\ (q.down <=> q.delta < 0)
        /\ e.phase \in {"release", "decay"} => q.down
        /\ setting.floor \in 0..Full
    <3>1. \A p \in Voice!Phases \ {"stopped"} :
            setting[p] \in Voice!Rate /\ setting[p].down = (setting[p].delta < 0)
      BY DEF Voice!VoiceAssumption
    <3>2. q \in Voice!Rate /\ q.down = (q.delta < 0)
      BY <1>1, <1>3, <3>1
    <3>3. setting.decay.down /\ setting.release.down /\ setting.floor \in 0..Full
      BY DEF Voice!VoiceAssumption
    <3>4. e.phase = "release" => q = setting.release
      OBVIOUS
    <3>5. e.phase = "decay" => q = setting.decay
      OBVIOUS
    <3> QED BY <3>2, <3>3, <3>4, <3>5
  <2>2. PICK i \in Nat : i = Voice!Increment(q, e.level) /\ i >= 1
    BY <1>1, <2>1, IncrementIs
  <2>3. counter \in Nat /\ counter > e.counter /\ due \in BOOLEAN
    BY <1>1, <2>0, <2>2
  <2>4. PICK d \in Int : /\ d = Voice!Delta(q, e.level) /\ (q.down => d <= 0)
                         /\ (q.down /\ e.level > 0 => d < 0)
    BY <1>1, <2>1, DeltaIs
  <2>5. sum \in Int /\ (q.down => sum <= e.level) /\ (q.down /\ e.level > 0 => sum < e.level)
    BY <1>1, <2>4
  <2>6. r = [level |-> level, counter |-> IF due THEN 0 ELSE counter, phase |-> onward]
    BY <1>3 DEF Voice!Envelope
  <2> HIDE DEF counter, sum
  <2>7. /\ Voice!Clamp(sum) \in 0..Full /\ (q.down /\ e.level = 0 => Voice!Clamp(sum) < 1)
        /\ (q.down /\ e.level > 0 => Voice!Clamp(sum) < e.level)
    BY <1>1, <2>0, <2>5, Clamped
  <2> HIDE DEF q, due
  <2>8. /\ level \in 0..Full /\ (due /\ q.down /\ e.level = 0 => level < 1)
        /\ (due /\ q.down /\ e.level > 0 => level < e.level)
    BY <1>1, <2>7
  <2>9. ~due => level = e.level
    OBVIOUS
  <2> HIDE DEF level
  <2>10. /\ onward \in Voice!Phases
         /\ e.phase = "release" => onward \in {"release", "stopped"}
         /\ e.phase = "release" /\ onward = e.phase => level # 0
         /\ e.phase = "decay" /\ onward = e.phase => ~(level <= setting.floor)
    <3>1. CASE e.phase = "attack"
      BY <3>1 DEF Voice!NextPhase, Voice!Phases
    <3>2. CASE e.phase = "decay"
      BY <3>2 DEF Voice!NextPhase, Voice!Phases
    <3>3. CASE e.phase = "sustain"
      BY <3>3 DEF Voice!NextPhase, Voice!Phases
    <3>4. CASE e.phase = "release"
      BY <3>4 DEF Voice!NextPhase, Voice!Phases
    <3> QED BY <1>1, <1>3, <3>1, <3>2, <3>3, <3>4 DEF Voice!Phases
  <2> HIDE DEF onward
  <2>11. /\ r \in EnvelopePart /\ r.phase = onward /\ r.level = level
         /\ r.counter = IF due THEN 0 ELSE counter
    BY <2>3, <2>6, <2>8, <2>10 DEF EnvelopePart
  <2> HIDE DEF r
  <2>12. ASSUME e.phase \in {"release", "decay"}, onward = e.phase
         PROVE  level < e.level \/ (level = e.level /\ ~due)
    <3>1. q.down
      BY <2>1, <2>12
    <3>2. level > 0 
      BY <2>0, <2>1, <2>8, <2>10, <2>12
    <3>3. CASE due
      <4>1. e.level > 0 => level < e.level
        BY <2>8, <3>1, <3>3
      <4>2. e.level = 0 => level < 1
        BY <2>8, <3>1, <3>3
      <4> QED BY <1>1, <2>8, <3>2, <4>1, <4>2
    <3>4. CASE ~due
      BY <2>9, <3>4
    <3> QED BY <3>3, <3>4
  <2>13. ASSUME e.phase \in {"release", "decay"}, r.phase = e.phase
         PROVE  r.level < e.level \/ (r.level = e.level /\ r.counter > e.counter)
    BY <2>3, <2>11, <2>12, <2>13
  <2>14. e.phase \in {"release", "stopped"} => r.phase \in {"release", "stopped"}
    BY <1>3, <2>10, <2>11
  <2> QED BY <1>3, <2>11, <2>13, <2>14 DEF r
<1> QED BY <1>2, <1>3

-----------------------------------------------------------------------------
(* A tick of a voice                                                        *)

(* Another envelope, or another voice that is no less silent, on the same   *)
(* note.                                                                    *)
LEMMA VoiceParts ==
  ASSUME NEW t, VoiceGood(t)
  PROVE  /\ t.voice \in VoicePart /\ t.stream \in StreamPart /\ t.env \in EnvelopePart
         /\ t.note \in NotePart /\ t.note.path \in Seq(PathItem)
         /\ t = [voice |-> t.voice, stream |-> t.stream, env |-> t.env, note |-> t.note]
BY DEF VoiceGood, VoiceState, NotePart

LEMMA WithEnvelope ==
  ASSUME NEW t, VoiceGood(t), NEW x \in EnvelopePart,
         t.env.phase = "stopped" => x.phase = "stopped"
  PROVE  LET r == [t EXCEPT !.env = x]
         IN  /\ VoiceGood(r) /\ r.env = x /\ r.voice = t.voice /\ r.stream = t.stream
             /\ r.note = t.note
<1> DEFINE r == [t EXCEPT !.env = x]
<1>1. r = [voice |-> t.voice, stream |-> t.stream, env |-> x, note |-> t.note]
  BY VoiceParts
<1>2. /\ r \in VoiceState /\ r.env = x /\ r.voice = t.voice /\ r.stream = t.stream
      /\ r.note = t.note
  BY <1>1, VoiceParts DEF VoiceState
<1> HIDE DEF r
<1>3. PitchGood(r) /\ PathGood(r.note.path) /\ StreamGood(r.note.path, r.stream) /\ StopGood(r)
  BY <1>2 DEF VoiceGood, PitchGood, StopGood
<1>4. VoiceGood(r)
  BY <1>2, <1>3 DEF VoiceGood
<1> QED BY <1>2, <1>4 DEF r

(* A voice whose envelope has run out falls silent.                         *)
LEMMA Silenced ==
  ASSUME NEW t, VoiceGood(t), t.voice.active, t.env.phase = "stopped"
  PROVE  LET r == [t EXCEPT !.voice.active = FALSE]
         IN  VoiceGood(r) /\ r.env = t.env /\ r.note = t.note
<1> DEFINE r == [t EXCEPT !.voice.active = FALSE]
           w == [t.voice EXCEPT !.active = FALSE]
<1>1. /\ w \in VoicePart /\ ~w.active /\ w.index = t.voice.index /\ w.pending = t.voice.pending
      /\ w.error = t.voice.error
  BY VoiceParts DEF VoicePart
<1>2. r = [t EXCEPT !.voice = w]
  BY VoiceParts
<1> HIDE DEF w
<1>3. /\ r \in VoiceState /\ r.env = t.env /\ r.voice = w /\ r.stream = t.stream
      /\ r.note = t.note
  BY <1>1, <1>2, VoiceParts DEF VoiceState
<1> HIDE DEF r
<1>4. PitchGood(r) /\ PathGood(r.note.path) /\ StreamGood(r.note.path, r.stream)
  BY <1>1, <1>3 DEF VoiceGood, PitchGood
<1>5. StopGood(r)
  BY <1>1, <1>3 DEF VoiceGood, StopGood
<1>6. VoiceGood(r)
  BY <1>3, <1>4, <1>5 DEF VoiceGood
<1> QED BY <1>3, <1>6 DEF r

LEMMA PlayKeeps ==
  ASSUME Voice!VoiceAssumption, memory \in SoundMemories, NEW t, VoiceGood(t), NEW pitch \in Nat
  PROVE  LET r == Voice!Play(t, pitch)
         IN  VoiceGood(r) /\ r.env = t.env /\ r.note.wanted = t.note.wanted
<1> DEFINE r == Voice!Play(t, pitch)
           c == Voice!Consume(t)
           w == [c.voice EXCEPT !.pending = c.voice.pending + pitch]
           n == [c.note EXCEPT !.owed = c.note.owed + pitch]
<1>1. VoiceGood(c) /\ c.env = t.env /\ c.note.wanted = t.note.wanted
  BY ConsumeKeeps
<1>2. r = IF c.voice.active THEN [c EXCEPT !.voice.pending = @ + pitch, !.note.owed = @ + pitch]
                            ELSE c
  BY DEF Voice!Play
<1> HIDE DEF r, c
<1>3. CASE ~c.voice.active
  BY <1>1, <1>2, <1>3 DEF r
<1>4. CASE c.voice.active
  <2>0. /\ c.voice.active \in BOOLEAN /\ c.voice.pending \in Nat /\ c.note.owed \in Nat
        /\ c.voice \in VoicePart /\ c.note \in NotePart
    BY <1>1, VoiceParts DEF VoicePart, NotePart
  <2>1. r = [c EXCEPT !.voice = w, !.note = n]
    BY <1>2, <1>4
  <2>2. /\ w \in VoicePart /\ (w.active <=> c.voice.active) /\ (w.error <=> c.voice.error)
        /\ w.index = c.voice.index /\ w.pending = c.voice.pending + pitch
    <3>1. c.voice.pending + pitch \in Nat
      BY <2>0
    <3> QED BY <2>0, <3>1 DEF VoicePart
  <2>3. /\ n \in NotePart /\ n.path = c.note.path /\ n.taken = c.note.taken
        /\ n.owed = c.note.owed + pitch /\ n.wanted = c.note.wanted
    <3>1. c.note.owed + pitch \in Nat
      BY <2>0
    <3> QED BY <2>0, <3>1 DEF NotePart
  <2> HIDE DEF w, n
  <2>4. r = [voice |-> w, stream |-> c.stream, env |-> c.env, note |-> n]
    <3>1. c = [voice |-> c.voice, stream |-> c.stream, env |-> c.env, note |-> c.note]
      BY <1>1, VoiceParts, Zenon
    <3> QED BY ONLY <2>1, <3>1
  <2>5. /\ r \in VoiceState /\ r.env = c.env /\ r.voice = w /\ r.stream = c.stream /\ r.note = n
    BY <1>1, <2>2, <2>3, <2>4, VoiceParts DEF VoiceState
  <2>6. PitchGood(r)
    <3>1. /\ c.note.taken * One + c.voice.pending = One + c.note.owed
          /\ c.note.taken = (Len(c.note.path) - 1) * Samples + c.voice.index
      BY <1>1, <1>4 DEF VoiceGood, PitchGood
    <3>2. c.note.taken * One + w.pending = One + n.owed
      <4>1. c.note.taken * One \in Int /\ One \in Int
        BY <2>0, VoiceFacts DEF NotePart
      <4>2. PICK a \in Int : a = c.note.taken * One
        BY <4>1
      <4>3. a + c.voice.pending = One + c.note.owed
        BY <3>1, <4>2
      <4>4. a + (c.voice.pending + pitch) = One + (c.note.owed + pitch)
        BY ONLY <2>0, <4>1, <4>2, <4>3, pitch \in Nat
      <4> QED BY ONLY <2>2, <2>3, <4>2, <4>4
    <3> QED BY <2>2, <2>3, <2>5, <3>1, <3>2 DEF PitchGood
  <2>7. PathGood(r.note.path) /\ StreamGood(r.note.path, r.stream)
    BY <1>1, <2>3, <2>5 DEF VoiceGood
  <2>8. StopGood(r)
    BY <1>1, <1>4, <2>2, <2>5 DEF VoiceGood, StopGood
  <2> QED BY <1>1, <2>3, <2>5, <2>6, <2>7, <2>8 DEF VoiceGood, r
<1> QED BY <1>3, <1>4

LEMMA VoiceTickKeeps ==
  ASSUME Voice!VoiceAssumption, memory \in SoundMemories, setting \in Settings,
         NEW t, VoiceGood(t), NEW pitch \in Nat
  PROVE  LET r == Voice!VoiceTick(t, pitch)
         IN  /\ VoiceGood(r) /\ r.note.wanted = t.note.wanted
             /\ t.env.phase \in {"release", "stopped"} => r.env.phase \in {"release", "stopped"}
<1> DEFINE r == Voice!VoiceTick(t, pitch)
           x == Voice!Envelope(t.env)
           e == [t EXCEPT !.env = x]
<1>1. /\ x \in EnvelopePart /\ (t.env.phase = "stopped" => x.phase = "stopped")
      /\ t.env.phase \in {"release", "stopped"} => x.phase \in {"release", "stopped"}
  BY EnvelopeFacts, VoiceParts
<1>2. /\ r = IF ~t.voice.active THEN t
             ELSE IF e.env.phase = "stopped" THEN [e EXCEPT !.voice.active = FALSE]
             ELSE Voice!Play(e, pitch)
  BY DEF Voice!VoiceTick
<1> HIDE DEF r, x
<1>3. VoiceGood(e) /\ e.env = x /\ e.voice = t.voice /\ e.stream = t.stream /\ e.note = t.note
  BY <1>1, WithEnvelope
<1> HIDE DEF e
<1>4. CASE ~t.voice.active
  BY <1>2, <1>4 DEF r
<1>5. CASE t.voice.active /\ e.env.phase = "stopped"
  <2>1. r = [e EXCEPT !.voice.active = FALSE]
    BY <1>2, <1>5
  <2>2. VoiceGood(r) /\ r.env = e.env /\ r.note = e.note
    BY <1>3, <1>5, <2>1, Silenced
  <2> QED BY <1>1, <1>3, <2>2 DEF r
<1>6. CASE t.voice.active /\ e.env.phase # "stopped"
  <2>1. r = Voice!Play(e, pitch)
    BY <1>2, <1>6
  <2>2. VoiceGood(r) /\ r.env = e.env /\ r.note.wanted = e.note.wanted
    BY <1>3, <2>1, PlayKeeps
  <2> QED BY <1>1, <1>3, <2>2 DEF r
<1> QED BY <1>4, <1>5, <1>6

LEMMA StartedGood ==
  ASSUME Voice!VoiceAssumption, NEW t, VoiceGood(t), NEW a \in Voice!BlockAddresses
  PROVE  VoiceGood(Voice!Started(t, a)) /\ Voice!Started(t, a).note.wanted = t.note.wanted
<1> DEFINE r == Voice!Started(t, a)
           n == [t.note EXCEPT !.path = <<>>, !.owed = 0, !.taken = 0]
<1>1. /\ n \in NotePart /\ n.path = <<>> /\ n.owed = 0 /\ n.taken = 0
      /\ n.wanted = t.note.wanted
  <2>1. t.note \in NotePart /\ <<>> \in Seq(PathItem)
    BY VoiceParts
  <2>2. PICK p \in Seq(PathItem) : p = <<>>
    BY <2>1
  <2>3. n = [t.note EXCEPT !.path = p, !.owed = 0, !.taken = 0]
    BY <2>2
  <2> HIDE DEF n
  <2> QED BY ONLY <2>1, <2>2, <2>3 DEF NotePart
<1> HIDE DEF n
<1>2. r = [stream |-> [next |-> a, loop |-> a, active |-> TRUE, manual |-> FALSE],
           env |-> [phase |-> "attack", level |-> 0, counter |-> 0],
           voice |-> [active |-> TRUE, error |-> FALSE, index |-> Samples, pending |-> One],
           note |-> n]
  BY DEF Voice!Started, n
<1>3. Full \in Nat /\ Samples \in Nat /\ One \in Nat
  BY VoiceFacts
<1>4. r \in VoiceState
  BY <1>1, <1>2, <1>3 DEF VoiceState, VoicePart, StreamPart, EnvelopePart, Voice!Phases
<1>5. /\ r.note = n /\ r.voice.active /\ ~r.voice.error /\ r.voice.index = Samples
      /\ r.voice.pending = One /\ ~r.stream.manual /\ r.stream.loop = r.stream.next
  BY <1>2
<1> HIDE DEF r
<1>6. PitchGood(r)
  <2>1. 0 * One + One = One + 0 /\ 0 = (0 - 1) * Samples + Samples
    BY <1>3
  <2>2. Len(<<>>) = 0
    OBVIOUS
  <2> QED BY <1>1, <1>5, <2>1, <2>2 DEF PitchGood
<1>7. PathGood(r.note.path)
  BY <1>1, <1>5 DEF PathGood
<1>8. StreamGood(r.note.path, r.stream) /\ StopGood(r)
  BY <1>1, <1>5 DEF StreamGood, StopGood
<1> QED BY <1>1, <1>4, <1>5, <1>6, <1>7, <1>8 DEF VoiceGood, r

-----------------------------------------------------------------------------
(* The voice's steps                                                        *)

VoiceNow == [voice |-> voice, stream |-> stream, env |-> env, note |-> note]
VoiceInv ==
  /\ memory \in SoundMemories /\ setting \in Settings /\ delay \in 0..2
  /\ VoiceGood(VoiceNow) /\ Voice!KeyOffHeard

LEMMA SameMemory ==
  ASSUME memory' = memory
  PROVE  \A t : VoiceGood(t)' <=> VoiceGood(t)
<1>1. \A path, i, manual : Voice!LoopOf(path, i, manual)' = Voice!LoopOf(path, i, manual)
  BY DEF Voice!LoopOf
<1>2. \A path, i : Voice!Follows(path, i)' <=> Voice!Follows(path, i)
  BY <1>1 DEF Voice!Follows
<1>3. \A path : PathGood(path)' <=> PathGood(path)
  BY <1>2 DEF PathGood
<1>4. \A path, s : StreamGood(path, s)' <=> StreamGood(path, s)
  BY <1>1 DEF StreamGood
<1>5. \A t : StopGood(t)' <=> StopGood(t)
  BY DEF StopGood
<1> QED BY <1>3, <1>4, <1>5 DEF VoiceGood, PitchGood

(* What is left of a step when the parts it gives are good.                 *)
LEMMA VoiceStepTo ==
  ASSUME VoiceInv, NEW t, VoiceGood(t), memory' = memory, setting' = setting, delay' \in 0..2,
         voice' = t.voice, stream' = t.stream, env' = t.env, note' = t.note,
         ~t.note.wanted => delay' = 0 /\ t.env.phase \in {"release", "stopped"}
  PROVE  VoiceInv'
<1>1. VoiceNow' = t
  BY VoiceParts DEF VoiceNow
<1>2. VoiceGood(VoiceNow)'
  <2>1. VoiceGood(t)'
    BY SameMemory
  <2> QED BY <1>1, <2>1, SameMemory DEF VoiceGood
<1> QED BY <1>2 DEF VoiceInv, Voice!KeyOffHeard

LEMMA KeyOnStep == ASSUME VoiceInv, Voice!KeyOn PROVE VoiceInv'
<1> DEFINE n == [note EXCEPT !.wanted = TRUE]
           t == [voice |-> voice, stream |-> stream, env |-> env, note |-> n]
<1>1. VoiceGood(VoiceNow)
  BY DEF VoiceInv
<1>2. /\ note \in NotePart /\ voice \in VoicePart /\ stream \in StreamPart
      /\ env \in EnvelopePart
  BY <1>1 DEF VoiceGood, VoiceState, VoiceNow
<1>3. /\ n \in NotePart /\ n.path = note.path /\ n.owed = note.owed /\ n.taken = note.taken
      /\ n.wanted
  BY <1>2 DEF NotePart
<1>4. n = [note EXCEPT !.wanted = TRUE]
  OBVIOUS
<1> HIDE DEF n
<1>5. VoiceGood(t)
  BY <1>1, <1>2, <1>3 DEF VoiceGood, VoiceNow, VoiceState, PitchGood, StopGood
<1>6. /\ t.voice = voice /\ t.stream = stream /\ t.env = env /\ t.note = n
  OBVIOUS
<1> HIDE DEF t
<1>7. /\ memory' = memory /\ setting' = setting /\ delay' = 2 /\ note' = n
      /\ voice' = voice /\ stream' = stream /\ env' = env
  BY <1>4 DEF Voice!KeyOn
<1>8. delay' \in 0..2
  BY <1>7
<1> QED BY <1>3, <1>5, <1>6, <1>7, <1>8, VoiceStepTo

LEMMA KeyOffStep == ASSUME VoiceInv, Voice!KeyOff PROVE VoiceInv'
<1> DEFINE n == [note EXCEPT !.wanted = FALSE]
           x == IF env.phase = "stopped" THEN env
                ELSE [env EXCEPT !.phase = "release", !.counter = 0]
           t == [voice |-> voice, stream |-> stream, env |-> x, note |-> n]
<1>1. VoiceGood(VoiceNow)
  BY DEF VoiceInv
<1>2. /\ note \in NotePart /\ voice \in VoicePart /\ stream \in StreamPart
      /\ env \in EnvelopePart
  BY <1>1 DEF VoiceGood, VoiceState, VoiceNow
<1>3. /\ n \in NotePart /\ n.path = note.path /\ n.owed = note.owed /\ n.taken = note.taken
      /\ ~n.wanted
  BY <1>2 DEF NotePart
<1>4. /\ x \in EnvelopePart /\ x.phase \in {"release", "stopped"}
      /\ env.phase = "stopped" => x.phase = "stopped"
  BY <1>2 DEF EnvelopePart, Voice!Phases
<1>5. /\ memory' = memory /\ setting' = setting /\ delay' = 0 /\ note' = n
      /\ voice' = voice /\ stream' = stream /\ env' = x
  BY DEF Voice!KeyOff, Voice!DroppedDelay
<1> HIDE DEF n, x
<1>6. VoiceGood(t)
  BY <1>1, <1>2, <1>3, <1>4 DEF VoiceGood, VoiceNow, VoiceState, PitchGood, StopGood
<1>7. /\ t.voice = voice /\ t.stream = stream /\ t.env = x /\ t.note = n
  OBVIOUS
<1> HIDE DEF t
<1>8. delay' \in 0..2
  BY <1>5
<1> QED BY <1>3, <1>4, <1>5, <1>6, <1>7, <1>8, VoiceStepTo

LEMMA SetLoopAddressStep == ASSUME VoiceInv, Voice!SetLoopAddress PROVE VoiceInv'
<1>1. PICK a \in Voice!BlockAddresses : stream' = [stream EXCEPT !.loop = a, !.manual = TRUE]
  BY DEF Voice!SetLoopAddress
<1> DEFINE s == [stream EXCEPT !.loop = a, !.manual = TRUE]
           t == [voice |-> voice, stream |-> s, env |-> env, note |-> note]
<1>2. VoiceGood(VoiceNow)
  BY DEF VoiceInv
<1>3. /\ note \in NotePart /\ voice \in VoicePart /\ stream \in StreamPart
      /\ env \in EnvelopePart
  BY <1>2 DEF VoiceGood, VoiceState, VoiceNow
<1>4. /\ s \in StreamPart /\ s.manual /\ s.next = stream.next
      /\ s.active = stream.active
  BY <1>3 DEF StreamPart
<1>5. stream' = s
  BY <1>1
<1> HIDE DEF s
<1>6. VoiceGood(t)
  BY <1>2, <1>3, <1>4 DEF VoiceGood, VoiceNow, VoiceState, PitchGood, StopGood, StreamGood
<1>7. /\ t.voice = voice /\ t.stream = s /\ t.env = env /\ t.note = note
  OBVIOUS
<1> HIDE DEF t
<1>8. /\ memory' = memory /\ setting' = setting /\ delay' = delay /\ note' = note
      /\ voice' = voice /\ env' = env
  BY DEF Voice!SetLoopAddress
<1>9. delay' \in 0..2 /\ (~note.wanted => delay = 0 /\ env.phase \in {"release", "stopped"})
  BY <1>8 DEF VoiceInv, Voice!KeyOffHeard
<1> QED BY <1>5, <1>6, <1>7, <1>8, <1>9, VoiceStepTo

LEMMA TickOfStep ==
  ASSUME Voice!VoiceAssumption, VoiceInv, NEW before, VoiceGood(before), Voice!TickOf(before),
         ~before.note.wanted => delay = 0 /\ before.env.phase \in {"release", "stopped"}
  PROVE  VoiceInv'
<1>1. PICK pitch \in Pitches :
        LET t == Voice!VoiceTick(before, pitch)
        IN  voice' = t.voice /\ stream' = t.stream /\ env' = t.env /\ note' = t.note
  BY DEF Voice!TickOf
<1>2. pitch \in Nat /\ memory \in SoundMemories /\ setting \in Settings /\ delay \in 0..2
  BY DEF Voice!VoiceAssumption, VoiceInv
<1>3. PICK t : t = Voice!VoiceTick(before, pitch)
  OBVIOUS
<1>4. /\ VoiceGood(t) /\ t.note.wanted = before.note.wanted
      /\ before.env.phase \in {"release", "stopped"} => t.env.phase \in {"release", "stopped"}
  BY <1>2, <1>3, VoiceTickKeeps
<1>5. /\ memory' = memory /\ setting' = setting
      /\ delay' = IF delay = 0 THEN 0 ELSE delay - 1
  BY DEF Voice!TickOf
<1>6. delay' \in 0..2 /\ (delay = 0 => delay' = 0)
  <2>1. PICK d : d = IF delay = 0 THEN 0 ELSE delay - 1
    OBVIOUS
  <2>2. d \in 0..2 /\ (delay = 0 => d = 0)
    BY ONLY <1>2, <2>1
  <2>3. delay' = d
    BY ONLY <1>5, <2>1
  <2> QED BY ONLY <2>2, <2>3
<1>7. voice' = t.voice /\ stream' = t.stream /\ env' = t.env /\ note' = t.note
  BY <1>1, <1>3
<1>8. ~t.note.wanted => delay' = 0 /\ t.env.phase \in {"release", "stopped"}
  BY <1>4, <1>6
<1> QED BY <1>4, <1>5, <1>6, <1>7, <1>8, VoiceStepTo

LEMMA VoiceStep ==
  ASSUME Voice!VoiceAssumption, VoiceInv, [Voice!Next]_Voice!vars
  PROVE  VoiceInv'
<1>1. VoiceGood(VoiceNow)
  BY DEF VoiceInv
<1>2. CASE Voice!Tick
  <2>1. Voice!TickOf(VoiceNow)
    BY <1>2 DEF Voice!Tick, Voice!Now, VoiceNow
  <2>2. ~VoiceNow.note.wanted => delay = 0 /\ VoiceNow.env.phase \in {"release", "stopped"}
    BY DEF VoiceInv, Voice!KeyOffHeard, VoiceNow
  <2> QED BY <1>1, <2>1, <2>2, TickOfStep
<1>3. CASE Voice!StartingTick
  <2>1. PICK a \in Voice!BlockAddresses : Voice!TickOf(Voice!Started(VoiceNow, a))
    BY <1>3 DEF Voice!StartingTick, Voice!Now, VoiceNow
  <2>2. PICK t : t = Voice!Started(VoiceNow, a)
    OBVIOUS
  <2>3. VoiceGood(t) /\ t.note.wanted = VoiceNow.note.wanted
    BY <1>1, <2>2, StartedGood
  <2>4. delay = 1
    BY <1>3 DEF Voice!StartingTick
  <2>5. note.wanted /\ VoiceNow.note.wanted = note.wanted
    BY <2>4 DEF VoiceInv, Voice!KeyOffHeard, VoiceNow
  <2> QED BY <2>1, <2>2, <2>3, <2>5, TickOfStep
<1>4. CASE UNCHANGED Voice!vars
  <2>1. UNCHANGED <<memory, setting, delay, voice, stream, env, note>>
    BY <1>4 DEF Voice!vars
  <2>2. VoiceNow' = VoiceNow /\ (VoiceGood(VoiceNow))'
    BY <1>1, <2>1, SameMemory DEF VoiceNow
  <2> QED BY <2>1, <2>2 DEF VoiceInv, Voice!KeyOffHeard
<1> QED BY <1>2, <1>3, <1>4, KeyOnStep, KeyOffStep, SetLoopAddressStep DEF Voice!Next

(* A voice plays what its registers and its blocks' flags say: as many      *)
(* samples as the pitches of its ticks add up to, from blocks that follow   *)
(* each other; it falls silent for a reason, and a key-off is never lost.   *)
THEOREM VoiceTheorem == Spec => []VoiceExact
<1>0. Voice!VoiceAssumption
  BY Constants
<1> DEFINE VoicePartInv == part = "voice" => VoiceInv
<1>1. Init => VoicePartInv
  <2> SUFFICES ASSUME Voice!Init PROVE VoiceInv
    BY PartInit
  <2>1. /\ voice = [active |-> FALSE, error |-> FALSE, index |-> Samples, pending |-> 0]
        /\ stream = [next |-> 0, loop |-> 0, active |-> FALSE, manual |-> FALSE]
        /\ env = [phase |-> "stopped", level |-> 0, counter |-> 0]
        /\ note = [path |-> <<>>, owed |-> 0, taken |-> 0, wanted |-> FALSE]
    BY DEF Voice!Init
  <2>2. Samples \in Nat /\ Full \in Nat /\ 0 \in Voice!BlockAddresses
    BY <1>0, VoiceFacts DEF Voice!BlockAddresses
  <2>3. voice \in VoicePart /\ stream \in StreamPart /\ env \in EnvelopePart /\ note \in NotePart
    BY <2>1, <2>2 DEF VoicePart, StreamPart, EnvelopePart, NotePart, Voice!Phases
  <2>4. VoiceNow \in VoiceState
    BY <2>3 DEF VoiceNow, VoiceState
  <2>5. VoiceGood(VoiceNow)
    BY <2>1, <2>4 DEF VoiceGood, VoiceNow, PitchGood, PathGood, StreamGood, StopGood
  <2> QED BY <2>1, <2>5 DEF VoiceInv, Voice!Init, Voice!KeyOffHeard
<1>2. VoicePartInv /\ [Next]_vars => VoicePartInv'
  BY <1>0, PartStep, VoiceStep
<1>3. VoicePartInv => VoiceExact
  <2> SUFFICES ASSUME VoiceInv PROVE Voice!VoiceExact
    BY DEF VoiceExact
  <2>1. /\ VoiceGood(VoiceNow) /\ VoiceNow.voice = voice /\ VoiceNow.note = note
        /\ VoiceNow.env = env /\ env \in EnvelopePart
    BY DEF VoiceInv, VoiceNow, VoiceGood, VoiceState
  <2>2. Voice!InPitch
    BY <2>1 DEF VoiceGood, PitchGood, Voice!InPitch
  <2>3. Voice!FollowsFlags
    BY <2>1 DEF VoiceGood, PathGood, Voice!FollowsFlags
  <2>4. Voice!StopsForAReason
    BY <2>1 DEF VoiceGood, StopGood, Goes, Voice!StopsForAReason, Voice!Last
  <2>5. Voice!Fades
    BY <1>0, <2>1, EnvelopeFacts DEF VoiceInv, Voice!Fades
  <2> QED BY <2>2, <2>3, <2>4, <2>5 DEF Voice!VoiceExact, VoiceInv
<1> QED BY <1>1, <1>2, <1>3, PTL DEF Spec
===============================================================================
