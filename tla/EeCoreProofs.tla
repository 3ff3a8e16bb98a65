----------------------------- MODULE EeCoreProofs -----------------------------
(***************************************************************************)
(* For every program of the shape EeControl assumes: interrupts and         *)
(* exceptions are invisible to it, and no device event is forgotten before  *)
(* the kernel serves it.  For every memory, TLB and block layout, and every *)
(* ^ that can be undone: a block decoded under the present TLB is stale on  *)
(* no hit.                                                                  *)
(*                                                                         *)
(* The argument for the control flow: a branch is pending just in the slot  *)
(* of a branch, EPC is always an address at which the program may go on by  *)
(* itself, and EXL is set just while a handler runs.                        *)
(*                                                                         *)
(* The argument for the cache: the stamp of a block of the present TLB is   *)
(* the generation g its page had at decode time, ^ mapGen.  Generations     *)
(* only grow, and a page whose generation is still g still holds what was   *)
(* decoded.  A hit makes the two stamps equal, and with one mapGen equal    *)
(* stamps mean equal generations.                                           *)
(***************************************************************************)
EXTENDS EeCore, TLAPS

-----------------------------------------------------------------------------
(* The two parts                                                            *)

(* What the parts assume of their constants.                                *)
LEMMA ProgramFacts ==
  /\ UserSize \in Nat \ {0} /\ MaxFills \in Nat
  /\ Kind \in [0..(UserSize + 5) -> STRING] /\ Target \in [Ee!User -> Ee!User]
  /\ IntVec = UserSize /\ ExcVec = UserSize + 4
  /\ Kind[IntVec] = "look" /\ Kind[IntVec + 1] = "ack" /\ Kind[IntVec + 2] = "serve"
  /\ Kind[IntVec + 3] = "eret"
  /\ Kind[ExcVec] = "fix" /\ Kind[ExcVec + 1] = "eret"
  /\ \A a \in Ee!User : Kind[a] \in Ee!UserKinds
  /\ \A a \in Ee!Slots : Kind[a] \in {"plain", "load", "ei", "di", "mask"}
  /\ \A a \in Ee!Branches : a + 1 \in Ee!User /\ Target[a] \notin Ee!Slots
  /\ \A a \in Ee!User :
       \/ a + 1 \in Ee!User
       \/ a \in Ee!Slots /\ Kind[a - 1] = "jump"
  /\ \A a \in Ee!User : Kind[a] = "likely" => a + 2 \in Ee!User
  BY Constants DEF Constants, Ee!ProgramAssumption
LEMMA CacheFacts ==
  /\ RamPages \in Nat /\ MaxGen \in Nat \ {0} /\ MaxMap \in Nat \ {0}
  /\ OtherPages \cap Nat = {} /\ Nowhere \notin Cache!Backing
  /\ Mapped \subseteq Pages
  /\ Reset \in [Pages -> Cache!Backing \cup {Nowhere}]
  /\ PageOf \in [Pcs -> Pages] /\ DOMAIN SlotOf = Pcs
  /\ Zeroed \in Codes /\ Widths \subseteq Nat \ {0}
  BY Constants DEF Constants, Cache!CacheAssumption
LEMMA XorFacts ==
  \A a, b \in Cache!Gens, m \in Cache!Maps : Xor(a, m) = Xor(b, m) => a = b
  BY Constants DEF Constants, Cache!XorAssumption

(* A step of EeCore is a step of one part and of the other, if a stutter.   *)
LEMMA PartStep ==
  ASSUME [Next]_vars
  PROVE  [Ee!Next]_Ee!vars /\ [Cache!Next]_Cache!vars
<1>1. CASE Executes
  BY <1>1 DEF Executes, cacheVars, Ee!Next, Cache!vars, Cache!memory
<1>2. CASE part = "control" /\ Ee!Raise /\ UNCHANGED <<part, cacheVars>>
  BY <1>2 DEF cacheVars, Ee!Next, Cache!vars, Cache!memory
<1>3. CASE part = "cache" /\ Cache!Next /\ UNCHANGED <<part, controlVars>>
  BY <1>3 DEF controlVars, Ee!vars, Ee!entryRegs, Ee!kernel, Ee!devices
<1>4. CASE UNCHANGED vars
  BY <1>4
  DEF vars, controlVars, cacheVars, Ee!vars, Ee!entryRegs, Ee!kernel, Ee!devices, Cache!vars,
      Cache!memory
<1> QED BY <1>1, <1>2, <1>3, <1>4 DEF Next

-----------------------------------------------------------------------------
(* The control flow                                                         *)

(* Where the program may be entered: not in the slot of a jump.             *)
Entries == {a \in Ee!User : ~(a - 1 \in Ee!User /\ Kind[a - 1] = "jump")}

ControlInv ==
  /\ pc \in 0..(UserSize + 5) /\ branch \in Ee!User \cup {Ee!None} /\ epc \in Entries
  /\ exl = (pc \notin Ee!User)
  /\ cause \in {"interrupt", "fault", "syscall"}
  /\ branch # Ee!None => pc \in Ee!Slots /\ branch = Target[pc - 1]
  /\ branch = Ee!None /\ pc \in Ee!User => pc \in Entries
  /\ cause = "syscall" /\ pc = ExcVec => Kind[epc] = "syscall"

DataInv ==
  /\ eie \in BOOLEAN /\ mapped \in BOOLEAN
  /\ stat \subseteq Sources /\ mask \subseteq Sources /\ want \subseteq Sources
  /\ seen \subseteq Sources /\ fills \in 0..MaxFills /\ ran \in Ee!User

EeInv == ControlInv /\ DataInv /\ Ee!EventsStayVisible

-----------------------------------------------------------------------------
(* The layout of the guest's memory                                         *)

(* Each kernel instruction is at its place, the program's at others.        *)
LEMMA Layout ==
  ASSUME NEW a \in 0..(UserSize + 5)
  PROVE  /\ Kind[a] \in Ee!UserKinds <=> a \in Ee!User
         /\ Kind[a] = "look" => a = IntVec
         /\ Kind[a] = "ack" => a = IntVec + 1
         /\ Kind[a] = "serve" <=> a = IntVec + 2
         /\ Kind[a] = "eret" => a \notin Ee!User
         /\ Kind[a] = "fix" <=> a = ExcVec
<1>1. CASE a \in Ee!User
  <2>1. Kind[a] \in Ee!UserKinds
    BY <1>1, ProgramFacts
  <2>2. a # IntVec + 2 /\ a # ExcVec
    BY <1>1, ProgramFacts DEF Ee!User
  <2> QED BY <1>1, <2>1, <2>2 DEF Ee!UserKinds
<1>2. CASE a \notin Ee!User
  <2>1. a \in {IntVec, IntVec + 1, IntVec + 2, IntVec + 3, ExcVec, ExcVec + 1}
    BY <1>2, ProgramFacts DEF Ee!User
  <2>2. IntVec + 2 # ExcVec /\ ExcVec + 1 # IntVec + 2 /\ IntVec + 3 # ExcVec
        /\ IntVec # ExcVec /\ IntVec + 1 # ExcVec
    BY ProgramFacts
  <2> QED BY <1>2, <2>1, <2>2, ProgramFacts DEF Ee!UserKinds
<1> QED BY <1>1, <1>2

(* The handlers are behind the program.                                     *)
LEMMA KernelPlaces ==
  /\ 0 \in Ee!User /\ DOMAIN Kind = 0..(UserSize + 5)
  /\ \A i \in 0..5 : UserSize + i \in 0..(UserSize + 5) /\ UserSize + i \notin Ee!User
BY ProgramFacts DEF Ee!User

(* A branch is followed by its slot, and leads to an entry.                 *)
LEMMA BranchFacts ==
  ASSUME NEW a \in Ee!User, Kind[a] \in {"branch", "likely", "jump"}
  PROVE  /\ a + 1 \in Ee!Slots /\ (a + 1) - 1 = a /\ a + 1 # Ee!None
         /\ Target[a] \in Entries /\ Target[a] # Ee!None
         /\ a \notin Ee!Slots
         /\ Kind[a] = "branch" => a + 1 \in Entries
         /\ Kind[a] = "likely" => a + 2 \in Entries
<1>1. a \in Int /\ a + 1 \in Int /\ (a + 1) - 1 = a /\ (a + 2) - 1 = a + 1 /\ a + 1 # Ee!None
  BY ProgramFacts DEF Ee!User, Ee!None
<1>2. a + 1 \in Ee!Slots /\ Target[a] \in Ee!User /\ Target[a] \notin Ee!Slots
  BY <1>1, ProgramFacts DEF Ee!Branches, Ee!Slots
<1>3. Target[a] \in Entries
  BY <1>2 DEF Entries, Ee!Slots
<1>4. a \notin Ee!Slots
  BY ProgramFacts
<1>5. Kind[a] = "branch" => a + 1 \in Entries
  BY <1>1, <1>2 DEF Entries, Ee!Slots
<1>6. Kind[a] = "likely" => a + 2 \in Entries
  <2> SUFFICES ASSUME Kind[a] = "likely" PROVE a + 2 \in Entries
    OBVIOUS
  <2>1. a + 2 \in Ee!User /\ Kind[a + 1] # "jump"
    BY <1>2, ProgramFacts
  <2> QED BY <1>1, <2>1 DEF Entries
<1>7. Target[a] # Ee!None
  BY <1>2, ProgramFacts DEF Ee!User, Ee!None
<1> QED BY <1>1, <1>2, <1>3, <1>4, <1>5, <1>6, <1>7

(* An entry that does not branch is followed by another.                    *)
LEMMA Successor ==
  ASSUME NEW a \in Entries, Kind[a] \notin {"branch", "likely", "jump"}
  PROVE  a + 1 \in Entries /\ a + 1 # Ee!None
<1>1. a \in Ee!User /\ a \in Int /\ (a + 1) - 1 = a /\ a + 1 # Ee!None
  BY ProgramFacts DEF Entries, Ee!User, Ee!None
<1>2. a + 1 \in Ee!User
  BY <1>1, ProgramFacts DEF Entries, Ee!Slots
<1> QED BY <1>1, <1>2 DEF Entries

(* A slot follows a branch.                                                 *)
LEMMA SlotFacts ==
  ASSUME NEW a \in Ee!Slots
  PROVE  /\ a \in Ee!User /\ a - 1 \in Ee!User /\ a = (a - 1) + 1
         /\ Kind[a - 1] \in {"branch", "likely", "jump"} /\ a - 1 \in Entries
         /\ Kind[a] \in {"plain", "load", "ei", "di", "mask"}
<1>1. a \in Ee!User /\ a - 1 \in Ee!User /\ Kind[a - 1] \in {"branch", "likely", "jump"}
  BY DEF Ee!Slots
<1>2. a \in Int /\ a = (a - 1) + 1
  BY <1>1, ProgramFacts DEF Ee!User
<1>3. a - 1 \notin Ee!Slots
  BY <1>1, BranchFacts
<1>4. a - 1 \in Entries
  BY <1>1, <1>3 DEF Entries, Ee!Slots
<1> QED BY <1>1, <1>2, <1>4, ProgramFacts

-----------------------------------------------------------------------------
(* What a step does to the control state                                    *)

(* In the program, ReturnPoint is an entry, the place where it stands.      *)
LEMMA ReturnIsEntry ==
  ASSUME ControlInv, pc \in Ee!User
  PROVE  Ee!ReturnPoint \in Entries /\ Ee!At = Ee!ReturnPoint
<1>1. ~exl
  BY DEF ControlInv
<1>2. Ee!At = Ee!ReturnPoint
  BY <1>1 DEF Ee!At, Ee!ReturnPoint
<1>3. CASE branch = Ee!None
  BY <1>2, <1>3 DEF ControlInv, Ee!ReturnPoint
<1>4. CASE branch # Ee!None
  <2>1. pc \in Ee!Slots
    BY <1>4 DEF ControlInv
  <2> QED BY <1>2, <1>4, <2>1, SlotFacts DEF Ee!ReturnPoint
<1> QED BY <1>3, <1>4

(* Retiring an instruction of the program leads to an entry.                *)
LEMMA RetireInUser ==
  ASSUME ControlInv, pc \in Ee!User, Kind[pc] \notin {"branch", "likely", "jump"}, Ee!Retire
  PROVE  pc' \in Entries /\ branch' = Ee!None
<1>1. CASE branch = Ee!None
  BY <1>1, Successor DEF ControlInv, Ee!Retire
<1>2. CASE branch # Ee!None
  <2>1. pc \in Ee!Slots /\ branch = Target[pc - 1]
    BY <1>2 DEF ControlInv
  <2> QED BY <1>2, <2>1, SlotFacts, BranchFacts DEF Ee!Retire
<1> QED BY <1>1, <1>2

(* Standing at an entry of the program is a legal control state.            *)
LEMMA AtEntry ==
  ASSUME pc' \in Entries, branch' = Ee!None, exl' = FALSE, epc' \in Entries,
         cause' \in {"interrupt", "fault", "syscall"}
  PROVE  ControlInv'
<1>1. pc' \in Ee!User /\ pc' \in 0..(UserSize + 5) /\ pc' # ExcVec
  <2>1. \A a \in Entries : a \in Ee!User /\ a \in 0..(UserSize + 5) /\ a # ExcVec
    BY ProgramFacts DEF Entries, Ee!User
  <2> QED BY <2>1
<1>2. branch' \in Ee!User \cup {Ee!None}
  BY Zenon
<1>3. exl' = (pc' \notin Ee!User)
  BY <1>1
<1> QED BY <1>1, <1>2, <1>3 DEF ControlInv

(* So is running a handler that will return to an entry.                    *)
LEMMA InHandler ==
  ASSUME NEW i \in 0..5, pc' = UserSize + i, branch' = Ee!None, exl' = TRUE, epc' \in Entries,
         cause' \in {"interrupt", "fault", "syscall"},
         cause' = "syscall" /\ pc' = ExcVec => Kind[epc'] = "syscall"
  PROVE  ControlInv'
<1>1. pc' \notin Ee!User /\ pc' \in 0..(UserSize + 5)
  BY KernelPlaces
<1>2. branch' \in Ee!User \cup {Ee!None}
  BY Zenon
<1>3. exl' = (pc' \notin Ee!User)
  BY <1>1
<1> QED BY <1>1, <1>2, <1>3 DEF ControlInv

-----------------------------------------------------------------------------
(* The steps keep the control state                                         *)

(* In a handler EXL is set, no branch is pending, and no interrupt comes.   *)
LEMMA HandlerFacts ==
  ASSUME ControlInv, pc \notin Ee!User
  PROVE  exl = TRUE /\ branch = Ee!None /\ ~Ee!Interruptible
<1>1. exl = TRUE /\ ~(pc \in Ee!Slots)
  BY DEF ControlInv, Ee!Slots
<1> QED BY <1>1 DEF ControlInv, Ee!Interruptible

(* Outside, EXL is clear.                                                   *)
LEMMA UserFacts ==
  ASSUME ControlInv, Kind[pc] \in Ee!UserKinds \/ ~exl
  PROVE  pc \in Ee!User /\ exl = FALSE
  BY Layout DEF ControlInv

(* Interrupt entry.                                                         *)
LEMMA InterruptKeeps == ASSUME ControlInv, Ee!TakeInterrupt PROVE ControlInv'
<1>1. ~exl /\ branch = Ee!None
  BY DEF Ee!TakeInterrupt, Ee!Interruptible
<1>2. pc \in Entries
  BY <1>1, UserFacts DEF ControlInv
<1>3. pc' = UserSize + 0 /\ epc' = pc /\ exl' = TRUE /\ branch' = Ee!None /\ cause' = "interrupt"
  BY ProgramFacts DEF Ee!TakeInterrupt
<1> QED BY <1>2, <1>3, InHandler

(* Exception entry.                                                         *)
LEMMA ExceptionKeeps ==
  ASSUME ControlInv, pc \in Ee!User, NEW why \in {"fault", "syscall"},
         Ee!RaiseException(why), why = "syscall" => Kind[pc] = "syscall"
  PROVE  ControlInv'
<1>1. pc' = UserSize + 4 /\ epc' = Ee!ReturnPoint /\ exl' = TRUE /\ branch' = Ee!None
      /\ cause' = why
  BY ProgramFacts DEF Ee!RaiseException
<1>2. Ee!ReturnPoint \in Entries
  BY ReturnIsEntry
<1>3. why = "syscall" => Ee!ReturnPoint = pc
  <2>1. why = "syscall" => branch = Ee!None
    BY SlotFacts DEF ControlInv
  <2> QED BY <2>1 DEF Ee!ReturnPoint
<1>4. cause' = "syscall" /\ pc' = ExcVec => Kind[epc'] = "syscall"
  BY <1>1, <1>3
<1> QED BY <1>1, <1>2, <1>4, InHandler

(* An instruction of the program that retires.                              *)
LEMMA RetireKeeps ==
  ASSUME ControlInv, Kind[pc] \in Ee!UserKinds, Kind[pc] \notin {"branch", "likely", "jump"},
         Ee!Retire, UNCHANGED Ee!entryRegs
  PROVE  ControlInv'
<1>1. pc \in Ee!User /\ exl = FALSE
  BY UserFacts
<1>2. pc' \in Entries /\ branch' = Ee!None
  BY <1>1, RetireInUser
<1> QED BY <1>1, <1>2, AtEntry DEF ControlInv, Ee!entryRegs

(* A branch.                                                                *)
LEMMA BranchKeeps == ASSUME ControlInv, Ee!Branch PROVE ControlInv'
<1>1. /\ pc \in Ee!User /\ exl = FALSE /\ Kind[pc] \in {"branch", "likely", "jump"}
      /\ UNCHANGED Ee!entryRegs
  BY UserFacts DEF Ee!Branch, Ee!Runs, Ee!UserKinds
<1>2. CASE pc' = pc + 1 /\ branch' = Target[pc]
  <2>1. pc' \in Ee!Slots /\ branch' = Target[pc' - 1] /\ branch' # Ee!None /\ branch' \in Ee!User
    BY <1>1, <1>2, BranchFacts DEF Entries
  <2>2. pc' \in Ee!User /\ pc' \in 0..(UserSize + 5) /\ pc' # ExcVec
    <3>1. \A a \in Ee!Slots : a \in Ee!User /\ a \in 0..(UserSize + 5) /\ a # ExcVec
      BY ProgramFacts DEF Ee!Slots, Ee!User
    <3> QED BY <2>1, <3>1
  <2>3. exl' = (pc' \notin Ee!User)
    BY <1>1, <2>2 DEF Ee!entryRegs
  <2> QED BY <1>1, <2>1, <2>2, <2>3 DEF ControlInv, Ee!entryRegs
<1>3. CASE pc' \in Entries /\ branch' = Ee!None
  BY <1>1, <1>3, AtEntry DEF ControlInv, Ee!entryRegs
<1> QED BY <1>1, <1>2, <1>3, BranchFacts DEF Ee!Branch

(* The zero-fill loop, interpreted or not.                                  *)
LEMMA FillKeeps ==
  ASSUME ControlInv, Kind[pc] = "fill", pc' \in {pc, pc + 1}, branch' = Ee!None,
         UNCHANGED Ee!entryRegs
  PROVE  ControlInv'
<1>1. pc \in Ee!User /\ exl = FALSE
  BY UserFacts DEF Ee!UserKinds
<1>2. branch = Ee!None
  BY <1>1, SlotFacts DEF ControlInv
<1>3. pc \in Entries /\ pc + 1 \in Entries
  BY <1>1, <1>2, Successor DEF ControlInv
<1> QED BY <1>1, <1>3, AtEntry DEF ControlInv, Ee!entryRegs

(* ERET.                                                                    *)
LEMMA EretKeeps == ASSUME ControlInv, Ee!Eret PROVE ControlInv'
  BY AtEntry DEF ControlInv, Ee!Eret

(* A handler's instruction other than ERET.                                 *)
LEMMA HandlerKeeps ==
  ASSUME ControlInv, NEW i \in {0, 1, 2}, pc = UserSize + i, Ee!Retire, UNCHANGED Ee!entryRegs
  PROVE  ControlInv'
<1>1. i \in 0..5 /\ i + 1 \in 0..5 /\ UserSize + i + 1 = UserSize + (i + 1) /\ i + 1 # 4
  BY ProgramFacts
<1>2. pc \notin Ee!User
  BY <1>1, KernelPlaces
<1>3. exl = TRUE /\ branch = Ee!None
  BY <1>2, HandlerFacts
<1>4. pc' = UserSize + (i + 1) /\ branch' = Ee!None /\ exl' = TRUE /\ epc' = epc /\ cause' = cause
  BY <1>1, <1>3 DEF Ee!Retire, Ee!entryRegs
<1>5. pc' # ExcVec
  BY <1>1, <1>4, ProgramFacts
<1> QED BY <1>1, <1>4, <1>5, InHandler DEF ControlInv

(* The exception handler's work.                                            *)
LEMMA FixKeeps == ASSUME ControlInv, Ee!Fix PROVE ControlInv'
<1>1. pc = ExcVec
  BY Layout DEF ControlInv, Ee!Fix, Ee!Runs
<1>2. pc = UserSize + 4 /\ pc \notin Ee!User
  BY <1>1, ProgramFacts, KernelPlaces
<1>3. exl = TRUE /\ branch = Ee!None
  BY <1>2, HandlerFacts
<1>4. pc' = UserSize + 5 /\ branch' = Ee!None /\ exl' = TRUE /\ cause' = cause
  BY <1>2, <1>3, ProgramFacts DEF Ee!Retire, Ee!Fix
<1>5. epc' \in Entries
  BY <1>1, Successor DEF Ee!Fix, ControlInv
<1>6. pc' # ExcVec /\ 5 \in 0..5
  BY <1>4, ProgramFacts
<1>7. cause' \in {"interrupt", "fault", "syscall"}
  BY <1>4 DEF ControlInv
<1> QED BY <1>4, <1>5, <1>6, <1>7, InHandler

(* Every step keeps the control state.                                      *)
LEMMA ControlKept == ASSUME ControlInv, [Ee!Next]_Ee!vars PROVE ControlInv'
<1>1. CASE Ee!Plain
  BY <1>1, RetireKeeps DEF Ee!Plain, Ee!Runs, Ee!UserKinds
<1>2. CASE Ee!EnableDisable
  BY <1>2, RetireKeeps DEF Ee!EnableDisable, Ee!Runs, Ee!UserKinds
<1>3. CASE Ee!MaskWrite
  BY <1>3, RetireKeeps DEF Ee!MaskWrite, Ee!Runs, Ee!UserKinds
<1>4. CASE Ee!LoadFault
  <2>1. pc \in Ee!User /\ Kind[pc] = "load"
    BY <1>4, UserFacts DEF Ee!LoadFault, Ee!Runs, Ee!UserKinds
  <2> QED BY <1>4, <2>1, ExceptionKeeps DEF Ee!LoadFault
<1>5. CASE Ee!Syscall
  <2>1. pc \in Ee!User /\ Kind[pc] = "syscall"
    BY <1>5, UserFacts DEF Ee!Syscall, Ee!Runs, Ee!UserKinds
  <2> QED BY <1>5, <2>1, ExceptionKeeps DEF Ee!Syscall
<1>6. CASE Ee!FillStep \/ Ee!FastFill
  BY <1>6, FillKeeps DEF Ee!FillStep, Ee!FastFill, Ee!Runs
<1>7. CASE Ee!Look
  <2>1. pc = UserSize + 0
    BY <1>7, Layout, ProgramFacts DEF ControlInv, Ee!Look, Ee!Runs
  <2> QED BY <1>7, <2>1, HandlerKeeps DEF Ee!Look
<1>8. CASE Ee!Acknowledge
  <2>1. pc = UserSize + 1
    BY <1>8, Layout, ProgramFacts DEF ControlInv, Ee!Acknowledge, Ee!Runs
  <2> QED BY <1>8, <2>1, HandlerKeeps DEF Ee!Acknowledge
<1>9. CASE Ee!Serve
  <2>1. pc = UserSize + 2
    BY <1>9, Layout, ProgramFacts DEF ControlInv, Ee!Serve, Ee!Runs
  <2> QED BY <1>9, <2>1, HandlerKeeps DEF Ee!Serve
<1>10. CASE Ee!Raise \/ UNCHANGED Ee!vars
  BY <1>10 DEF Ee!Raise, Ee!vars, Ee!entryRegs, ControlInv
<1> QED
  BY <1>1, <1>2, <1>3, <1>4, <1>5, <1>6, <1>7, <1>8, <1>9, <1>10,
     InterruptKeeps, BranchKeeps, EretKeeps, FixKeeps DEF Ee!Next, Ee!Cpu

-----------------------------------------------------------------------------
(* The other variables, and the events                                      *)

(* Only an instruction of the program that is done is noted.                *)
LEMMA RanKept == ASSUME ControlInv, ran \in Ee!User, [Ee!Next]_Ee!vars PROVE ran' \in Ee!User
<1>1. CASE UNCHANGED ran
  BY <1>1
<1>2. CASE ran' = pc /\ Kind[pc] \in Ee!UserKinds
  BY <1>2, UserFacts
<1>3. CASE Ee!Fix /\ ran' = epc
  BY <1>3 DEF ControlInv, Entries
<1> QED
  BY <1>1, <1>2, <1>3
  DEF Ee!Next, Ee!Cpu, Ee!TakeInterrupt, Ee!Plain, Ee!LoadFault, Ee!Syscall, Ee!Branch,
      Ee!EnableDisable, Ee!FillStep, Ee!FastFill, Ee!Eret, Ee!MaskWrite, Ee!Look,
      Ee!Acknowledge, Ee!Serve, Ee!Fix, Ee!Raise, Ee!vars, Ee!Runs, Ee!UserKinds,
      Ee!RaiseException, Ee!Note

(* Every step keeps the types of the registers that hold data.              *)
LEMMA DataKept == ASSUME ControlInv, DataInv, [Ee!Next]_Ee!vars PROVE DataInv'
<1>1. ran' \in Ee!User
  BY RanKept DEF DataInv
<1>2. fills' \in 0..MaxFills
  <2>1. CASE Ee!FastFill
    <3>1. \A n \in 0..MaxFills : n < MaxFills => n + 1 \in 0..MaxFills
      BY ProgramFacts
    <3> QED BY <2>1, <3>1 DEF Ee!FastFill, DataInv
  <2>2. CASE fills' \in {0, fills}
    BY <2>2, ProgramFacts DEF DataInv
  <2> QED
    BY <2>1, <2>2
    DEF Ee!Next, Ee!Cpu, Ee!TakeInterrupt, Ee!Plain, Ee!LoadFault, Ee!Syscall, Ee!Branch,
        Ee!EnableDisable, Ee!FillStep, Ee!Eret, Ee!MaskWrite, Ee!Look, Ee!Acknowledge, Ee!Serve,
        Ee!Fix, Ee!Raise, Ee!vars, Ee!Runs
<1>3. eie' \in BOOLEAN /\ mapped' \in BOOLEAN
  BY Zenon
  DEF DataInv, Ee!Next, Ee!Cpu, Ee!TakeInterrupt, Ee!Plain, Ee!LoadFault, Ee!Syscall, Ee!Branch,
      Ee!EnableDisable, Ee!FillStep, Ee!FastFill, Ee!Eret, Ee!MaskWrite, Ee!Look,
      Ee!Acknowledge, Ee!Serve, Ee!Fix, Ee!Raise, Ee!vars, Ee!kernel, Ee!RaiseException
<1>4. stat' \subseteq Sources /\ mask' \subseteq Sources /\ want' \subseteq Sources
  BY DEF DataInv, Ee!Next, Ee!Cpu, Ee!TakeInterrupt, Ee!Plain, Ee!LoadFault, Ee!Syscall,
         Ee!Branch, Ee!EnableDisable, Ee!FillStep, Ee!FastFill, Ee!Eret, Ee!MaskWrite, Ee!Look,
         Ee!Acknowledge, Ee!Serve, Ee!Fix, Ee!Raise, Ee!vars, Ee!devices, Ee!RaiseException,
         Ee!Cleared, Ee!Toggled
<1>5. seen' \subseteq Sources
  BY DEF DataInv, Ee!Next, Ee!Cpu, Ee!TakeInterrupt, Ee!Plain, Ee!LoadFault, Ee!Syscall,
         Ee!Branch, Ee!EnableDisable, Ee!FillStep, Ee!FastFill, Ee!Eret, Ee!MaskWrite, Ee!Look,
         Ee!Acknowledge, Ee!Serve, Ee!Fix, Ee!Raise, Ee!vars, Ee!kernel, Ee!RaiseException,
         Ee!Lines
<1> QED BY <1>1, <1>2, <1>3, <1>4, <1>5 DEF DataInv

(* Between the acknowledgement and the service the handler knows of the     *)
(* events; at any other time their status bits are set.                     *)
LEMMA EventsKept == ASSUME EeInv, [Ee!Next]_Ee!vars PROVE Ee!EventsStayVisible'
<1>0. ControlInv /\ ControlInv' /\ pc \in 0..(UserSize + 5) /\ pc' \in 0..(UserSize + 5)
  BY ControlKept DEF EeInv, ControlInv
<1>1. (Kind[pc] = "serve" <=> pc = IntVec + 2) /\ (Kind[pc'] = "serve" <=> pc' = IntVec + 2)
  BY <1>0, Layout
<1>2. CASE Ee!Acknowledge
  <2>1. pc = IntVec + 1 /\ branch = Ee!None
    <3>1. pc = IntVec + 1
      BY <1>0, <1>2, Layout DEF Ee!Acknowledge, Ee!Runs
    <3>2. pc \notin Ee!User
      BY <3>1, KernelPlaces, ProgramFacts
    <3> QED BY <1>0, <3>1, <3>2, HandlerFacts
  <2>2. pc' = IntVec + 2 /\ pc # IntVec + 2
    BY <1>2, <2>1, ProgramFacts DEF Ee!Acknowledge, Ee!Retire
  <2>3. want \subseteq stat /\ want' = want /\ stat' = stat \ seen /\ seen' = seen
    BY <1>1, <1>2, <2>2 DEF EeInv, Ee!EventsStayVisible, Ee!Acknowledge, Ee!Cleared, Ee!kernel
  <2> QED BY <1>1, <2>2, <2>3 DEF Ee!EventsStayVisible
<1>3. CASE Ee!Serve
  <2>1. want' = want \ seen /\ stat' = stat
    BY <1>3 DEF Ee!Serve
  <2> QED BY <2>1 DEF EeInv, Ee!EventsStayVisible
<1>4. CASE Ee!Raise \/ UNCHANGED Ee!vars
  <2>1. UNCHANGED <<pc, seen>>
    BY <1>4 DEF Ee!Raise, Ee!vars, Ee!kernel
  <2>2. \/ UNCHANGED <<stat, want>>
        \/ \E s \in Sources : stat' = stat \cup {s} /\ want' = want \cup {s}
    BY <1>4 DEF Ee!Raise, Ee!vars, Ee!devices
  <2> QED BY <2>1, <2>2 DEF EeInv, Ee!EventsStayVisible
<1>5. CASE UNCHANGED <<stat, want>> /\ (Kind[pc] # "serve" \/ UNCHANGED <<pc, seen>>)
  BY <1>5 DEF EeInv, Ee!EventsStayVisible
<1>6. Kind[pc] = "serve" => ~Ee!Interruptible
  <2>1. Kind[pc] = "serve" => pc \notin Ee!User
    BY <1>1, KernelPlaces, ProgramFacts
  <2> QED BY <1>0, <2>1, HandlerFacts
<1>7. \/ Ee!Acknowledge \/ Ee!Serve \/ Ee!Raise \/ UNCHANGED Ee!vars
      \/ UNCHANGED <<stat, want>> /\ Kind[pc] # "serve"
  BY <1>6
  DEF Ee!Next, Ee!Cpu, Ee!TakeInterrupt, Ee!Plain, Ee!LoadFault, Ee!Syscall, Ee!Branch,
      Ee!EnableDisable, Ee!FillStep, Ee!FastFill, Ee!Eret, Ee!MaskWrite, Ee!Look, Ee!Fix,
      Ee!devices, Ee!Runs, Ee!RaiseException
<1> QED BY <1>2, <1>3, <1>4, <1>5, <1>7

-----------------------------------------------------------------------------
(* The theorems                                                             *)

(* After reset the invariant holds.                                         *)
LEMMA ControlInit == Ee!Init => EeInv
<1> SUFFICES ASSUME Ee!Init PROVE EeInv
  OBVIOUS
<1>1. 0 \in Ee!User /\ 0 \in Entries /\ 0 \in 0..(UserSize + 5) /\ 0 # ExcVec
  BY ProgramFacts DEF Ee!User, Entries
<1>2. ControlInv
  BY <1>1 DEF Ee!Init, ControlInv
<1>3. DataInv
  <2>1. 0 \in 0..MaxFills
    BY ProgramFacts
  <2>2. eie \in BOOLEAN /\ mapped \in BOOLEAN
    BY Zenon DEF Ee!Init
  <2> QED BY <1>1, <2>1, <2>2 DEF Ee!Init, DataInv
<1>4. Ee!EventsStayVisible
  BY DEF Ee!Init, Ee!EventsStayVisible
<1> QED BY <1>2, <1>3, <1>4 DEF EeInv

-----------------------------------------------------------------------------
(* The refinement                                                           *)

(* Retiring an instruction of the program, alone or in a taken branch's     *)
(* slot, is a step of the program's flow.                                   *)
LEMMA RetireFlows ==
  ASSUME ControlInv, Kind[pc] \in Ee!Flow!Straight, Kind[pc] # "syscall", Kind[pc] # "fill",
         Ee!Retire, Ee!Note, UNCHANGED Ee!entryRegs
  PROVE  Ee!Flow!Next
<1>1. pc \in Ee!User /\ exl = FALSE /\ exl' = FALSE /\ branch' = Ee!None /\ ran' = pc
  BY UserFacts DEF Ee!Flow!Straight, Ee!UserKinds, Ee!Retire, Ee!Note, Ee!entryRegs
<1>2. Ee!At' = pc'
  BY <1>1 DEF Ee!At
<1>3. CASE branch = Ee!None
  <2>1. Ee!At = pc /\ pc' = pc + 1
    BY <1>1, <1>3 DEF Ee!At, Ee!Retire
  <2> QED BY <1>1, <1>2, <2>1 DEF Ee!Flow!Next, Ee!Flow!Sequential
<1>4. CASE branch # Ee!None
  <2>1. pc \in Ee!Slots /\ branch = Target[pc - 1] /\ Ee!At = pc - 1 /\ pc' = branch
    BY <1>1, <1>4 DEF Ee!At, Ee!Retire, ControlInv
  <2>2. pc = Ee!At + 1 /\ Kind[Ee!At] \in {"branch", "likely", "jump"}
    BY <2>1, SlotFacts
  <2> QED BY <1>1, <1>2, <2>1, <2>2 DEF Ee!Flow!Next, Ee!Flow!Taken
<1> QED BY <1>3, <1>4

(* A branch that is taken leaves the program where it is until its slot     *)
(* retires; one that is not is a step.                                      *)
LEMMA BranchFlows ==
  ASSUME ControlInv, Ee!Branch
  PROVE  Ee!Flow!Next \/ UNCHANGED <<Ee!At, ran>>
<1>1. /\ pc \in Ee!User /\ exl = FALSE /\ Kind[pc] \in {"branch", "likely", "jump"}
      /\ exl' = FALSE /\ ran' = ran
  BY UserFacts DEF Ee!Branch, Ee!Runs, Ee!UserKinds, Ee!entryRegs
<1>2. branch = Ee!None /\ Ee!At = pc
  BY <1>1, SlotFacts DEF ControlInv, Ee!At
<1>3. CASE pc' = pc + 1 /\ branch' = Target[pc]
  <2>1. branch' # Ee!None /\ pc' - 1 = pc
    BY <1>1, <1>3, BranchFacts
  <2>2. Ee!At' = pc
    BY <1>1, <2>1 DEF Ee!At
  <2> QED BY <1>1, <1>2, <2>2
<1>4. CASE Kind[pc] = "branch" /\ pc' = pc + 1 /\ branch' = Ee!None
  <2>1. Ee!At' = pc + 1
    BY <1>1, <1>4 DEF Ee!At
  <2> QED BY <1>1, <1>2, <1>4, <2>1 DEF Ee!Flow!Next, Ee!Flow!NotTaken
<1>5. CASE Kind[pc] = "likely" /\ pc' = pc + 2 /\ branch' = Ee!None
  <2>1. Ee!At' = pc + 2
    BY <1>1, <1>5 DEF Ee!At
  <2> QED BY <1>1, <1>2, <1>5, <2>1 DEF Ee!Flow!Next, Ee!Flow!NotTaken
<1> QED BY <1>3, <1>4, <1>5 DEF Ee!Branch

(* A round of the zero-fill loop is a step.                                 *)
LEMMA FillFlows ==
  ASSUME ControlInv, Kind[pc] = "fill", pc' \in {pc, pc + 1}, branch' = Ee!None, Ee!Note,
         UNCHANGED Ee!entryRegs
  PROVE  Ee!Flow!Next
<1>1. pc \in Ee!User /\ exl = FALSE /\ exl' = FALSE /\ ran' = pc
  BY UserFacts DEF Ee!UserKinds, Ee!entryRegs, Ee!Note
<1>2. branch = Ee!None
  BY <1>1, SlotFacts DEF ControlInv
<1>3. Ee!At = pc /\ Ee!At' = pc'
  BY <1>1, <1>2 DEF Ee!At
<1> QED BY <1>1, <1>3 DEF Ee!Flow!Next, Ee!Flow!Sequential, Ee!Flow!Again, Ee!Flow!Straight

(* Entering a handler leaves the program where it is.                       *)
LEMMA EntryHides ==
  ASSUME ControlInv, Ee!TakeInterrupt \/ Ee!LoadFault \/ Ee!Syscall
  PROVE  UNCHANGED <<Ee!At, ran>>
<1>1. CASE Ee!TakeInterrupt
  <2>1. Ee!At = pc /\ exl' = TRUE /\ epc' = pc /\ ran' = ran
    BY <1>1 DEF Ee!TakeInterrupt, Ee!Interruptible, Ee!At
  <2> QED BY <2>1 DEF Ee!At
<1>2. CASE Ee!LoadFault \/ Ee!Syscall
  <2>1. pc \in Ee!User
    BY <1>2, UserFacts DEF Ee!LoadFault, Ee!Syscall, Ee!Runs, Ee!UserKinds
  <2>2. exl' = TRUE /\ epc' = Ee!ReturnPoint /\ ran' = ran
    BY <1>2 DEF Ee!LoadFault, Ee!Syscall, Ee!RaiseException
  <2> QED BY <2>1, <2>2, ReturnIsEntry DEF Ee!At
<1> QED BY <1>1, <1>2

(* So does a handler's instruction, unless it completes a SYSCALL.          *)
LEMMA HandlerHides ==
  ASSUME ControlInv, Ee!Look \/ Ee!Acknowledge \/ Ee!Serve \/ Ee!Eret \/ Ee!Fix
  PROVE  Ee!Flow!Next \/ UNCHANGED <<Ee!At, ran>>
<1>1. pc \notin Ee!User
  <2>1. Kind[pc] \in {"look", "ack", "serve", "eret", "fix"} /\ pc \in 0..(UserSize + 5)
    BY DEF Ee!Look, Ee!Acknowledge, Ee!Serve, Ee!Eret, Ee!Fix, Ee!Runs, ControlInv
  <2> QED BY <2>1, Layout DEF Ee!UserKinds
<1>2. exl = TRUE /\ Ee!At = epc
  BY <1>1, HandlerFacts DEF Ee!At
<1>3. CASE Ee!Eret
  BY <1>2, <1>3 DEF Ee!Eret, Ee!At
<1>4. CASE Ee!Look \/ Ee!Acknowledge \/ Ee!Serve
  BY <1>2, <1>4 DEF Ee!Look, Ee!Acknowledge, Ee!Serve, Ee!entryRegs, Ee!At
<1>5. CASE Ee!Fix
  <2>1. Ee!At' = epc' /\ pc = ExcVec
    BY <1>2, <1>5, Layout DEF Ee!Fix, Ee!At, Ee!Runs, ControlInv
  <2>2. CASE cause = "syscall"
    BY <1>2, <1>5, <2>1, <2>2
    DEF Ee!Fix, ControlInv, Ee!Flow!Next, Ee!Flow!Sequential, Ee!Flow!Straight
  <2>3. CASE cause # "syscall"
    BY <1>2, <1>5, <2>1, <2>3 DEF Ee!Fix
  <2> QED BY <2>2, <2>3
<1> QED BY <1>3, <1>4, <1>5

-----------------------------------------------------------------------------
(* The cache of decoded blocks                                              *)

(* The slot's stamp tells whether its page is still what was decoded.       *)
BlockOK(b) ==
  /\ b.under <= mapGen
  /\ b.under = mapGen /\ trans[PageOf[b.pc]] \in Cache!Frames =>
       \E g \in Cache!Gens :
         /\ b.generation = Xor(g, mapGen)
         /\ g <= gen[trans[PageOf[b.pc]]]
         /\ g = gen[trans[PageOf[b.pc]]] => b.code = code[trans[PageOf[b.pc]]]

CacheInv == Cache!TypeOK /\ \A s \in Cache!Slots : cache[s].valid => BlockOK(cache[s])

-----------------------------------------------------------------------------
(* A slot that is valid holds a block.                                      *)
LEMMA ValidIsBlock ==
  ASSUME NEW b \in Cache!Block \cup {Cache!EmptySlot}, b.valid PROVE b \in Cache!Block
  BY DEF Cache!EmptySlot

(* PageGeneration makes a stamp.                                            *)
LEMMA StampType ==
  ASSUME Cache!TypeOK, NEW p \in Pages PROVE Cache!PageGeneration(p) \in Cache!Stamps
<1>1. CASE trans[p] \in Cache!Frames
  <2>1. <<gen[trans[p]], mapGen>> \in Cache!Gens \X Cache!Maps
    BY <1>1 DEF Cache!TypeOK
  <2> DEFINE q == <<gen[trans[p]], mapGen>>
  <2>2. Cache!PageGeneration(p) = Xor(q[1], q[2])
    BY <1>1 DEF Cache!PageGeneration
  <2> QED BY <2>1, <2>2 DEF Cache!Stamps
<1>2. CASE trans[p] \notin Cache!Frames
  BY <1>2 DEF Cache!PageGeneration, Cache!Stamps, Cache!TypeOK
<1> QED BY <1>1, <1>2

(* A step of memory that bumps every RAM page it changes keeps the blocks.  *)
LEMMA BumpedStep ==
  ASSUME CacheInv, Cache!TypeOK', UNCHANGED <<trans, mapGen, cache>>,
         \A f \in Cache!Frames : gen[f] <= gen'[f] /\ (gen'[f] = gen[f] => code'[f] = code[f])
  PROVE  CacheInv'
<1> SUFFICES ASSUME NEW s \in Cache!Slots, cache[s].valid PROVE BlockOK(cache[s])'
  BY DEF CacheInv
<1> DEFINE b == cache[s]
<1>1. b \in Cache!Block /\ BlockOK(b)
  BY ValidIsBlock DEF CacheInv, Cache!TypeOK
<1>2. CASE b.under = mapGen /\ trans[PageOf[b.pc]] \in Cache!Frames
  <2> DEFINE f == trans[PageOf[b.pc]]
  <2>1. PICK g \in Cache!Gens :
          /\ b.generation = Xor(g, mapGen)
          /\ g <= gen[f]
          /\ g = gen[f] => b.code = code[f]
    BY <1>1, <1>2 DEF BlockOK
  <2>2. gen[f] \in Nat /\ gen'[f] \in Nat /\ g \in Nat /\ f \in Cache!Frames
    BY <1>2 DEF CacheInv, Cache!TypeOK, Cache!Gens
  <2>3. gen[f] <= gen'[f] /\ (gen'[f] = gen[f] => code'[f] = code[f])
    BY <2>2
  <2> HIDE DEF f, b
  <2>4. g <= gen'[f]
    BY <2>1, <2>2, <2>3
  <2>5. g = gen'[f] => gen'[f] = gen[f]
    BY <2>1, <2>2, <2>3
  <2>6. g = gen'[f] => b.code = code'[f]
    BY <2>1, <2>3, <2>5
  <2> QED BY <1>1, <2>1, <2>4, <2>6 DEF BlockOK, f, b
<1>3. CASE ~(b.under = mapGen /\ trans[PageOf[b.pc]] \in Cache!Frames)
  BY <1>1, <1>3 DEF BlockOK
<1> QED BY <1>2, <1>3

(* A step that bumps the mapping generation disowns every block.            *)
LEMMA RemappedStep ==
  ASSUME CacheInv, Cache!TypeOK', cache' = cache, mapGen' = mapGen + 1
  PROVE  CacheInv'
<1> SUFFICES ASSUME NEW s \in Cache!Slots, cache[s].valid PROVE BlockOK(cache[s])'
  BY DEF CacheInv
<1>1. cache[s] \in Cache!Block /\ BlockOK(cache[s])
  BY ValidIsBlock DEF CacheInv, Cache!TypeOK
<1>2. cache[s].under \in Nat /\ mapGen \in Nat /\ cache[s].under <= mapGen
  BY <1>1 DEF Cache!Block, Cache!Maps, BlockOK, CacheInv, Cache!TypeOK
<1>3. cache[s].under <= mapGen' /\ cache[s].under # mapGen'
  BY <1>2
<1> QED BY <1>3 DEF BlockOK

(* What decode stores is a block of the present.                            *)
LEMMA DecodeOK ==
  ASSUME CacheInv, NEW a \in Pcs
  PROVE  /\ Cache!Decode(a) \in Cache!Block \cup {Cache!EmptySlot}
         /\ Cache!Decode(a).valid => BlockOK(Cache!Decode(a))
<1>1. PageOf[a] \in Pages
  BY CacheFacts
<1>2. CASE trans[PageOf[a]] = Nowhere
  BY <1>2 DEF Cache!Decode, Cache!EmptySlot
<1>3. CASE trans[PageOf[a]] # Nowhere
  <2>1. Cache!Decode(a) = [valid |-> TRUE, pc |-> a, generation |-> Cache!PageGeneration(PageOf[a]),
                      code |-> code[trans[PageOf[a]]],
                      from |-> trans[PageOf[a]], under |-> mapGen]
    BY <1>3 DEF Cache!Decode
  <2>2. trans[PageOf[a]] \in Cache!Backing /\ mapGen \in Cache!Maps
        /\ code[trans[PageOf[a]]] \in Codes
    BY <1>1, <1>3 DEF CacheInv, Cache!TypeOK
  <2>3. Cache!PageGeneration(PageOf[a]) \in Cache!Stamps
    BY <1>1, StampType DEF CacheInv
  <2>4. Cache!Decode(a) \in Cache!Block
    BY <2>1, <2>2, <2>3 DEF Cache!Block
  <2>5. mapGen <= mapGen
    BY <2>2 DEF Cache!Maps
  <2>6. ASSUME trans[PageOf[a]] \in Cache!Frames
        PROVE  /\ gen[trans[PageOf[a]]] \in Cache!Gens
               /\ Cache!PageGeneration(PageOf[a]) = Xor(gen[trans[PageOf[a]]], mapGen)
               /\ gen[trans[PageOf[a]]] <= gen[trans[PageOf[a]]]
    BY <2>6 DEF Cache!PageGeneration, CacheInv, Cache!TypeOK, Cache!Gens
  <2>7. BlockOK(Cache!Decode(a))
    BY <2>1, <2>5, <2>6 DEF BlockOK
  <2> QED BY <2>4, <2>7
<1> QED BY <1>2, <1>3

(* Types.                                                                   *)
LEMMA CacheTypes == CacheInv /\ Cache!Next => Cache!TypeOK'
<1> SUFFICES ASSUME Cache!TypeOK, CacheInv, Cache!Next PROVE Cache!TypeOK'
  BY DEF CacheInv
<1> USE DEF Cache!TypeOK
<1>1. ASSUME NEW p \in Pages, NEW w \in Widths, Cache!Store(p, w) PROVE Cache!TypeOK'
  <2>1. /\ \E c \in Codes : code' = [code EXCEPT ![trans[p]] = c]
        /\ gen' = [f \in Cache!Frames |-> IF f = trans[p] THEN gen[f] + w ELSE gen[f]]
        /\ \A f \in Cache!Frames : gen'[f] <= MaxGen
        /\ UNCHANGED <<trans, mapGen, cache>>
    BY <1>1 DEF Cache!Store
  <2>2. code' \in [Cache!Backing -> Codes]
    BY <2>1
  <2>3. \A f \in Cache!Frames : gen'[f] \in Nat
    BY <2>1, CacheFacts DEF Cache!Gens
  <2>4. gen' \in [Cache!Frames -> Cache!Gens]
    BY <2>1, <2>3, CacheFacts DEF Cache!Gens
  <2> QED BY <2>1, <2>2, <2>4
<1>2. ASSUME NEW first \in Cache!Frames, NEW last \in Cache!Frames, Cache!CopyIn(first, last)
      PROVE  Cache!TypeOK'
  <2>1. PICK c \in [first..last -> Codes] :
          code' = [b \in Cache!Backing |-> IF b \in first..last THEN c[b] ELSE code[b]]
    BY <1>2 DEF Cache!CopyIn
  <2>2. code' \in [Cache!Backing -> Codes]
    BY <2>1
  <2>3. /\ gen' = [f \in Cache!Frames |-> IF f \in first..last THEN gen[f] + 1 ELSE gen[f]]
        /\ \A f \in Cache!Frames : gen'[f] <= MaxGen
        /\ UNCHANGED <<trans, mapGen, cache>>
    BY <1>2 DEF Cache!CopyIn
  <2>4. \A f \in Cache!Frames : gen'[f] \in Nat
    BY <2>3 DEF Cache!Gens
  <2>5. gen' \in [Cache!Frames -> Cache!Gens]
    BY <2>3, <2>4, CacheFacts DEF Cache!Gens
  <2> QED BY <2>2, <2>3, <2>5
<1>3. CASE Cache!LoadOther
  BY <1>3 DEF Cache!LoadOther
<1>4. CASE Cache!Clear
  <2>1. PICK c \in [OtherPages -> Codes] :
          code' = [b \in Cache!Backing |-> IF b \in Cache!Frames THEN Zeroed ELSE c[b]]
    BY <1>4 DEF Cache!Clear
  <2>2. code' \in [Cache!Backing -> Codes]
    BY <2>1, CacheFacts DEF Cache!Backing
  <2>3. /\ gen' = [f \in Cache!Frames |-> gen[f] + 1] /\ \A f \in Cache!Frames : gen'[f] <= MaxGen
        /\ UNCHANGED <<trans, mapGen, cache>>
    BY <1>4 DEF Cache!Clear
  <2>4. \A f \in Cache!Frames : gen'[f] \in Nat
    BY <2>3 DEF Cache!Gens
  <2>5. gen' \in [Cache!Frames -> Cache!Gens]
    BY <2>3, <2>4, CacheFacts DEF Cache!Gens
  <2> QED BY <2>2, <2>3, <2>5
<1>5. CASE Cache!WriteTlb
  <2>1. PICK t \in [Mapped -> Cache!Backing \cup {Nowhere}] :
          trans' = [p \in Pages |-> IF p \in Mapped THEN t[p] ELSE trans[p]]
    BY <1>5 DEF Cache!WriteTlb
  <2>2. trans' \in [Pages -> Cache!Backing \cup {Nowhere}]
    BY <2>1
  <2>3. mapGen' \in Cache!Maps /\ UNCHANGED <<code, gen, cache>>
    BY <1>5, CacheFacts DEF Cache!WriteTlb, Cache!Maps
  <2> QED BY <2>2, <2>3
<1>6. CASE Cache!ClearTlb
  BY <1>6, CacheFacts DEF Cache!ClearTlb, Cache!Maps
<1>7. CASE Cache!ClearCache
  BY <1>7 DEF Cache!ClearCache, Cache!memory
<1>8. ASSUME NEW a \in Pcs, Cache!Lookup(a) PROVE Cache!TypeOK'
  BY <1>8, DecodeOK DEF Cache!Lookup, Cache!memory
<1> QED BY <1>1, <1>2, <1>3, <1>4, <1>5, <1>6, <1>7, <1>8 DEF Cache!Next

(* The invariant is inductive.                                              *)
LEMMA CacheNext == CacheInv /\ Cache!Next => CacheInv'
<1> SUFFICES ASSUME CacheInv, Cache!Next PROVE CacheInv'
  OBVIOUS
<1>1. Cache!TypeOK /\ Cache!TypeOK'
  BY CacheTypes DEF CacheInv
<1>2. \A f \in Cache!Frames : gen[f] \in Nat /\ gen[f] <= gen[f]
  BY <1>1 DEF Cache!TypeOK, Cache!Gens
<1>3. ASSUME NEW p \in Pages, NEW w \in Widths, Cache!Store(p, w) PROVE CacheInv'
  <2>1. PICK c \in Codes : code' = [code EXCEPT ![trans[p]] = c]
    BY <1>3 DEF Cache!Store
  <2>2. gen' = [f \in Cache!Frames |-> IF f = trans[p] THEN gen[f] + w ELSE gen[f]]
    BY <1>3 DEF Cache!Store
  <2>3. w \in Nat /\ w > 0
    BY CacheFacts
  <2>4. ASSUME NEW f \in Cache!Frames
        PROVE  gen[f] <= gen'[f] /\ (gen'[f] = gen[f] => code'[f] = code[f])
    <3>1. CASE f = trans[p]
      <4>1. gen'[f] = gen[f] + w
        BY <2>2, <3>1
      <4> QED BY <1>2, <2>3, <4>1
    <3>2. CASE f # trans[p]
      <4>1. gen'[f] = gen[f] /\ code'[f] = code[f]
        BY <1>1, <2>1, <2>2, <3>2 DEF Cache!TypeOK, Cache!Backing
      <4> QED BY <1>2, <4>1
    <3> QED BY <3>1, <3>2
  <2> QED BY <1>1, <1>3, <2>4, BumpedStep DEF Cache!Store
<1>4. ASSUME NEW first \in Cache!Frames, NEW last \in Cache!Frames, Cache!CopyIn(first, last)
      PROVE  CacheInv'
  <2>1. PICK c \in [first..last -> Codes] :
          code' = [b \in Cache!Backing |-> IF b \in first..last THEN c[b] ELSE code[b]]
    BY <1>4 DEF Cache!CopyIn
  <2>2. gen' = [f \in Cache!Frames |-> IF f \in first..last THEN gen[f] + 1 ELSE gen[f]]
    BY <1>4 DEF Cache!CopyIn
  <2>3. ASSUME NEW f \in Cache!Frames
        PROVE  gen[f] <= gen'[f] /\ (gen'[f] = gen[f] => code'[f] = code[f])
    <3>1. CASE f \in first..last
      <4>1. gen'[f] = gen[f] + 1
        BY <2>2, <3>1
      <4> QED BY <1>2, <4>1
    <3>2. CASE f \notin first..last
      <4>1. gen'[f] = gen[f] /\ code'[f] = code[f]
        BY <2>1, <2>2, <3>2 DEF Cache!Backing
      <4> QED BY <1>2, <4>1
    <3> QED BY <3>1, <3>2
  <2> QED BY <1>1, <1>4, <2>3, BumpedStep DEF Cache!CopyIn
<1>5. CASE Cache!LoadOther
  <2>1. PICK b \in OtherPages, c \in Codes : code' = [code EXCEPT ![b] = c]
    BY <1>5 DEF Cache!LoadOther
  <2>2. ASSUME NEW f \in Cache!Frames
        PROVE  gen[f] <= gen'[f] /\ (gen'[f] = gen[f] => code'[f] = code[f])
    <3>1. f # b
      BY CacheFacts DEF Cache!Frames
    <3>2. gen'[f] = gen[f] /\ code'[f] = code[f]
      BY <1>1, <1>5, <2>1, <3>1 DEF Cache!LoadOther, Cache!TypeOK, Cache!Backing
    <3> QED BY <1>2, <3>2
  <2> QED BY <1>1, <1>5, <2>2, BumpedStep DEF Cache!LoadOther
<1>6. CASE Cache!Clear
  <2>1. ASSUME NEW f \in Cache!Frames
        PROVE  gen[f] <= gen'[f] /\ (gen'[f] = gen[f] => code'[f] = code[f])
    <3>1. gen'[f] = gen[f] + 1
      BY <1>6 DEF Cache!Clear
    <3> QED BY <1>2, <3>1
  <2> QED BY <1>1, <1>6, <2>1, BumpedStep DEF Cache!Clear
<1>7. CASE Cache!WriteTlb
  BY <1>1, <1>7, RemappedStep DEF Cache!WriteTlb
<1>8. CASE Cache!ClearTlb
  BY <1>1, <1>8, RemappedStep DEF Cache!ClearTlb
<1>9. CASE Cache!ClearCache
  <2>1. \A s \in Cache!Slots : ~cache'[s].valid
    BY <1>9 DEF Cache!ClearCache, Cache!EmptySlot
  <2> QED BY <1>1, <2>1 DEF CacheInv
<1>10. ASSUME NEW a \in Pcs, Cache!Lookup(a) PROVE CacheInv'
  <2>1. cache' = [cache EXCEPT ![SlotOf[a]] = Cache!Decode(a)]
        /\ UNCHANGED <<code, gen, trans, mapGen>>
    BY <1>10 DEF Cache!Lookup, Cache!memory
  <2>2. ASSUME NEW s \in Cache!Slots, cache'[s].valid PROVE BlockOK(cache[s])'
    <3>1. CASE s = SlotOf[a]
      <4>1. cache'[s] = Cache!Decode(a)
        BY <1>1, <2>1, <3>1 DEF Cache!TypeOK
      <4>2. BlockOK(Cache!Decode(a))
        BY <2>2, <4>1, DecodeOK
      <4> QED BY <2>1, <4>1, <4>2 DEF BlockOK
    <3>2. CASE s # SlotOf[a]
      <4>1. cache'[s] = cache[s]
        BY <1>1, <2>1, <3>2 DEF Cache!TypeOK
      <4> QED BY <2>1, <2>2, <4>1 DEF BlockOK, CacheInv
    <3> QED BY <3>1, <3>2
  <2> QED BY <1>1, <2>2 DEF CacheInv
<1> QED BY <1>3, <1>4, <1>5, <1>6, <1>7, <1>8, <1>9, <1>10 DEF Cache!Next

(* Power-on.                                                                *)
LEMMA CacheInit == Cache!Init => CacheInv
<1> SUFFICES ASSUME Cache!Init PROVE CacheInv
  OBVIOUS
<1>1. \A s \in Cache!Slots : ~cache[s].valid
  BY DEF Cache!Init, Cache!EmptySlot
<1>2. Cache!TypeOK
  <2>1. 1 \in Cache!Gens /\ 1 \in Cache!Maps
    BY CacheFacts DEF Cache!Gens, Cache!Maps
  <2> QED BY <2>1, CacheFacts DEF Cache!Init, Cache!TypeOK
<1> QED BY <1>1, <1>2 DEF CacheInv

(* A step of the other part changes nothing.                                *)
LEMMA CacheStutter == CacheInv /\ UNCHANGED Cache!vars => CacheInv'
  BY DEF CacheInv, Cache!TypeOK, BlockOK, Cache!vars, Cache!memory

-----------------------------------------------------------------------------
(* The theorems                                                             *)

(* The invariant: each part's, at any time.                                 *)
Inv == EeInv /\ CacheInv

(* It holds throughout.                                                     *)
THEOREM Inductive == Spec => []Inv
<1>1. Init => Inv
  BY ControlInit, CacheInit DEF Init, Inv
<1>2. Inv /\ [Next]_vars => Inv'
  <2> SUFFICES ASSUME Inv, [Next]_vars PROVE Inv'
    OBVIOUS
  <2>1. [Ee!Next]_Ee!vars /\ [Cache!Next]_Cache!vars
    BY PartStep
  <2>2. EeInv'
    BY <2>1, ControlKept, DataKept, EventsKept DEF Inv, EeInv
  <2>3. CacheInv'
    BY <2>1, CacheNext, CacheStutter DEF Inv
  <2> QED BY <2>2, <2>3 DEF Inv
<1> QED BY <1>1, <1>2, PTL DEF Spec

(* Every variable keeps its type, EPC an address of the program's.          *)
THEOREM TypeCorrect == Spec => []TypeOK
<1>1. Inv => TypeOK
  <2> SUFFICES ASSUME EeInv, CacheInv PROVE TypeOK
    BY DEF Inv
  <2>1. pc \in DOMAIN Kind
    BY KernelPlaces DEF EeInv, ControlInv
  <2>2. branch \in Ee!User \cup {Ee!None} /\ epc \in Ee!User
        /\ cause \in {"interrupt", "fault", "syscall"}
    BY DEF EeInv, ControlInv, Entries
  <2>3. exl \in BOOLEAN
    BY Zenon DEF EeInv, ControlInv
  <2>4. Ee!TypeOK
    BY <2>1, <2>2, <2>3, Zenon DEF EeInv, DataInv, Ee!TypeOK
  <2> QED BY <2>4, Zenon DEF CacheInv, TypeOK
<1> QED BY <1>1, Inductive, PTL

(* No device event is forgotten before the kernel serves it.                *)
THEOREM NoEventForgotten == Spec => []EventsStayVisible
<1>1. Inv => EventsStayVisible
  BY DEF Inv, EeInv, EventsStayVisible
<1> QED BY <1>1, Inductive, PTL

(* The program's instructions retire along its own flow, a taken branch     *)
(* with its delay slot, however interrupts and exceptions fall.             *)
THEOREM FlowKept == Spec => KeepsFlow
<1>1. Init => Ee!Flow!Init
  <2>1. Init => Ee!At = 0 /\ ran = 0
    BY DEF Init, Ee!Init, Ee!At
  <2> QED BY <2>1 DEF Ee!Flow!Init
<1>2. Inv /\ [Next]_vars => [Ee!Flow!Next]_<<Ee!At, ran>>
  <2> SUFFICES ASSUME ControlInv, [Ee!Next]_Ee!vars
               PROVE Ee!Flow!Next \/ UNCHANGED <<Ee!At, ran>>
    BY PartStep DEF Inv, EeInv
  <2>1. CASE Ee!Plain \/ Ee!EnableDisable \/ Ee!MaskWrite
    BY <2>1, RetireFlows DEF Ee!Plain, Ee!EnableDisable, Ee!MaskWrite, Ee!Runs, Ee!Flow!Straight
  <2>2. CASE Ee!FillStep \/ Ee!FastFill
    BY <2>2, FillFlows DEF Ee!FillStep, Ee!FastFill, Ee!Runs
  <2>3. CASE Ee!Raise \/ UNCHANGED Ee!vars
    BY <2>3 DEF Ee!Raise, Ee!vars, Ee!entryRegs, Ee!At
  <2> QED
    BY <2>1, <2>2, <2>3, EntryHides, BranchFlows, HandlerHides DEF Ee!Next, Ee!Cpu
<1> QED BY <1>1, <1>2, Inductive, PTL DEF Spec, KeepsFlow, Ee!KeepsFlow, Ee!Flow!Spec

(* Until the next TLB write, EeBlockCache::lookup never returns a block     *)
(* that differs from RAM.                                                   *)
THEOREM FreshTheorem == Spec => []UnmovedHitsAreFresh
<1>1. CacheInv => UnmovedHitsAreFresh
  <2> SUFFICES ASSUME CacheInv, NEW a \in Pcs, Cache!Hit(a), trans[PageOf[a]] \in Cache!Frames,
                      cache[SlotOf[a]].under = mapGen
               PROVE  Cache!Fresh(a)
    BY DEF UnmovedHitsAreFresh, Cache!UnmovedHitsAreFresh
  <2> DEFINE f == trans[PageOf[a]]
             b == cache[SlotOf[a]]
  <2>1. SlotOf[a] \in Cache!Slots /\ b.valid /\ b.pc = a /\ b.generation = Xor(gen[f], mapGen)
    BY DEF Cache!Slots, Cache!Hit, Cache!PageGeneration
  <2>2. PICK g \in Cache!Gens : b.generation = Xor(g, mapGen) /\ (g = gen[f] => b.code = code[f])
    BY <2>1 DEF CacheInv, BlockOK
  <2>3. gen[f] \in Cache!Gens /\ mapGen \in Cache!Maps
    BY DEF CacheInv, Cache!TypeOK
  <2>4. g = gen[f]
    BY <2>1, <2>2, <2>3, XorFacts
  <2> QED BY <2>2, <2>4 DEF Cache!Fresh
<1> QED BY <1>1, Inductive, PTL DEF Inv
===============================================================================
