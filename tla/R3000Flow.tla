------------------------------ MODULE R3000Flow ------------------------------
(***************************************************************************)
(* What a program of the IOP may rely on, whatever interrupts and traps     *)
(* come between its instructions: they retire along its own control flow,   *)
(* a branch taken together with its delay slot, and a loaded value arrives  *)
(* right before or right after the next instruction, at that one's option.  *)
(***************************************************************************)
EXTENDS Integers

CONSTANTS
  Straight, Branches, Traps,   \* sets of operations
  Entry,
  Own(_, _),          \* registers after an instruction, from those before it
  Loaded(_, _, _),    \* what it loads: at most one <<register, value>>
  Stored(_, _, _, _), \* the memory after it
  Isolated(_, _)      \* whether the cache is isolated after it

VARIABLES
  code,       \* the program: an instruction for each address
  at,         \* the next one
  reg,        \* registers
  late,       \* the loaded value on its way
  mem, iso

Landed(regs, values) == [r \in DOMAIN regs |-> IF \E v \in values : v[1] = r
                                                THEN (CHOOSE v \in values : v[1] = r)[2]
                                                ELSE regs[r]]

(* The instruction at an address works on the registers of before, and the  *)
(* late value lands on top of what it wrote.                                *)
Retires(a) ==
  /\ reg' = Landed(Own(code[a], reg), late)
  /\ late' = Loaded(code[a], reg, mem)
  /\ mem' = Stored(code[a], reg, mem, iso)
  /\ iso' = Isolated(code[a], iso)
  /\ UNCHANGED code

Lands ==
  /\ late # {}
  /\ reg' = Landed(reg, late) /\ late' = {}
  /\ UNCHANGED <<code, at, mem, iso>>

Sequential == code[at].op \in Straight /\ at' = at + 1 /\ Retires(at)

NotTaken ==
  /\ code[at].op = "branch"
  /\ at' = at + 1
  /\ reg' = Landed(reg, late) /\ late' = {}
  /\ UNCHANGED <<code, mem, iso>>

Taken ==
  /\ code[at].op \in Branches
  /\ late = {} /\ at' = code[at].to
  /\ Retires(at + 1)

(* The kernel serves the trap and steps over it.                            *)
Trap ==
  /\ code[at].op \in Traps
  /\ late = {} /\ at' = at + 1
  /\ UNCHANGED <<code, reg, late, mem, iso>>

Init == at = Entry /\ late = {} /\ ~iso

Next == Lands \/ Sequential \/ NotTaken \/ Taken \/ Trap

Spec == Init /\ [][Next]_<<code, at, reg, late, mem, iso>>
===============================================================================
