------------------------------- MODULE GuestFlow -------------------------------
(***************************************************************************)
(* What a MIPS program may rely on when interrupts and exceptions come and  *)
(* go: its instructions retire along its own control flow, each one once,   *)
(* and a taken branch retires together with its delay slot.                 *)
(***************************************************************************)
EXTENDS Integers

CONSTANTS
  Kind,       \* [addresses -> kinds of instruction]
  Target,     \* [addresses -> addresses], of the branches
  Entry

VARIABLES
  at,         \* the next instruction to retire
  ran         \* the last one that retired, branches aside

Straight == {"plain", "load", "ei", "di", "mask", "syscall", "fill"}

Sequential ==
  /\ Kind[at] \in Straight
  /\ at' = at + 1 /\ ran' = at

(* One round of a loop that stands for one instruction.                     *)
Again == Kind[at] = "fill" /\ at' = at /\ ran' = at

Taken ==
  /\ Kind[at] \in {"branch", "likely", "jump"}
  /\ at' = Target[at] /\ ran' = at + 1

NotTaken ==
  \/ Kind[at] = "branch" /\ at' = at + 1 /\ ran' = ran
  \/ Kind[at] = "likely" /\ at' = at + 2 /\ ran' = ran   \* the slot is annulled

Init == at = Entry /\ ran = Entry

Next == Sequential \/ Again \/ Taken \/ NotTaken

Spec == Init /\ [][Next]_<<at, ran>>
===============================================================================
