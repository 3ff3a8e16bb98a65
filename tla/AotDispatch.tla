----------------------------- MODULE AotDispatch -----------------------------
(***************************************************************************)
(* dispatch_aot: the validation of a package's table of entries, the binary *)
(* search of the entry at the guest's PC, and the bounded loop that calls   *)
(* native functions as long as they leave for another guest address.        *)
(*                                                                         *)
(* A package is any table; the checks of its name, ABI version, fingerprint *)
(* and pointer are one flag.  A native function runs any number of guest    *)
(* instructions and leaves in any of the four ways; where the guest is then *)
(* is any address.                                                          *)
(***************************************************************************)
EXTENDS Integers, Sequences

CONSTANTS
  Packages,   \* [entries : sequences of [from, to, code], min, max, header]
  Addresses,  \* guest addresses, a set of naturals
  Align,      \* 4
  Budgets,    \* function budgets
  Costs       \* instructions a function may have run

Entry == [from : Nat, to : Nat, code : BOOLEAN]

(* What the constants must be.                                              *)
AotAssumption ==
  /\ Packages \subseteq [entries : Seq(Entry), min : Nat, max : Nat, header : BOOLEAN]
  /\ Addresses \subseteq Nat /\ Align \in Nat \ {0}
  /\ Budgets \subseteq Nat /\ Costs \subseteq Nat

VARIABLES
  package,
  step,       \* where dispatch_aot is: "search", "call", "done"
  pc,         \* the guest's
  first, last,\* of the binary search, 0-based, last exclusive
  calls,      \* i of the loop
  budget,
  instructions,
  exit,       \* what it returned
  ran         \* history: the addresses of native calls, with what each ran

vars == <<package, step, pc, first, last, calls, budget, instructions, exit, ran>>

Exits == {"direct", "indirect", "interpreter", "stop"}

-----------------------------------------------------------------------------
(* validate_aot_package: each entry by itself and against the one before.   *)

Aligned(address) == address % Align = 0

EntryOk(p, i) ==
  LET e == p.entries[i]
  IN  /\ Aligned(e.from) /\ Aligned(e.to) /\ e.from < e.to
      /\ p.min <= e.from /\ e.to <= p.max
      /\ e.code

(* The mutant lets an entry begin inside the one before it.                 *)
FollowsStart(p, i) == i = 1 \/ p.entries[i].from > p.entries[i - 1].from
Follows(p, i) == i = 1 \/ (p.entries[i].from > p.entries[i - 1].from
                           /\ p.entries[i].from >= p.entries[i - 1].to)

Valid(p) ==
  /\ p.header /\ p.entries # <<>>
  /\ p.min < p.max /\ Aligned(p.min) /\ Aligned(p.max)
  /\ \A i \in DOMAIN p.entries : EntryOk(p, i) /\ Follows(p, i)

-----------------------------------------------------------------------------
(* find_aot_function                                                        *)

Middle == first + (last - first) \div 2
At(index) == package.entries[index + 1]

Lower ==
  /\ step = "search" /\ first < last /\ pc < At(Middle).from
  /\ last' = Middle
  /\ UNCHANGED <<package, step, pc, first, calls, budget, instructions, exit, ran>>

(* The mutant keeps the entry it has just looked at out of the other side.  *)
UpperSkips == Middle + 2
Upper == Middle + 1
Higher ==
  /\ step = "search" /\ first < last /\ pc > At(Middle).from
  /\ first' = Upper
  /\ UNCHANGED <<package, step, pc, last, calls, budget, instructions, exit, ran>>

Found ==
  /\ step = "search" /\ first < last /\ pc = At(Middle).from
  /\ step' = "call"
  /\ UNCHANGED <<package, pc, first, last, calls, budget, instructions, exit, ran>>

Finish(kind) == step' = "done" /\ exit' = [kind |-> kind, target |-> pc', instructions |-> instructions']

(* No entry: back to the interpreter.                                       *)
Missing ==
  /\ step = "search" /\ first >= last
  /\ UNCHANGED <<package, pc, first, last, calls, budget, instructions, ran>>
  /\ Finish("interpreter")

-----------------------------------------------------------------------------
(* dispatch_aot                                                             *)

(* A function returns; the loop goes on, or its budget is used up.          *)
Call ==
  /\ step = "call"
  /\ \E kind \in Exits, target \in Addresses, n \in Costs :
       /\ pc' = target /\ instructions' = instructions + n
       /\ calls' = calls + 1 /\ ran' = Append(ran, <<pc, n>>)
       /\ UNCHANGED <<package, budget>>
       /\ IF kind \notin {"direct", "indirect"}
          THEN Finish(kind) /\ UNCHANGED <<first, last>>
          ELSE IF calls' = budget
          THEN Finish("interpreter") /\ UNCHANGED <<first, last>>
          ELSE step' = "search" /\ first' = 0 /\ last' = Len(package.entries) /\ UNCHANGED exit

Init ==
  /\ package \in Packages /\ pc \in Addresses /\ budget \in Budgets
  /\ first = 0 /\ last = Len(package.entries)
  /\ calls = 0 /\ instructions = 0 /\ ran = <<>>
  /\ IF Valid(package) /\ budget > 0
     THEN step = "search" /\ exit = [kind |-> "none", target |-> 0, instructions |-> 0]
     ELSE step = "done" /\ exit = [kind |-> "interpreter", target |-> pc, instructions |-> 0]

Next == Lower \/ Higher \/ Found \/ Missing \/ Call

Spec == Init /\ [][Next]_vars

-----------------------------------------------------------------------------
(* Properties                                                               *)

(* An accepted table, checked by neighbours only, has no two entries that   *)
(* overlap, in any position.                                                *)
Disjoint ==
  Valid(package) =>
    \A i, j \in DOMAIN package.entries :
      i < j => package.entries[i].to <= package.entries[j].from

Starts == {package.entries[i].from : i \in DOMAIN package.entries}

Total[i \in 0..Len(ran)] == IF i = 0 THEN 0 ELSE Total[i - 1] + ran[i][2]

(* Native code runs at an address exactly when an accepted package has an   *)
(* entry that starts there: the search neither misses one nor stops at a    *)
(* neighbour; what is called stays within the budget, and every instruction *)
(* that ran is reported.                                                    *)
DispatchExact ==
  /\ Disjoint
  /\ step = "call" => pc \in Starts
  /\ \A i \in DOMAIN ran : ran[i][1] \in Starts
  /\ ran # <<>> => Valid(package)
  /\ Len(ran) <= budget
  /\ step = "done" =>
       /\ exit.instructions = Total[Len(ran)]
       /\ exit.target = pc
       /\ exit.kind \in {"interpreter", "stop"}
       /\ Valid(package) /\ pc \in Starts /\ Len(ran) = 0 => budget = 0
===============================================================================
