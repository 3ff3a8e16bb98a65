------------------------------- MODULE MCEeCore -------------------------------
(* A program with every kind of instruction: loads on the straight and in   *)
(* the slots of a likely branch and of a jump, a critical section that EI   *)
(* ends in a slot, a fill loop, a SYSCALL, a large loop around it all.  A   *)
(* cache with two RAM pages and 3-bit generations.                          *)
EXTENDS EeCore, Sequences

MCUser   == <<"ei", "load", "likely", "load", "fill", "jump", "load", "di", "mask",
              "branch", "ei", "syscall", "jump", "plain">>
MCKernel == <<"look", "ack", "serve", "eret", "fix", "eret">>
MCKind   == [a \in 0..19 |-> (MCUser \o MCKernel)[a + 1]]
MCTarget == [a \in 0..13 |-> CASE a = 2 -> 4 [] a = 5 -> 7 [] a = 9 -> 0 [] OTHER -> 1]

Bit(x, i)   == (x \div 2^i) % 2
XorBits(x, y) ==
  LET b(i) == ((Bit(x, i) + Bit(y, i)) % 2) * 2^i IN b(0) + b(1) + b(2)

(* KSEG0 page 0, and a page the TLB maps.                                   *)
Two       == {"kseg", "kuseg"}
OneMapped == {"kuseg"}
EmptyTlb  == [p \in Two |-> IF p = "kseg" THEN 0 ELSE 1]
Blocks    == {"a", "b", "c"}
BlockPage == [b \in Blocks |-> IF b = "c" THEN "kseg" ELSE "kuseg"]
BlockSlot == [b \in Blocks |-> IF b = "a" THEN 0 ELSE 1]

(* One part at a time: the cache promises nothing that needs fairness.      *)
ControlInit == Init /\ part = "control"
ControlSpec == ControlInit /\ [][Next]_vars /\ WF_vars(Executes)
CacheInit   == Init /\ part = "cache"
CacheSpec   == CacheInit /\ [][Next]_vars
===============================================================================
