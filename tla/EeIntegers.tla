------------------------------ MODULE EeIntegers ------------------------------
(***************************************************************************)
(* The EE's integer instructions on words and doublewords.  A register      *)
(* holds a doubleword; a word in it is sign-extended, which every word      *)
(* instruction must keep up since comparisons and branches look at all of   *)
(* it.  Next to the registers runs an ideal machine that computes with      *)
(* integers and knows of no bits.                                           *)
(*                                                                         *)
(* As compilers see to it, a word instruction finds words in its operands,  *)
(* and an unaligned access is a pair of a left and a right half, in either  *)
(* order.  Logical operations act on bits alone and are left out, and so    *)
(* are the upper halves of registers and what COP1, COP2 and MMI compute.   *)
(***************************************************************************)
EXTENDS Integers

CONSTANTS
  Byte,       \* bits of a byte: 8
  Regs,       \* registers but zero
  Words,      \* what they hold at first
  Memories,   \* what memory holds at first: [0..15 -> bytes]
  Immediates, \* of instructions: signed, in half a word
  Shifts,     \* amounts
  MaxSteps    \* bound of TLC: instructions, a pair being one

W == 4 * Byte
D == 8 * Byte
Places == 0..15
IsWord(i) == -(2^(W - 1)) <= i /\ i < 2^(W - 1)

(* What the constants must be.                                              *)
IntegersAssumption ==
  /\ Byte \in Nat \ {0} /\ \A i \in Words : i \in Int /\ IsWord(i)
  /\ \A i \in Immediates : i \in Int /\ -(2^(2 * Byte - 1)) <= i /\ i < 2^(2 * Byte - 1)
  /\ Memories \subseteq [Places -> 0..(2^Byte - 1)] /\ Shifts \subseteq 0..(D - 1)

VARIABLES
  gpr, acc,   \* registers, and HI and LO of both pipelines, as unsigned doublewords
  bytes,      \* memory
  half,       \* the pair of which one half is done
  exact,      \* the ideal machine: gpr, acc, bytes
  steps

vars == <<gpr, acc, bytes, half, exact, steps>>

-----------------------------------------------------------------------------
(* Bits: the low n of a doubleword as a signed number, and sign-extended    *)
(* (sx16, sx32).  Integers: wrapped around to n bits.                       *)
Signed(v, n) == LET x == v % 2^n IN IF x >= 2^(n - 1) THEN x - 2^n ELSE x
Extended(v, n) == Signed(v, n) % 2^D
Wrapped(i, n) == ((i + 2^(n - 1)) % 2^n) - 2^(n - 1)
Bit(b) == IF b THEN 1 ELSE 0

(* ADDU to DSUBU with registers, ADDIU to SLTIU with immediates.            *)
WordOps == {"addu", "subu"}
Arith(op, x, y) ==
  CASE op = "addu"  -> Extended(x + y, W)
    [] op = "subu"  -> Extended(x - y, W)
    [] op = "daddu" -> (x + y) % 2^D
    [] op = "dsubu" -> (x - y) % 2^D
    [] op = "slt"   -> Bit(Signed(x, D) < Signed(y, D))
    [] op = "sltu"  -> Bit(x < y)
ExactArith(op, i, j) ==
  CASE op = "addu"  -> Wrapped(i + j, W)
    [] op = "subu"  -> Wrapped(i - j, W)
    [] op = "daddu" -> Wrapped(i + j, D)
    [] op = "dsubu" -> Wrapped(i - j, D)
    [] op = "slt"   -> Bit(i < j)
    [] op = "sltu"  -> LET n == IF IsWord(i) /\ IsWord(j) THEN W ELSE D IN Bit(i % 2^n < j % 2^n)

(* SLL to DSRA32.                                                           *)
WordShifts == {"sll", "srl", "sra"}
Shift(op, y, n) ==
  CASE op = "sll"  -> Extended(y * 2^n, W)
    [] op = "srl"  -> Extended((y % 2^W) \div 2^n, W)
    [] op = "sra"  -> Extended(Signed(y, W) \div 2^n, W)
    [] op = "dsll" -> (y * 2^n) % 2^D
    [] op = "dsrl" -> y \div 2^n
    [] op = "dsra" -> (Signed(y, D) \div 2^n) % 2^D
ExactShift(op, j, n) ==
  CASE op = "sll"  -> Wrapped(j * 2^n, W)
    [] op = "srl"  -> Wrapped((j % 2^W) \div 2^n, W)
    [] op = "sra"  -> j \div 2^n
    [] op = "dsll" -> Wrapped(j * 2^n, D)
    [] op = "dsrl" -> Wrapped((j % 2^D) \div 2^n, D)
    [] op = "dsra" -> j \div 2^n

(* MULT to MADDU1: a product, or one added to HI and LO, split again.       *)
Product(op, x, y) == IF op \in {"mult", "madd"} THEN Signed(x, W) * Signed(y, W)
                                                ELSE (x % 2^W) * (y % 2^W)
Sum(op, a, x, y) ==
  ((IF op \in {"madd", "maddu"} THEN (a.lo % 2^W) + (a.hi % 2^W) * 2^W ELSE 0) + Product(op, x, y)) % 2^D
Split(v) == [hi |-> Extended(v \div 2^W, W), lo |-> Extended(v, W)]
ExactMultiply(op, a, i, j) ==
  LET n(k) == IF op \in {"mult", "madd"} THEN k ELSE k % 2^W
      v == Wrapped((IF op \in {"madd", "maddu"} THEN a.hi * 2^W + (a.lo % 2^W) ELSE 0) + n(i) * n(j), D)
  IN  [hi |-> v \div 2^W, lo |-> Wrapped(v, W)]

(* DIV, DIVU: quotients round towards zero.                                 *)
Quotient(i, j) == IF (i < 0) = (j < 0) THEN (IF i < 0 THEN -i ELSE i) \div (IF j < 0 THEN -j ELSE j)
                                       ELSE -((IF i < 0 THEN -i ELSE i) \div (IF j < 0 THEN -j ELSE j))
Divided(op, x, y) ==
  LET i == IF op = "div" THEN Signed(x, W) ELSE x % 2^W
      j == IF op = "div" THEN Signed(y, W) ELSE y % 2^W
  IN  IF j = 0 THEN [lo |-> IF op = "div" /\ i < 0 THEN 1 ELSE 2^D - 1, hi |-> Extended(i, W)]
      ELSE IF op = "div" /\ i = -(2^(W - 1)) /\ j = -1 THEN [lo |-> Extended(i, W), hi |-> 0]
      ELSE [lo |-> Extended(Quotient(i, j), W), hi |-> Extended(i - j * Quotient(i, j), W)]
ExactDivided(op, k, l) ==
  LET i == IF op = "div" THEN k ELSE k % 2^W
      j == IF op = "div" THEN l ELSE l % 2^W
      size(n) == IF n < 0 THEN -n ELSE n
      rest(q) == i - j * q
      q0 == CHOOSE q \in -(2^W)..(2^W) : size(rest(q)) < size(j) /\ (rest(q) = 0 \/ (rest(q) < 0) = (i < 0))
  IN  IF j = 0 THEN [lo |-> IF i < 0 THEN 1 ELSE -1, hi |-> Wrapped(i, W)]
               ELSE [lo |-> Wrapped(q0, W), hi |-> Wrapped(rest(q0), W)]

(* n bytes of memory, lowest first.                                         *)
Read(m, a, n) == LET from[i \in 0..n] == IF i = n THEN 0 ELSE m[a + i] + (2^Byte) * from[i + 1] IN from[0]
Written(m, a, n, v) ==
  [b \in Places |-> IF a <= b /\ b < a + n THEN (v \div 2^(Byte * (b - a))) % 2^Byte ELSE m[b]]

(* LWL, LWR, LDL, LDR: the bytes of an aligned cell from its first to a, or *)
(* from a to its last, replace the highest or lowest of the register; SWL   *)
(* to SDR the other way round.  The mutant keeps a byte too many.           *)
LoadedLeftShort(y, a, n) ==
  LET shift == (n - 1 - (a % n)) * Byte
      cell == Read(bytes, a - (a % n), n) \div 2^Byte
      v == (y % 2^(shift + Byte)) + ((cell * 2^(shift + Byte)) % 2^(n * Byte))
  IN  IF n = 4 THEN Extended(v, W) ELSE v
LoadedLeft(y, a, n) ==
  LET shift == (n - 1 - (a % n)) * Byte
      v == (y % 2^shift) + ((Read(bytes, a - (a % n), n) * 2^shift) % 2^(n * Byte))
  IN  IF n = 4 THEN Extended(v, W) ELSE v
LoadedRight(y, a, n) ==
  LET shift == (a % n) * Byte
      low == y % 2^(n * Byte)
      v == (low - (low % 2^(n * Byte - shift))) + (Read(bytes, a - (a % n), n) \div 2^shift)
  IN  IF shift = 0 THEN Extended(v, n * Byte) ELSE (y - low) + v

StoredLeft(y, a, n) ==
  LET at == a - (a % n)
      shift == (n - 1 - (a % n)) * Byte
      old == Read(bytes, at, n)
  IN  Written(bytes, at, n, (old - (old % 2^(n * Byte - shift))) + ((y % 2^(n * Byte)) \div 2^shift))
StoredRight(y, a, n) ==
  LET at == a - (a % n)
      shift == (a % n) * Byte
  IN  Written(bytes, at, n, (Read(bytes, at, n) % 2^shift) + ((y * 2^shift) % 2^(n * Byte)))

-----------------------------------------------------------------------------
Done == [op |-> "none"]
Step == half = Done /\ steps < MaxSteps /\ steps' = steps + 1

Set(d, v, i) == gpr' = [gpr EXCEPT ![d] = v] /\ exact' = [exact EXCEPT !.gpr[d] = i]

Compute(op, d, s, t) ==
  /\ Step
  /\ op \in WordOps => IsWord(exact.gpr[s]) /\ IsWord(exact.gpr[t])
  /\ Set(d, Arith(op, gpr[s], gpr[t]), ExactArith(op, exact.gpr[s], exact.gpr[t]))
  /\ UNCHANGED <<acc, bytes, half>>

ComputeImmediate(op, d, s, i) ==
  /\ Step
  /\ op \in WordOps => IsWord(exact.gpr[s])
  /\ Set(d, Arith(op, gpr[s], Extended(i % 2^(2 * Byte), 2 * Byte)), ExactArith(op, exact.gpr[s], i))
  /\ UNCHANGED <<acc, bytes, half>>

(* SLL by zero makes a word of a doubleword.                                *)
ShiftBy(op, d, t, n) ==
  /\ Step
  /\ op \in WordShifts => n < W /\ (IsWord(exact.gpr[t]) \/ op = "sll")
  /\ Set(d, Shift(op, gpr[t], n), ExactShift(op, exact.gpr[t], n))
  /\ UNCHANGED <<acc, bytes, half>>

(* MOVZ, MOVN.                                                              *)
Move(zero, d, s, t) ==
  /\ Step
  /\ IF (gpr[t] = 0) = zero THEN gpr' = [gpr EXCEPT ![d] = gpr[s]] ELSE gpr' = gpr
  /\ exact' = [exact EXCEPT !.gpr[d] = IF (exact.gpr[t] = 0) = zero THEN exact.gpr[s] ELSE @]
  /\ UNCHANGED <<acc, bytes, half>>

(* The HI and LO an instruction of a pipeline uses; mutant: the first ones. *)
PipeFirst(p) == 0
Pipe(p) == p

Multiply(op, p, d, s, t) ==
  /\ Step /\ IsWord(exact.gpr[s]) /\ IsWord(exact.gpr[t])
  /\ acc' = [acc EXCEPT ![Pipe(p)] = Split(Sum(op, acc[Pipe(p)], gpr[s], gpr[t]))]
  /\ gpr' = [gpr EXCEPT ![d] = acc'[Pipe(p)].lo]
  /\ LET v == ExactMultiply(op, exact.acc[p], exact.gpr[s], exact.gpr[t])
     IN  exact' = [exact EXCEPT !.acc[p] = v, !.gpr[d] = v.lo]
  /\ UNCHANGED <<bytes, half>>

Divide(op, p, s, t) ==
  /\ Step /\ IsWord(exact.gpr[s]) /\ IsWord(exact.gpr[t])
  /\ acc' = [acc EXCEPT ![Pipe(p)] = Divided(op, gpr[s], gpr[t])]
  /\ exact' = [exact EXCEPT !.acc[p] = ExactDivided(op, exact.gpr[s], exact.gpr[t])]
  /\ UNCHANGED <<gpr, bytes, half>>

MoveFrom(p, hi, d) ==
  /\ Step
  /\ IF hi THEN Set(d, acc[Pipe(p)].hi, exact.acc[p].hi) ELSE Set(d, acc[Pipe(p)].lo, exact.acc[p].lo)
  /\ UNCHANGED <<acc, bytes, half>>

MoveTo(p, hi, s) ==
  /\ Step
  /\ IF hi THEN acc' = [acc EXCEPT ![Pipe(p)].hi = gpr[s]] /\ exact' = [exact EXCEPT !.acc[p].hi = exact.gpr[s]]
           ELSE acc' = [acc EXCEPT ![Pipe(p)].lo = gpr[s]] /\ exact' = [exact EXCEPT !.acc[p].lo = exact.gpr[s]]
  /\ UNCHANGED <<gpr, bytes, half>>

(* LB to LD, SB to SD.  An unaligned address is a fault.                    *)
Load(n, unsigned, d, a) ==
  /\ Step /\ a % n = 0
  /\ n = 8 => ~unsigned
  /\ LET v == Read(bytes, a, n)
         i == Read(exact.bytes, a, n)
     IN  Set(d, IF unsigned THEN v ELSE Extended(v, n * Byte), IF unsigned THEN i ELSE Wrapped(i, n * Byte))
  /\ UNCHANGED <<acc, bytes, half>>

Store(n, s, a) ==
  /\ Step /\ a % n = 0
  /\ bytes' = Written(bytes, a, n, gpr[s])
  /\ exact' = [exact EXCEPT !.bytes = Written(@, a, n, exact.gpr[s])]
  /\ UNCHANGED <<gpr, acc, half>>

(* One half of an unaligned access at a, then the other.                    *)
Left(op, r, a, n) == IF op = "load" THEN gpr' = [gpr EXCEPT ![r] = LoadedLeft(@, a + n - 1, n)] /\ UNCHANGED bytes
                                    ELSE bytes' = StoredLeft(gpr[r], a + n - 1, n) /\ UNCHANGED gpr
Right(op, r, a, n) == IF op = "load" THEN gpr' = [gpr EXCEPT ![r] = LoadedRight(@, a, n)] /\ UNCHANGED bytes
                                     ELSE bytes' = StoredRight(gpr[r], a, n) /\ UNCHANGED gpr

FirstHalf(op, left, r, a, n) ==
  /\ Step /\ a + n <= 16
  /\ IF left THEN Left(op, r, a, n) ELSE Right(op, r, a, n)
  /\ half' = [op |-> op, left |-> left, r |-> r, a |-> a, n |-> n]
  /\ UNCHANGED <<acc, exact>>

SecondHalf ==
  /\ half # Done /\ half' = Done
  /\ IF half.left THEN Right(half.op, half.r, half.a, half.n) ELSE Left(half.op, half.r, half.a, half.n)
  /\ exact' = IF half.op = "load"
              THEN [exact EXCEPT !.gpr[half.r] = Wrapped(Read(exact.bytes, half.a, half.n), half.n * Byte)]
              ELSE [exact EXCEPT !.bytes = Written(@, half.a, half.n, exact.gpr[half.r])]
  /\ UNCHANGED <<acc, steps>>

Init ==
  /\ \E f \in [Regs -> Words], m \in Memories :
       /\ gpr = [r \in Regs |-> f[r] % 2^D] /\ bytes = m
       /\ exact = [gpr |-> f, acc |-> [p \in 0..1 |-> [hi |-> 0, lo |-> 0]], bytes |-> m]
  /\ acc = [p \in 0..1 |-> [hi |-> 0, lo |-> 0]] /\ half = Done /\ steps = 0

Next ==
  \/ \E d, s \in Regs :
       \/ \E op \in WordOps \cup {"daddu", "dsubu", "slt", "sltu"}, t \in Regs : Compute(op, d, s, t)
       \/ \E op \in {"addu", "daddu", "slt", "sltu"}, i \in Immediates : ComputeImmediate(op, d, s, i)
       \/ \E op \in WordShifts \cup {"dsll", "dsrl", "dsra"}, n \in Shifts : ShiftBy(op, d, s, n)
       \/ \E zero \in BOOLEAN, t \in Regs : Move(zero, d, s, t)
       \/ \E op \in {"mult", "multu", "madd", "maddu"}, p \in 0..1, t \in Regs : Multiply(op, p, d, s, t)
  \/ \E op \in {"div", "divu"}, p \in 0..1, s, t \in Regs : Divide(op, p, s, t)
  \/ \E r \in Regs : \/ \E p \in 0..1, hi \in BOOLEAN : MoveFrom(p, hi, r) \/ MoveTo(p, hi, r)
                     \/ \E n \in {1, 2, 4, 8}, a \in Places : Store(n, r, a) \/ \E u \in BOOLEAN : Load(n, u, r, a)
                     \/ \E op \in {"load", "store"}, left \in BOOLEAN, n \in {4, 8}, a \in Places :
                          FirstHalf(op, left, r, a, n)
  \/ SecondHalf

Spec == Init /\ [][Next]_vars

(* The machine of bits computes what the machine of integers does: a word   *)
(* stays sign-extended, HI and LO make up the product or the quotient and   *)
(* the rest, a pipeline's are its own, and both halves of an access at any  *)
(* address move just its bytes.                                             *)
IntegersExact ==
  half = Done =>
    /\ \A r \in Regs : gpr[r] = exact.gpr[r] % 2^D
    /\ \A p \in 0..1 : acc[p].hi = exact.acc[p].hi % 2^D /\ acc[p].lo = exact.acc[p].lo % 2^D
    /\ bytes = exact.bytes
===============================================================================
