------------------------- MODULE Vu1PipelineProofs -------------------------
(***************************************************************************)
(* Proofs about Vu1Pipeline.tla, for every microprogram, every size of       *)
(* memory and every bound.  A pair is proved in the stages of Vu1::step:     *)
(* ready (the stalls, the transfer, the quotient), the upper half, the lower *)
(* half, retired, and the end of the program; the invariant is in parts,     *)
(* and each part has a lemma per stage:                                      *)
(*   QInv      the quotient and the division in progress,                    *)
(*   FlagsInv  the four entries of the flag pipeline,                        *)
(*   OldInv    the value kept for branches,                                  *)
(*   FlowInv   the delay pair and the end,                                   *)
(*   SentInv   packets, the kick under way, and what the program had stored. *)
(***************************************************************************)
EXTENDS Vu1Pipeline, FiniteSetTheorems, SequenceTheorems, WellFoundedInduction, TLAPS


-----------------------------------------------------------------------------
(* The state of the unit                                                     *)

Versions == Nat
Qword == [ver : Nat, n : Nat, eop : BOOLEAN]
Cells == 0..(QSize - 1)
Pcs == 0..(PcSize - 1)
Item == [val : Qword, addr : Cells, due : Nat]
KickState == [on : BOOLEAN, addr : Cells, due : Nat, tags : Nat, left : Int, eop : BOOLEAN,
              packet : Seq(Item)]
OldState == [reg : Vi \cup {None}, val : Nat, ready : Nat]
VuState ==
  [cycles : Nat, pc : Pcs, running : BOOLEAN, branch : Pcs \cup {NoBranch}, endp : BOOLEAN,
   vf : [Vf -> Nat], ready : [Vf -> Nat], vi : [Vi -> Nat], old : OldState,
   q : Nat, pendingQ : Nat, qReady : Nat, qPending : BOOLEAN,
   mac : Nat, pipe : [1..4 -> Nat], mem : [Cells -> Qword],
   kick : KickState, packets : Seq(Seq(Item)), rejected : Nat]

(* What is the same in two states of it, part by part.                       *)
SameFlow(r, s) == /\ r.pc = s.pc /\ r.branch = s.branch /\ r.endp = s.endp
                  /\ r.running = s.running
SameRegs(r, s) == r.vf = s.vf /\ r.ready = s.ready /\ r.vi = s.vi
SameOld(r, s) == r.old = s.old
SameQ(r, s) == /\ r.q = s.q /\ r.pendingQ = s.pendingQ /\ r.qReady = s.qReady
               /\ r.qPending = s.qPending
SameKick(r, s) == /\ r.kick = s.kick /\ r.packets = s.packets /\ r.rejected = s.rejected

LEMMA SpendIs ==
  ASSUME NEW s \in VuState, NEW n \in Nat
  PROVE  LET r == Spend(s, n)
         IN  /\ r \in VuState
             /\ r.cycles = s.cycles + n
             /\ r.pipe = [i \in 1..4 |-> IF i + n <= 4 THEN s.pipe[i + n] ELSE s.mac]
             /\ r.mac = s.mac /\ r.mem = s.mem
             /\ SameFlow(r, s) /\ SameRegs(r, s) /\ SameOld(r, s) /\ SameQ(r, s) /\ SameKick(r, s)
<1> DEFINE c == s.cycles + n
           p == [i \in 1..4 |-> IF i + n <= 4 THEN s.pipe[i + n] ELSE s.mac]
           r == [s EXCEPT !.cycles = c, !.pipe = p]
<1>1. Spend(s, n) = r
  BY DEF Spend
<1>2. c \in Nat /\ p \in [1..4 -> Nat]
  <2>1. s.cycles \in Nat /\ s.mac \in Nat /\ s.pipe \in [1..4 -> Nat]
    BY DEF VuState
  <2>2. \A i \in 1..4 : i + n <= 4 => i + n \in 1..4
    OBVIOUS
  <2> QED BY ONLY <2>1, <2>2, n \in Nat
<1> HIDE DEF c, p
<1>3. r \in VuState /\ r.cycles = c /\ r.pipe = p
  BY <1>2 DEF VuState
<1>4. r.mac = s.mac /\ r.mem = s.mem
  BY DEF VuState
<1>5. SameFlow(r, s) /\ SameRegs(r, s) /\ SameOld(r, s) /\ SameQ(r, s) /\ SameKick(r, s)
  BY DEF VuState, SameFlow, SameRegs, SameOld, SameQ, SameKick
<1> HIDE DEF r
<1> QED BY <1>1, <1>3, <1>4, <1>5 DEF c, p


-----------------------------------------------------------------------------
(* Induction, greatest elements                                             *)

(* A set of naturals has a least element.                                   *)
LEMMA Least ==
  ASSUME NEW T \in SUBSET Nat, T # {}
  PROVE  \E m \in T : \A n \in T : m <= n
<1> DEFINE R == OpToRel(<, Nat)
<1>1. IsWellFoundedOn(R, Nat)
  BY NatLessThanWellFounded, Zenon
<1>4. \A n, m \in Nat : n < m => <<n, m>> \in R
  BY Zenon DEF OpToRel
<1> HIDE DEF R
<1>2. PICK m \in T : \A n \in T : ~(<<n, m>> \in R)
  BY <1>1, WFMin, Zenon
<1>3. \A n \in T : ~(n < m)
  BY <1>2, <1>4
<1> QED BY <1>3

(* Induction, over a set instead of a predicate.                            *)
LEMMA Induction ==
  ASSUME NEW T, 0 \in T, \A k \in Nat : k \in T => k + 1 \in T
  PROVE  Nat \subseteq T
<1>1. SUFFICES ASSUME ~(Nat \subseteq T) PROVE FALSE
  OBVIOUS
<1>2. PICK m \in Nat \ T : \A n \in Nat \ T : m <= n
  <2>1. Nat \ T \in SUBSET Nat /\ Nat \ T # {}
    BY <1>1
  <2> QED BY <2>1, Least, Zenon
<1>3. m # 0 /\ m - 1 \in Nat
  BY <1>2
<1>4. m - 1 \in T
  BY <1>2, <1>3
<1>5. (m - 1) + 1 \in T
  BY <1>3, <1>4
<1> QED BY <1>2, <1>5
(* A function iterated on a set that it keeps within.                       *)
Iterates(f, F, x, G, k) ==
  f \in [0..k -> G] /\ f[0] = x /\ \A i \in 1..k : f[i] = F[f[i - 1]]

LEMMA Iterated ==
  ASSUME NEW G, NEW F \in [G -> G], NEW x \in G, NEW k \in Nat
  PROVE  \E f : Iterates(f, F, x, G, k)
<1> DEFINE Upto(f, n) == f \in [0..n -> G] /\ f[0] = x /\ \A i \in 1..n : f[i] = F[f[i - 1]]
           T == {n \in Nat : \E f : Upto(f, n)}
<1>1. \A n \in Nat : n \in T <=> \E f : Upto(f, n)
  BY Zenon
<1> HIDE DEF T
<1>2. 0 \in T
  <2> DEFINE f == [i \in 0..0 |-> x]
  <2>1. Upto(f, 0)
    OBVIOUS
  <2> HIDE DEF f, Upto
  <2>2. \E g : Upto(g, 0)
    BY <2>1
  <2> QED BY <1>1, <2>2
<1>3. ASSUME NEW n \in Nat, n \in T PROVE n + 1 \in T
  <2>1. PICK f : Upto(f, n)
    BY <1>1, <1>3, Zenon
  <2> DEFINE v == F[f[n]]
             g == [i \in 0..(n + 1) |-> IF i = n + 1 THEN v ELSE f[i]]
  <2>2. v \in G
    BY <1>3, <2>1
  <2>3. v = F[f[n]]
    OBVIOUS
  <2> HIDE DEF v
  <2>4. g \in [0..(n + 1) -> G]
    BY <1>3, <2>1, <2>2
  <2>5. (\A i \in 0..n : g[i] = f[i]) /\ g[n + 1] = v
    BY <1>3
  <2> HIDE DEF g
  <2>6. \A i \in 1..(n + 1) : g[i] = F[g[i - 1]]
    <3> SUFFICES ASSUME NEW i \in 1..(n + 1) PROVE g[i] = F[g[i - 1]]
      OBVIOUS
    <3>1. CASE i = n + 1
      BY <1>3, <2>3, <2>5, <3>1
    <3>2. CASE i \in 1..n
      <4>1. i \in 0..n /\ i - 1 \in 0..n
        BY <1>3, <3>2
      <4>2. f[i] = F[f[i - 1]]
        BY <2>1, <3>2
      <4> QED BY ONLY <2>5, <4>1, <4>2
    <3> QED BY <1>3, <3>1, <3>2
  <2>7. g[0] = x
    BY <1>3, <2>1, <2>5
  <2>8. Upto(g, n + 1)
    BY <2>4, <2>6, <2>7
  <2> HIDE DEF Upto
  <2>9. n + 1 \in Nat
    BY <1>3
  <2> QED BY <1>1, <2>8, <2>9
<1>4. Nat \subseteq T
  BY <1>2, <1>3, Induction, Zenon
<1>5. PICK f : Upto(f, k)
  <2> HIDE DEF Upto
  <2> QED BY <1>1, <1>4
<1> QED BY <1>5 DEF Iterates

LEMMA MaxIs ==
  ASSUME NEW S \in SUBSET Int, NEW x \in S, \A y \in S : y <= x
  PROVE  Max(S) = x
<1>1. PICK m : m = Max(S)
  OBVIOUS
<1>2. \E y \in S : \A z \in S : y >= z
  <2>1. \A z \in S : x >= z
    OBVIOUS
  <2> QED BY <2>1
<1>3. m = CHOOSE y \in S : \A z \in S : y >= z
  BY <1>1, Zenon DEF Max
<1>4. m \in S /\ \A z \in S : m >= z
  BY ONLY <1>2, <1>3, Zenon
<1>5. x \in Int /\ m \in Int /\ m >= x /\ m <= x
  BY <1>4
<1>6. m = x
  BY ONLY <1>5
<1> QED BY ONLY <1>1, <1>6

LEMMA BoundedMax ==
  ASSUME NEW S \in SUBSET Nat, S # {}, NEW b \in Nat, \A y \in S : y <= b
  PROVE  Max(S) \in S /\ \A y \in S : y <= Max(S)
<1> DEFINE T == {b - y : y \in S}
<1>1. T \in SUBSET Nat /\ T # {}
  <2>1. \A y \in S : b - y \in Nat
    OBVIOUS
  <2>2. T \in SUBSET Nat
    BY <2>1
  <2>3. PICK y : y \in S
    OBVIOUS
  <2>4. b - y \in T
    BY <2>3
  <2> QED BY <2>2, <2>4
<1>2. PICK m \in T : \A k \in T : m <= k
  BY <1>1, Least, Zenon
<1>3. PICK x \in S : m = b - x
  BY <1>2
<1>4. \A y \in S : y <= x
  <2>1. \A y \in S : b - y \in T
    OBVIOUS
  <2> HIDE DEF T
  <2>2. \A y \in S : b - x <= b - y
    BY ONLY <1>2, <1>3, <2>1
  <2> QED BY <1>3, <2>2
<1>5. Max(S) = x
  BY <1>4, MaxIs
<1> QED BY <1>4, <1>5


-----------------------------------------------------------------------------
(* Time                                                                      *)

(* r is s after n cycles in which only the transfer went on.                 *)
Shifted(pipe, n, mac) == [i \in 1..4 |-> IF i + n <= 4 THEN pipe[i + n] ELSE mac]
Aged(r, s, n) ==
  r.cycles = s.cycles + n /\ r.mac = s.mac /\ r.pipe = Shifted(s.pipe, n, s.mac)
Elapsed(r, s, n) ==
  /\ r \in VuState /\ n \in Nat /\ Aged(r, s, n)
  /\ r.mem = s.mem /\ SameFlow(r, s) /\ SameRegs(r, s) /\ SameOld(r, s) /\ SameQ(r, s)

LEMMA ShiftedTwice ==
  ASSUME NEW p \in [1..4 -> Nat], NEW n \in Nat, NEW m \in Nat, NEW k \in Nat
  PROVE  /\ Shifted(p, n, k) \in [1..4 -> Nat]
         /\ Shifted(p, 0, k) = p
         /\ Shifted(Shifted(p, n, k), m, k) = Shifted(p, n + m, k)
<1>0. \A i \in 1..4, a \in Nat : i + a <= 4 => i + a \in 1..4
  OBVIOUS
<1>1. \A a \in Nat : Shifted(p, a, k) \in [1..4 -> Nat]
  BY <1>0 DEF Shifted
<1>2. Shifted(p, 0, k) = p
  <2>1. \A i \in 1..4 : i + 0 <= 4 /\ i + 0 = i
    OBVIOUS
  <2> QED BY <2>1 DEF Shifted
<1>3. Shifted(Shifted(p, n, k), m, k) = Shifted(p, n + m, k)
  <2> DEFINE q == Shifted(p, n, k)
  <2>1. \A i \in 1..4 : q[i] = IF i + n <= 4 THEN p[i + n] ELSE k
    BY DEF Shifted
  <2> HIDE DEF q
  <2>2. \A i \in 1..4 : (IF i + m <= 4 THEN q[i + m] ELSE k)
                          = IF i + (n + m) <= 4 THEN p[i + (n + m)] ELSE k
    <3> SUFFICES ASSUME NEW i \in 1..4
                 PROVE  (IF i + m <= 4 THEN q[i + m] ELSE k)
                          = IF i + (n + m) <= 4 THEN p[i + (n + m)] ELSE k
      OBVIOUS
    <3>1. i + (n + m) = (i + m) + n
      OBVIOUS
    <3>2. CASE i + m <= 4
      BY <1>0, <2>1, <3>1, <3>2
    <3>3. CASE ~(i + m <= 4)
      <4>1. ~(i + (n + m) <= 4)
        BY <3>3
      <4> QED BY <3>3, <4>1
    <3> QED BY <3>2, <3>3
  <2>3. Shifted(q, m, k) = Shifted(p, n + m, k)
    BY <2>2 DEF Shifted
  <2> QED BY <2>3 DEF q
<1> QED BY <1>1, <1>2, <1>3

LEMMA VuTypes ==
  ASSUME NEW s \in VuState
  PROVE  /\ s.cycles \in Nat /\ s.pc \in Pcs /\ s.running \in BOOLEAN
         /\ s.branch \in Pcs \cup {NoBranch} /\ s.endp \in BOOLEAN
         /\ s.vf \in [Vf -> Nat] /\ s.ready \in [Vf -> Nat] /\ s.vi \in [Vi -> Nat]
         /\ s.old \in OldState /\ s.q \in Nat /\ s.pendingQ \in Nat /\ s.qReady \in Nat
         /\ s.qPending \in BOOLEAN /\ s.mac \in Nat /\ s.pipe \in [1..4 -> Nat]
         /\ s.mem \in [Cells -> Qword] /\ s.kick \in KickState
         /\ s.packets \in Seq(Seq(Item)) /\ s.rejected \in Nat
BY DEF VuState

LEMMA ElapsedNone ==
  ASSUME NEW s \in VuState
  PROVE  Elapsed(s, s, 0)
<1>1. s.cycles = s.cycles + 0 /\ s.pipe = Shifted(s.pipe, 0, s.mac)
  <2>1. s.cycles \in Nat /\ s.pipe \in [1..4 -> Nat] /\ s.mac \in Nat /\ 0 \in Nat
    BY VuTypes
  <2>2. Shifted(s.pipe, 0, s.mac) = s.pipe
    BY ONLY <2>1, ShiftedTwice, Zenon
  <2> QED BY <2>1, <2>2
<1> QED BY <1>1 DEF Elapsed, Aged, SameFlow, SameRegs, SameOld, SameQ

LEMMA ElapsedMore ==
  ASSUME NEW s \in VuState, NEW r, NEW t, NEW n, NEW m, Elapsed(r, s, n), Elapsed(t, r, m)
  PROVE  Elapsed(t, s, n + m)
<1>1. n \in Nat /\ m \in Nat /\ n + m \in Nat /\ s.cycles \in Nat /\ s.mac \in Nat
      /\ s.pipe \in [1..4 -> Nat]
  BY VuTypes DEF Elapsed
<1>2. t.cycles = s.cycles + (n + m) /\ t.mac = s.mac
  BY <1>1 DEF Elapsed, Aged
<1>3. t.pipe = Shifted(s.pipe, n + m, s.mac)
  <2>1. Shifted(Shifted(s.pipe, n, s.mac), m, s.mac) = Shifted(s.pipe, n + m, s.mac)
    <3>1. PICK p \in [1..4 -> Nat], k \in Nat : p = s.pipe /\ k = s.mac
      BY <1>1
    <3>2. n \in Nat /\ m \in Nat
      BY <1>1
    <3>3. Shifted(Shifted(p, n, k), m, k) = Shifted(p, n + m, k)
      BY ONLY <3>2, ShiftedTwice, p \in [1..4 -> Nat], k \in Nat
    <3> QED BY ONLY <3>1, <3>3, Zenon
  <2> QED BY <2>1 DEF Elapsed, Aged
<1> QED BY <1>1, <1>2, <1>3 DEF Elapsed, Aged, SameFlow, SameRegs, SameOld, SameQ

LEMMA SpendElapses ==
  ASSUME NEW s \in VuState, NEW n \in Nat
  PROVE  Elapsed(Spend(s, n), s, n) /\ SameKick(Spend(s, n), s)
BY SpendIs DEF Elapsed, Aged, Shifted

LEMMA WaitElapses ==
  ASSUME NEW s \in VuState, NEW t \in Nat
  PROVE  LET r == WaitUntil(s, t)
             n == IF s.cycles < t THEN t - s.cycles ELSE 0
         IN  /\ Elapsed(r, s, n) /\ SameKick(r, s)
             /\ r.cycles >= t /\ (r.cycles = s.cycles \/ r.cycles = t)
<1> DEFINE n == IF s.cycles < t THEN t - s.cycles ELSE 0
           r == WaitUntil(s, t)
<1>1. s.cycles \in Nat
  BY VuTypes
<1>2. n \in Nat /\ s.cycles + n >= t /\ (s.cycles + n = s.cycles \/ s.cycles + n = t)
  BY <1>1
<1>3. r = Spend(s, n)
  BY DEF WaitUntil
<1> HIDE DEF n
<1>4. Elapsed(r, s, n) /\ SameKick(r, s)
  BY <1>2, <1>3, SpendElapses
<1>5. r.cycles = s.cycles + n
  BY <1>4 DEF Elapsed, Aged
<1> QED BY <1>2, <1>4, <1>5 DEF n

PairOk(p) == p \in Pair /\ WellFormed(p)

(* The time to wait for registers is some time.                              *)
LEMMA VfStallElapses ==
  ASSUME NEW s \in VuState, NEW p, PairOk(p)
  PROVE  \E n \in Nat : Elapsed(VfStall(s, p), s, n) /\ SameKick(VfStall(s, p), s)
<1> DEFINE R == Reads(p) \ {None}
           S == {s.ready[r] : r \in R} \cup {s.cycles}
<1>1. s.cycles \in Nat /\ s.ready \in [Vf -> Nat]
  BY VuTypes
<1>2. /\ p.fs \in Vf \cup {None}
      /\ p.low \in {"div", "load", "store"} => p.r \in Vf
  BY DEF PairOk, WellFormed, Pair
<1>3. R \subseteq Vf /\ R \subseteq {p.fs, p.r}
  <2> SUFFICES ASSUME NEW r \in R PROVE r \in Vf /\ r \in {p.fs, p.r}
    OBVIOUS
  <2>1. r # None /\ (r = p.fs \/ (p.low \in {"div", "store"} /\ r = p.r))
    BY DEF Reads, Lower
  <2> QED BY <1>2, <2>1
<1> HIDE DEF R
<1>4. \A r \in R : s.ready[r] \in Nat
  BY <1>1, <1>3
<1>5. S \in SUBSET Nat /\ S # {}
  BY <1>1, <1>4
<1>6. PICK a \in Nat : p.fs \in R => s.ready[p.fs] = a
  <2>1. CASE p.fs \in R
    BY <1>4, <2>1
  <2>2. CASE p.fs \notin R
    BY <2>2
  <2> QED BY <2>1, <2>2
<1>7. PICK b \in Nat : p.r \in R => s.ready[p.r] = b
  <2>1. CASE p.r \in R
    BY <1>4, <2>1
  <2>2. CASE p.r \notin R
    BY <2>2
  <2> QED BY <2>1, <2>2
<1>8. \A y \in S : y = s.cycles \/ y = a \/ y = b
  BY <1>3, <1>6, <1>7
<1> HIDE DEF S
<1>9. PICK c \in Nat : c = a + b + s.cycles
  BY <1>1
<1>10. \A y \in S : y <= c
  BY <1>1, <1>8, <1>9
<1>11. Max(S) \in Nat
  BY <1>5, <1>10, BoundedMax
<1>12. VfStall(s, p) = WaitUntil(s, Max(S))
  BY DEF VfStall, S, R
<1> DEFINE n == IF s.cycles < Max(S) THEN Max(S) - s.cycles ELSE 0
<1>13. Elapsed(VfStall(s, p), s, n) /\ SameKick(VfStall(s, p), s)
  BY <1>11, <1>12, WaitElapses
<1>14. n \in Nat
  BY <1>13 DEF Elapsed
<1> QED BY <1>13, <1>14

(* So is the time until a pair issues; then no division is in progress when  *)
(* it is one itself.                                                         *)
LEMMA IssueElapses ==
  ASSUME NEW s \in VuState, NEW p, PairOk(p)
  PROVE  LET r == QStall(VfStall(s, p), p)
         IN  \E n \in Nat : /\ Elapsed(r, s, n) /\ SameKick(r, s)
                            /\ Lower(p) = "div" /\ s.qPending => r.cycles >= s.qReady
<1> DEFINE v == VfStall(s, p)
           r == QStall(v, p)
<1>1. PICK k \in Nat : Elapsed(v, s, k) /\ SameKick(v, s)
  BY VfStallElapses
<1>2. v \in VuState /\ v.qPending = s.qPending /\ v.qReady = s.qReady /\ v.qReady \in Nat
  BY <1>1, VuTypes DEF Elapsed, SameQ
<1>3. r = IF Lower(p) \in {"div", "waitq"} /\ v.qPending THEN WaitUntil(v, v.qReady) ELSE v
  BY DEF QStall
<1> HIDE DEF v, r
<1>4. CASE Lower(p) \in {"div", "waitq"} /\ v.qPending
  <2>1. PICK m : Elapsed(r, v, m) /\ SameKick(r, v) /\ r.cycles >= v.qReady
    BY <1>2, <1>3, <1>4, WaitElapses
  <2>2. Elapsed(r, s, k + m) /\ SameKick(r, s)
    BY <1>1, <2>1, ElapsedMore DEF SameKick
  <2>3. k + m \in Nat
    BY <2>2 DEF Elapsed
  <2> QED BY <1>2, <2>1, <2>2, <2>3 DEF r, v
<1>5. CASE ~(Lower(p) \in {"div", "waitq"} /\ v.qPending)
  BY <1>1, <1>2, <1>3, <1>5 DEF r, v
<1> QED BY <1>4, <1>5


-----------------------------------------------------------------------------
(* The parts of a step that take no time                                     *)

LEMMA QuotientIs ==
  ASSUME NEW s \in VuState
  PROVE  LET r == Quotient(s)
             due == s.qPending /\ s.cycles >= s.qReady
         IN  /\ r \in VuState /\ r.cycles = s.cycles /\ Aged(r, s, 0)
             /\ r.mem = s.mem /\ SameFlow(r, s) /\ SameRegs(r, s) /\ SameOld(r, s) /\ SameKick(r, s)
             /\ r.q = IF due THEN s.pendingQ ELSE s.q
             /\ r.qPending <=> (s.qPending /\ ~due)
             /\ r.pendingQ = s.pendingQ /\ r.qReady = s.qReady
<1> DEFINE due == s.qPending /\ s.cycles >= s.qReady
           x == [s EXCEPT !.q = s.pendingQ, !.qPending = FALSE]
           r == Quotient(s)
<1>0. r = IF due THEN x ELSE s
  BY DEF Quotient
<1>1. s.pendingQ \in Nat /\ s.qPending \in BOOLEAN
  BY VuTypes
<1>2. /\ x \in VuState /\ x.cycles = s.cycles /\ x.mac = s.mac /\ x.pipe = s.pipe
      /\ x.mem = s.mem /\ x.q = s.pendingQ /\ ~x.qPending
      /\ x.pendingQ = s.pendingQ /\ x.qReady = s.qReady
  BY <1>1 DEF VuState
<1>3. SameFlow(x, s) /\ SameRegs(x, s) /\ SameOld(x, s) /\ SameKick(x, s)
  BY DEF VuState, SameFlow, SameRegs, SameOld, SameKick
<1> HIDE DEF x, due, r
<1>4. Aged(s, s, 0)
  BY ElapsedNone DEF Elapsed
<1>5. CASE due
  <2>1. r = x
    BY <1>0, <1>5
  <2>2. Aged(x, s, 0)
    BY <1>2, <1>4 DEF Aged
  <2> QED BY <1>2, <1>3, <1>5, <2>1, <2>2 DEF r, due
<1>6. CASE ~due
  <2>1. r = s
    BY <1>0, <1>6
  <2>2. r.qPending <=> (s.qPending /\ ~due)
    BY <1>6, <2>1
  <2> QED BY <1>4, <1>6, <2>1, <2>2 DEF r, due, SameFlow, SameRegs, SameOld, SameKick
<1> QED BY <1>5, <1>6

(* Flags change with the upper half alone, at the cycle it issues.           *)
LEMMA UpperIs ==
  ASSUME NEW s \in VuState, NEW p, PairOk(p)
  PROVE  LET r == Upper(s, p)
         IN  /\ r \in VuState /\ r.cycles = s.cycles /\ r.pipe = s.pipe
             /\ r.mac = IF p.up = "add" THEN s.cycles ELSE s.mac
             /\ r.mem = s.mem /\ r.ready = s.ready /\ r.vi = s.vi
             /\ SameFlow(r, s) /\ SameOld(r, s) /\ SameQ(r, s) /\ SameKick(r, s)
<1> DEFINE mac == IF p.up = "add" THEN s.cycles ELSE s.mac
           vf == IF p.fd = None THEN s.vf ELSE [s.vf EXCEPT ![p.fd] = s.cycles]
           x == [s EXCEPT !.mac = mac, !.vf = vf]
           r == Upper(s, p)
<1>0. r = IF p.up \notin {"add", "max"} THEN s ELSE x
  BY DEF Upper
<1>1. s.cycles \in Nat /\ s.vf \in [Vf -> Nat] /\ s.mac \in Nat
  BY VuTypes
<1>2. mac \in Nat
  BY <1>1
<1>3. vf \in [Vf -> Nat]
  BY <1>1
<1> HIDE DEF mac, vf
<1>4. /\ x \in VuState /\ x.cycles = s.cycles /\ x.mac = mac /\ x.pipe = s.pipe
      /\ x.mem = s.mem /\ x.ready = s.ready /\ x.vi = s.vi
  BY <1>2, <1>3 DEF VuState
<1>5. SameFlow(x, s) /\ SameOld(x, s) /\ SameQ(x, s) /\ SameKick(x, s)
  BY DEF VuState, SameFlow, SameOld, SameQ, SameKick
<1> HIDE DEF x, r
<1>6. CASE p.up \notin {"add", "max"}
  BY <1>0, <1>6 DEF r, SameFlow, SameOld, SameQ, SameKick
<1>7. CASE p.up \in {"add", "max"}
  BY <1>0, <1>4, <1>5, <1>7 DEF r, mac
<1> QED BY <1>6, <1>7

(* A division starts.                                                        *)
LEMMA DivIs ==
  ASSUME NEW s \in VuState
  PROVE  LET r == [s EXCEPT !.pendingQ = s.cycles, !.qReady = s.cycles + 7, !.qPending = TRUE]
         IN  /\ r \in VuState /\ r.cycles = s.cycles /\ r.mac = s.mac /\ r.pipe = s.pipe
             /\ r.mem = s.mem /\ SameFlow(r, s) /\ SameRegs(r, s) /\ SameOld(r, s) /\ SameKick(r, s)
             /\ r.q = s.q /\ r.pendingQ = s.cycles /\ r.qReady = s.cycles + 7 /\ r.qPending
<1> DEFINE c == s.cycles
           d == s.cycles + 7
           r == [s EXCEPT !.pendingQ = c, !.qReady = d, !.qPending = TRUE]
<1>1. c \in Nat /\ d \in Nat
  BY VuTypes
<1>0. r.cycles = s.cycles
  BY DEF VuState
<1> HIDE DEF c, d
<1>2. /\ r \in VuState /\ r.mac = s.mac /\ r.pipe = s.pipe /\ r.mem = s.mem
      /\ r.q = s.q /\ r.pendingQ = c /\ r.qReady = d /\ r.qPending
  BY <1>1 DEF VuState
<1>3. SameFlow(r, s) /\ SameRegs(r, s) /\ SameOld(r, s) /\ SameKick(r, s)
  BY DEF VuState, SameFlow, SameRegs, SameOld, SameKick
<1> QED BY <1>0, <1>2, <1>3 DEF c, d

LEMMA BranchIs ==
  ASSUME NEW s \in VuState, NEW b \in Pcs \cup {NoBranch}
  PROVE  LET r == [s EXCEPT !.branch = b]
         IN  /\ r \in VuState /\ r.cycles = s.cycles /\ r.mac = s.mac /\ r.pipe = s.pipe
             /\ r.mem = s.mem /\ SameRegs(r, s) /\ SameOld(r, s) /\ SameQ(r, s) /\ SameKick(r, s)
             /\ r.branch = b /\ r.pc = s.pc /\ r.endp = s.endp /\ r.running = s.running
<1> DEFINE r == [s EXCEPT !.branch = b]
<1>1. /\ r \in VuState /\ r.cycles = s.cycles /\ r.mac = s.mac /\ r.pipe = s.pipe
      /\ r.mem = s.mem /\ r.branch = b /\ r.pc = s.pc /\ r.endp = s.endp
      /\ r.running = s.running
  BY DEF VuState
<1>2. SameRegs(r, s) /\ SameOld(r, s) /\ SameQ(r, s) /\ SameKick(r, s)
  BY DEF VuState, SameRegs, SameOld, SameQ, SameKick
<1> QED BY <1>1, <1>2

(* Integer instructions; only "vi" keeps the old value for branches.         *)
LEMMA IntegerIs ==
  ASSUME NEW s \in VuState, NEW p, PairOk(p), NEW flags \in Nat,
         p.low \in {"vi", "xtop", "fmand"}
  PROVE  LET r == Integer(s, p, flags)
         IN  /\ r \in VuState /\ r.cycles = s.cycles /\ r.mac = s.mac /\ r.pipe = s.pipe
             /\ r.mem = s.mem /\ r.vf = s.vf /\ r.ready = s.ready
             /\ SameFlow(r, s) /\ SameQ(r, s) /\ SameKick(r, s)
             /\ r.old = IF p.low = "vi" THEN Backup(s, p.r) ELSE s.old
             /\ p.low = "vi" => r.vi = [s.vi EXCEPT ![p.r] = s.cycles]
<1> DEFINE old == IF p.low = "vi" THEN Backup(s, p.r) ELSE s.old
           v == IF p.low = "fmand" THEN flags ELSE s.cycles
           vi == [s.vi EXCEPT ![p.r] = v]
           x == [s EXCEPT !.old = old, !.vi = vi]
           r == Integer(s, p, flags)
<1>0. p.r \in Vi /\ s.old \in OldState /\ s.vi \in [Vi -> Nat] /\ s.cycles \in Nat
  BY VuTypes DEF PairOk, WellFormed
<1>1. Backup(s, p.r) \in OldState
  <2> DEFINE val == IF p.r # s.old.reg \/ s.cycles >= s.old.ready THEN s.vi[p.r] ELSE s.old.val
  <2>1. s.vi[p.r] \in Nat /\ s.old.val \in Nat /\ s.cycles + 2 \in Nat
    BY <1>0 DEF OldState
  <2>2. val \in Nat
    BY <2>1
  <2>3. Backup(s, p.r) = [reg |-> p.r, ready |-> s.cycles + 2, val |-> val]
    BY DEF Backup
  <2> HIDE DEF val
  <2> QED BY <1>0, <2>1, <2>2, <2>3 DEF OldState
<1>2. old \in OldState /\ v \in Nat
  BY <1>0, <1>1
<1>3. vi \in [Vi -> Nat]
  BY <1>0, <1>2
<1>4. r = x
  <2>1. s = [s EXCEPT !.old = s.old]
    BY DEF VuState
  <2>2. CASE p.low = "vi"
    BY <2>2 DEF Integer
  <2>3. CASE p.low = "xtop"
    <3>1. old = s.old /\ v = s.cycles
      BY <2>3
    <3>2. r = [s EXCEPT !.vi[p.r] = s.cycles]
      BY <2>3 DEF Integer
    <3> HIDE DEF old, v, r
    <3>3. r = [s EXCEPT !.vi = vi]
      BY <3>1, <3>2
    <3> HIDE DEF vi
    <3> QED BY <3>1, <3>3 DEF VuState
  <2>4. CASE p.low = "fmand"
    <3>1. old = s.old /\ v = flags
      BY <2>4
    <3>2. r = [s EXCEPT !.vi[p.r] = flags]
      BY <2>4 DEF Integer
    <3> HIDE DEF old, v, r
    <3>3. r = [s EXCEPT !.vi = vi]
      BY <3>1, <3>2
    <3> HIDE DEF vi
    <3> QED BY <3>1, <3>3 DEF VuState
  <2> QED BY <2>2, <2>3, <2>4
<1>5. p.low = "vi" => v = s.cycles
  OBVIOUS
<1> HIDE DEF old, v
<1>6. p.low = "vi" => vi = [s.vi EXCEPT ![p.r] = s.cycles]
  BY <1>5
<1> HIDE DEF vi
<1>7. /\ x \in VuState /\ x.cycles = s.cycles /\ x.mac = s.mac /\ x.pipe = s.pipe
      /\ x.mem = s.mem /\ x.vf = s.vf /\ x.ready = s.ready /\ x.old = old /\ x.vi = vi
  BY <1>2, <1>3 DEF VuState
<1>8. SameFlow(x, s) /\ SameQ(x, s) /\ SameKick(x, s)
  BY DEF VuState, SameFlow, SameQ, SameKick
<1> HIDE DEF x, r
<1> QED BY <1>4, <1>6, <1>7, <1>8 DEF r, old

LEMMA LoadIs ==
  ASSUME NEW s \in VuState, NEW x \in Vf, NEW a \in Cells
  PROVE  LET r == [s EXCEPT !.vf[x] = s.mem[a].ver]
         IN  /\ r \in VuState /\ r.cycles = s.cycles /\ r.mac = s.mac /\ r.pipe = s.pipe
             /\ r.mem = s.mem /\ r.vi = s.vi /\ r.ready = s.ready
             /\ SameFlow(r, s) /\ SameOld(r, s) /\ SameQ(r, s) /\ SameKick(r, s)
<1> DEFINE vf == [s.vf EXCEPT ![x] = s.mem[a].ver]
           r == [s EXCEPT !.vf = vf]
<1>1. vf \in [Vf -> Nat]
  <2>1. s.mem[a] \in Qword /\ s.vf \in [Vf -> Nat]
    BY VuTypes
  <2>2. s.mem[a].ver \in Nat
    BY <2>1 DEF Qword
  <2> QED BY <2>1, <2>2
<1>2. r = [s EXCEPT !.vf[x] = s.mem[a].ver]
  OBVIOUS
<1> HIDE DEF vf
<1>3. /\ r \in VuState /\ r.cycles = s.cycles /\ r.mac = s.mac /\ r.pipe = s.pipe
      /\ r.mem = s.mem /\ r.vi = s.vi /\ r.ready = s.ready
  BY <1>1 DEF VuState
<1>4. SameFlow(r, s) /\ SameOld(r, s) /\ SameQ(r, s) /\ SameKick(r, s)
  BY DEF VuState, SameFlow, SameOld, SameQ, SameKick
<1> HIDE DEF r
<1> QED BY <1>2, <1>3, <1>4

LEMMA StoreIs ==
  ASSUME NEW s \in VuState, NEW a \in Cells, NEW v \in Qword
  PROVE  LET r == [s EXCEPT !.mem[a] = v]
         IN  /\ r \in VuState /\ r.cycles = s.cycles /\ r.mac = s.mac /\ r.pipe = s.pipe
             /\ r.mem = [s.mem EXCEPT ![a] = v]
             /\ SameFlow(r, s) /\ SameRegs(r, s) /\ SameOld(r, s) /\ SameQ(r, s) /\ SameKick(r, s)
<1> DEFINE mem == [s.mem EXCEPT ![a] = v]
           r == [s EXCEPT !.mem = mem]
<1>1. mem \in [Cells -> Qword]
  BY VuTypes
<1>2. r = [s EXCEPT !.mem[a] = v] /\ mem = [s.mem EXCEPT ![a] = v]
  OBVIOUS
<1> HIDE DEF mem
<1>3. /\ r \in VuState /\ r.cycles = s.cycles /\ r.mac = s.mac /\ r.pipe = s.pipe
      /\ r.mem = mem
  BY <1>1 DEF VuState
<1>4. SameFlow(r, s) /\ SameRegs(r, s) /\ SameOld(r, s) /\ SameQ(r, s) /\ SameKick(r, s)
  BY DEF VuState, SameFlow, SameRegs, SameOld, SameQ, SameKick
<1> HIDE DEF r
<1> QED BY <1>2, <1>3, <1>4


-----------------------------------------------------------------------------
(* The transfer.  V is what the program had stored: V[a, t] is the qword at  *)
(* a for a transfer due at t.                                                *)

Items(p, V, c) == \A j \in 1..Len(p) : p[j].val = V[p[j].addr, p[j].due] /\ p[j].due <= c
Whole(p, V, c) == Len(p) >= 1 /\ Len(p) = 1 + p[1].val.n /\ Consecutive(p) /\ Items(p, V, c)
Open(k, V, c) ==
  /\ k.tags <= MaxTags /\ Consecutive(k.packet) /\ Items(k.packet, V, c)
  /\ k.packet # <<>> =>
       /\ k.tags < MaxTags /\ k.left >= 1 /\ Len(k.packet) + k.left = 1 + k.packet[1].val.n
       /\ k.packet[1].val.n < QSize /\ k.eop = k.packet[1].val.eop
       /\ k.due = k.packet[Len(k.packet)].due + 2
       /\ k.addr = (k.packet[Len(k.packet)].addr + 1) % QSize
Seen(k, mem, V) == \A a \in Cells, t \in Nat : t >= k.due => V[a, t] = mem[a]
EopCount(ps) == Cardinality({i \in 1..Len(ps) : ps[i][1].val.eop})
Kicks(s) == s.rejected + (IF s.kick.on THEN 1 ELSE 0) + EopCount(s.packets)
Sent(s, V) ==
  /\ s \in VuState
  /\ \A i \in 1..Len(s.packets) : Whole(s.packets[i], V, s.cycles)
  /\ s.kick.on => Open(s.kick, V, s.cycles) /\ Seen(s.kick, s.mem, V)

LEMMA AppendIs ==
  ASSUME NEW S, NEW p \in Seq(S), NEW e \in S
  PROVE  /\ Append(p, e) \in Seq(S) /\ Len(Append(p, e)) = Len(p) + 1 /\ Len(p) \in Nat
         /\ \A j \in 1..Len(p) : Append(p, e)[j] = p[j]
         /\ Append(p, e)[Len(p) + 1] = e
OBVIOUS

LEMMA Counted ==
  ASSUME NEW ps \in Seq(Seq(Item))
  PROVE  EopCount(ps) \in Nat
<1> DEFINE n == Len(ps)
           I == 1..n
           A == {i \in I : ps[i][1].val.eop}
<1>1. IsFiniteSet(I)
  <2>1. n \in Int
    OBVIOUS
  <2> HIDE DEF n
  <2> QED BY <2>1, FS_Interval
<1>2. A \subseteq I
  OBVIOUS
<1> HIDE DEF I, A
<1>3. IsFiniteSet(A)
  BY <1>1, <1>2, FS_Subset
<1>4. Cardinality(A) \in Nat
  BY <1>3, FS_CardinalityType
<1> QED BY <1>4 DEF A, I, EopCount

LEMMA CountedMore ==
  ASSUME NEW ps \in Seq(Seq(Item)), NEW p \in Seq(Item), p[1].val.eop \in BOOLEAN
  PROVE  EopCount(Append(ps, p)) = EopCount(ps) + (IF p[1].val.eop THEN 1 ELSE 0)
<1> DEFINE n == Len(ps)
           qs == Append(ps, p)
           A == {i \in 1..n : ps[i][1].val.eop}
           B == {i \in 1..(n + 1) : qs[i][1].val.eop}
<1>0. n \in Nat
  OBVIOUS
<1>1. Len(qs) = n + 1 /\ (\A j \in 1..n : qs[j] = ps[j]) /\ qs[n + 1] = p
  BY AppendIs
<1>2. EopCount(ps) = Cardinality(A)
  BY DEF EopCount
<1>3. EopCount(qs) = Cardinality(B)
  BY <1>1 DEF EopCount
<1>4. IsFiniteSet(A) /\ n + 1 \notin A
  <2>1. IsFiniteSet(1..n)
    <3> HIDE DEF n
    <3>1. n \in Int
      BY <1>0
    <3> QED BY <3>1, FS_Interval
  <2>2. A \subseteq 1..n
    OBVIOUS
  <2>3. n + 1 \notin 1..n
    BY <1>0
  <2> HIDE DEF A
  <2> QED BY <2>1, <2>2, <2>3, FS_Subset
<1> HIDE DEF qs
<1>5. B = IF p[1].val.eop THEN A \cup {n + 1} ELSE A
  <2> HIDE DEF n
  <2>1. 1..(n + 1) = (1..n) \cup {n + 1} /\ n + 1 \notin 1..n
    BY <1>0
  <2> QED BY <1>1, <2>1
<1>6. Cardinality(A) \in Nat
  BY <1>4, FS_CardinalityType
<1> HIDE DEF A, B, n
<1>7. CASE p[1].val.eop
  <2>1. Cardinality(A \cup {n + 1}) = Cardinality(A) + 1
    BY <1>4, FS_AddElement
  <2> QED BY <1>2, <1>3, <1>5, <1>7, <2>1 DEF qs
<1>8. CASE ~p[1].val.eop
  BY <1>2, <1>3, <1>5, <1>6, <1>8 DEF qs
<1> QED BY <1>7, <1>8

WithKick(s, k, ps, n) == [s EXCEPT !.kick = k, !.packets = ps, !.rejected = n]

LEMMA KickPartIs ==
  ASSUME NEW s \in VuState, NEW k \in KickState, NEW ps \in Seq(Seq(Item)), NEW n \in Nat
  PROVE  LET r == WithKick(s, k, ps, n)
         IN  /\ Elapsed(r, s, 0) /\ r.kick = k /\ r.packets = ps /\ r.rejected = n
<1> DEFINE r == [s EXCEPT !.kick = k, !.packets = ps, !.rejected = n]
<1>1. /\ r \in VuState /\ r.cycles = s.cycles /\ r.mac = s.mac /\ r.pipe = s.pipe
      /\ r.mem = s.mem /\ r.kick = k /\ r.packets = ps /\ r.rejected = n
  BY DEF VuState
<1>2. SameFlow(r, s) /\ SameRegs(r, s) /\ SameOld(r, s) /\ SameQ(r, s)
  BY DEF VuState, SameFlow, SameRegs, SameOld, SameQ
<1> HIDE DEF r
<1>3. Aged(r, s, 0)
  BY <1>1, ElapsedNone DEF Elapsed, Aged
<1>4. Elapsed(r, s, 0)
  BY <1>1, <1>2, <1>3 DEF Elapsed
<1> QED BY <1>1, <1>4 DEF r, WithKick


LEMMA ItemsMore ==
  ASSUME NEW p \in Seq(Item), NEW e \in Item, NEW V, NEW c \in Nat,
         Items(p, V, c), e.val = V[e.addr, e.due], e.due <= c
  PROVE  Items(Append(p, e), V, c)
<1>1. PICK q : q = Append(p, e)
  OBVIOUS
<1>2. /\ Len(q) = Len(p) + 1 /\ Len(p) \in Nat
      /\ \A j \in 1..Len(p) : q[j] = p[j]
      /\ q[Len(p) + 1] = e
  BY ONLY <1>1, AppendIs, p \in Seq(Item), e \in Item
<1>3. \A j \in 1..Len(q) : q[j].val = V[q[j].addr, q[j].due] /\ q[j].due <= c
  <2> SUFFICES ASSUME NEW j \in 1..Len(q)
               PROVE  q[j].val = V[q[j].addr, q[j].due] /\ q[j].due <= c
    OBVIOUS
  <2>1. CASE j = Len(p) + 1
    BY <1>2, <2>1
  <2>2. CASE j \in 1..Len(p)
    <3>1. p[j].val = V[p[j].addr, p[j].due] /\ p[j].due <= c
      BY <2>2 DEF Items
    <3>2. q[j] = p[j]
      BY <1>2, <2>2
    <3> QED BY ONLY <3>1, <3>2
  <2>3. j = Len(p) + 1 \/ j \in 1..Len(p)
    BY ONLY <1>2, j \in 1..Len(q)
  <2> QED BY ONLY <2>1, <2>2, <2>3
<1> QED BY <1>1, <1>3 DEF Items

LEMMA ConsecutiveMore ==
  ASSUME NEW p \in Seq(Item), NEW e \in Item, Consecutive(p),
         p # <<>> => e.due = p[Len(p)].due + 2 /\ e.addr = (p[Len(p)].addr + 1) % QSize
  PROVE  Consecutive(Append(p, e))
<1>1. PICK q : q = Append(p, e)
  OBVIOUS
<1>2. /\ Len(q) = Len(p) + 1 /\ Len(p) \in Nat
      /\ \A j \in 1..Len(p) : q[j] = p[j]
      /\ q[Len(p) + 1] = e
  BY ONLY <1>1, AppendIs, p \in Seq(Item), e \in Item
<1>3. \A j \in 2..Len(q) : q[j].due = q[j - 1].due + 2 /\ q[j].addr = (q[j - 1].addr + 1) % QSize
  <2> SUFFICES ASSUME NEW j \in 2..Len(q)
               PROVE  q[j].due = q[j - 1].due + 2 /\ q[j].addr = (q[j - 1].addr + 1) % QSize
    OBVIOUS
  <2>1. CASE j = Len(p) + 1
    <3>1. p # <<>> /\ j - 1 = Len(p) /\ Len(p) \in 1..Len(p)
      BY <1>2, <2>1
    <3>2. q[j] = e /\ q[j - 1] = p[Len(p)]
      BY <1>2, <2>1, <3>1
    <3> QED BY <3>1, <3>2
  <2>2. CASE j \in 2..Len(p)
    <3>1. j \in 1..Len(p) /\ j - 1 \in 1..Len(p)
      BY <1>2, <2>2
    <3> QED BY <1>2, <2>2, <3>1 DEF Consecutive
  <2> QED BY <1>2, <2>1, <2>2
<1> QED BY <1>1, <1>3 DEF Consecutive

(* The qwords a kick has moved, a tag counting as the largest.               *)
Moves(k) == k.tags * QSize + Len(k.packet)

LEMMA MovesMore ==
  ASSUME NEW k \in KickState, NEW k2 \in KickState, NEW V, NEW c \in Nat, Open(k, V, c)
  PROVE  /\ Moves(k) \in Nat /\ Moves(k) < MaxMoves
         /\ k2.tags = k.tags /\ Len(k2.packet) = Len(k.packet) + 1 => Moves(k2) >= Moves(k) + 1
         /\ k2.tags = k.tags + 1 /\ k2.packet = <<>> => Moves(k2) >= Moves(k) + 1
<1>1. QSize \in Nat /\ QSize >= 1 /\ MaxTags \in Nat
  BY SizeAssumption
<1>2. k.tags \in Nat /\ k2.tags \in Nat /\ k.packet \in Seq(Item) /\ k2.packet \in Seq(Item)
      /\ k.left \in Int
  BY DEF KickState
<1>3. PICK t \in Nat, n \in Nat, t2 \in Nat, n2 \in Nat :
        t = k.tags /\ n = Len(k.packet) /\ t2 = k2.tags /\ n2 = Len(k2.packet)
  BY <1>2
<1>4. n <= QSize - 1
  <2>1. CASE k.packet = <<>>
    BY <1>1, <1>3, <2>1
  <2>2. CASE k.packet # <<>>
    <3>1. k.packet[1] \in Item
      BY <1>2, <2>2
    <3>2. k.packet[1].val.n \in Nat
      BY <3>1 DEF Item, Qword
    <3>3. k.left >= 1 /\ Len(k.packet) + k.left = 1 + k.packet[1].val.n
          /\ k.packet[1].val.n < QSize
      BY <2>2 DEF Open
    <3> QED BY <1>1, <1>2, <1>3, <3>2, <3>3
  <2> QED BY <2>1, <2>2
<1>5. t <= MaxTags
  BY <1>3 DEF Open
<1>6. t * QSize \in Nat /\ t * QSize <= MaxTags * QSize
      /\ (t + 1) * QSize = t * QSize + QSize /\ (MaxTags + 1) * QSize = MaxTags * QSize + QSize
      /\ MaxTags * QSize \in Nat
  BY <1>1, <1>5
<1>7. Moves(k) = t * QSize + n /\ Moves(k2) = t2 * QSize + n2
  BY <1>3 DEF Moves
<1>8. PICK a \in Nat, b \in Nat : a = t * QSize /\ b = MaxTags * QSize
  BY <1>6
<1>9. Moves(k) = a + n /\ a <= b /\ MaxMoves = b + QSize
  BY <1>6, <1>7, <1>8 DEF MaxMoves
<1>10. Moves(k) \in Nat /\ Moves(k) < MaxMoves
  BY ONLY <1>1, <1>4, <1>9, a \in Nat, b \in Nat, n \in Nat
<1>11. ASSUME k2.tags = k.tags, Len(k2.packet) = Len(k.packet) + 1 PROVE Moves(k2) >= Moves(k) + 1
  <2>1. t2 = t /\ n2 = n + 1
    BY <1>3, <1>11
  <2>2. Moves(k2) = a + n2
    BY <1>7, <1>8, <2>1
  <2> QED BY ONLY <1>9, <2>1, <2>2, a \in Nat, n \in Nat
<1>12. ASSUME k2.tags = k.tags + 1, k2.packet = <<>> PROVE Moves(k2) >= Moves(k) + 1
  <2>1. t2 = t + 1 /\ n2 = 0
    BY <1>3, <1>12
  <2>2. Moves(k2) = a + QSize
    BY <1>1, <1>6, <1>7, <1>8, <2>1
  <2> QED BY ONLY <1>1, <1>4, <1>9, <2>2, a \in Nat, n \in Nat
<1> QED BY <1>10, <1>11, <1>12


(* One qword moved: nothing lost, nothing counted twice.                     *)
LEMMA MoveIs ==
  ASSUME NEW s, NEW V, Sent(s, V), s.kick.on, s.cycles >= s.kick.due
  PROVE  LET r == Move(s)
         IN  /\ Elapsed(r, s, 0) /\ Sent(r, V) /\ Kicks(r) = Kicks(s)
             /\ r.kick.on => r.kick.due = s.kick.due + 2 /\ Moves(r.kick) >= Moves(s.kick) + 1
<1> DEFINE k == s.kick
           v == s.mem[k.addr]
           starts == k.packet = <<>>
           left == IF starts THEN v.n ELSE k.left - 1
           eop == IF starts THEN v.eop ELSE k.eop
           e == [val |-> v, addr |-> k.addr, due |-> k.due]
           packet == Append(k.packet, e)
           addr == (k.addr + 1) % QSize
           due == k.due + 2
           refused == starts /\ (v.n >= QSize \/ k.tags >= MaxTags)
           ps2 == Append(s.packets, packet)
           kR == [k EXCEPT !.on = FALSE]
           moved == [k EXCEPT !.addr = addr, !.due = due, !.left = left, !.eop = eop]
           kG == [moved EXCEPT !.packet = packet]
           kC == [moved EXCEPT !.packet = <<>>, !.tags = moved.tags + 1, !.on = ~eop]
           rR == [s EXCEPT !.kick = kR, !.packets = s.packets, !.rejected = s.rejected + 1]
           rG == [s EXCEPT !.kick = kG, !.packets = s.packets, !.rejected = s.rejected]
           rC == [s EXCEPT !.kick = kC, !.packets = ps2, !.rejected = s.rejected]
           r == Move(s)
<1>1. /\ s \in VuState /\ k \in KickState /\ s.cycles \in Nat /\ s.packets \in Seq(Seq(Item))
      /\ s.rejected \in Nat /\ s.mem \in [Cells -> Qword]
  BY VuTypes DEF Sent
<1>2. /\ k.addr \in Cells /\ k.due \in Nat /\ k.tags \in Nat /\ k.left \in Int
      /\ k.eop \in BOOLEAN /\ k.packet \in Seq(Item) /\ k.on
  BY <1>1 DEF KickState
<1>3. v \in Qword /\ v.n \in Nat /\ v.eop \in BOOLEAN
  BY <1>1, <1>2 DEF Qword
<1>4. e \in Item
  BY <1>2, <1>3 DEF Item
<1>5. packet \in Seq(Item)
  BY <1>2, <1>4, AppendIs
<1>6. addr \in Cells /\ due \in Nat /\ left \in Int /\ eop \in BOOLEAN /\ k.tags + 1 \in Nat
  BY <1>2, <1>3, SizeAssumption DEF Cells
<1>7. /\ kR \in KickState /\ ~kR.on /\ kG \in KickState /\ kC \in KickState
      /\ kG.on /\ kG.packet = packet /\ kG.tags = k.tags
      /\ kG.left = left /\ kG.eop = eop /\ kG.due = due /\ kG.addr = addr
      /\ kC.on = ~eop /\ kC.packet = <<>> /\ kC.tags = k.tags + 1 /\ kC.due = due
  <2>1. <<>> \in Seq(Item)
    OBVIOUS
  <2> HIDE DEF e, packet, addr, due, left, eop
  <2>2. kR \in KickState /\ ~kR.on
    BY <1>1 DEF KickState
  <2>3. /\ moved \in KickState /\ moved.on /\ moved.addr = addr /\ moved.due = due
        /\ moved.left = left /\ moved.eop = eop /\ moved.tags = k.tags
    BY ONLY <1>1, <1>2, <1>6 DEF KickState
  <2> HIDE DEF moved
  <2>4. /\ kG \in KickState /\ kG.on /\ kG.packet = packet /\ kG.tags = k.tags
        /\ kG.left = left /\ kG.eop = eop /\ kG.due = due /\ kG.addr = addr
    BY ONLY <1>5, <2>3 DEF KickState
  <2>5. PICK t \in Nat, o \in BOOLEAN : t = moved.tags + 1 /\ o = ~eop
    BY <1>6, <2>3
  <2>6. kC = [moved EXCEPT !.packet = <<>>, !.tags = t, !.on = o]
    BY <2>5
  <2> HIDE DEF kC
  <2>7. /\ kC \in KickState /\ kC.on = o /\ kC.packet = <<>> /\ kC.tags = t /\ kC.due = due
    BY ONLY <2>1, <2>3, <2>6, t \in Nat, o \in BOOLEAN DEF KickState
  <2>8. kC.on = ~eop
    BY ONLY <2>5, <2>7, Zenon
  <2> QED BY <2>2, <2>3, <2>4, <2>5, <2>7, <2>8
<1>8. ps2 \in Seq(Seq(Item))
  BY <1>1, <1>5, AppendIs
<1>9. r = IF refused THEN rR ELSE IF left # 0 THEN rG ELSE rC
  <2>1. r = IF refused THEN [s EXCEPT !.kick.on = FALSE, !.rejected = @ + 1]
            ELSE IF left # 0 THEN [s EXCEPT !.kick = kG]
            ELSE [s EXCEPT !.packets = ps2, !.kick = kC]
    BY Zenon DEF Move
  <2>4. [s EXCEPT !.kick.on = FALSE, !.rejected = @ + 1] = rR
    <3>1. [s EXCEPT !.kick.on = FALSE, !.rejected = @ + 1]
            = [s EXCEPT !.kick = kR, !.rejected = s.rejected + 1]
      BY <1>1 DEF VuState
    <3> HIDE DEF kR
    <3> QED BY <1>1, <3>1 DEF VuState
  <2> HIDE DEF kG, kC
  <2>5. [s EXCEPT !.kick = kG] = rG
    BY <1>1 DEF VuState
  <2> HIDE DEF ps2, left, eop, packet
  <2>6. [s EXCEPT !.packets = ps2, !.kick = kC] = rC
    BY <1>1 DEF VuState
  <2> HIDE DEF refused, rR, rG, rC
  <2> QED BY <2>1, <2>4, <2>5, <2>6
<1>10. Open(k, V, s.cycles) /\ Seen(k, s.mem, V)
  BY DEF Sent
<1>11. e.val = V[e.addr, e.due] /\ e.due <= s.cycles
  <2>1. k.due >= k.due
    BY <1>2
  <2>2. V[k.addr, k.due] = v
    BY ONLY <1>2, <1>10, <2>1 DEF Seen
  <2>3. e.val = v /\ e.addr = k.addr /\ e.due = k.due
    OBVIOUS
  <2> QED BY ONLY <2>2, <2>3, s.cycles >= s.kick.due
<1>12. Items(packet, V, s.cycles)
  BY <1>1, <1>2, <1>4, <1>10, <1>11, ItemsMore DEF Open
<1>13. Consecutive(packet)
  <2>1. k.packet # <<>> => /\ e.due = k.packet[Len(k.packet)].due + 2
                           /\ e.addr = (k.packet[Len(k.packet)].addr + 1) % QSize
    BY <1>10 DEF Open
  <2>2. Consecutive(k.packet)
    BY <1>10 DEF Open
  <2> QED BY <1>2, <1>4, <2>1, <2>2, ConsecutiveMore
<1>14. /\ Len(packet) = Len(k.packet) + 1 /\ Len(k.packet) \in Nat
       /\ (starts => packet[1] = e /\ Len(k.packet) = 0)
       /\ (~starts => packet[1] = k.packet[1] /\ k.packet[1] \in Item)
       /\ packet[Len(packet)] = e
  <2>1. \A j \in 1..Len(k.packet) : packet[j] = k.packet[j]
    BY <1>2, <1>4, AppendIs
  <2>2. Len(packet) = Len(k.packet) + 1 /\ Len(k.packet) \in Nat /\ packet[Len(k.packet) + 1] = e
    BY <1>2, <1>4, AppendIs
  <2>3. ~starts => 1 \in 1..Len(k.packet) /\ k.packet[1] \in Item
    BY <1>2
  <2>4. starts => Len(k.packet) = 0
    BY <1>2
  <2> HIDE DEF packet, e, starts
  <2> QED BY <2>1, <2>2, <2>3, <2>4
<1>15. packet[1].val.n \in Nat /\ packet[1].val.eop \in BOOLEAN
       /\ packet[1].val.eop = eop /\ Len(packet) + left = 1 + packet[1].val.n
  <2>1. CASE starts
    <3>1. packet[1] = e /\ Len(packet) = 1
      BY <1>14, <2>1
    <3>2. e.val = v
      OBVIOUS
    <3>3. left = v.n /\ eop = v.eop
      BY <2>1
    <3> HIDE DEF e, packet, left, eop
    <3> HIDE DEF v
    <3>4. packet[1].val.eop = eop /\ packet[1].val.eop \in BOOLEAN
      BY ONLY <1>3, <3>1, <3>2, <3>3, Zenon
    <3>5. packet[1].val.n \in Nat /\ Len(packet) + left = 1 + packet[1].val.n
      BY ONLY <1>3, <3>1, <3>2, <3>3
    <3> QED BY <3>4, <3>5
  <2>2. CASE ~starts
    <3>1. packet[1] = k.packet[1] /\ k.packet[1] \in Item
      BY <1>14, <2>2
    <3>2. Len(k.packet) + k.left = 1 + k.packet[1].val.n /\ k.eop = k.packet[1].val.eop
      BY <1>10, <2>2 DEF Open
    <3>3. left = k.left - 1 /\ eop = k.eop
      BY <2>2
    <3>4. k.packet[1].val.n \in Nat /\ k.packet[1].val.eop \in BOOLEAN
      BY <3>1 DEF Item, Qword
    <3> HIDE DEF packet, left, eop
    <3>5. packet[1].val.eop = eop /\ packet[1].val.eop \in BOOLEAN
      BY ONLY <3>1, <3>2, <3>3, <3>4, Zenon
    <3>6. PICK n \in Nat : n = packet[1].val.n
      BY <3>1, <3>4
    <3>7. Len(k.packet) + k.left = 1 + n /\ Len(packet) = Len(k.packet) + 1 /\ left = k.left - 1
          /\ Len(k.packet) \in Nat /\ k.left \in Int
      BY ONLY <1>2, <1>14, <3>1, <3>2, <3>3, <3>6, Zenon
    <3>8. Len(packet) + left = 1 + n
      <4>1. PICK a \in Nat, b \in Int : a = Len(k.packet) /\ b = k.left
        BY ONLY <3>7
      <4>2. a + b = 1 + n /\ Len(packet) = a + 1 /\ left = b - 1
        BY ONLY <3>7, <4>1, Zenon
      <4>3. (a + 1) + (b - 1) = 1 + n
        BY <4>2
      <4> QED BY ONLY <4>2, <4>3, Zenon
    <3> QED BY ONLY <3>5, <3>6, <3>8
  <2> QED BY <2>1, <2>2
<1>16. ~refused => packet[1].val.n < QSize /\ k.tags < MaxTags /\ left >= 0
  <2> SUFFICES ASSUME ~refused PROVE packet[1].val.n < QSize /\ k.tags < MaxTags /\ left >= 0
    OBVIOUS
  <2>0. QSize \in Nat /\ MaxTags \in Nat
    BY SizeAssumption
  <2>1. CASE starts
    <3>1. packet[1].val = v /\ left = v.n
      BY <1>14, <2>1
    <3>2. ~(v.n >= QSize) /\ ~(k.tags >= MaxTags)
      BY <2>1
    <3> HIDE DEF packet, left, v
    <3> QED BY <1>2, <1>3, <2>0, <3>1, <3>2
  <2>2. CASE ~starts
    <3>1. packet[1] = k.packet[1]
      BY <1>14, <2>2
    <3>2. k.packet[1].val.n < QSize /\ k.tags < MaxTags /\ k.left >= 1
      BY <1>10, <2>2 DEF Open
    <3>3. left = k.left - 1
      BY <2>2
    <3> HIDE DEF packet, left
    <3> QED BY <1>2, <3>1, <3>2, <3>3
  <2> QED BY <2>1, <2>2
<1>17. \A x : Elapsed(x, s, 0) => x \in VuState /\ x.cycles = s.cycles /\ x.mem = s.mem
  <2>1. s.cycles + 0 = s.cycles
    BY <1>1
  <2> QED BY <2>1 DEF Elapsed, Aged
<1>18. EopCount(s.packets) \in Nat
  BY <1>1, Counted
<1>19. CASE refused
  <2>1. Elapsed(r, s, 0) /\ r.kick = kR /\ r.packets = s.packets /\ r.rejected = s.rejected + 1
    <3>1. s.rejected + 1 \in Nat
      BY <1>1
    <3> HIDE DEF kR
    <3>2. r = WithKick(s, kR, s.packets, s.rejected + 1)
      BY <1>9, <1>19, Zenon DEF WithKick
    <3> HIDE DEF r, k
    <3> QED BY ONLY <1>1, <1>7, <3>1, <3>2, KickPartIs
  <2>2. ~r.kick.on
    BY <1>7, <2>1, Zenon
  <2> HIDE DEF r
  <2>3. r \in VuState /\ r.cycles = s.cycles
    BY <1>17, <2>1
  <2>4. Sent(r, V)
    BY <2>1, <2>2, <2>3 DEF Sent
  <2>5. Kicks(r) = Kicks(s)
    <3>1. (IF r.kick.on THEN 1 ELSE 0) = 0 /\ (IF s.kick.on THEN 1 ELSE 0) = 1
      BY <1>2, <2>2
    <3> QED BY ONLY <1>1, <1>18, <2>1, <3>1 DEF Kicks
  <2> QED BY <2>1, <2>2, <2>4, <2>5 DEF r
<1>20. CASE ~refused /\ left # 0
  <2>1. Elapsed(r, s, 0) /\ r.kick = kG /\ r.packets = s.packets /\ r.rejected = s.rejected
    <3> HIDE DEF kG
    <3>1. r = WithKick(s, kG, s.packets, s.rejected)
      BY <1>9, <1>20, Zenon DEF WithKick
    <3> HIDE DEF r, k
    <3> QED BY ONLY <1>1, <1>7, <3>1, KickPartIs
  <2>2. /\ kG.on /\ kG.packet = packet /\ kG.tags = k.tags /\ kG.left = left /\ kG.eop = eop
        /\ kG.due = due /\ kG.addr = addr
    BY <1>7
  <2> HIDE DEF r
  <2>3. r \in VuState /\ r.cycles = s.cycles /\ r.mem = s.mem
    BY <1>17, <2>1
  <2>4. Open(kG, V, s.cycles)
    <3>1. left >= 1
      <4> HIDE DEF left, refused
      <4> QED BY <1>6, <1>16, <1>20
    <3>2. due = e.due + 2 /\ addr = (e.addr + 1) % QSize
      OBVIOUS
    <3>3. kG.due = packet[Len(packet)].due + 2
          /\ kG.addr = (packet[Len(packet)].addr + 1) % QSize
      <4> HIDE DEF kG, packet, due, addr, e
      <4> QED BY <1>14, <2>2, <3>2
    <3>4. k.tags < MaxTags /\ packet[1].val.n < QSize
      BY <1>16, <1>20
    <3>5. k.tags <= MaxTags
      BY <1>10 DEF Open
    <3> HIDE DEF kG, packet, left, eop, due, addr, e
    <3> QED BY <1>12, <1>13, <1>15, <2>2, <3>1, <3>3, <3>4, <3>5 DEF Open
  <2>5. Seen(kG, s.mem, V)
    <3>1. \A t \in Nat : t >= due => t >= k.due
      BY <1>2
    <3> HIDE DEF kG, due
    <3> QED BY <1>10, <2>2, <3>1 DEF Seen
  <2>6. Moves(kG) >= Moves(k) + 1
    <3> HIDE DEF kG, packet, k
    <3> QED BY <1>1, <1>7, <1>10, <1>14, <2>2, MovesMore
  <2>7. kG.due = k.due + 2
    BY <2>2
  <2> HIDE DEF kG, packet, left, eop, due, addr, e
  <2>8. Sent(r, V)
    BY <2>1, <2>3, <2>4, <2>5 DEF Sent
  <2>9. Kicks(r) = Kicks(s)
    BY <1>2, <2>1, <2>2 DEF Kicks
  <2> QED BY <2>1, <2>6, <2>7, <2>8, <2>9 DEF r
<1>21. CASE ~refused /\ left = 0
  <2>1. Elapsed(r, s, 0) /\ r.kick = kC /\ r.packets = ps2 /\ r.rejected = s.rejected
    <3> HIDE DEF kC, ps2
    <3>1. r = WithKick(s, kC, ps2, s.rejected)
      BY <1>9, <1>21, Zenon DEF WithKick
    <3> HIDE DEF r, k
    <3> QED BY ONLY <1>1, <1>7, <1>8, <3>1, KickPartIs
  <2>2. /\ kC.on = ~eop /\ kC.packet = <<>> /\ kC.tags = k.tags + 1 /\ kC.due = due
    BY <1>7
  <2> HIDE DEF r
  <2>3. r \in VuState /\ r.cycles = s.cycles /\ r.mem = s.mem
    BY <1>17, <2>1
  <2>4. Open(kC, V, s.cycles)
    <3>1. k.tags + 1 <= MaxTags
      <4>1. k.tags < MaxTags /\ MaxTags \in Nat
        BY <1>16, <1>21, SizeAssumption
      <4> QED BY <1>2, <4>1
    <3>2. Items(<<>>, V, s.cycles)
      <4>1. \A j \in 1..Len(<<>>) : FALSE
        OBVIOUS
      <4> HIDE DEF packet, e, v, k
      <4> QED BY ONLY <4>1, Zenon DEF Items
    <3>3. Consecutive(<<>>)
      <4>1. \A j \in 2..Len(<<>>) : FALSE
        OBVIOUS
      <4> HIDE DEF packet, e, v, k
      <4> QED BY ONLY <4>1, Zenon DEF Consecutive
    <3> HIDE DEF kC
    <3> QED BY <2>2, <3>1, <3>2, <3>3 DEF Open
  <2>5. Seen(kC, s.mem, V)
    <3>1. \A t \in Nat : t >= due => t >= k.due
      BY <1>2
    <3> HIDE DEF kC, due
    <3> QED BY <1>10, <2>2, <3>1 DEF Seen
  <2>6. Moves(kC) >= Moves(k) + 1
    <3> HIDE DEF kC, k
    <3> QED BY <1>1, <1>7, <1>10, <2>2, MovesMore
  <2>7. kC.due = k.due + 2
    BY <2>2
  <2>8. Whole(packet, V, s.cycles)
    <3>1. Len(packet) >= 1 /\ Len(packet) = 1 + packet[1].val.n
      <4> HIDE DEF packet, left
      <4> QED BY <1>14, <1>15, <1>21
    <3> HIDE DEF packet
    <3> QED BY <1>12, <1>13, <3>1 DEF Whole
  <2>9. \A i \in 1..Len(ps2) : Whole(ps2[i], V, s.cycles)
    <3> SUFFICES ASSUME NEW i \in 1..Len(ps2) PROVE Whole(ps2[i], V, s.cycles)
      OBVIOUS
    <3> HIDE DEF packet
    <3>1. /\ Len(ps2) = Len(s.packets) + 1 /\ Len(s.packets) \in Nat
          /\ \A j \in 1..Len(s.packets) : ps2[j] = s.packets[j]
          /\ ps2[Len(s.packets) + 1] = packet
      BY ONLY <1>1, <1>5, AppendIs
    <3> HIDE DEF ps2
    <3>2. CASE i = Len(s.packets) + 1
      BY <2>8, <3>1, <3>2
    <3>3. CASE i \in 1..Len(s.packets)
      BY <3>1, <3>3 DEF Sent
    <3> QED BY <3>1, <3>2, <3>3
  <2>10. EopCount(ps2) = EopCount(s.packets) + (IF eop THEN 1 ELSE 0)
    <3> HIDE DEF packet, eop
    <3> QED BY <1>1, <1>5, <1>15, CountedMore
  <2> HIDE DEF kC, packet, left, eop, due, addr, e, ps2
  <2>11. Sent(r, V)
    BY <2>1, <2>3, <2>4, <2>5, <2>9 DEF Sent
  <2>12. Kicks(r) = Kicks(s)
    <3>1. (IF r.kick.on THEN 1 ELSE 0) + (IF eop THEN 1 ELSE 0) = 1
          /\ (IF s.kick.on THEN 1 ELSE 0) = 1
      <4>1. r.kick.on = ~eop /\ s.kick.on
        BY <2>1, <2>2, Zenon
      <4>2. CASE eop
        <5>1. (IF r.kick.on THEN 1 ELSE 0) = 0 /\ (IF eop THEN 1 ELSE 0) = 1
              /\ (IF s.kick.on THEN 1 ELSE 0) = 1
          BY ONLY <4>1, <4>2, Zenon
        <5> QED BY ONLY <5>1
      <4>3. CASE ~eop
        <5>1. (IF r.kick.on THEN 1 ELSE 0) = 1 /\ (IF eop THEN 1 ELSE 0) = 0
              /\ (IF s.kick.on THEN 1 ELSE 0) = 1
          BY ONLY <4>1, <4>3, Zenon
        <5> QED BY ONLY <5>1
      <4> QED BY ONLY <4>2, <4>3
    <3>2. PICK a \in Int, b \in Int : a = (IF r.kick.on THEN 1 ELSE 0) /\ b = (IF eop THEN 1 ELSE 0)
      OBVIOUS
    <3>3. PICK n \in Int, m \in Int : n = s.rejected /\ m = EopCount(s.packets)
      BY <1>1, <1>18
    <3>4. Kicks(r) = n + a + (m + b) /\ Kicks(s) = n + 1 + m
      BY ONLY <2>1, <2>10, <3>1, <3>2, <3>3, Zenon DEF Kicks
    <3> QED BY ONLY <3>1, <3>2, <3>4, a \in Int, b \in Int, n \in Int, m \in Int
  <2> QED BY <2>1, <2>6, <2>7, <2>11, <2>12 DEF r
<1> QED BY <1>19, <1>20, <1>21


(* Time passes the transfer by.                                              *)
LEMMA SentKept ==
  ASSUME NEW s, NEW r \in VuState, NEW V, Sent(s, V), r.mem = s.mem, s.cycles <= r.cycles,
         SameKick(r, s)
  PROVE  Sent(r, V) /\ Kicks(r) = Kicks(s)
<1>1. r \in VuState /\ s \in VuState /\ r.mem = s.mem
      /\ r.kick = s.kick /\ r.packets = s.packets /\ r.rejected = s.rejected
  BY DEF SameKick, Sent
<1>2. s.cycles \in Nat /\ r.cycles \in Nat /\ s.cycles <= r.cycles
  BY <1>1, VuTypes
<1>3. \A p \in Seq(Item) : Items(p, V, s.cycles) => Items(p, V, r.cycles)
  <2> SUFFICES ASSUME NEW p \in Seq(Item), Items(p, V, s.cycles), NEW j \in 1..Len(p)
               PROVE  p[j].val = V[p[j].addr, p[j].due] /\ p[j].due <= r.cycles
    BY DEF Items
  <2>1. p[j].val = V[p[j].addr, p[j].due] /\ p[j].due <= s.cycles
    BY DEF Items
  <2>2. p[j].due \in Nat
    <3>1. p[j] \in Item
      OBVIOUS
    <3> QED BY ONLY <3>1 DEF Item
  <2>3. PICK d \in Nat : d = p[j].due
    BY ONLY <2>2
  <2>4. d <= r.cycles
    <3>1. d <= s.cycles
      BY ONLY <2>1, <2>3, Zenon
    <3> QED BY ONLY <1>2, <3>1, d \in Nat
  <2> QED BY ONLY <2>1, <2>3, <2>4, Zenon
<1>4. \A i \in 1..Len(s.packets) : Whole(s.packets[i], V, r.cycles)
  <2> SUFFICES ASSUME NEW i \in 1..Len(s.packets) PROVE Whole(s.packets[i], V, r.cycles)
    OBVIOUS
  <2>1. s.packets[i] \in Seq(Item)
    <3>1. s.packets \in Seq(Seq(Item))
      BY <1>1, VuTypes
    <3> QED BY <3>1
  <2>2. Whole(s.packets[i], V, s.cycles)
    BY DEF Sent
  <2> QED BY ONLY <1>3, <2>1, <2>2, Zenon DEF Whole
<1>5. s.kick.on => Open(s.kick, V, r.cycles) /\ Seen(s.kick, s.mem, V)
  <2> SUFFICES ASSUME s.kick.on PROVE Open(s.kick, V, r.cycles) /\ Seen(s.kick, s.mem, V)
    OBVIOUS
  <2>1. Open(s.kick, V, s.cycles) /\ Seen(s.kick, s.mem, V)
    BY DEF Sent
  <2>2. s.kick.packet \in Seq(Item)
    BY <1>1, VuTypes DEF KickState
  <2> QED BY <1>3, <2>1, <2>2, Zenon DEF Open
<1>6. Sent(r, V)
  BY ONLY <1>1, <1>4, <1>5, Zenon DEF Sent
<1>7. Kicks(r) = Kicks(s)
  BY ONLY <1>1, Zenon DEF Kicks
<1> QED BY <1>6, <1>7

LEMMA SentLater ==
  ASSUME NEW s, NEW r, NEW n, NEW V, Sent(s, V), Elapsed(r, s, n), SameKick(r, s)
  PROVE  Sent(r, V) /\ Kicks(r) = Kicks(s)
<1>1. r \in VuState /\ s \in VuState /\ r.mem = s.mem /\ n \in Nat /\ r.cycles = s.cycles + n
  BY DEF Elapsed, Aged, Sent
<1>2. s.cycles <= r.cycles
  BY <1>1, VuTypes
<1> QED BY <1>1, <1>2, SentKept

(* What is due, or, in a flush, what is left.                                *)
Active(s, flush) == s.kick.on /\ (flush \/ s.cycles >= s.kick.due)
Later(r, s, flush) == \E n \in Nat : Elapsed(r, s, n) /\ (~flush => n = 0)

LEMMA LaterMore ==
  ASSUME NEW s \in VuState, NEW r, NEW t, NEW flush, Later(r, s, flush), Later(t, r, flush)
  PROVE  Later(t, s, flush)
<1>1. PICK n \in Nat : Elapsed(r, s, n) /\ (~flush => n = 0)
  BY DEF Later
<1>2. PICK m \in Nat : Elapsed(t, r, m) /\ (~flush => m = 0)
  BY DEF Later
<1>3. Elapsed(t, s, n + m)
  BY <1>1, <1>2, ElapsedMore
<1>4. n + m \in Nat /\ (~flush => n + m = 0)
  BY <1>1, <1>2
<1> QED BY <1>3, <1>4 DEF Later

LEMMA MoveDueIs ==
  ASSUME NEW s, NEW V, Sent(s, V), NEW flush
  PROVE  LET r == MoveDue(s, flush)
         IN  /\ Later(r, s, flush) /\ Sent(r, V) /\ Kicks(r) = Kicks(s)
             /\ Active(s, flush) /\ r.kick.on => Moves(r.kick) >= Moves(s.kick) + 1
             /\ ~Active(s, flush) => r = s
<1> DEFINE w == WaitUntil(s, s.kick.due)
           r == MoveDue(s, flush)
<1>1. s \in VuState /\ s.kick \in KickState /\ s.kick.due \in Nat /\ s.cycles \in Nat
  BY VuTypes DEF Sent, KickState
<1>2. r = IF ~Active(s, flush) THEN s ELSE IF flush THEN Move(w) ELSE Move(s)
  BY DEF MoveDue, Active
<1> HIDE DEF r
<1>3. CASE ~Active(s, flush)
  <2>1. r = s
    BY <1>2, <1>3
  <2>2. Later(r, s, flush)
    BY <1>1, <2>1, ElapsedNone DEF Later
  <2> QED BY <1>3, <2>1, <2>2 DEF r
<1>4. CASE Active(s, flush) /\ flush
  <2>1. PICK n : Elapsed(w, s, n) /\ SameKick(w, s) /\ w.cycles >= s.kick.due
    BY <1>1, WaitElapses
  <2>2. n \in Nat
    BY <2>1 DEF Elapsed
  <2>3. Sent(w, V) /\ Kicks(w) = Kicks(s) /\ w.kick = s.kick
    BY <2>1, SentLater DEF SameKick
  <2> HIDE DEF w
  <2>4. s.kick.on
    BY <1>4 DEF Active
  <2>5. /\ Elapsed(Move(w), w, 0) /\ Sent(Move(w), V) /\ Kicks(Move(w)) = Kicks(w)
        /\ Move(w).kick.on => Moves(Move(w).kick) >= Moves(w.kick) + 1
    BY <2>1, <2>3, <2>4, MoveIs
  <2>6. Elapsed(Move(w), s, n + 0)
    BY <1>1, <2>1, <2>5, ElapsedMore
  <2>7. n + 0 = n
    BY <2>2
  <2>8. r = Move(w)
    BY <1>2, <1>4
  <2>9. Later(r, s, flush)
    BY <1>4, <2>2, <2>6, <2>7, <2>8 DEF Later
  <2> QED BY <1>4, <2>3, <2>5, <2>8, <2>9 DEF r
<1>5. CASE Active(s, flush) /\ ~flush
  <2>1. s.kick.on /\ s.cycles >= s.kick.due
    BY <1>5 DEF Active
  <2>2. r = Move(s)
    BY <1>2, <1>5
  <2>3. /\ Elapsed(r, s, 0) /\ Sent(r, V) /\ Kicks(r) = Kicks(s)
        /\ r.kick.on => Moves(r.kick) >= Moves(s.kick) + 1
    BY <2>1, <2>2, MoveIs
  <2>4. Later(r, s, flush)
    BY <2>3 DEF Later
  <2> QED BY <1>5, <2>3, <2>4 DEF r
<1> QED BY <1>3, <1>4, <1>5

(* The whole transfer: what is due is sent, in a flush all there is.         *)
LEMMA TransferIs ==
  ASSUME NEW s, NEW V, Sent(s, V), NEW flush
  PROVE  LET r == Transfer(s, flush)
         IN  Later(r, s, flush) /\ Sent(r, V) /\ Kicks(r) = Kicks(s) /\ ~Active(r, flush)
<1> DEFINE Good(x) == Sent(x, V) /\ Later(x, s, flush) /\ Kicks(x) = Kicks(s)
           G == {x \in VuState : Good(x)}
           F == [x \in G |-> MoveDue(x, flush)]
           Rec(f) == f = [i \in 0..MaxMoves |-> IF i = 0 THEN s ELSE MoveDue(f[i - 1], flush)]
           after == CHOOSE f : Rec(f)
<1>0. MaxMoves \in Nat
  <2>1. QSize \in Nat /\ MaxTags \in Nat
    BY SizeAssumption
  <2> QED BY <2>1 DEF MaxMoves
<1>1. s \in G
  <2>1. s \in VuState
    BY DEF Sent
  <2>2. Later(s, s, flush)
    BY <2>1, ElapsedNone DEF Later
  <2> QED BY <2>1, <2>2
<1>2. \A x \in G : MoveDue(x, flush) \in G
  <2> SUFFICES ASSUME NEW x \in G PROVE MoveDue(x, flush) \in G
    OBVIOUS
  <2>1. Sent(x, V) /\ Later(x, s, flush) /\ Kicks(x) = Kicks(s)
    OBVIOUS
  <2>2. PICK r : r = MoveDue(x, flush)
    OBVIOUS
  <2>3. Later(r, x, flush) /\ Sent(r, V) /\ Kicks(r) = Kicks(x)
    BY <2>1, <2>2, MoveDueIs
  <2>4. Later(r, s, flush)
    BY <1>1, <2>1, <2>3, LaterMore
  <2>5. r \in VuState
    BY <2>3 DEF Sent
  <2> QED BY <2>1, <2>2, <2>3, <2>4, <2>5
<1>3. F \in [G -> G] /\ \A x \in G : F[x] = MoveDue(x, flush)
  BY <1>2
<1>4. \A x : x \in G => Good(x)
  BY Zenon
<1>5. Moves(s.kick) \in Nat
  <2>1. s.kick \in KickState
    BY VuTypes DEF Sent
  <2>2. s.kick.tags \in Nat /\ Len(s.kick.packet) \in Nat /\ QSize \in Nat
    BY <2>1, SizeAssumption DEF KickState
  <2>3. s.kick.tags * QSize \in Nat
    BY <2>2
  <2> QED BY <2>2, <2>3 DEF Moves
<1> HIDE DEF G, F
<1>6. PICK f : Iterates(f, F, s, G, MaxMoves)
  BY <1>0, <1>1, <1>3, Iterated, Zenon
<1>7. Rec(f)
  <2>1. f \in [0..MaxMoves -> G] /\ f[0] = s /\ \A i \in 1..MaxMoves : f[i] = F[f[i - 1]]
    BY <1>6 DEF Iterates
  <2>2. \A i \in 0..MaxMoves : f[i] = IF i = 0 THEN s ELSE MoveDue(f[i - 1], flush)
    <3> SUFFICES ASSUME NEW i \in 0..MaxMoves, i # 0 PROVE f[i] = MoveDue(f[i - 1], flush)
      BY <2>1
    <3>1. i \in 1..MaxMoves /\ i - 1 \in 0..MaxMoves
      BY <1>0
    <3> QED BY <1>3, <2>1, <3>1
  <2> QED BY <2>1, <2>2
<1>8. Rec(after)
  <2> HIDE DEF Rec
  <2> QED BY <1>7, Zenon
<1>9. Transfer(s, flush) = after[MaxMoves]
  BY Zenon DEF Transfer
<1>10. after[0] = s /\ \A i \in Nat : i + 1 <= MaxMoves => after[i + 1] = MoveDue(after[i], flush)
  <2> HIDE DEF after
  <2>1. \A i \in 0..MaxMoves : after[i] = IF i = 0 THEN s ELSE MoveDue(after[i - 1], flush)
    BY <1>8
  <2>2. after[0] = s
    BY <1>0, <2>1
  <2>3. ASSUME NEW i \in Nat, i + 1 <= MaxMoves PROVE after[i + 1] = MoveDue(after[i], flush)
    <3>1. i + 1 \in 0..MaxMoves /\ i + 1 # 0 /\ (i + 1) - 1 = i
      BY <1>0, <2>3
    <3>2. after[i + 1] = MoveDue(after[(i + 1) - 1], flush)
      BY <2>1, <3>1, Zenon
    <3> QED BY <3>1, <3>2, Zenon
  <2> QED BY <2>2, <2>3
<1> HIDE DEF after, Rec
<1> DEFINE Ok(i) == i <= MaxMoves => /\ after[i] \in G
                                     /\ Active(after[i], flush) => Moves(after[i].kick) >= i
           T == {i \in Nat : Ok(i)}
<1>11. \A i \in Nat : i \in T <=> Ok(i)
  BY Zenon
<1> HIDE DEF T
<1>12. 0 \in T
  <2>1. Ok(0)
    BY <1>1, <1>5, <1>10
  <2> QED BY <1>11, <2>1
<1>13. ASSUME NEW i \in Nat, i \in T PROVE i + 1 \in T
  <2>1. SUFFICES ASSUME i + 1 <= MaxMoves
                 PROVE  /\ after[i + 1] \in G
                        /\ Active(after[i + 1], flush) => Moves(after[i + 1].kick) >= i + 1
    <3> HIDE DEF Active
    <3>1. i + 1 \in Nat
      BY <1>13
    <3> QED BY <1>11, <2>1, <3>1
  <2>2. Ok(i)
    BY <1>11, <1>13, Zenon
  <2>3. i <= MaxMoves
    BY <1>0, <1>13, <2>1
  <2>4. PICK x : x = after[i]
    OBVIOUS
  <2>5. PICK r : r = after[i + 1]
    OBVIOUS
  <2>6. x \in G /\ (Active(x, flush) => Moves(x.kick) >= i)
    BY <2>2, <2>3, <2>4
  <2>7. r = MoveDue(x, flush)
    BY <1>10, <1>13, <2>1, <2>4, <2>5
  <2>8. r \in G
    BY <1>2, <2>6, <2>7
  <2>9. Sent(x, V) /\ Sent(r, V)
    BY <1>4, <2>6, <2>8, Zenon
  <2>10. /\ Active(x, flush) /\ r.kick.on => Moves(r.kick) >= Moves(x.kick) + 1
         /\ ~Active(x, flush) => r = x
    BY <2>7, <2>9, MoveDueIs
  <2>11. Active(r, flush) => Moves(r.kick) >= i + 1
    <3> SUFFICES ASSUME Active(r, flush) PROVE Moves(r.kick) >= i + 1
      OBVIOUS
    <3>1. r.kick.on
      BY DEF Active
    <3>2. Active(x, flush)
      BY <2>10
    <3>3. Moves(x.kick) \in Nat /\ Moves(r.kick) \in Nat
      <4>1. x.kick.on
        BY <3>2 DEF Active
      <4>2. Open(x.kick, V, x.cycles) /\ x.cycles \in Nat /\ x.kick \in KickState
        BY <2>9, <4>1, VuTypes DEF Sent
      <4>3. Open(r.kick, V, r.cycles) /\ r.cycles \in Nat /\ r.kick \in KickState
        BY <2>9, <3>1, VuTypes DEF Sent
      <4> QED BY <4>2, <4>3, MovesMore
    <3> QED BY <1>13, <2>6, <2>10, <3>1, <3>2, <3>3
  <2> QED BY <2>5, <2>8, <2>11
<1>14. MaxMoves \in T
  <2>1. Nat \subseteq T
    BY <1>12, <1>13, Induction, Zenon
  <2> QED BY <1>0, <2>1
<1>15. PICK r : r = after[MaxMoves]
  OBVIOUS
<1>16. r \in G /\ (Active(r, flush) => Moves(r.kick) >= MaxMoves)
  BY <1>0, <1>11, <1>14, <1>15
<1>17. Sent(r, V) /\ Later(r, s, flush) /\ Kicks(r) = Kicks(s)
  BY <1>4, <1>16, Zenon
<1>18. ~Active(r, flush)
  <2> SUFFICES ASSUME Active(r, flush) PROVE FALSE
    OBVIOUS
  <2>1. r.kick.on
    BY DEF Active
  <2>2. Open(r.kick, V, r.cycles) /\ r.cycles \in Nat /\ r.kick \in KickState
    BY <1>17, <2>1, VuTypes DEF Sent
  <2>3. Moves(r.kick) \in Nat /\ Moves(r.kick) < MaxMoves
    BY <2>2, MovesMore
  <2> QED BY <1>0, <1>16, <2>3
<1> QED BY <1>9, <1>15, <1>17, <1>18


-----------------------------------------------------------------------------
(* A pair, stage by stage                                                    *)

Ready(s, p) == Quotient(Transfer(QStall(VfStall(s, p), p), FALSE))
Due(s, c) == s.qPending /\ c >= s.qReady

(* When it issues, what was due has arrived.                                 *)
LEMMA ReadyIs ==
  ASSUME NEW s, NEW V, Sent(s, V), NEW p, PairOk(p)
  PROVE  LET w == Ready(s, p)
             c == Issued(s, p)
         IN  /\ w \in VuState /\ w.cycles = c /\ w.mem = s.mem
             /\ \E n \in Nat : Aged(w, s, n)
             /\ SameFlow(w, s) /\ SameRegs(w, s) /\ SameOld(w, s)
             /\ w.q = (IF Due(s, c) THEN s.pendingQ ELSE s.q)
             /\ w.qPending <=> (s.qPending /\ ~Due(s, c))
             /\ w.pendingQ = s.pendingQ /\ w.qReady = s.qReady
             /\ Lower(p) = "div" => ~w.qPending
             /\ Sent(w, V) /\ Kicks(w) = Kicks(s) /\ (w.kick.on => c < w.kick.due)
<1> DEFINE i == QStall(VfStall(s, p), p)
           t == Transfer(i, FALSE)
           w == Ready(s, p)
           c == Issued(s, p)
<1>0. s \in VuState /\ c = i.cycles /\ w = Quotient(t)
  BY DEF Sent, Issued, Ready
<1>1. PICK n \in Nat : /\ Elapsed(i, s, n) /\ SameKick(i, s)
                       /\ Lower(p) = "div" /\ s.qPending => i.cycles >= s.qReady
  BY <1>0, IssueElapses
<1> HIDE DEF i, c, w
<1>2. Sent(i, V) /\ Kicks(i) = Kicks(s)
  BY <1>1, SentLater
<1>3. Later(t, i, FALSE) /\ Sent(t, V) /\ Kicks(t) = Kicks(i) /\ ~Active(t, FALSE)
  BY <1>2, TransferIs
<1> HIDE DEF t
<1>4. Elapsed(t, i, 0)
  BY <1>3 DEF Later
<1>5. Elapsed(t, s, n + 0)
  BY <1>0, <1>1, <1>4, ElapsedMore
<1>6. n + 0 = n
  OBVIOUS
<1>7. Elapsed(t, s, n)
  BY <1>5, <1>6, Zenon
<1>8. t \in VuState /\ t.cycles = c
  <2>1. t.cycles = i.cycles + 0 /\ t \in VuState /\ i \in VuState
    BY <1>1, <1>4 DEF Elapsed, Aged
  <2>2. i.cycles \in Nat
    BY <2>1, VuTypes
  <2> QED BY <1>0, <2>1, <2>2
<1>9. LET due == t.qPending /\ t.cycles >= t.qReady
      IN  /\ w \in VuState /\ w.cycles = t.cycles /\ Aged(w, t, 0)
          /\ w.mem = t.mem /\ SameFlow(w, t) /\ SameRegs(w, t) /\ SameOld(w, t) /\ SameKick(w, t)
          /\ w.q = (IF due THEN t.pendingQ ELSE t.q)
          /\ w.qPending <=> (t.qPending /\ ~due)
          /\ w.pendingQ = t.pendingQ /\ w.qReady = t.qReady
  BY <1>0, <1>8, QuotientIs
<1>10. /\ t.q = s.q /\ t.pendingQ = s.pendingQ /\ t.qReady = s.qReady /\ t.qPending = s.qPending
       /\ t.mem = s.mem /\ SameFlow(t, s) /\ SameRegs(t, s) /\ SameOld(t, s) /\ Aged(t, s, n)
  BY <1>7 DEF Elapsed, SameQ
<1>11. Aged(w, s, n)
  <2>1. w.mac = t.mac /\ w.cycles = t.cycles
    BY <1>9 DEF Aged
  <2>2. w.pipe = t.pipe
    <3>1. PICK x \in [1..4 -> Nat], y \in Nat : x = t.pipe /\ y = t.mac
      BY <1>8, VuTypes
    <3>2. Shifted(x, 0, y) = x
      BY ONLY ShiftedTwice, x \in [1..4 -> Nat], y \in Nat, 0 \in Nat
    <3> QED BY ONLY <1>9, <3>1, <3>2, Zenon DEF Aged
  <2> QED BY ONLY <1>10, <2>1, <2>2, Zenon DEF Aged
<1>12. /\ SameFlow(w, s) /\ SameRegs(w, s) /\ SameOld(w, s)
  BY ONLY <1>9, <1>10, Zenon DEF SameFlow, SameRegs, SameOld
<1>13. /\ w.q = (IF Due(s, c) THEN s.pendingQ ELSE s.q)
       /\ w.qPending <=> (s.qPending /\ ~Due(s, c))
       /\ w.pendingQ = s.pendingQ /\ w.qReady = s.qReady
  BY ONLY <1>8, <1>9, <1>10, Zenon DEF Due
<1>14. Lower(p) = "div" => ~w.qPending
  BY ONLY <1>0, <1>1, <1>13, Zenon DEF Due
<1>16. Sent(w, V) /\ Kicks(w) = Kicks(t)
  BY ONLY <1>3, <1>9, Zenon DEF Sent, Kicks, SameKick
<1>17. w.kick.on => c < w.kick.due
  <2> SUFFICES ASSUME w.kick.on PROVE c < w.kick.due
    OBVIOUS
  <2>1. w.kick = t.kick
    BY <1>9 DEF SameKick
  <2>2. t.kick.on /\ ~(t.cycles >= t.kick.due)
    BY <1>3, <2>1 DEF Active
  <2>3. t.kick.due \in Nat /\ t.cycles \in Nat
    BY <1>8, VuTypes DEF KickState
  <2> QED BY ONLY <1>8, <2>1, <2>2, <2>3
<1>18. w \in VuState /\ w.cycles = c /\ w.mem = s.mem
  BY <1>8, <1>9, <1>10
<1>19. Kicks(w) = Kicks(s)
  BY <1>2, <1>3, <1>16
<1> QED BY <1>11, <1>12, <1>13, <1>14, <1>16, <1>17, <1>18, <1>19, Zenon DEF w, c


(* From now on transfers read what memory holds now.                         *)
MemNow(s, V) == \A a \in Cells, t \in Nat : t >= s.cycles => V[a, t] = s.mem[a]

LEMMA KickIs ==
  ASSUME NEW s, NEW V, Sent(s, V), MemNow(s, V), NEW a \in Cells
  PROVE  LET r == Kick(s, a)
         IN  (\E n \in Nat : Elapsed(r, s, n)) /\ Sent(r, V) /\ Kicks(r) = Kicks(s) + 1
<1> DEFINE f == Transfer(s, TRUE)
           due == f.cycles + 2
           k == [Idle EXCEPT !.on = TRUE, !.addr = a, !.due = due]
           r == Kick(s, a)
<1>1. Later(f, s, TRUE) /\ Sent(f, V) /\ Kicks(f) = Kicks(s) /\ ~Active(f, TRUE)
  BY TransferIs
<1>2. r = [f EXCEPT !.kick = k]
  BY DEF Kick
<1> HIDE DEF f, r
<1>3. PICK n \in Nat : Elapsed(f, s, n)
  BY <1>1 DEF Later
<1>4. f \in VuState /\ f.cycles \in Nat /\ due \in Nat /\ s \in VuState /\ s.cycles \in Nat
      /\ f.mem = s.mem /\ f.cycles = s.cycles + n /\ ~f.kick.on
      /\ f.packets \in Seq(Seq(Item)) /\ f.rejected \in Nat
  BY <1>1, <1>3, VuTypes DEF Sent, Active, Elapsed, Aged
<1> HIDE DEF due
<1>5. /\ k \in KickState /\ k.on /\ k.tags = 0 /\ k.packet = <<>> /\ k.due = due
  <2>1. <<>> \in Seq(Item)
    OBVIOUS
  <2>2. PICK e : e = <<>>
    OBVIOUS
  <2>3. Idle = [on |-> FALSE, addr |-> 0, due |-> 0, tags |-> 0, left |-> 0, eop |-> FALSE,
                packet |-> e]
    BY ONLY <2>2, Zenon DEF Idle
  <2>4. k = [on |-> TRUE, addr |-> a, due |-> due, tags |-> 0, left |-> 0, eop |-> FALSE,
             packet |-> e]
    <3>1. PICK x : x = Idle
      OBVIOUS
    <3>2. k = [x EXCEPT !.on = TRUE, !.addr = a, !.due = due]
      BY ONLY <3>1, Zenon DEF k
    <3> HIDE DEF k
    <3>3. x = [on |-> FALSE, addr |-> 0, due |-> 0, tags |-> 0, left |-> 0, eop |-> FALSE,
               packet |-> e]
      BY ONLY <2>3, <3>1, Zenon
    <3> QED BY ONLY <3>2, <3>3
  <2> HIDE DEF k
  <2>5. 0 \in Nat /\ 0 \in Int /\ a \in Cells /\ e \in Seq(Item)
    BY <2>1, <2>2
  <2> QED BY ONLY <1>4, <2>2, <2>4, <2>5 DEF KickState
<1> HIDE DEF k
<1>6. r = WithKick(f, k, f.packets, f.rejected)
  BY <1>2, <1>4 DEF WithKick, VuState
<1>7. Elapsed(r, f, 0) /\ r.kick = k /\ r.packets = f.packets /\ r.rejected = f.rejected
  BY <1>4, <1>5, <1>6, KickPartIs
<1>8. Elapsed(r, s, n)
  <2>1. Elapsed(r, s, n + 0)
    BY <1>3, <1>4, <1>7, ElapsedMore
  <2>2. n + 0 = n
    OBVIOUS
  <2> QED BY <2>1, <2>2, Zenon
<1>9. r \in VuState /\ r.cycles = f.cycles /\ r.mem = s.mem
  <2>1. r \in VuState /\ r.cycles = f.cycles + 0 /\ r.mem = f.mem
    BY <1>7 DEF Elapsed, Aged
  <2> QED BY <1>4, <2>1
<1>10. Sent(r, V)
  <2>1. Items(<<>>, V, r.cycles)
    <3>1. \A j \in 1..Len(<<>>) : FALSE
      OBVIOUS
    <3> QED BY ONLY <3>1, Zenon DEF Items
  <2>2. Consecutive(<<>>)
    <3>1. \A j \in 2..Len(<<>>) : FALSE
      OBVIOUS
    <3> QED BY ONLY <3>1, Zenon DEF Consecutive
  <2>3. k.tags <= MaxTags
    BY <1>5, SizeAssumption
  <2>4. Open(k, V, r.cycles)
    BY ONLY <1>5, <2>1, <2>2, <2>3, Zenon DEF Open
  <2>5. Seen(k, s.mem, V)
    <3>1. \A t \in Nat : t >= k.due => t >= s.cycles
      BY <1>4, <1>5 DEF due
    <3> QED BY <3>1 DEF Seen, MemNow
  <2>6. \A i \in 1..Len(r.packets) : Whole(r.packets[i], V, r.cycles)
    BY ONLY <1>1, <1>7, <1>9, Zenon DEF Sent
  <2> QED BY ONLY <1>7, <1>9, <2>4, <2>5, <2>6, Zenon DEF Sent
<1>11. Kicks(r) = Kicks(s) + 1
  <2>1. EopCount(f.packets) \in Nat
    BY <1>4, Counted
  <2>2. (IF r.kick.on THEN 1 ELSE 0) = 1 /\ (IF f.kick.on THEN 1 ELSE 0) = 0
    BY ONLY <1>4, <1>5, <1>7, Zenon
  <2>3. PICK x \in Nat, y \in Nat : x = f.rejected /\ y = EopCount(f.packets)
    BY <1>4, <2>1
  <2>4. Kicks(r) = x + 1 + y /\ Kicks(f) = x + 0 + y
    BY ONLY <1>7, <2>2, <2>3, Zenon DEF Kicks
  <2> QED BY ONLY <1>1, <2>4, x \in Nat, y \in Nat
<1> QED BY <1>8, <1>10, <1>11 DEF r

(* What the lower half is once dropped ones are left out.                    *)
LowOf(p) ==
  IF p.up = "imm" \/ (UpperDest(p) # None /\ UpperDest(p) = LowerDest(p)) THEN "nop" ELSE p.low

StoredBy(p, entry, shape) == [ver |-> entry[p.r], n |-> shape.n, eop |-> shape.eop]

(* What the lower half of p makes of s.                                      *)
Lowered(r, s, p, entry, shape, taken, V) ==
  LET low == LowOf(p)
  IN /\ r \in VuState
     /\ r.pc = s.pc /\ r.endp = s.endp /\ r.running = s.running
     /\ r.branch = (IF low \in {"branch", "jump"} THEN taken ELSE s.branch)
     /\ \E n \in Nat : Aged(r, s, n) /\ (low # "kick" => n = 0)
     /\ low = "div" => /\ r.q = s.q /\ r.pendingQ = s.cycles /\ r.qReady = s.cycles + 7
                       /\ r.qPending
     /\ low # "div" => SameQ(r, s)
     /\ r.old = (IF low = "vi" THEN Backup(s, p.r) ELSE s.old)
     /\ low = "vi" => r.vi = [s.vi EXCEPT ![p.r] = s.cycles]
     /\ r.mem = (IF low = "store" THEN [s.mem EXCEPT ![p.a] = StoredBy(p, entry, shape)]
                 ELSE s.mem)
     /\ low # "kick" => SameKick(r, s)
     /\ low = "kick" => Sent(r, V) /\ Kicks(r) = Kicks(s) + 1

LEMMA AgedNone ==
  ASSUME NEW s \in VuState, NEW r, r.cycles = s.cycles, r.mac = s.mac, r.pipe = s.pipe
  PROVE  \E n \in Nat : Aged(r, s, n) /\ n = 0
<1>1. Aged(s, s, 0)
  BY ElapsedNone DEF Elapsed
<1>2. Aged(r, s, 0)
  BY <1>1 DEF Aged
<1> QED BY <1>2

LEMMA LowIs ==
  ASSUME NEW s, NEW V, Sent(s, V), MemNow(s, V), NEW p, PairOk(p), NEW entry \in [Vf -> Nat],
         NEW flags \in Nat, NEW shape \in [n : Nat, eop : BOOLEAN],
         NEW taken \in Pcs \cup {NoBranch}, LowOf(p) # "bad"
  PROVE  Lowered(LowerHalf(s, p, entry, flags, shape, taken), s, p, entry, shape, taken, V)
<1> DEFINE low == LowOf(p)
           r == LowerHalf(s, p, entry, flags, shape, taken)
<1>0. s \in VuState
  BY DEF Sent
<1>1. low \in {"nop", "div", "waitq", "vi", "xtop", "branch", "jump", "load", "store",
               "kick", "fmand"}
  <2>1. p.low \in {"nop", "div", "waitq", "vi", "xtop", "branch", "jump", "load", "store",
                   "kick", "fmand", "bad"}
    BY DEF PairOk, Pair
  <2> QED BY <2>1 DEF LowOf
<1>2. low # "nop" => low = p.low /\ r = Execute(s, p, entry, flags, shape, taken)
  BY DEF LowOf, LowerHalf
<1>3. low = "nop" => r = s
  BY DEF LowOf, LowerHalf, Execute
<1>4. p.a \in Cells
  BY DEF PairOk, Pair, Cells
<1>5. /\ low \in {"div", "load", "store"} => p.r \in Vf
      /\ low \in {"vi", "xtop", "fmand"} => p.r \in Vi
  BY <1>2 DEF PairOk, WellFormed
<1> HIDE DEF r, low
<1>6. SUFFICES /\ r \in VuState
               /\ r.pc = s.pc /\ r.endp = s.endp /\ r.running = s.running
               /\ r.branch = (IF low \in {"branch", "jump"} THEN taken ELSE s.branch)
               /\ \E n \in Nat : Aged(r, s, n) /\ (low # "kick" => n = 0)
               /\ low = "div" => /\ r.q = s.q /\ r.pendingQ = s.cycles /\ r.qReady = s.cycles + 7
                                 /\ r.qPending
               /\ low # "div" => SameQ(r, s)
               /\ r.old = (IF low = "vi" THEN Backup(s, p.r) ELSE s.old)
               /\ low = "vi" => r.vi = [s.vi EXCEPT ![p.r] = s.cycles]
               /\ r.mem = (IF low = "store" THEN [s.mem EXCEPT ![p.a] = StoredBy(p, entry, shape)]
                           ELSE s.mem)
               /\ low # "kick" => SameKick(r, s)
               /\ low = "kick" => Sent(r, V) /\ Kicks(r) = Kicks(s) + 1
  BY DEF r, low, Lowered
<1>7. CASE low \in {"nop", "waitq"}
  <2>1. r = s
    BY <1>2, <1>3, <1>7 DEF Execute
  <2>2. \E n \in Nat : Aged(r, s, n) /\ n = 0
    BY <1>0, <2>1, AgedNone
  <2> QED BY <1>0, <1>7, <2>1, <2>2 DEF SameQ, SameKick
<1>8. CASE low = "div"
  <2>1. r = [s EXCEPT !.pendingQ = s.cycles, !.qReady = s.cycles + 7, !.qPending = TRUE]
    BY <1>2, <1>8 DEF Execute
  <2>2. /\ r \in VuState /\ r.cycles = s.cycles /\ r.mac = s.mac /\ r.pipe = s.pipe
        /\ r.mem = s.mem /\ SameFlow(r, s) /\ SameRegs(r, s) /\ SameOld(r, s) /\ SameKick(r, s)
        /\ r.q = s.q /\ r.pendingQ = s.cycles /\ r.qReady = s.cycles + 7 /\ r.qPending
    BY <1>0, <2>1, DivIs
  <2>3. \E n \in Nat : Aged(r, s, n) /\ n = 0
    BY <1>0, <2>2, AgedNone
  <2> QED BY ONLY <1>8, <2>2, <2>3 DEF SameFlow, SameOld
<1>9. CASE low \in {"branch", "jump"}
  <2>1. r = [s EXCEPT !.branch = taken]
    BY <1>2, <1>9 DEF Execute
  <2>2. /\ r \in VuState /\ r.cycles = s.cycles /\ r.mac = s.mac /\ r.pipe = s.pipe
        /\ r.mem = s.mem /\ SameRegs(r, s) /\ SameOld(r, s) /\ SameQ(r, s) /\ SameKick(r, s)
        /\ r.branch = taken /\ r.pc = s.pc /\ r.endp = s.endp /\ r.running = s.running
    BY <1>0, <2>1, BranchIs
  <2>3. \E n \in Nat : Aged(r, s, n) /\ n = 0
    BY <1>0, <2>2, AgedNone
  <2> QED BY ONLY <1>9, <2>2, <2>3 DEF SameOld
<1>10. CASE low \in {"vi", "xtop", "fmand"}
  <2>1. r = Integer(s, p, flags)
    BY <1>2, <1>10 DEF Execute
  <2>2. /\ r \in VuState /\ r.cycles = s.cycles /\ r.mac = s.mac /\ r.pipe = s.pipe
        /\ r.mem = s.mem /\ r.vf = s.vf /\ r.ready = s.ready
        /\ SameFlow(r, s) /\ SameQ(r, s) /\ SameKick(r, s)
        /\ r.old = (IF p.low = "vi" THEN Backup(s, p.r) ELSE s.old)
        /\ p.low = "vi" => r.vi = [s.vi EXCEPT ![p.r] = s.cycles]
    <3>1. p.low \in {"vi", "xtop", "fmand"}
      BY <1>2, <1>10
    <3> QED BY <1>0, <2>1, <3>1, IntegerIs
  <2>3. \E n \in Nat : Aged(r, s, n) /\ n = 0
    BY <1>0, <2>2, AgedNone
  <2>4. low = p.low
    BY <1>2, <1>10
  <2> QED BY ONLY <1>10, <2>2, <2>3, <2>4 DEF SameFlow
<1>11. CASE low = "load"
  <2>1. r = [s EXCEPT !.vf[p.r] = s.mem[p.a].ver]
    BY <1>2, <1>11 DEF Execute, Memory
  <2>2. /\ r \in VuState /\ r.cycles = s.cycles /\ r.mac = s.mac /\ r.pipe = s.pipe
        /\ r.mem = s.mem /\ r.vi = s.vi /\ r.ready = s.ready
        /\ SameFlow(r, s) /\ SameOld(r, s) /\ SameQ(r, s) /\ SameKick(r, s)
    BY <1>0, <1>4, <1>5, <1>11, <2>1, LoadIs
  <2>3. \E n \in Nat : Aged(r, s, n) /\ n = 0
    BY <1>0, <2>2, AgedNone
  <2> QED BY ONLY <1>11, <2>2, <2>3 DEF SameFlow, SameOld
<1>12. CASE low = "store"
  <2> DEFINE v == StoredBy(p, entry, shape)
  <2>1. r = [s EXCEPT !.mem[p.a] = v]
    BY <1>2, <1>12 DEF Execute, Memory, StoredBy
  <2>2. v \in Qword
    BY <1>5, <1>12 DEF StoredBy, Qword
  <2> HIDE DEF v
  <2>3. /\ r \in VuState /\ r.cycles = s.cycles /\ r.mac = s.mac /\ r.pipe = s.pipe
        /\ r.mem = [s.mem EXCEPT ![p.a] = v]
        /\ SameFlow(r, s) /\ SameRegs(r, s) /\ SameOld(r, s) /\ SameQ(r, s) /\ SameKick(r, s)
    BY <1>0, <1>4, <2>1, <2>2, StoreIs
  <2>4. \E n \in Nat : Aged(r, s, n) /\ n = 0
    BY <1>0, <2>3, AgedNone
  <2> QED BY ONLY <1>12, <2>3, <2>4 DEF SameFlow, SameOld, v
<1>13. CASE low = "kick"
  <2>1. r = Kick(s, p.a)
    BY <1>2, <1>13 DEF Execute, Memory
  <2>2. (\E n \in Nat : Elapsed(r, s, n)) /\ Sent(r, V) /\ Kicks(r) = Kicks(s) + 1
    BY <1>4, <2>1, KickIs
  <2>3. PICK n \in Nat : Elapsed(r, s, n)
    BY <2>2
  <2> QED BY ONLY <1>13, <2>2, <2>3, n \in Nat DEF Elapsed, SameFlow, SameOld
<1> QED BY <1>1, <1>7, <1>8, <1>9, <1>10, <1>11, <1>12, <1>13


(* A pair retires in one cycle.                                              *)
Retired(s, p, branch) ==
  LET dests == {UpperDest(p), LowerDest(p)} \ {None}
  IN  Spend([s EXCEPT !.ready = [r \in Vf |-> IF r \in dests THEN s.cycles + 4 ELSE @[r]],
                      !.pc = IF branch = NoBranch THEN (@ + 1) % PcSize ELSE branch], 1)

NextPc(pc, branch) == IF branch = NoBranch THEN (pc + 1) % PcSize ELSE branch

LEMMA RetiredIs ==
  ASSUME NEW s \in VuState, NEW p, NEW branch \in Pcs \cup {NoBranch}
  PROVE  LET r == Retired(s, p, branch)
         IN  /\ r \in VuState /\ Aged(r, s, 1) /\ r.mem = s.mem
             /\ r.pc = NextPc(s.pc, branch)
             /\ r.branch = s.branch /\ r.endp = s.endp /\ r.running = s.running
             /\ r.vi = s.vi /\ SameOld(r, s) /\ SameQ(r, s) /\ SameKick(r, s)
<1> DEFINE dests == {UpperDest(p), LowerDest(p)} \ {None}
           ready == [r \in Vf |-> IF r \in dests THEN s.cycles + 4 ELSE s.ready[r]]
           pc == NextPc(s.pc, branch)
           x == [s EXCEPT !.ready = ready, !.pc = pc]
           r == Retired(s, p, branch)
<1>0. r = Spend(x, 1)
  BY DEF Retired, NextPc
<1>1. ready \in [Vf -> Nat]
  <2>1. s.cycles + 4 \in Nat /\ s.ready \in [Vf -> Nat]
    BY VuTypes
  <2> HIDE DEF dests
  <2> QED BY <2>1
<1>2. pc \in Pcs
  <2>1. s.pc \in Pcs /\ PcSize \in Nat \ {0}
    BY VuTypes, SizeAssumption
  <2> QED BY <2>1 DEF Pcs, NextPc
<1> HIDE DEF ready, pc, r
<1>3. /\ x \in VuState /\ x.cycles = s.cycles /\ x.mac = s.mac /\ x.pipe = s.pipe
      /\ x.mem = s.mem /\ x.pc = pc /\ x.branch = s.branch /\ x.endp = s.endp
      /\ x.running = s.running /\ x.vi = s.vi
  BY <1>1, <1>2 DEF VuState
<1>4. SameOld(x, s) /\ SameQ(x, s) /\ SameKick(x, s)
  BY DEF VuState, SameOld, SameQ, SameKick
<1> HIDE DEF x
<1>5. Elapsed(r, x, 1) /\ SameKick(r, x)
  <2>1. 1 \in Nat
    OBVIOUS
  <2> QED BY <1>0, <1>3, <2>1, SpendElapses
<1>6. Aged(r, s, 1)
  BY ONLY <1>3, <1>5, Zenon DEF Elapsed, Aged
<1> QED BY ONLY <1>3, <1>4, <1>5, <1>6, Zenon
     DEF Elapsed, SameFlow, SameRegs, SameOld, SameQ, SameKick, r, pc

(* The end waits for the division and for all of the transfer.               *)
LEMMA FinishIs ==
  ASSUME NEW s, NEW V, Sent(s, V)
  PROVE  LET r == Finish(s)
         IN  /\ r \in VuState /\ (\E n \in Nat : Aged(r, s, n)) /\ r.mem = s.mem
             /\ r.pc = s.pc /\ r.branch = s.branch /\ r.endp = s.endp /\ ~r.running
             /\ r.q = (IF s.qPending THEN s.pendingQ ELSE s.q) /\ ~r.qPending
             /\ s.qPending => r.cycles >= s.qReady
             /\ Sent(r, V) /\ ~r.kick.on /\ Kicks(r) = Kicks(s)
<1> DEFINE d == IF s.qPending THEN WaitUntil(s, s.qReady) ELSE s
           q == IF d.qPending THEN d.pendingQ ELSE d.q
           old == [d.old EXCEPT !.ready = 0]
           f == [d EXCEPT !.q = q, !.qPending = FALSE, !.old = old]
           t == Transfer(f, TRUE)
           r == Finish(s)
<1>0. r = [t EXCEPT !.running = FALSE]
  BY DEF Finish
<1>1. s \in VuState /\ s.qReady \in Nat
  BY VuTypes DEF Sent
<1>2. PICK n : Elapsed(d, s, n) /\ SameKick(d, s) /\ (s.qPending => d.cycles >= s.qReady)
  <2>1. CASE s.qPending
    BY <1>1, <2>1, WaitElapses
  <2>2. CASE ~s.qPending
    BY <1>1, <2>2, ElapsedNone DEF SameKick
  <2> QED BY <2>1, <2>2
<1> HIDE DEF r, d
<1>3. Sent(d, V) /\ Kicks(d) = Kicks(s)
  BY <1>2, SentLater
<1>4. d \in VuState /\ SameQ(d, s) /\ SameFlow(d, s) /\ d.mem = s.mem /\ n \in Nat /\ Aged(d, s, n)
  BY <1>2 DEF Elapsed
<1>5. q \in Nat /\ old \in OldState
  <2>1. d.q \in Nat /\ d.pendingQ \in Nat /\ d.old \in OldState
    BY <1>4, VuTypes
  <2> QED BY <2>1 DEF OldState
<1> HIDE DEF q, old
<1>6. /\ f \in VuState /\ f.cycles = d.cycles /\ f.mac = d.mac /\ f.pipe = d.pipe /\ f.mem = d.mem
      /\ f.q = q /\ ~f.qPending
      /\ SameFlow(f, d) /\ SameKick(f, d)
  BY <1>4, <1>5 DEF VuState, SameFlow, SameKick
<1> HIDE DEF f
<1>7. Sent(f, V) /\ Kicks(f) = Kicks(d)
  BY ONLY <1>3, <1>6, Zenon DEF Sent, Kicks, SameKick
<1>8. Later(t, f, TRUE) /\ Sent(t, V) /\ Kicks(t) = Kicks(f) /\ ~Active(t, TRUE)
  BY <1>7, TransferIs
<1> HIDE DEF t
<1>9. PICK m \in Nat : Elapsed(t, f, m)
  BY <1>8 DEF Later
<1>10. t \in VuState /\ SameQ(t, f) /\ SameFlow(t, f) /\ t.mem = f.mem /\ Aged(t, f, m)
  BY <1>9 DEF Elapsed
<1>11. /\ r \in VuState /\ r.cycles = t.cycles /\ r.mac = t.mac /\ r.pipe = t.pipe /\ r.mem = t.mem
       /\ r.pc = t.pc /\ r.branch = t.branch /\ r.endp = t.endp /\ ~r.running
       /\ SameQ(r, t) /\ SameKick(r, t)
  BY <1>0, <1>10 DEF VuState, SameQ, SameKick
<1>12. Sent(r, V) /\ Kicks(r) = Kicks(t)
  BY ONLY <1>8, <1>11, Zenon DEF Sent, Kicks, SameKick
<1>13. Aged(r, s, n + m) /\ n + m \in Nat
  <2>1. s.cycles \in Nat /\ s.mac \in Nat /\ s.pipe \in [1..4 -> Nat]
    BY <1>1, VuTypes
  <2>2. PICK p \in [1..4 -> Nat], k \in Nat : p = s.pipe /\ k = s.mac
    BY <2>1
  <2>3. Shifted(Shifted(p, n, k), m, k) = Shifted(p, n + m, k)
    BY ONLY <1>4, ShiftedTwice, p \in [1..4 -> Nat], k \in Nat, m \in Nat
  <2>4. d.cycles = s.cycles + n /\ t.cycles = d.cycles + m
    BY ONLY <1>4, <1>6, <1>10, Zenon DEF Aged
  <2>5. t.cycles = s.cycles + (n + m) /\ n + m \in Nat
    BY ONLY <1>4, <2>1, <2>4, m \in Nat
  <2>6. t.pipe = Shifted(p, n + m, k) /\ t.mac = k
    BY ONLY <1>4, <1>6, <1>10, <2>2, <2>3, Zenon DEF Aged
  <2> QED BY ONLY <1>11, <2>2, <2>5, <2>6, Zenon DEF Aged
<1>14. s.qPending => r.cycles >= s.qReady
  <2>1. r.cycles = d.cycles + m /\ d.cycles \in Nat
    BY <1>4, <1>6, <1>10, <1>11, VuTypes DEF Aged
  <2> QED BY ONLY <1>1, <1>2, <2>1, m \in Nat
<1>15. r.q = (IF s.qPending THEN s.pendingQ ELSE s.q) /\ ~r.qPending
  BY ONLY <1>4, <1>6, <1>10, <1>11, Zenon DEF SameQ, q
<1>16. ~r.kick.on
  BY ONLY <1>8, <1>11, Zenon DEF Active, SameKick
<1>17. r.mem = s.mem /\ r.pc = s.pc /\ r.branch = s.branch /\ r.endp = s.endp /\ ~r.running
  BY ONLY <1>4, <1>6, <1>10, <1>11, Zenon DEF SameFlow
<1>18. Kicks(r) = Kicks(s)
  BY ONLY <1>3, <1>7, <1>8, <1>12, Zenon
<1>19. \E k \in Nat : Aged(r, s, k)
  BY <1>13, Zenon
<1> QED BY ONLY <1>11, <1>12, <1>14, <1>15, <1>16, <1>17, <1>18, <1>19, Zenon DEF r


-----------------------------------------------------------------------------
(* The invariant                                                             *)

StoreRecord == [cycle : Nat, addr : Cells, val : Qword]
ViRecord == [cycle : Nat, reg : Vi, before : Nat]
PairRecord == [pc : Pcs, taken : Pcs \cup {NoBranch}, e : BOOLEAN]
PastState ==
  [macs : SUBSET Nat, divs : SUBSET Nat, vis : SUBSET ViRecord, stores : Seq(StoreRecord),
   pairs : Seq(PairRecord), mem : [Cells -> Qword], ended : BOOLEAN, start : Nat, mac : Nat,
   runs : Nat, kicks : Nat]

TypeInv == vu \in VuState /\ past \in PastState /\ inRun \in BOOLEAN /\ menu \in Menus

(* Q holds the last division that is over; at most one is in progress, and   *)
(* it began when the one before it was over.                                 *)
Division(q, on, from, until, c, D) ==
  /\ D \in SUBSET Nat /\ q \in D /\ \A d \in D : d <= c
  /\ on => /\ from \in D /\ until = from + 7
           /\ \A d \in D : d = from \/ d <= q
           /\ q = 0 \/ q + 7 <= from
  /\ ~on => (\A d \in D : d <= q) /\ (q = 0 \/ q + 7 <= c)
QOk(s, D) == Division(s.q, s.qPending, s.pendingQ, s.qReady, s.cycles, D)

(* The entries of the flag pipeline are the last four cycles'.               *)
IsLatest(M, t, x) == x \in M /\ x <= t /\ \A m \in M : m <= t => m <= x
Flags(pipe, mac, c, M, start, m0) ==
  /\ M \in SUBSET Nat /\ mac \in M /\ (\A m \in M : m <= mac) /\ mac <= c
  /\ start \in Nat /\ start <= c
  /\ \A i \in 1..4 : IF c - 5 + i < start THEN pipe[i] = m0 ELSE IsLatest(M, c - 5 + i, pipe[i])
FlagsOk(s, M, start, m0) == Flags(s.pipe, s.mac, s.cycles, M, start, m0)

(* A value is kept for branches exactly in the cycle after a write, and it   *)
(* is the one from before the unbroken run of writes that ends there.        *)
WrittenAt(vis, c, r) == \E x \in vis : x.reg = r /\ x.cycle = c
FirstOf(w, vis, c) ==
  /\ w \in vis /\ ~WrittenAt(vis, w.cycle - 1, w.reg)
  /\ \A d \in w.cycle..(c - 1) : WrittenAt(vis, d, w.reg)
Kept(old, c, vis) ==
  /\ vis \in SUBSET ViRecord
  /\ \A x \in vis : x.cycle < c
  /\ \A x, y \in vis : x.cycle = y.cycle => x = y
  /\ old.ready <= c + 1
  /\ old.ready = c + 1 => \E w \in vis : w.reg = old.reg /\ w.before = old.val /\ FirstOf(w, vis, c)
  /\ \A x \in vis : x.cycle = c - 1 => old.ready = c + 1 /\ old.reg = x.reg
OldOk(s, vis) == Kept(s.old, s.cycles, vis)

(* The pair before decides, and an ended program has nothing under way.      *)
FlowOk(s, pairs, ended, in) ==
  LET n == Len(pairs)
  IN  /\ n <= 2
      /\ in => /\ s.running /\ ~ended
               /\ n = 0 => s.branch = NoBranch /\ ~s.endp
               /\ n > 0 => s.branch = pairs[n].taken /\ s.endp = pairs[n].e
      /\ n > 0 => /\ s.pc = NextPc(pairs[n].pc, IF n >= 2 THEN pairs[n - 1].taken ELSE NoBranch)
                  /\ ended = (n >= 2 /\ pairs[n - 1].e)
      /\ ended => ~s.kick.on /\ ~s.qPending

(* Packets against what the program stored.                                  *)
StoresTo(stores, a, t) == {i \in DOMAIN stores : stores[i].addr = a /\ stores[i].cycle < t}
LastOf(S, stores, mem, a) == IF S = {} THEN mem[a] ELSE stores[Max(S)].val
ReadAt(stores, mem, a, t) == LastOf(StoresTo(stores, a, t), stores, mem, a)
StoredIn(stores, mem) == [x \in Cells \X Nat |-> ReadAt(stores, mem, x[1], x[2])]
StoredOf(h) == StoredIn(h.stores, h.mem)
SentPast(s, h) ==
  /\ Sent(s, StoredOf(h)) /\ MemNow(s, StoredOf(h))
  /\ \A i \in 1..Len(h.stores) : h.stores[i].cycle < s.cycles
  /\ h.kicks = Kicks(s)

SentInv == SentPast(vu, past)
QInv == QOk(vu, past.divs)
FlagsInv == FlagsOk(vu, past.macs, past.start, past.mac)
OldInv == inRun => OldOk(vu, past.vis)
FlowInv == FlowOk(vu, past.pairs, past.ended, inRun)
Inv == TypeInv /\ SentInv /\ QInv /\ FlagsInv /\ OldInv /\ FlowInv


-----------------------------------------------------------------------------
(* The stages of a pair                                                      *)

Uppered(u, w, p) ==
  /\ u \in VuState /\ u.cycles = w.cycles /\ u.pipe = w.pipe
  /\ u.mac = (IF p.up = "add" THEN w.cycles ELSE w.mac)
  /\ u.mem = w.mem /\ u.vi = w.vi /\ u.branch = NoBranch /\ u.endp = p.e /\ u.pc = w.pc
  /\ u.running = w.running /\ SameOld(u, w) /\ SameQ(u, w) /\ SameKick(u, w)

(* Both halves begin from a pair that is ready, with no branch decided.      *)
Begun(w, p) == [w EXCEPT !.branch = NoBranch, !.endp = p.e]

LEMMA BegunIs ==
  ASSUME NEW w \in VuState, NEW p, PairOk(p)
  PROVE  Uppered(Upper(Begun(w, p), p), w, p)
<1> DEFINE x == Begun(w, p)
           u == Upper(x, p)
<1>1. p.e \in BOOLEAN /\ NoBranch \in Pcs \cup {NoBranch}
  BY DEF PairOk, Pair
<1>2. PICK b, e : b = NoBranch /\ e = p.e
  OBVIOUS
<1>3. x = [w EXCEPT !.branch = b, !.endp = e]
  BY <1>2 DEF Begun
<1>4. b \in Pcs \cup {NoBranch} /\ e \in BOOLEAN
  BY <1>1, <1>2
<1> HIDE DEF x
<1>5. /\ x \in VuState /\ x.cycles = w.cycles /\ x.pipe = w.pipe /\ x.mac = w.mac
      /\ x.mem = w.mem /\ x.vi = w.vi /\ x.branch = b /\ x.endp = e /\ x.pc = w.pc
      /\ x.running = w.running /\ SameOld(x, w) /\ SameQ(x, w) /\ SameKick(x, w)
  BY ONLY <1>3, <1>4, w \in VuState DEF VuState, SameOld, SameQ, SameKick
<1> HIDE DEF u
<1>6. /\ u \in VuState /\ u.cycles = x.cycles /\ u.pipe = x.pipe
      /\ u.mac = (IF p.up = "add" THEN x.cycles ELSE x.mac)
      /\ u.mem = x.mem /\ u.ready = x.ready /\ u.vi = x.vi
      /\ SameFlow(u, x) /\ SameOld(u, x) /\ SameQ(u, x) /\ SameKick(u, x)
  BY <1>5, UpperIs DEF u
<1>7. Uppered(u, w, p)
  BY ONLY <1>2, <1>5, <1>6, Zenon DEF Uppered, SameFlow, SameOld, SameQ, SameKick
<1> QED BY <1>7 DEF u, x

WasReady(w, s, p, c, V) ==
  /\ w \in VuState /\ w.cycles = c /\ w.mem = s.mem
  /\ \E n \in Nat : Aged(w, s, n)
  /\ SameFlow(w, s) /\ SameRegs(w, s) /\ SameOld(w, s)
  /\ w.q = (IF Due(s, c) THEN s.pendingQ ELSE s.q)
  /\ w.qPending <=> (s.qPending /\ ~Due(s, c))
  /\ w.pendingQ = s.pendingQ /\ w.qReady = s.qReady
  /\ Lower(p) = "div" => ~w.qPending
  /\ Sent(w, V) /\ Kicks(w) = Kicks(s) /\ (w.kick.on => c < w.kick.due)

WasRetired(t, l, branch) ==
  /\ t \in VuState /\ Aged(t, l, 1) /\ t.mem = l.mem
  /\ t.pc = NextPc(l.pc, branch)
  /\ t.branch = l.branch /\ t.endp = l.endp /\ t.running = l.running
  /\ t.vi = l.vi /\ SameOld(t, l) /\ SameQ(t, l) /\ SameKick(t, l)

(* w is ready, u has done the upper half, l the lower, t is a cycle later.   *)
Stages(s, p, shape, taken, V, w, u, l, t) ==
  /\ WasReady(w, s, p, Issued(s, p), V)
  /\ Uppered(u, w, p)
  /\ Lowered(l, u, p, w.vf, shape, taken, V)
  /\ WasRetired(t, l, s.branch)

Shape == [n : Nat, eop : BOOLEAN]

(* Waiting, what is now in memory stays what transfers read.                 *)
LEMMA NowLater ==
  ASSUME NEW s \in VuState, NEW r \in VuState, NEW V, MemNow(s, V), r.mem = s.mem,
         s.cycles <= r.cycles
  PROVE  MemNow(r, V)
<1>1. s.cycles \in Nat /\ r.cycles \in Nat
  BY VuTypes
<1>2. \A t \in Nat : t >= r.cycles => t >= s.cycles
  BY <1>1
<1> QED BY <1>2 DEF MemNow

LEMMA AgedLater ==
  ASSUME NEW s \in VuState, NEW r, NEW n \in Nat, Aged(r, s, n)
  PROVE  s.cycles <= r.cycles /\ s.cycles \in Nat /\ r.cycles \in Nat
BY VuTypes DEF Aged

LEMMA StepStages ==
  ASSUME NEW s, NEW V, Sent(s, V), MemNow(s, V), NEW p, PairOk(p), LowOf(p) # "bad",
         NEW shape \in Shape, NEW taken \in Pcs \cup {NoBranch}
  PROVE  \E w, u, l, t : /\ Stages(s, p, shape, taken, V, w, u, l, t)
                         /\ Step(s, p, shape, taken) = IF s.endp THEN Finish(t) ELSE t
<1>0. s \in VuState /\ s.branch \in Pcs \cup {NoBranch}
  BY VuTypes DEF Sent
<1>1. PICK w : w = Ready(s, p)
  OBVIOUS
<1>2. PICK u : u = Upper(Begun(w, p), p)
  OBVIOUS
<1>3. PICK l : l = LowerHalf(u, p, w.vf, Head(w.pipe), shape, taken)
  OBVIOUS
<1>4. PICK t : t = Retired(l, p, s.branch)
  OBVIOUS
<1>5. Step(s, p, shape, taken) = IF s.endp THEN Finish(t) ELSE t
  BY ONLY <1>1, <1>2, <1>3, <1>4, Zenon DEF Step, Ready, Begun, Retire, Retired, EndsAfter
<1>6. WasReady(w, s, p, Issued(s, p), V)
  BY <1>1, ReadyIs, Zenon DEF WasReady
<1>7. Uppered(u, w, p)
  <2>1. w \in VuState
    BY <1>6 DEF WasReady
  <2> QED BY <1>2, <2>1, BegunIs
<1>8. PICK n \in Nat : Aged(w, s, n)
  BY <1>6 DEF WasReady
<1>9. /\ u \in VuState /\ u.mem = s.mem /\ u.cycles = w.cycles /\ w \in VuState
      /\ w.mem = s.mem /\ Sent(w, V) /\ SameKick(u, w)
  BY ONLY <1>6, <1>7, Zenon DEF WasReady, Uppered
<1>10. Sent(u, V)
  <2>1. w.cycles <= u.cycles
    BY <1>9, VuTypes
  <2> QED BY <1>9, <2>1, SentKept
<1>11. MemNow(u, V)
  <2>1. s.cycles <= u.cycles
    BY <1>0, <1>8, <1>9, AgedLater
  <2> QED BY <1>0, <1>9, <2>1, NowLater
<1>12. w.vf \in [Vf -> Nat] /\ Head(w.pipe) \in Nat
  <2>1. w.vf \in [Vf -> Nat] /\ w.pipe \in [1..4 -> Nat]
    BY <1>9, VuTypes
  <2>2. PICK x \in [1..4 -> Nat] : x = w.pipe
    BY <2>1
  <2>3. Head(x) = x[1] /\ x[1] \in Nat
    <3>1. 1 \in 1..4
      OBVIOUS
    <3> QED BY ONLY <3>1, x \in [1..4 -> Nat]
  <2> QED BY <2>1, <2>2, <2>3
<1>13. Lowered(l, u, p, w.vf, shape, taken, V)
  BY <1>3, <1>10, <1>11, <1>12, LowIs DEF Shape
<1>14. WasRetired(t, l, s.branch)
  <2>1. l \in VuState
    BY <1>13 DEF Lowered
  <2> QED BY <1>0, <1>4, <2>1, RetiredIs DEF WasRetired
<1>15. Stages(s, p, shape, taken, V, w, u, l, t)
  BY <1>6, <1>7, <1>13, <1>14 DEF Stages
<1> QED BY <1>5, <1>15, Zenon


(* V2 is V with what memory holds at c and after.                            *)
Extends(V2, V, c, mem) ==
  \A a \in Cells, t \in Nat : (t <= c => V2[a, t] = V[a, t]) /\ (t > c => V2[a, t] = mem[a])

LEMMA SentStored ==
  ASSUME NEW w, NEW l \in VuState, NEW V, NEW V2, NEW c, Sent(w, V), w.cycles = c,
         w.kick.on => c < w.kick.due, SameKick(l, w), l.cycles = c,
         Extends(V2, V, c, l.mem)
  PROVE  Sent(l, V2)
<1>1. /\ w \in VuState /\ c \in Nat /\ l.kick = w.kick /\ l.packets = w.packets
      /\ w.kick \in KickState /\ w.packets \in Seq(Seq(Item))
  BY VuTypes DEF Sent, SameKick
<1>2. \A q \in Seq(Item) : Items(q, V, c) => Items(q, V2, c)
  <2> SUFFICES ASSUME NEW q \in Seq(Item), Items(q, V, c), NEW j \in 1..Len(q)
               PROVE  q[j].val = V2[q[j].addr, q[j].due] /\ q[j].due <= c
    BY DEF Items
  <2>1. q[j].val = V[q[j].addr, q[j].due] /\ q[j].due <= c
    BY DEF Items
  <2>2. q[j].due \in Nat /\ q[j].addr \in Cells
    <3>1. q[j] \in Item
      OBVIOUS
    <3> QED BY ONLY <3>1 DEF Item
  <2>3. PICK a \in Cells, d \in Nat : a = q[j].addr /\ d = q[j].due
    BY ONLY <2>2
  <2>4. d <= c
    BY ONLY <2>1, <2>3, Zenon
  <2>5. V2[a, d] = V[a, d]
    BY ONLY <2>4, Extends(V2, V, c, l.mem), a \in Cells, d \in Nat, Zenon DEF Extends
  <2> QED BY ONLY <2>1, <2>3, <2>5, Zenon
<1>3. \A i \in 1..Len(w.packets) : Whole(w.packets[i], V2, c)
  <2> SUFFICES ASSUME NEW i \in 1..Len(w.packets) PROVE Whole(w.packets[i], V2, c)
    OBVIOUS
  <2>1. w.packets[i] \in Seq(Item)
    BY <1>1
  <2>2. Whole(w.packets[i], V, c)
    BY DEF Sent
  <2> QED BY ONLY <1>2, <2>1, <2>2, Zenon DEF Whole
<1>4. w.kick.on => Open(w.kick, V2, c) /\ Seen(w.kick, l.mem, V2)
  <2> SUFFICES ASSUME w.kick.on PROVE Open(w.kick, V2, c) /\ Seen(w.kick, l.mem, V2)
    OBVIOUS
  <2>1. Open(w.kick, V, c)
    BY DEF Sent
  <2>2. w.kick.packet \in Seq(Item) /\ w.kick.due \in Nat
    BY <1>1 DEF KickState
  <2>3. Open(w.kick, V2, c)
    BY ONLY <1>2, <2>1, <2>2, Zenon DEF Open
  <2>4. \A x \in Nat : x >= w.kick.due => x > c
    BY <1>1, <2>2
  <2>5. Seen(w.kick, l.mem, V2)
    BY ONLY <2>4, Extends(V2, V, c, l.mem), Zenon DEF Seen, Extends
  <2> QED BY <2>3, <2>5
<1> QED BY ONLY <1>1, <1>3, <1>4, l \in VuState, l.cycles = c, Zenon DEF Sent

(* The transfer at the end of a pair that did not end the program.           *)
LEMMA SentStep ==
  ASSUME NEW s \in VuState, NEW V, MemNow(s, V), NEW p, PairOk(p), NEW shape, NEW taken,
         NEW w, NEW u, NEW l, NEW t, Stages(s, p, shape, taken, V, w, u, l, t), NEW V2,
         LowOf(p) # "store" => V2 = V,
         LowOf(p) = "store" => Extends(V2, V, Issued(s, p), l.mem)
  PROVE  /\ Sent(t, V2) /\ MemNow(t, V2)
         /\ Kicks(t) = Kicks(s) + (IF LowOf(p) = "kick" THEN 1 ELSE 0)
         /\ Issued(s, p) \in Nat /\ s.cycles <= Issued(s, p) /\ Issued(s, p) < t.cycles
<1>1. PICK c : c = Issued(s, p)
  OBVIOUS
<1>2. PICK low : low = LowOf(p)
  OBVIOUS
<1>3. PICK n \in Nat : Aged(w, s, n)
  BY DEF Stages, WasReady
<1>4. PICK m \in Nat : Aged(l, u, m) /\ (low # "kick" => m = 0)
  BY <1>2 DEF Stages, Lowered
<1>5. /\ w \in VuState /\ w.cycles = c /\ w.mem = s.mem /\ Sent(w, V) /\ Kicks(w) = Kicks(s)
      /\ (w.kick.on => c < w.kick.due)
  BY ONLY <1>1, Stages(s, p, shape, taken, V, w, u, l, t), Zenon DEF Stages, WasReady
<1>6. u \in VuState /\ u.cycles = w.cycles /\ u.mem = w.mem /\ SameKick(u, w)
  BY DEF Stages, Uppered
<1>7. /\ l \in VuState
      /\ low # "store" => l.mem = u.mem
      /\ low # "kick" => SameKick(l, u)
      /\ low = "kick" => Sent(l, V) /\ Kicks(l) = Kicks(u) + 1
  BY ONLY <1>2, Stages(s, p, shape, taken, V, w, u, l, t), Zenon DEF Stages, Lowered
<1>8. t \in VuState /\ Aged(t, l, 1) /\ t.mem = l.mem /\ SameKick(t, l)
  BY DEF Stages, WasRetired
<1>9. /\ c \in Nat /\ s.cycles \in Nat /\ s.cycles <= c /\ l.cycles = c + m
      /\ t.cycles = l.cycles + 1
  <2>1. w.cycles = s.cycles + n /\ l.cycles = u.cycles + m /\ t.cycles = l.cycles + 1
    BY <1>3, <1>4, <1>8 DEF Aged
  <2>2. s.cycles \in Nat
    BY VuTypes
  <2>3. w.cycles = c /\ u.cycles = c
    BY <1>5, <1>6
  <2>4. c = s.cycles + n /\ l.cycles = c + m
    BY ONLY <2>1, <2>3, Zenon
  <2> QED BY ONLY <2>1, <2>2, <2>4, n \in Nat
<1>10. PICK d : d = l.cycles /\ d \in Nat /\ c <= d /\ t.cycles = d + 1 /\ (low # "kick" => d = c)
  <2>1. c + m \in Nat /\ c <= c + m /\ (m = 0 => c + m = c)
    BY <1>9
  <2> QED BY <1>4, <1>9, <2>1
<1>11. Kicks(u) = Kicks(w)
  BY ONLY <1>6, Zenon DEF Kicks, SameKick
<1>12. Sent(l, V2) /\ Kicks(l) = Kicks(s) + (IF low = "kick" THEN 1 ELSE 0)
  <2>0. Kicks(s) \in Nat
    <3>1. /\ EopCount(s.packets) \in Nat /\ s.rejected \in Nat
      BY VuTypes, Counted
    <3> QED BY <3>1 DEF Kicks
  <2>1. CASE low = "store"
    <3>1. SameKick(l, w)
      BY ONLY <1>6, <1>7, <2>1, Zenon DEF SameKick
    <3>2. l.cycles = c
      BY <1>10, <2>1
    <3>3. Extends(V2, V, c, l.mem)
      BY <1>1, <1>2, <2>1
    <3>4. Sent(l, V2)
      BY <1>5, <1>7, <3>1, <3>2, <3>3, SentStored
    <3>5. Kicks(l) = Kicks(w)
      BY ONLY <3>1, Zenon DEF Kicks, SameKick
    <3> QED BY <1>5, <2>0, <2>1, <3>4, <3>5
  <2>2. CASE low = "kick"
    <3>1. V2 = V
      BY <1>2, <2>2
    <3> QED BY <1>5, <1>7, <1>11, <2>2, <3>1
  <2>3. CASE low \notin {"store", "kick"}
    <3>1. SameKick(l, w) /\ V2 = V
      BY ONLY <1>2, <1>6, <1>7, <2>3, LowOf(p) # "store" => V2 = V DEF SameKick
    <3>2. l.mem = w.mem /\ w.cycles <= l.cycles
      BY <1>5, <1>6, <1>7, <1>10, <2>3
    <3>3. Sent(l, V) /\ Kicks(l) = Kicks(w)
      BY <1>5, <1>7, <3>1, <3>2, SentKept
    <3> QED BY <1>5, <2>0, <2>3, <3>1, <3>3
  <2> QED BY <2>1, <2>2, <2>3
<1>13. l.cycles <= t.cycles
  BY <1>10
<1>14. Sent(t, V2) /\ Kicks(t) = Kicks(l)
  BY <1>8, <1>12, <1>13, SentKept
<1>15. MemNow(t, V2)
  <2>1. CASE low = "store"
    <3>1. Extends(V2, V, c, t.mem)
      BY <1>1, <1>2, <1>8, <2>1
    <3>2. \A x \in Nat : x >= t.cycles => x > c
      BY <1>9, <1>10
    <3> QED BY ONLY <3>1, <3>2, Zenon DEF Extends, MemNow
  <2>2. CASE low # "store"
    <3>1. t.mem = s.mem /\ V2 = V
      BY <1>2, <1>5, <1>6, <1>7, <1>8, <2>2
    <3>2. s.cycles <= t.cycles
      BY <1>9, <1>10
    <3> QED BY <1>8, <3>1, <3>2, NowLater
  <2> QED BY <2>1, <2>2
<1> QED BY <1>1, <1>2, <1>9, <1>10, <1>12, <1>14, <1>15


-----------------------------------------------------------------------------
(* Divisions                                                                 *)

LEMMA DivisionLater ==
  ASSUME NEW q, NEW on, NEW from, NEW until, NEW c \in Nat, NEW e \in Nat, NEW D,
         Division(q, on, from, until, c, D), c <= e
  PROVE  Division(q, on, from, until, e, D)
<1>1. D \in SUBSET Nat /\ q \in D /\ q \in Nat
  BY DEF Division
<1>2. \A d \in D : d <= e
  BY <1>1 DEF Division
<1>3. q + 7 <= c => q + 7 <= e
  BY <1>1
<1> QED BY <1>1, <1>2, <1>3 DEF Division

LEMMA DivisionArrives ==
  ASSUME NEW q, NEW from, NEW until, NEW c \in Nat, NEW D, NEW f, NEW v,
         Division(q, TRUE, from, until, c, D), c >= until
  PROVE  Division(from, FALSE, f, v, c, D)
<1>1. /\ D \in SUBSET Nat /\ q \in Nat /\ from \in Nat /\ from \in D /\ until = from + 7
      /\ \A d \in D : d = from \/ d <= q
      /\ q = 0 \/ q + 7 <= from
  BY DEF Division
<1>2. q <= from /\ from + 7 <= c
  BY <1>1
<1>3. \A d \in D : d <= from
  BY <1>1, <1>2
<1> QED BY <1>1, <1>2, <1>3 DEF Division

LEMMA DivisionStarts ==
  ASSUME NEW q, NEW from, NEW until, NEW c \in Nat, NEW D, Division(q, FALSE, from, until, c, D)
  PROVE  Division(q, TRUE, c, c + 7, c, Since(D, c - 7) \cup {c})
<1>1. /\ D \in SUBSET Nat /\ q \in Nat /\ q \in D /\ (\A d \in D : d <= q /\ d <= c)
      /\ (q = 0 \/ q + 7 <= c)
  BY DEF Division
<1>2. PICK E : E = Since(D, c - 7)
  OBVIOUS
<1>3. E \subseteq D /\ q \in E
  <2>1. \A x : x \in E <=> x \in D /\ (x >= c - 7 \/ \A d \in D : d <= x \/ d > c - 7)
    BY <1>2, Zenon DEF Since
  <2> QED BY <1>1, <2>1
<1>4. E \cup {c} \in SUBSET Nat /\ q \in E \cup {c} /\ c \in E \cup {c}
      /\ \A d \in E \cup {c} : d <= c /\ (d = c \/ d <= q)
  BY <1>1, <1>3
<1>5. Division(q, TRUE, c, c + 7, c, E \cup {c})
  BY <1>1, <1>4 DEF Division
<1> QED BY <1>2, <1>5

LEMMA QArrives ==
  ASSUME NEW s \in VuState, NEW c \in Nat, s.cycles <= c, NEW D, QOk(s, D)
  PROVE  Division(IF Due(s, c) THEN s.pendingQ ELSE s.q, s.qPending /\ ~Due(s, c),
                  s.pendingQ, s.qReady, c, D)
<1>1. Division(s.q, s.qPending, s.pendingQ, s.qReady, c, D)
  <2>1. s.cycles \in Nat
    BY VuTypes
  <2> QED BY <2>1, DivisionLater DEF QOk
<1>2. s.qPending \in BOOLEAN
  BY VuTypes
<1>3. CASE Due(s, c)
  <2>1. s.qPending = TRUE /\ c >= s.qReady
    BY <1>2, <1>3 DEF Due
  <2>2. Division(s.q, TRUE, s.pendingQ, s.qReady, c, D)
    BY ONLY <1>1, <2>1, Zenon
  <2>3. Division(s.pendingQ, FALSE, s.pendingQ, s.qReady, c, D)
    BY <2>1, <2>2, DivisionArrives
  <2>4. (IF Due(s, c) THEN s.pendingQ ELSE s.q) = s.pendingQ
        /\ (s.qPending /\ ~Due(s, c)) = FALSE
    BY ONLY <1>3, Zenon
  <2> QED BY ONLY <2>3, <2>4, Zenon
<1>4. CASE ~Due(s, c)
  <2>1. (IF Due(s, c) THEN s.pendingQ ELSE s.q) = s.q
        /\ (s.qPending /\ ~Due(s, c)) = s.qPending
    BY ONLY <1>2, <1>4, Zenon
  <2> QED BY ONLY <1>1, <2>1, Zenon
<1> QED BY <1>3, <1>4

LEMMA ReadyQ ==
  ASSUME NEW s \in VuState, NEW c \in Nat, s.cycles <= c, NEW D, QOk(s, D), NEW p, NEW V, NEW w,
         WasReady(w, s, p, c, V)
  PROVE  QOk(w, D)
<1>1. w \in VuState
  BY DEF WasReady
<1>2. w.qPending = (s.qPending /\ ~Due(s, c))
  <2>1. w.qPending \in BOOLEAN /\ (s.qPending /\ ~Due(s, c)) \in BOOLEAN
    BY <1>1, VuTypes
  <2>2. w.qPending <=> (s.qPending /\ ~Due(s, c))
    BY ONLY WasReady(w, s, p, c, V), Zenon DEF WasReady
  <2> QED BY ONLY <2>1, <2>2, Zenon
<1>3. Division(IF Due(s, c) THEN s.pendingQ ELSE s.q, s.qPending /\ ~Due(s, c),
               s.pendingQ, s.qReady, c, D)
  BY QArrives
<1>4. w.q = (IF Due(s, c) THEN s.pendingQ ELSE s.q)
  BY ONLY WasReady(w, s, p, c, V), Zenon DEF WasReady
<1>5. w.pendingQ = s.pendingQ /\ w.qReady = s.qReady /\ w.cycles = c
  BY ONLY WasReady(w, s, p, c, V), Zenon DEF WasReady
<1> QED BY ONLY <1>2, <1>3, <1>4, <1>5, Zenon DEF QOk

Divided(D, low, c) == IF low = "div" THEN Since(D, c - 7) \cup {c} ELSE D

LEMMA QStep ==
  ASSUME NEW s \in VuState, NEW D, QOk(s, D), NEW p, NEW shape, NEW taken, NEW V,
         NEW w, NEW u, NEW l, NEW t, Stages(s, p, shape, taken, V, w, u, l, t),
         NEW c \in Nat, c = Issued(s, p), s.cycles <= c, c <= t.cycles
  PROVE  QOk(t, Divided(D, LowOf(p), c))
<1>1. WasReady(w, s, p, c, V)
  BY DEF Stages
<1>2. QOk(w, D)
  BY <1>1, ReadyQ
<1>3. /\ w \in VuState /\ w.cycles = c /\ (LowOf(p) = "div" => ~w.qPending)
  <2>1. LowOf(p) = "div" => Lower(p) = "div"
    BY DEF LowOf, Lower
  <2> QED BY <1>1, <2>1 DEF WasReady
<1>4. SameQ(u, w) /\ u.cycles = c
  BY <1>3 DEF Stages, Uppered
<1>5. /\ LowOf(p) = "div" => /\ l.q = u.q /\ l.pendingQ = c /\ l.qReady = c + 7
                             /\ l.qPending
      /\ LowOf(p) # "div" => SameQ(l, u)
      /\ l \in VuState
  BY <1>4 DEF Stages, Lowered
<1>6. SameQ(t, l) /\ t \in VuState /\ t.cycles \in Nat
  BY VuTypes DEF Stages, WasRetired
<1>7. CASE LowOf(p) = "div"
  <2>1. w.qPending = FALSE /\ l.qPending = TRUE
    <3>1. w.qPending \in BOOLEAN /\ l.qPending \in BOOLEAN
      BY <1>3, <1>5, VuTypes
    <3> QED BY <1>3, <1>5, <1>7, <3>1
  <2>2. Division(w.q, FALSE, w.pendingQ, w.qReady, c, D)
    BY ONLY <1>2, <1>3, <2>1, Zenon DEF QOk
  <2>3. Division(w.q, TRUE, c, c + 7, c, Since(D, c - 7) \cup {c})
    BY <2>2, DivisionStarts
  <2>4. PICK k : k = c + 7
    OBVIOUS
  <2>5. Division(w.q, TRUE, c, k, c, Since(D, c - 7) \cup {c})
    BY ONLY <2>3, <2>4, Zenon
  <2>6. PICK E : E = Since(D, c - 7) \cup {c}
    OBVIOUS
  <2>7. Division(w.q, TRUE, c, k, t.cycles, E)
    BY <1>6, <2>5, <2>6, DivisionLater
  <2>8. t.q = w.q /\ t.qPending = TRUE /\ t.pendingQ = c /\ t.qReady = k
    BY ONLY <1>4, <1>5, <1>6, <1>7, <2>1, <2>4, Zenon DEF SameQ
  <2>9. Divided(D, LowOf(p), c) = E
    BY ONLY <1>7, <2>6, Zenon DEF Divided
  <2> QED BY ONLY <2>7, <2>8, <2>9, Zenon DEF QOk
<1>8. CASE LowOf(p) # "div"
  <2>1. SameQ(t, w)
    BY ONLY <1>4, <1>5, <1>6, <1>8, Zenon DEF SameQ
  <2>2. Division(w.q, w.qPending, w.pendingQ, w.qReady, c, D)
    BY ONLY <1>2, <1>3, Zenon DEF QOk
  <2>3. Division(w.q, w.qPending, w.pendingQ, w.qReady, t.cycles, D)
    BY <1>6, <2>2, DivisionLater
  <2>4. Divided(D, LowOf(p), c) = D
    BY ONLY <1>8, Zenon DEF Divided
  <2> QED BY ONLY <2>1, <2>3, <2>4, Zenon DEF QOk, SameQ
<1> QED BY <1>7, <1>8

LEMMA QFinish ==
  ASSUME NEW t \in VuState, NEW r \in VuState, NEW D, QOk(t, D), t.cycles <= r.cycles,
         r.q = (IF t.qPending THEN t.pendingQ ELSE t.q), ~r.qPending,
         t.qPending => r.cycles >= t.qReady
  PROVE  QOk(r, D)
<1>1. t.cycles \in Nat /\ r.cycles \in Nat /\ t.qPending \in BOOLEAN /\ r.qPending \in BOOLEAN
  BY VuTypes
<1>2. Division(t.q, t.qPending, t.pendingQ, t.qReady, r.cycles, D)
  BY <1>1, DivisionLater DEF QOk
<1>3. r.qPending = FALSE
  BY ONLY <1>1, ~r.qPending, Zenon
<1>4. CASE t.qPending
  <2>1. t.qPending = TRUE
    BY ONLY <1>1, <1>4, Zenon
  <2>2. Division(t.q, TRUE, t.pendingQ, t.qReady, r.cycles, D)
    BY ONLY <1>2, <2>1, Zenon
  <2>3. Division(t.pendingQ, FALSE, r.pendingQ, r.qReady, r.cycles, D)
    BY <1>1, <1>4, <2>2, DivisionArrives
  <2>4. r.q = t.pendingQ
    BY <1>4
  <2> QED BY ONLY <1>3, <2>3, <2>4, Zenon DEF QOk
<1>5. CASE ~t.qPending
  <2>1. t.qPending = FALSE /\ r.q = t.q
    BY <1>1, <1>5
  <2>2. Division(t.q, FALSE, t.pendingQ, t.qReady, r.cycles, D)
    BY ONLY <1>2, <2>1, Zenon
  <2>3. Division(t.q, FALSE, r.pendingQ, r.qReady, r.cycles, D)
    BY ONLY <2>2 DEF Division
  <2> QED BY ONLY <1>3, <2>1, <2>3, Zenon DEF QOk
<1> QED BY <1>4, <1>5


LEMMA QInTime ==
  ASSUME NEW s \in VuState, NEW D, QOk(s, D)
  PROVE  Quotient(s).q = Max({Zero} \cup {d \in D : d + 7 <= s.cycles})
<1>1. PICK c \in Nat : c = s.cycles
  BY VuTypes
<1>2. PICK q, on : q = (IF Due(s, c) THEN s.pendingQ ELSE s.q) /\ on = (s.qPending /\ ~Due(s, c))
  OBVIOUS
<1>3. Division(q, on, s.pendingQ, s.qReady, c, D)
  <2>1. Division(IF Due(s, c) THEN s.pendingQ ELSE s.q, s.qPending /\ ~Due(s, c),
                 s.pendingQ, s.qReady, c, D)
    BY <1>1, QArrives
  <2> QED BY ONLY <1>2, <2>1, Zenon
<1>4. on => c < s.qReady
  <2>1. on => ~(c >= s.qReady)
    BY ONLY <1>2, Zenon DEF Due
  <2>2. s.qReady \in Nat
    BY VuTypes
  <2> QED BY <2>1, <2>2
<1>5. Quotient(s).q = q
  BY <1>1, <1>2, QuotientIs DEF Due
<1>6. PICK S : S = {Zero} \cup {d \in D : d + 7 <= c}
  OBVIOUS
<1>7. /\ D \in SUBSET Nat /\ q \in D /\ q \in Nat
      /\ on \in BOOLEAN => (on => s.pendingQ \in D /\ s.qReady = s.pendingQ + 7)
  BY <1>3 DEF Division
<1>8. q \in S /\ \A x \in S : x <= q
  <2>0. on \in BOOLEAN
    <3>1. s.qPending \in BOOLEAN
      BY VuTypes
    <3> QED BY ONLY <1>2, <3>1, Zenon
  <2>1. CASE on
    <3>1. /\ s.pendingQ \in Nat /\ s.qReady = s.pendingQ + 7 /\ c < s.pendingQ + 7
          /\ \A d \in D : d = s.pendingQ \/ d <= q
          /\ q = 0 \/ q + 7 <= s.pendingQ
      BY <1>3, <1>4, <1>7, <2>1 DEF Division
    <3>2. s.pendingQ <= c
      BY <1>3, <2>1 DEF Division
    <3> QED BY <1>6, <1>7, <3>1, <3>2 DEF Zero
  <2>2. CASE ~on
    <3>1. (\A d \in D : d <= q) /\ (q = 0 \/ q + 7 <= c)
      BY <1>3, <2>2 DEF Division
    <3> QED BY <1>6, <1>7, <3>1 DEF Zero
  <2> QED BY <2>0, <2>1, <2>2
<1>9. S \in SUBSET Int
  <2>1. \A x \in S : x = 0 \/ x \in D
    BY ONLY <1>6 DEF Zero
  <2>2. \A x \in D : x \in Int
    BY <1>7
  <2>3. \A x \in S : x \in Int
    BY ONLY <2>1, <2>2
  <2> QED BY ONLY <2>3, Zenon
<1>10. Max(S) = q
  BY <1>8, <1>9, MaxIs
<1> QED BY ONLY <1>1, <1>5, <1>6, <1>10, Zenon

-----------------------------------------------------------------------------
(* Flags                                                                     *)

LEMMA FlagsLater ==
  ASSUME NEW pipe \in [1..4 -> Nat], NEW mac \in Nat, NEW c \in Nat, NEW M, NEW start, NEW m0,
         Flags(pipe, mac, c, M, start, m0), NEW n \in Nat
  PROVE  Flags(Shifted(pipe, n, mac), mac, c + n, M, start, m0)
<1>1. PICK r : r = Shifted(pipe, n, mac)
  OBVIOUS
<1>2. \A i \in 1..4 : r[i] = IF i + n <= 4 THEN pipe[i + n] ELSE mac
  BY <1>1 DEF Shifted
<1>3. /\ M \in SUBSET Nat /\ mac \in M /\ (\A m \in M : m <= mac) /\ mac <= c
      /\ start \in Nat /\ start <= c
      /\ \A i \in 1..4 : IF c - 5 + i < start THEN pipe[i] = m0
                         ELSE IsLatest(M, c - 5 + i, pipe[i])
  BY DEF Flags
<1>4. ASSUME NEW i \in 1..4
      PROVE  IF (c + n) - 5 + i < start THEN r[i] = m0 ELSE IsLatest(M, (c + n) - 5 + i, r[i])
  <2>1. PICK t \in Int : t = (c + n) - 5 + i
    OBVIOUS
  <2>2. CASE i + n <= 4
    <3>1. i + n \in 1..4 /\ c - 5 + (i + n) = t
      BY <2>1, <2>2
    <3>2. PICK k \in 1..4 : k = i + n
      BY <3>1
    <3>3. r[i] = pipe[k] /\ c - 5 + k = t
      BY <1>2, <2>2, <3>1, <3>2
    <3>4. IF c - 5 + k < start THEN pipe[k] = m0 ELSE IsLatest(M, c - 5 + k, pipe[k])
      BY ONLY <1>3, k \in 1..4
    <3> QED BY ONLY <2>1, <3>3, <3>4, Zenon
  <2>3. CASE ~(i + n <= 4)
    <3>1. t >= c
      BY <2>1, <2>3
    <3>2. r[i] = mac
      BY <1>2, <2>3
    <3>3. ~(t < start) /\ mac <= t
      BY <1>3, <3>1
    <3>4. IsLatest(M, t, mac)
      BY <1>3, <3>3 DEF IsLatest
    <3> QED BY ONLY <2>1, <3>2, <3>3, <3>4, Zenon
  <2> QED BY <2>2, <2>3
<1>5. start <= c + n /\ mac <= c + n
  BY <1>3
<1>6. Flags(r, mac, c + n, M, start, m0)
  BY ONLY <1>3, <1>4, <1>5, Zenon DEF Flags
<1> QED BY <1>1, <1>6

(* A write of flags at c.                                                    *)
LEMMA FlagsWritten ==
  ASSUME NEW pipe \in [1..4 -> Nat], NEW mac \in Nat, NEW c \in Nat, NEW M, NEW start, NEW m0,
         Flags(pipe, mac, c, M, start, m0), NEW E, E \in {M, Since(M, c - 4)}
  PROVE  Flags(pipe, c, c, E \cup {c}, start, m0)
<1>1. /\ M \in SUBSET Nat /\ mac \in M /\ (\A m \in M : m <= mac) /\ mac <= c
      /\ start \in Nat /\ start <= c
      /\ \A i \in 1..4 : IF c - 5 + i < start THEN pipe[i] = m0
                         ELSE IsLatest(M, c - 5 + i, pipe[i])
  BY DEF Flags
<1>2. E \subseteq M /\ \A x \in M : (x >= c - 4 \/ \A d \in M : d <= x \/ d > c - 4) => x \in E
  BY DEF Since
<1>3. /\ E \cup {c} \in SUBSET Nat /\ c \in E \cup {c} /\ (\A m \in E \cup {c} : m <= c)
  BY <1>1, <1>2
<1>4. ASSUME NEW i \in 1..4
      PROVE  IF c - 5 + i < start THEN pipe[i] = m0 ELSE IsLatest(E \cup {c}, c - 5 + i, pipe[i])
  <2>1. PICK t \in Int, x \in Nat : t = c - 5 + i /\ x = pipe[i]
    OBVIOUS
  <2>2. IF t < start THEN x = m0 ELSE IsLatest(M, t, x)
    BY ONLY <1>1, <2>1, i \in 1..4
  <2>3. t < c /\ t >= c - 4
    BY <2>1
  <2>4. IsLatest(M, t, x) => IsLatest(E \cup {c}, t, x)
    <3> SUFFICES ASSUME IsLatest(M, t, x) PROVE IsLatest(E \cup {c}, t, x)
      OBVIOUS
    <3>1. x \in M /\ x <= t /\ \A m \in M : m <= t => m <= x
      BY DEF IsLatest
    <3>2. \A d \in M : d <= x \/ d > c - 4 \/ x >= c - 4
      BY <1>1, <2>3, <3>1
    <3>3. x \in E
      BY <1>2, <3>1, <3>2
    <3>4. \A m \in E \cup {c} : m <= t => m <= x
      BY <1>1, <1>2, <2>3, <3>1
    <3> QED BY <3>1, <3>3, <3>4 DEF IsLatest
  <2> QED BY ONLY <2>1, <2>2, <2>4, Zenon
<1> QED BY ONLY <1>1, <1>3, <1>4, c \in Nat, c <= c, Zenon DEF Flags

Marked(M, up, c) == IF up = "add" THEN Since(M, c - 4) \cup {c} ELSE M

LEMMA FlagsAged ==
  ASSUME NEW s \in VuState, NEW r \in VuState, NEW n \in Nat, Aged(r, s, n),
         NEW M, NEW start, NEW m0, FlagsOk(s, M, start, m0)
  PROVE  FlagsOk(r, M, start, m0)
<1>1. PICK pipe \in [1..4 -> Nat], mac \in Nat, c \in Nat :
        pipe = s.pipe /\ mac = s.mac /\ c = s.cycles
  BY VuTypes
<1>2. Flags(pipe, mac, c, M, start, m0)
  BY <1>1 DEF FlagsOk
<1>3. Flags(Shifted(pipe, n, mac), mac, c + n, M, start, m0)
  BY <1>2, FlagsLater
<1>4. r.pipe = Shifted(pipe, n, mac) /\ r.mac = mac /\ r.cycles = c + n
  BY ONLY <1>1, Aged(r, s, n), Zenon DEF Aged
<1> QED BY ONLY <1>3, <1>4, Zenon DEF FlagsOk

LEMMA FlagsUpper ==
  ASSUME NEW w \in VuState, NEW u, NEW p, Uppered(u, w, p),
         NEW M, NEW start, NEW m0, FlagsOk(w, M, start, m0),
         NEW E, E \in {M, Since(M, w.cycles - 4)}
  PROVE  FlagsOk(u, IF p.up = "add" THEN E \cup {w.cycles} ELSE M, start, m0)
<1>1. PICK pipe \in [1..4 -> Nat], mac \in Nat, c \in Nat :
        pipe = w.pipe /\ mac = w.mac /\ c = w.cycles
  BY VuTypes
<1>2. Flags(pipe, mac, c, M, start, m0)
  BY <1>1 DEF FlagsOk
<1>3. E \in {M, Since(M, c - 4)}
  BY <1>1
<1>4. Flags(pipe, c, c, E \cup {c}, start, m0)
  BY <1>2, <1>3, FlagsWritten
<1>5. u.cycles = c /\ u.pipe = pipe /\ u.mac = (IF p.up = "add" THEN c ELSE mac)
  BY ONLY <1>1, Uppered(u, w, p), Zenon DEF Uppered
<1>6. CASE p.up = "add"
  <2>1. u.mac = c /\ (IF p.up = "add" THEN E \cup {w.cycles} ELSE M) = E \cup {c}
    BY ONLY <1>1, <1>5, <1>6, Zenon
  <2> QED BY ONLY <1>4, <1>5, <2>1, Zenon DEF FlagsOk
<1>7. CASE p.up # "add"
  <2>1. u.mac = mac /\ (IF p.up = "add" THEN E \cup {w.cycles} ELSE M) = M
    BY ONLY <1>1, <1>5, <1>7, Zenon
  <2> QED BY ONLY <1>2, <1>5, <2>1, Zenon DEF FlagsOk
<1> QED BY <1>6, <1>7

LEMMA FlagsStep ==
  ASSUME NEW s \in VuState, NEW M, NEW start, NEW m0, FlagsOk(s, M, start, m0),
         NEW p, NEW shape, NEW taken, NEW V,
         NEW w, NEW u, NEW l, NEW t, Stages(s, p, shape, taken, V, w, u, l, t),
         NEW c, c = Issued(s, p)
  PROVE  FlagsOk(t, Marked(M, p.up, c), start, m0)
<1>1. PICK n \in Nat : Aged(w, s, n)
  BY DEF Stages, WasReady
<1>2. w \in VuState /\ w.cycles = c
  BY DEF Stages, WasReady
<1>3. FlagsOk(w, M, start, m0)
  BY <1>1, <1>2, FlagsAged
<1>4. Uppered(u, w, p) /\ u \in VuState
  BY DEF Stages, Uppered
<1>5. PICK E : E = Since(M, c - 4)
  OBVIOUS
<1>6. FlagsOk(u, IF p.up = "add" THEN E \cup {w.cycles} ELSE M, start, m0)
  BY <1>2, <1>3, <1>4, <1>5, FlagsUpper
<1>7. FlagsOk(u, Marked(M, p.up, c), start, m0)
  BY ONLY <1>2, <1>5, <1>6, Zenon DEF Marked
<1>8. PICK m \in Nat : Aged(l, u, m) /\ l \in VuState
  BY DEF Stages, Lowered
<1>9. FlagsOk(l, Marked(M, p.up, c), start, m0)
  BY <1>4, <1>7, <1>8, FlagsAged
<1>10. Aged(t, l, 1) /\ t \in VuState /\ 1 \in Nat
  BY DEF Stages, WasRetired
<1> QED BY <1>8, <1>9, <1>10, FlagsAged

LEMMA FlagsHead ==
  ASSUME NEW s \in VuState, NEW M, NEW start, NEW m0, FlagsOk(s, M, start, m0)
  PROVE  Head(s.pipe) = IF s.cycles - 4 < start THEN m0 ELSE LatestBy(M, s.cycles - 4)
<1>1. PICK pipe \in [1..4 -> Nat], c \in Nat : pipe = s.pipe /\ c = s.cycles
  BY VuTypes
<1>2. /\ M \in SUBSET Nat
      /\ \A i \in 1..4 : IF c - 5 + i < start THEN pipe[i] = m0
                         ELSE IsLatest(M, c - 5 + i, pipe[i])
  BY <1>1 DEF FlagsOk, Flags
<1>3. 1 \in 1..4 /\ c - 5 + 1 = c - 4
  OBVIOUS
<1>4. IF c - 4 < start THEN pipe[1] = m0 ELSE IsLatest(M, c - 4, pipe[1])
  <2>1. IF c - 5 + 1 < start THEN pipe[1] = m0 ELSE IsLatest(M, c - 5 + 1, pipe[1])
    BY ONLY <1>2, <1>3, Zenon
  <2> QED BY ONLY <1>3, <2>1, Zenon
<1>5. Head(pipe) = pipe[1]
  BY ONLY <1>3, pipe \in [1..4 -> Nat]
<1>6. IsLatest(M, c - 4, pipe[1]) => LatestBy(M, c - 4) = pipe[1]
  <2> SUFFICES ASSUME IsLatest(M, c - 4, pipe[1]) PROVE LatestBy(M, c - 4) = pipe[1]
    OBVIOUS
  <2>1. PICK S : S = {x \in M : x <= c - 4}
    OBVIOUS
  <2>2. PICK x : x = pipe[1]
    OBVIOUS
  <2>3. x \in S /\ S \in SUBSET Int /\ \A y \in S : y <= x
    <3>1. x \in M /\ x <= c - 4 /\ \A m \in M : m <= c - 4 => m <= x
      BY ONLY <2>2, IsLatest(M, c - 4, pipe[1]), Zenon DEF IsLatest
    <3>2. \A y : y \in S <=> y \in M /\ y <= c - 4
      BY ONLY <2>1, Zenon
    <3>3. \A y \in M : y \in Int
      BY <1>2
    <3>4. S \subseteq Int
      BY ONLY <3>2, <3>3, Zenon
    <3> QED BY ONLY <3>1, <3>2, <3>4, Zenon
  <2>4. Max(S) = x
    BY ONLY <2>3, MaxIs
  <2> QED BY ONLY <2>1, <2>2, <2>4, Zenon DEF LatestBy
<1> QED BY ONLY <1>1, <1>4, <1>5, <1>6, Zenon


-----------------------------------------------------------------------------
(* The value kept for branches                                               *)

LEMMA KeptLater ==
  ASSUME NEW old \in OldState, NEW c \in Nat, NEW e \in Nat, NEW vis, Kept(old, c, vis), c < e
  PROVE  Kept(old, e, vis)
<1>1. /\ vis \in SUBSET ViRecord /\ (\A x \in vis : x.cycle < c)
      /\ (\A x, y \in vis : x.cycle = y.cycle => x = y)
      /\ old.ready <= c + 1
  BY DEF Kept
<1>2. \A x \in vis : x.cycle \in Nat
  BY <1>1 DEF ViRecord
<1>3. old.ready \in Nat
  BY DEF OldState
<1>4. \A x \in vis : x.cycle < e /\ x.cycle # e - 1
  BY ONLY <1>1, <1>2, c \in Nat, e \in Nat, c < e
<1>5. old.ready <= e + 1 /\ old.ready # e + 1
  BY ONLY <1>1, <1>3, c \in Nat, e \in Nat, c < e
<1> QED BY ONLY <1>1, <1>4, <1>5, Zenon DEF Kept

(* A write at c to register r, whose value was v.                            *)
LEMMA KeptWritten ==
  ASSUME NEW old \in OldState, NEW b \in Nat, NEW c \in Nat, NEW vis, Kept(old, b, vis), b <= c,
         NEW r \in Vi, NEW v \in Nat,
         NEW new, new.reg = r, new.ready = c + 2,
         new.val = IF r # old.reg \/ c >= old.ready THEN v ELSE old.val
  PROVE  Kept(new, c + 1, vis \cup {[cycle |-> c, reg |-> r, before |-> v]})
<1>1. PICK x0 : x0 = [cycle |-> c, reg |-> r, before |-> v]
  OBVIOUS
<1>2. x0 \in ViRecord /\ x0.cycle = c /\ x0.reg = r /\ x0.before = v
  BY <1>1 DEF ViRecord
<1>3. /\ vis \in SUBSET ViRecord /\ (\A x \in vis : x.cycle < b)
      /\ (\A x, y \in vis : x.cycle = y.cycle => x = y)
      /\ old.ready <= b + 1
      /\ (old.ready = b + 1 =>
            \E w \in vis : w.reg = old.reg /\ w.before = old.val /\ FirstOf(w, vis, b))
      /\ \A x \in vis : x.cycle = b - 1 => old.ready = b + 1 /\ old.reg = x.reg
  BY DEF Kept
<1>4. \A x \in vis : x.cycle \in Nat
  BY <1>3 DEF ViRecord
<1>5. old.ready \in Nat
  BY DEF OldState
<1>6. PICK vis2 : vis2 = vis \cup {x0}
  OBVIOUS
<1>7. (\A x \in vis : x \in vis2) /\ x0 \in vis2 /\ (\A x \in vis2 : x \in vis \/ x = x0)
  BY <1>6
<1>8. \A x \in vis : x.cycle < c
  BY <1>3, <1>4
<1>9. vis2 \in SUBSET ViRecord /\ (\A x \in vis2 : x.cycle < c + 1)
  BY <1>2, <1>3, <1>4, <1>6, <1>8
<1>10. \A x, y \in vis2 : x.cycle = y.cycle => x = y
  <2>1. \A x \in vis : x.cycle # c
    BY <1>4, <1>8
  <2> QED BY ONLY <1>2, <1>3, <1>7, <2>1, Zenon
<1>11. \A x \in vis2 : x.cycle = (c + 1) - 1 => new.ready = (c + 1) + 1 /\ new.reg = x.reg
  <2>1. \A x \in vis : x.cycle # (c + 1) - 1
    BY <1>4, <1>8
  <2>2. new.ready = (c + 1) + 1
    OBVIOUS
  <2> QED BY ONLY <1>2, <1>7, <2>1, <2>2, new.reg = r, Zenon
<1>12. \A d, q : WrittenAt(vis, d, q) => WrittenAt(vis2, d, q)
  BY ONLY <1>7, Zenon DEF WrittenAt
<1>13. WrittenAt(vis2, c, r)
  BY ONLY <1>2, <1>7, Zenon DEF WrittenAt
<1>14. \E w \in vis2 : w.reg = new.reg /\ w.before = new.val /\ FirstOf(w, vis2, c + 1)
  <2>1. CASE r # old.reg \/ c >= old.ready
    <3>1. new.val = v
      BY <2>1
    <3>2. ~WrittenAt(vis2, c - 1, r)
      <4> SUFFICES ASSUME NEW x \in vis2, x.reg = r, x.cycle = c - 1 PROVE FALSE
        BY DEF WrittenAt
      <4>1. x \in vis
        BY <1>2, <1>7
      <4>2. b = c
        BY <1>3, <1>4, <4>1
      <4>3. old.ready = b + 1 /\ old.reg = r
        BY <1>3, <4>1, <4>2
      <4> QED BY <2>1, <4>2, <4>3
    <3>3. \A d \in c..((c + 1) - 1) : WrittenAt(vis2, d, r)
      <4>1. \A d \in c..((c + 1) - 1) : d = c
        OBVIOUS
      <4> QED BY ONLY <1>13, <4>1, Zenon
    <3>4. FirstOf(x0, vis2, c + 1)
      BY ONLY <1>2, <1>7, <3>2, <3>3, Zenon DEF FirstOf
    <3> QED BY ONLY <1>2, <1>7, <3>1, <3>4, new.reg = r, Zenon
  <2>2. CASE r = old.reg /\ c < old.ready
    <3>1. b = c /\ old.ready = b + 1
      BY <1>3, <1>5, <2>2
    <3>2. PICK w \in vis : w.reg = old.reg /\ w.before = old.val /\ FirstOf(w, vis, b)
      BY <1>3, <3>1
    <3>3. new.val = old.val /\ w.reg = r
      <4>1. ~(r # old.reg \/ c >= old.ready)
        BY <1>5, <2>2
      <4> QED BY <2>2, <3>2, <4>1
    <3>4. w.cycle \in Nat /\ w.cycle < c
      BY <1>4, <1>8
    <3>5. ~WrittenAt(vis, w.cycle - 1, w.reg) /\ \A d \in w.cycle..(b - 1) : WrittenAt(vis, d, w.reg)
      BY <3>2 DEF FirstOf
    <3>6. ~WrittenAt(vis2, w.cycle - 1, w.reg)
      <4>1. x0.cycle # w.cycle - 1
        BY <1>2, <3>4
      <4> QED BY ONLY <1>7, <3>5, <4>1, Zenon DEF WrittenAt
    <3>7. \A d \in w.cycle..((c + 1) - 1) : WrittenAt(vis2, d, w.reg)
      <4> SUFFICES ASSUME NEW d \in w.cycle..((c + 1) - 1) PROVE WrittenAt(vis2, d, w.reg)
        OBVIOUS
      <4>1. d = c \/ d \in w.cycle..(b - 1)
        BY <3>1, <3>4
      <4> QED BY ONLY <1>12, <1>13, <3>3, <3>5, <4>1, Zenon
    <3>8. FirstOf(w, vis2, c + 1) /\ w \in vis2
      BY ONLY <1>7, <3>6, <3>7, w \in vis, Zenon DEF FirstOf
    <3> QED BY ONLY <3>2, <3>3, <3>8, new.reg = r, Zenon
  <2>3. r # old.reg \/ c >= old.ready \/ (r = old.reg /\ c < old.ready)
    BY <1>5
  <2> QED BY <2>1, <2>2, <2>3
<1>15. new.ready <= (c + 1) + 1
  OBVIOUS
<1>16. Kept(new, c + 1, vis2)
  BY ONLY <1>9, <1>10, <1>11, <1>14, <1>15, Zenon DEF Kept
<1> QED BY ONLY <1>1, <1>6, <1>16, Zenon

Kept2(vis, low, c, r, v) ==
  IF low = "vi" THEN vis \cup {[cycle |-> c, reg |-> r, before |-> v]} ELSE vis

LEMMA OldStep ==
  ASSUME NEW s \in VuState, NEW vis, OldOk(s, vis), NEW p, PairOk(p), NEW shape, NEW taken, NEW V,
         NEW w, NEW u, NEW l, NEW t, Stages(s, p, shape, taken, V, w, u, l, t),
         NEW c \in Nat, c = Issued(s, p), s.cycles <= c, c < t.cycles
  PROVE  OldOk(t, Kept2(vis, LowOf(p), c, p.r, s.vi[p.r]))
<1>1. PICK old \in OldState, b \in Nat : old = s.old /\ b = s.cycles
  BY VuTypes
<1>2. Kept(old, b, vis) /\ b <= c
  BY <1>1 DEF OldOk
<1>3. w.old = old /\ w.vi = s.vi /\ w.cycles = c
  BY <1>1 DEF Stages, WasReady, SameOld, SameRegs
<1>4. u.old = old /\ u.vi = s.vi /\ u.cycles = c
  BY <1>3 DEF Stages, Uppered, SameOld
<1>5. l.old = (IF LowOf(p) = "vi" THEN Backup(u, p.r) ELSE old)
  BY <1>4 DEF Stages, Lowered
<1>6. t.old = l.old /\ t.cycles \in Nat
  BY VuTypes DEF Stages, WasRetired, SameOld
<1>7. CASE LowOf(p) # "vi"
  <2>1. t.old = old
    BY <1>5, <1>6, <1>7
  <2>2. b < t.cycles
    BY <1>2, <1>6
  <2>3. PICK e \in Nat : e = t.cycles
    BY <1>6
  <2>4. Kept(old, e, vis)
    BY <1>2, <2>2, <2>3, KeptLater
  <2>5. Kept2(vis, LowOf(p), c, p.r, s.vi[p.r]) = vis
    BY ONLY <1>7, Zenon DEF Kept2
  <2> QED BY ONLY <2>1, <2>3, <2>4, <2>5, Zenon DEF OldOk
<1>8. CASE LowOf(p) = "vi"
  <2>1. p.low = "vi" /\ p.r \in Vi
    BY <1>8 DEF LowOf, PairOk, WellFormed
  <2>2. PICK r \in Vi, v \in Nat : r = p.r /\ v = s.vi[r]
    <3>1. s.vi \in [Vi -> Nat]
      BY VuTypes
    <3> QED BY <2>1, <3>1
  <2>3. PICK new : new = t.old
    OBVIOUS
  <2>4. new = [reg |-> r, ready |-> c + 2,
               val |-> IF r # old.reg \/ c >= old.ready THEN v ELSE old.val]
    <3>1. new = Backup(u, r)
      BY ONLY <1>5, <1>6, <1>8, <2>2, <2>3, Zenon
    <3> QED BY ONLY <1>4, <2>2, <3>1, Zenon DEF Backup
  <2>5. /\ new.reg = r /\ new.ready = c + 2
        /\ new.val = IF r # old.reg \/ c >= old.ready THEN v ELSE old.val
    BY ONLY <2>4
  <2>6. Kept(new, c + 1, vis \cup {[cycle |-> c, reg |-> r, before |-> v]})
    BY <1>2, <2>5, KeptWritten
  <2>7. t.cycles = c + 1
    <3>1. PICK m \in Nat : Aged(l, u, m) /\ (LowOf(p) # "kick" => m = 0)
      BY DEF Stages, Lowered
    <3>2. l.cycles = c + 0
      BY ONLY <1>4, <1>8, <3>1 DEF Aged
    <3>3. t.cycles = l.cycles + 1
      BY DEF Stages, WasRetired, Aged
    <3> QED BY ONLY <3>2, <3>3, c \in Nat
  <2>8. Kept2(vis, LowOf(p), c, p.r, s.vi[p.r]) = vis \cup {[cycle |-> c, reg |-> r, before |-> v]}
    BY ONLY <1>8, <2>2, Zenon DEF Kept2
  <2> QED BY ONLY <2>3, <2>6, <2>7, <2>8, Zenon DEF OldOk
<1> QED BY <1>7, <1>8

(* So a branch sees the value from before the run of writes.                 *)
LEMMA OperandIs ==
  ASSUME vu \in VuState, OldOk(vu, past.vis), NEW r \in Vi
  PROVE  BranchVi(vu, r) = IF RunOf(r) = {} THEN vu.vi[r]
                           ELSE (CHOOSE w \in RunOf(r) : \A x \in RunOf(r) : w.cycle <= x.cycle).before
<1>1. PICK old \in OldState, c \in Nat : old = vu.old /\ c = vu.cycles
  BY VuTypes
<1>2. PICK vis : vis = past.vis
  OBVIOUS
<1>3. /\ vis \in SUBSET ViRecord /\ (\A x \in vis : x.cycle < c)
      /\ (\A x, y \in vis : x.cycle = y.cycle => x = y)
      /\ old.ready <= c + 1
      /\ (old.ready = c + 1 =>
            \E w \in vis : w.reg = old.reg /\ w.before = old.val /\ FirstOf(w, vis, c))
      /\ \A x \in vis : x.cycle = c - 1 => old.ready = c + 1 /\ old.reg = x.reg
  BY ONLY <1>1, <1>2, OldOk(vu, past.vis), Zenon DEF OldOk, Kept
<1>4. \A x \in vis : x.cycle \in Nat
  BY <1>3 DEF ViRecord
<1>5. old.ready \in Nat
  BY DEF OldState
<1>6. PICK R : R = RunOf(r)
  OBVIOUS
<1>7. \A w : w \in R <=> w \in vis /\ w.reg = r /\ \A d \in w.cycle..(c - 1) : WrittenAt(vis, d, r)
  BY ONLY <1>1, <1>2, <1>6, Zenon DEF RunOf, WrittenAt
<1>8. BranchVi(vu, r) = IF r = old.reg /\ c < old.ready THEN old.val ELSE vu.vi[r]
  BY ONLY <1>1, Zenon DEF BranchVi
<1>9. CASE r = old.reg /\ c < old.ready
  <2>1. old.ready = c + 1
    BY <1>3, <1>5, <1>9
  <2>2. PICK w \in vis : w.reg = old.reg /\ w.before = old.val /\ FirstOf(w, vis, c)
    BY <1>3, <2>1
  <2>3. w \in R
    BY ONLY <1>7, <1>9, <2>2, Zenon DEF FirstOf
  <2>4. ASSUME NEW x \in R PROVE w.cycle <= x.cycle
    <3> SUFFICES ASSUME ~(w.cycle <= x.cycle) PROVE FALSE
      OBVIOUS
    <3>1. x \in vis /\ \A d \in x.cycle..(c - 1) : WrittenAt(vis, d, r)
      BY <1>7, <2>4
    <3>2. w.cycle - 1 \in x.cycle..(c - 1)
      BY <1>3, <1>4, <3>1
    <3>3. WrittenAt(vis, w.cycle - 1, r)
      BY ONLY <3>1, <3>2, Zenon
    <3> QED BY ONLY <1>9, <2>2, <3>3, Zenon DEF FirstOf
  <2>5. PICK y : y = CHOOSE z \in R : \A x \in R : z.cycle <= x.cycle
    OBVIOUS
  <2>6. y \in R /\ \A x \in R : y.cycle <= x.cycle
    BY ONLY <2>3, <2>4, <2>5, Zenon
  <2>7. y = w
    <3>1. y \in vis /\ y.cycle <= w.cycle /\ w.cycle <= y.cycle
      BY ONLY <1>7, <2>3, <2>4, <2>6, Zenon
    <3>2. y.cycle = w.cycle
      BY ONLY <1>4, <3>1, w \in vis
    <3> QED BY ONLY <1>3, <3>1, <3>2, w \in vis, Zenon
  <2>8. R # {}
    BY <2>3
  <2> QED BY ONLY <1>6, <1>8, <1>9, <2>2, <2>5, <2>7, <2>8, Zenon
<1>10. CASE ~(r = old.reg /\ c < old.ready)
  <2>1. R = {}
    <3> SUFFICES ASSUME NEW x \in R PROVE FALSE
      OBVIOUS
    <3>1. x \in vis /\ \A d \in x.cycle..(c - 1) : WrittenAt(vis, d, r)
      BY <1>7
    <3>2. c - 1 \in x.cycle..(c - 1)
      BY <1>3, <1>4, <3>1
    <3>3. PICK z \in vis : z.reg = r /\ z.cycle = c - 1
      BY ONLY <3>1, <3>2, Zenon DEF WrittenAt
    <3>4. old.ready = c + 1 /\ old.reg = r
      BY ONLY <1>3, <3>3, z \in vis, Zenon
    <3> QED BY <1>10, <3>4
  <2> QED BY ONLY <1>6, <1>8, <1>10, <2>1, Zenon
<1> QED BY <1>9, <1>10


-----------------------------------------------------------------------------
(* Where the program goes                                                    *)

LastTwo(pairs, x) == Append(IF Len(pairs) = 2 THEN Tail(pairs) ELSE pairs, x)

LEMMA LastTwoIs ==
  ASSUME NEW pairs \in Seq(PairRecord), Len(pairs) <= 2, NEW x \in PairRecord
  PROVE  LET q == LastTwo(pairs, x)
         IN  /\ q \in Seq(PairRecord) /\ q[Len(q)] = x
             /\ Len(pairs) = 0 => Len(q) = 1
             /\ Len(pairs) > 0 => Len(q) = 2 /\ q[1] = pairs[Len(pairs)]
<1>1. PICK n \in Nat : n = Len(pairs)
  OBVIOUS
<1>2. n <= 2
  BY ONLY <1>1, Len(pairs) <= 2
<1>3. Len(<<>>) = 0
  OBVIOUS
<1>4. \E b : /\ b = IF Len(pairs) = 2 THEN Tail(pairs) ELSE pairs
             /\ b \in Seq(PairRecord)
             /\ Len(b) = (IF n = 2 THEN 1 ELSE n) /\ (n > 0 => b[1] = pairs[n])
  <2>1. CASE n = 2
    <3>1. pairs # <<>>
      <4>1. Len(pairs) # 0
        BY ONLY <1>1, <2>1
      <4> QED BY ONLY <1>3, <4>1, Zenon
    <3>2. PICK b : b = Tail(pairs)
      OBVIOUS
    <3>3. b \in Seq(PairRecord) /\ Len(b) = Len(pairs) - 1
          /\ \A i \in 1..Len(b) : b[i] = pairs[i + 1]
      BY ONLY <3>1, <3>2, HeadTailProperties, pairs \in Seq(PairRecord)
    <3>4. Len(b) = 1
      <4>1. Len(pairs) - 1 = n - 1
        BY ONLY <1>1, Zenon
      <4>2. n - 1 = 1
        BY ONLY <2>1
      <4> QED BY ONLY <3>3, <4>1, <4>2, Zenon
    <3>5. 1 \in 1..Len(b) /\ 1 + 1 = n
      BY ONLY <2>1, <3>4
    <3>6. b[1] = pairs[n]
      BY ONLY <3>3, <3>5, Zenon
    <3>7. Len(pairs) = 2
      BY ONLY <1>1, <2>1, Zenon
    <3> QED BY ONLY <2>1, <3>2, <3>3, <3>4, <3>6, <3>7, Zenon
  <2>2. CASE n # 2
    <3>1. n > 0 => n = 1
      BY ONLY <1>2, <2>2, n \in Nat
    <3>2. n > 0 => pairs[1] = pairs[n]
      BY ONLY <3>1, Zenon
    <3>3. Len(pairs) # 2
      BY ONLY <1>1, <2>2, Zenon
    <3> QED BY ONLY <1>1, <2>2, <3>2, <3>3, pairs \in Seq(PairRecord), Zenon
  <2> QED BY <2>1, <2>2
<1>14. PICK b : /\ b = IF Len(pairs) = 2 THEN Tail(pairs) ELSE pairs
             /\ b \in Seq(PairRecord)
             /\ Len(b) = (IF n = 2 THEN 1 ELSE n) /\ (n > 0 => b[1] = pairs[n])
  BY <1>4
<1>15. PICK m \in Nat : m = IF n = 2 THEN 1 ELSE n
  BY ONLY n \in Nat
<1>5. PICK q : q = Append(b, x)
  OBVIOUS
<1>6. /\ q \in Seq(PairRecord) /\ Len(q) = m + 1
      /\ \A j \in 1..m : q[j] = b[j]
      /\ q[m + 1] = x
  BY ONLY <1>14, <1>15, <1>5, AppendIs, x \in PairRecord
<1>7. LastTwo(pairs, x) = q
  BY ONLY <1>14, <1>15, <1>5, Zenon DEF LastTwo
<1>8. q[Len(q)] = x
  BY ONLY <1>6, Zenon
<1>9. n = 0 => Len(q) = 1
  BY ONLY <1>6, <1>15, n \in Nat
<1>10. n > 0 => m = 1 /\ 1 \in 1..m
  BY ONLY <1>2, <1>15, n \in Nat
<1>11. n > 0 => Len(q) = 2
  BY ONLY <1>6, <1>10
<1>12. n > 0 => m > 0
  BY ONLY <1>10
<1>13. n > 0 => q[1] = pairs[n]
  BY ONLY <1>14, <1>15, <1>6, <1>10, <1>12, Zenon
<1> QED BY ONLY <1>1, <1>6, <1>7, <1>8, <1>9, <1>11, <1>13, Zenon

PairOf(s, p, taken) ==
  [pc |-> s.pc, taken |-> IF LowOf(p) \in {"branch", "jump"} THEN taken ELSE NoBranch, e |-> p.e]

LEMMA PairOfIs ==
  ASSUME NEW s \in VuState, NEW p, PairOk(p), NEW taken \in Pcs \cup {NoBranch}
  PROVE  LET x == PairOf(s, p, taken)
         IN  /\ x \in PairRecord /\ x.pc = s.pc /\ x.e = p.e
             /\ x.taken = (IF LowOf(p) \in {"branch", "jump"} THEN taken ELSE NoBranch)
<1>1. s.pc \in Pcs /\ p.e \in BOOLEAN
  BY VuTypes DEF PairOk, Pair
<1>2. PICK b \in Pcs \cup {NoBranch} :
        b = IF LowOf(p) \in {"branch", "jump"} THEN taken ELSE NoBranch
  OBVIOUS
<1>3. PICK x : x = PairOf(s, p, taken)
  OBVIOUS
<1>4. x = [pc |-> s.pc, taken |-> b, e |-> p.e]
  BY ONLY <1>2, <1>3, Zenon DEF PairOf
<1>5. x \in PairRecord /\ x.pc = s.pc /\ x.e = p.e /\ x.taken = b
  BY ONLY <1>1, <1>4, b \in Pcs \cup {NoBranch} DEF PairRecord
<1> QED BY ONLY <1>2, <1>3, <1>5, Zenon

LEMMA FlowStep ==
  ASSUME NEW s \in VuState, NEW pairs \in Seq(PairRecord), FlowOk(s, pairs, FALSE, TRUE),
         NEW p, PairOk(p), NEW shape, NEW taken \in Pcs \cup {NoBranch}, NEW V,
         NEW w, NEW u, NEW l, NEW t, Stages(s, p, shape, taken, V, w, u, l, t),
         NEW r, r.pc = t.pc, r.branch = t.branch, r.endp = t.endp,
         NEW ended \in BOOLEAN, ended = s.endp, r.running = ~ended,
         ended => ~r.kick.on /\ ~r.qPending
  PROVE  FlowOk(r, LastTwo(pairs, PairOf(s, p, taken)), ended, ~ended)
<1>1. PICK x, q : x = PairOf(s, p, taken) /\ q = LastTwo(pairs, x)
  OBVIOUS
<1>2. /\ x \in PairRecord /\ x.pc = s.pc /\ x.e = p.e
      /\ x.taken = (IF LowOf(p) \in {"branch", "jump"} THEN taken ELSE NoBranch)
  BY <1>1, PairOfIs
<1>3. PICK n \in Nat : n = Len(pairs)
  OBVIOUS
<1>4. /\ n <= 2 /\ (n = 0 => s.branch = NoBranch /\ ~s.endp)
      /\ (n > 0 => s.branch = pairs[n].taken /\ s.endp = pairs[n].e)
  BY <1>3 DEF FlowOk
<1>5. /\ q \in Seq(PairRecord) /\ q[Len(q)] = x
      /\ (n = 0 => Len(q) = 1)
      /\ (n > 0 => Len(q) = 2 /\ q[1] = pairs[n])
  BY <1>1, <1>2, <1>3, <1>4, LastTwoIs
<1>6. /\ r.pc = NextPc(s.pc, s.branch) /\ r.endp = p.e /\ r.branch = x.taken
  <2>1. w.pc = s.pc
    BY DEF Stages, WasReady, SameFlow
  <2>2. u.pc = s.pc /\ u.branch = NoBranch /\ u.endp = p.e
    BY <2>1 DEF Stages, Uppered
  <2>3. l.pc = s.pc /\ l.endp = p.e
        /\ l.branch = (IF LowOf(p) \in {"branch", "jump"} THEN taken ELSE NoBranch)
    BY <2>2 DEF Stages, Lowered
  <2>4. t.pc = NextPc(s.pc, s.branch) /\ t.endp = p.e /\ t.branch = l.branch
    BY <2>3 DEF Stages, WasRetired
  <2> QED BY <1>2, <2>3, <2>4
<1>7. CASE n = 0
  <2>1. Len(q) = 1 /\ q[1] = x /\ s.branch = NoBranch /\ ended = FALSE
    BY <1>4, <1>5, <1>7
  <2>2. r.pc = NextPc(q[1].pc, NoBranch) /\ r.branch = q[1].taken /\ r.endp = q[1].e
    BY ONLY <1>2, <1>6, <2>1, Zenon
  <2>3. ended = (1 >= 2 /\ q[1 - 1].e) /\ (IF 1 >= 2 THEN q[1 - 1].taken ELSE NoBranch) = NoBranch
    BY <2>1
  <2>4. 1 <= 2 /\ 1 # 0 /\ 1 > 0
    OBVIOUS
  <2>5. r.running
    BY <2>1
  <2>6. FlowOk(r, q, ended, ~ended)
    BY ONLY <2>1, <2>2, <2>3, <2>4, <2>5, Zenon DEF FlowOk
  <2> QED BY ONLY <1>1, <2>6, Zenon
<1>8. CASE n > 0
  <2>1. Len(q) = 2 /\ q[2] = x /\ q[1] = pairs[n] /\ s.branch = q[1].taken /\ ended = q[1].e
    BY <1>4, <1>5, <1>8
  <2>2. r.pc = NextPc(q[2].pc, q[1].taken) /\ r.branch = q[2].taken /\ r.endp = q[2].e
    BY ONLY <1>2, <1>6, <2>1, Zenon
  <2>3. 2 <= 2 /\ 2 # 0 /\ 2 > 0 /\ 2 >= 2 /\ 2 - 1 = 1
    OBVIOUS
  <2>4. ended = (2 >= 2 /\ q[2 - 1].e) /\ (IF 2 >= 2 THEN q[2 - 1].taken ELSE NoBranch) = q[1].taken
    <3>1. (2 >= 2) = TRUE
      OBVIOUS
    <3> QED BY ONLY <2>1, <2>3, <3>1, ended \in BOOLEAN, Zenon
  <2>5. FlowOk(r, q, ended, ~ended)
    <3>1. ~ended => r.running
      BY ONLY r.running = ~ended
    <3> QED BY ONLY <2>1, <2>2, <2>3, <2>4, <3>1, ended => ~r.kick.on /\ ~r.qPending, Zenon
         DEF FlowOk
  <2> QED BY ONLY <1>1, <2>5, Zenon
<1> QED BY <1>7, <1>8

-----------------------------------------------------------------------------
(* What the program had stored, and a store more                             *)

LEMMA StoredIs ==
  ASSUME NEW a \in Cells, NEW t \in Nat
  PROVE  StoredOf(past)[a, t] = StoredBefore(a, t)
<1>1. PICK V : V = StoredIn(past.stores, past.mem)
  OBVIOUS
<1>2. V = [x \in Cells \X Nat |-> ReadAt(past.stores, past.mem, x[1], x[2])]
  BY ONLY <1>1 DEF StoredIn
<1>5. PICK x : x = <<a, t>>
  OBVIOUS
<1>6. x \in Cells \X Nat /\ x[1] = a /\ x[2] = t
  BY ONLY <1>5, a \in Cells, t \in Nat
<1>7. V[x] = ReadAt(past.stores, past.mem, x[1], x[2])
  BY ONLY <1>2, <1>6, Zenon
<1>3. V[a, t] = ReadAt(past.stores, past.mem, a, t)
  BY ONLY <1>5, <1>6, <1>7, Zenon
<1>4. ReadAt(past.stores, past.mem, a, t) = StoredBefore(a, t)
  BY ONLY Zenon DEF ReadAt, LastOf, StoresTo, StoredBefore
<1> QED BY ONLY <1>1, <1>3, <1>4, Zenon DEF StoredOf

LEMMA ReadIs ==
  ASSUME NEW stores, NEW mem, NEW a \in Cells, NEW t \in Nat
  PROVE  StoredIn(stores, mem)[a, t] = ReadAt(stores, mem, a, t)
<1>1. PICK V : V = StoredIn(stores, mem)
  OBVIOUS
<1>2. V = [x \in Cells \X Nat |-> ReadAt(stores, mem, x[1], x[2])]
  BY ONLY <1>1 DEF StoredIn
<1>5. PICK x : x = <<a, t>>
  OBVIOUS
<1>6. x \in Cells \X Nat /\ x[1] = a /\ x[2] = t
  BY ONLY <1>5, a \in Cells, t \in Nat
<1>7. V[x] = ReadAt(stores, mem, x[1], x[2])
  BY ONLY <1>2, <1>6, Zenon
<1>3. V[a, t] = ReadAt(stores, mem, a, t)
  BY ONLY <1>5, <1>6, <1>7, Zenon
<1> QED BY ONLY <1>1, <1>3, Zenon

LEMMA StoredMore ==
  ASSUME NEW stores \in Seq(StoreRecord), NEW mem, NEW c \in Nat,
         \A i \in 1..Len(stores) : stores[i].cycle < c,
         NEW x \in StoreRecord, x.cycle = c, NEW now \in [Cells -> Qword], NEW b \in Nat, b <= c,
         \A a \in Cells, t \in Nat : t >= b => StoredIn(stores, mem)[a, t] = now[a]
  PROVE  Extends(StoredIn(Append(stores, x), mem), StoredIn(stores, mem), c,
                 [now EXCEPT ![x.addr] = x.val])
<1>0. Len(stores) \in Nat /\ DOMAIN stores = 1..Len(stores)
  BY ONLY stores \in Seq(StoreRecord)
<1>1. PICK n \in Nat : n = Len(stores) /\ DOMAIN stores = 1..n
  BY ONLY <1>0
<1>2. PICK more : more = Append(stores, x)
  OBVIOUS
<1>3. /\ more \in Seq(StoreRecord) /\ Len(more) = n + 1
      /\ \A j \in 1..n : more[j] = stores[j]
      /\ more[n + 1] = x
  BY ONLY <1>1, <1>2, AppendIs, stores \in Seq(StoreRecord), x \in StoreRecord
<1>4. DOMAIN more = 1..(n + 1)
  BY ONLY <1>3
<1>5. PICK then : then = [now EXCEPT ![x.addr] = x.val]
  OBVIOUS
<1>6. \A a \in Cells : then[a] = IF a = x.addr THEN x.val ELSE now[a]
  BY ONLY <1>5, now \in [Cells -> Qword], x \in StoreRecord DEF StoreRecord
<1>7. SUFFICES ASSUME NEW a \in Cells, NEW t \in Nat
               PROVE  /\ t <= c => StoredIn(more, mem)[a, t] = StoredIn(stores, mem)[a, t]
                      /\ t > c => StoredIn(more, mem)[a, t] = then[a]
  BY <1>2, <1>5, Zenon DEF Extends
<1>8. PICK S, T : S = StoresTo(stores, a, t) /\ T = StoresTo(more, a, t)
  OBVIOUS
<1>9. /\ StoredIn(more, mem)[a, t] = ReadAt(more, mem, a, t)
      /\ StoredIn(stores, mem)[a, t] = ReadAt(stores, mem, a, t)
  BY ONLY ReadIs, a \in Cells, t \in Nat
<1>12. \A i : i \in S <=> i \in 1..n /\ stores[i].addr = a /\ stores[i].cycle < t
  BY ONLY <1>1, <1>8 DEF StoresTo
<1>13. \A i : i \in T <=> i \in 1..(n + 1) /\ more[i].addr = a /\ more[i].cycle < t
  BY ONLY <1>4, <1>8 DEF StoresTo
<1>10. /\ S \in SUBSET Nat
       /\ (S = {} => ReadAt(stores, mem, a, t) = mem[a])
       /\ S # {} => Max(S) \in S /\ ReadAt(stores, mem, a, t) = stores[Max(S)].val
  <2>1. S \in SUBSET Nat /\ \A i \in S : i <= n + 1
    BY ONLY <1>12, n \in Nat
  <2>2. PICK k \in Nat : k = n + 1
    BY ONLY n \in Nat
  <2>3. S # {} => Max(S) \in S
    BY ONLY <2>1, <2>2, BoundedMax
  <2>4. ReadAt(stores, mem, a, t) = IF S = {} THEN mem[a] ELSE stores[Max(S)].val
    BY ONLY <1>8, Zenon DEF ReadAt, LastOf
  <2> QED BY ONLY <2>1, <2>3, <2>4, Zenon
<1>11. /\ T \in SUBSET Nat
       /\ (T = {} => ReadAt(more, mem, a, t) = mem[a])
       /\ T # {} => Max(T) \in T /\ ReadAt(more, mem, a, t) = more[Max(T)].val
  <2>1. T \in SUBSET Nat /\ \A i \in T : i <= n + 1
    BY ONLY <1>13, n \in Nat
  <2>2. PICK k \in Nat : k = n + 1
    BY ONLY n \in Nat
  <2>3. T # {} => Max(T) \in T
    BY ONLY <2>1, <2>2, BoundedMax
  <2>4. ReadAt(more, mem, a, t) = IF T = {} THEN mem[a] ELSE more[Max(T)].val
    BY ONLY <1>8, Zenon DEF ReadAt, LastOf
  <2> QED BY ONLY <2>1, <2>3, <2>4, Zenon
<1>14. \A i \in 1..n : i \in T <=> i \in S
  <2>1. \A i \in 1..n : i \in 1..(n + 1)
    BY ONLY n \in Nat
  <2> QED BY ONLY <1>3, <1>12, <1>13, <2>1, Zenon
<1>15. n + 1 \in T <=> a = x.addr /\ c < t
  <2>1. n + 1 \in 1..(n + 1)
    BY ONLY n \in Nat
  <2>2. n + 1 \in T <=> x.addr = a /\ x.cycle < t
    BY ONLY <1>3, <1>13, <2>1, Zenon
  <2> QED BY ONLY <2>2, x.cycle = c, Zenon
<1>16. \A i \in T : i \in 1..n \/ i = n + 1
  BY ONLY <1>13, n \in Nat
<1>17. \A i \in S : i \in 1..n
  BY ONLY <1>12, Zenon
<1>18. n + 1 \notin T => ReadAt(more, mem, a, t) = ReadAt(stores, mem, a, t)
  <2>1. HAVE n + 1 \notin T
  <2>2. S = T
    BY ONLY <1>14, <1>16, <1>17, <2>1, Zenon
  <2>3. S # {} => more[Max(S)] = stores[Max(S)]
    BY ONLY <1>3, <1>10, <1>17, Zenon
  <2> QED BY ONLY <1>10, <1>11, <2>2, <2>3, Zenon
<1>19. t <= c => n + 1 \notin T
  BY ONLY <1>15, t \in Nat, c \in Nat
<1>20. t > c => t >= b /\ c < t
  BY ONLY t \in Nat, c \in Nat, b \in Nat, b <= c
<1>21. t > c => ReadAt(stores, mem, a, t) = now[a]
  BY ONLY <1>9, <1>20, Zenon, a \in Cells, t \in Nat,
     \A d \in Cells, e \in Nat : e >= b => StoredIn(stores, mem)[d, e] = now[d]
<1>22. n + 1 \in T => ReadAt(more, mem, a, t) = x.val
  <2>1. HAVE n + 1 \in T
  <2>2. \A i \in T : i <= n + 1
    BY ONLY <1>13, n \in Nat
  <2>3. T \in SUBSET Int
    BY ONLY <1>11
  <2>4. PICK k \in Int : k = n + 1
    BY ONLY n \in Nat
  <2>5. Max(T) = n + 1
    BY ONLY <2>1, <2>2, <2>3, <2>4, MaxIs
  <2>6. T # {}
    BY ONLY <2>1
  <2> QED BY ONLY <1>3, <1>11, <2>5, <2>6, Zenon
<1>23. t > c => ReadAt(more, mem, a, t) = then[a]
  BY ONLY <1>6, <1>15, <1>18, <1>20, <1>21, <1>22, a \in Cells, Zenon
<1> QED BY ONLY <1>9, <1>18, <1>19, <1>23, Zenon

-----------------------------------------------------------------------------
(* What a pair adds to the history                                           *)

WithPast(h, macs, divs, vis, stores, kicks, pairs) ==
  [h EXCEPT !.macs = macs, !.divs = divs, !.vis = vis, !.stores = stores, !.kicks = kicks,
            !.pairs = pairs]
IsPast(r, h, macs, divs, vis, stores, kicks, pairs) ==
  /\ r \in PastState
  /\ r.macs = macs /\ r.divs = divs /\ r.vis = vis /\ r.stores = stores /\ r.kicks = kicks
  /\ r.pairs = pairs /\ r.mem = h.mem /\ r.ended = h.ended /\ r.start = h.start
  /\ r.mac = h.mac /\ r.runs = h.runs

LEMMA WithPastIs ==
  ASSUME NEW h \in PastState, NEW macs \in SUBSET Nat, NEW divs \in SUBSET Nat,
         NEW vis \in SUBSET ViRecord, NEW stores \in Seq(StoreRecord), NEW kicks \in Nat,
         NEW pairs \in Seq(PairRecord)
  PROVE  IsPast(WithPast(h, macs, divs, vis, stores, kicks, pairs), h,
                macs, divs, vis, stores, kicks, pairs)
<1>1. PICK r : r = WithPast(h, macs, divs, vis, stores, kicks, pairs)
  OBVIOUS
<1>2. r \in PastState
  BY <1>1 DEF PastState, WithPast
<1>3. /\ r.macs = macs /\ r.divs = divs /\ r.vis = vis /\ r.stores = stores /\ r.kicks = kicks
      /\ r.pairs = pairs
  BY <1>1 DEF PastState, WithPast
<1>4. /\ r.mem = h.mem /\ r.ended = h.ended /\ r.start = h.start
      /\ r.mac = h.mac /\ r.runs = h.runs
  BY <1>1 DEF PastState, WithPast
<1> QED BY ONLY <1>1, <1>2, <1>3, <1>4, Zenon DEF IsPast

LEMMA PastTypes ==
  ASSUME NEW h \in PastState
  PROVE  /\ h.macs \in SUBSET Nat /\ h.divs \in SUBSET Nat /\ h.vis \in SUBSET ViRecord
         /\ h.stores \in Seq(StoreRecord) /\ h.pairs \in Seq(PairRecord)
         /\ h.mem \in [Cells -> Qword] /\ h.ended \in BOOLEAN /\ h.start \in Nat
         /\ h.mac \in Nat /\ h.runs \in Nat /\ h.kicks \in Nat
BY DEF PastState

(* A store, as the history has it.                                           *)
StoreOf(c, p, vf, shape) == [cycle |-> c, addr |-> p.a, val |-> StoredBy(p, vf, shape)]
Stores2(stores, c, p, vf, shape) ==
  IF LowOf(p) = "store" THEN Append(stores, StoreOf(c, p, vf, shape)) ELSE stores
Kicks2(kicks, low) == IF low = "kick" THEN kicks + 1 ELSE kicks

LEMMA StoreOfIs ==
  ASSUME NEW s \in VuState, NEW p, PairOk(p), LowOf(p) = "store", NEW c \in Nat,
         NEW shape \in Shape
  PROVE  LET x == StoreOf(c, p, s.vf, shape)
         IN  /\ x \in StoreRecord /\ x.cycle = c /\ x.addr = p.a
             /\ x.val = StoredBy(p, s.vf, shape)
<1>1. p.r \in Vf /\ p.a \in Cells
  BY DEF PairOk, Pair, WellFormed, LowOf, Cells
<1>2. s.vf[p.r] \in Nat
  BY <1>1, VuTypes
<1>3. PICK v : v = StoredBy(p, s.vf, shape)
  OBVIOUS
<1>4. v \in Qword
  BY ONLY <1>2, <1>3, shape \in Shape DEF StoredBy, Qword, Shape
<1>5. PICK x : x = StoreOf(c, p, s.vf, shape)
  OBVIOUS
<1>6. x = [cycle |-> c, addr |-> p.a, val |-> v]
  BY ONLY <1>3, <1>5, Zenon DEF StoreOf
<1>7. x \in StoreRecord /\ x.cycle = c /\ x.addr = p.a /\ x.val = v
  BY ONLY <1>1, <1>4, <1>6, c \in Nat DEF StoreRecord
<1> QED BY ONLY <1>3, <1>5, <1>7, Zenon

LEMMA RememberIs ==
  ASSUME vu \in VuState, past \in PastState, NEW p, PairOk(p), NEW shape \in Shape,
         NEW taken \in Pcs \cup {NoBranch}, Len(past.pairs) <= 2,
         NEW c \in Nat, c = Issued(vu, p)
  PROVE  IsPast(Remember(vu, p, shape, taken), past,
                Marked(past.macs, p.up, c), Divided(past.divs, LowOf(p), c),
                Kept2(past.vis, LowOf(p), c, p.r, vu.vi[p.r]),
                Stores2(past.stores, c, p, vu.vf, shape), Kicks2(past.kicks, LowOf(p)),
                LastTwo(past.pairs, PairOf(vu, p, taken)))
<1>1. PICK M : M = Marked(past.macs, p.up, c)
  OBVIOUS
<1>2. PICK D : D = Divided(past.divs, LowOf(p), c)
  OBVIOUS
<1>3. PICK W : W = Kept2(past.vis, LowOf(p), c, p.r, vu.vi[p.r])
  OBVIOUS
<1>4. PICK S : S = Stores2(past.stores, c, p, vu.vf, shape)
  OBVIOUS
<1>5. PICK k : k = Kicks2(past.kicks, LowOf(p))
  OBVIOUS
<1>6. PICK q : q = LastTwo(past.pairs, PairOf(vu, p, taken))
  OBVIOUS
<1>7. Remember(vu, p, shape, taken) = WithPast(past, M, D, W, S, k, q)
  BY ONLY <1>1, <1>2, <1>3, <1>4, <1>5, <1>6, c = Issued(vu, p), Zenon
  DEF Remember, WithPast, Marked, Divided, Kept2, Stores2, Kicks2, LastTwo, PairOf, LowOf,
      StoreOf, StoredBy
<1>8. M \in SUBSET Nat
  BY <1>1, PastTypes DEF Marked, Since
<1>9. D \in SUBSET Nat
  BY <1>2, PastTypes DEF Divided, Since
<1>10. W \in SUBSET ViRecord
  <2>1. CASE LowOf(p) = "vi"
    <3>1. p.r \in Vi
      BY <2>1 DEF PairOk, WellFormed, LowOf
    <3>2. vu.vi[p.r] \in Nat
      BY <3>1, VuTypes
    <3>3. [cycle |-> c, reg |-> p.r, before |-> vu.vi[p.r]] \in ViRecord
      BY ONLY <3>1, <3>2, c \in Nat DEF ViRecord
    <3>4. past.vis \in SUBSET ViRecord
      BY PastTypes
    <3> QED BY ONLY <1>3, <2>1, <3>3, <3>4, Zenon DEF Kept2
  <2>2. CASE LowOf(p) # "vi"
    BY <1>3, <2>2, PastTypes, Zenon DEF Kept2
  <2> QED BY <2>1, <2>2
<1>11. S \in Seq(StoreRecord)
  <2>1. past.stores \in Seq(StoreRecord)
    BY PastTypes
  <2>2. CASE LowOf(p) = "store"
    <3>1. PICK x : x = StoreOf(c, p, vu.vf, shape)
      OBVIOUS
    <3>2. x \in StoreRecord
      BY <2>2, <3>1, StoreOfIs
    <3>3. S = Append(past.stores, x)
      BY ONLY <1>4, <2>2, <3>1, Zenon DEF Stores2
    <3> QED BY ONLY <2>1, <3>2, <3>3, AppendIs
  <2>3. CASE LowOf(p) # "store"
    BY ONLY <1>4, <2>1, <2>3, Zenon DEF Stores2
  <2> QED BY <2>2, <2>3
<1>12. k \in Nat
  BY <1>5, PastTypes DEF Kicks2
<1>13. q \in Seq(PairRecord)
  <2>1. PICK x : x = PairOf(vu, p, taken)
    OBVIOUS
  <2>2. x \in PairRecord
    BY <2>1, PairOfIs
  <2>3. past.pairs \in Seq(PairRecord)
    BY PastTypes
  <2> QED BY ONLY <1>6, <2>1, <2>2, <2>3, Len(past.pairs) <= 2, LastTwoIs
<1>14. IsPast(WithPast(past, M, D, W, S, k, q), past, M, D, W, S, k, q)
  BY ONLY <1>8, <1>9, <1>10, <1>11, <1>12, <1>13, past \in PastState, WithPastIs
<1> QED BY ONLY <1>1, <1>2, <1>3, <1>4, <1>5, <1>6, <1>7, <1>14, Zenon

-----------------------------------------------------------------------------
(* At first                                                                  *)

LEMMA NothingStored ==
  ASSUME NEW mem, NEW a \in Cells, NEW t \in Nat
  PROVE  StoredIn(<<>>, mem)[a, t] = mem[a]
<1>1. PICK e : e = <<>>
  OBVIOUS
<1>2. DOMAIN <<>> = {}
  OBVIOUS
<1>3. StoresTo(e, a, t) = {}
  BY ONLY <1>1, <1>2, Zenon DEF StoresTo
<1>4. ReadAt(e, mem, a, t) = mem[a]
  BY ONLY <1>3, Zenon DEF ReadAt, LastOf
<1>5. StoredIn(e, mem)[a, t] = ReadAt(e, mem, a, t)
  BY ONLY ReadIs, a \in Cells, t \in Nat
<1> QED BY ONLY <1>1, <1>4, <1>5, Zenon

LEMMA NoneSent ==
  ASSUME NEW s \in VuState, s.packets = <<>>, NEW V,
         s.kick.on => Open(s.kick, V, s.cycles) /\ Seen(s.kick, s.mem, V)
  PROVE  Sent(s, V) /\ Kicks(s) = s.rejected + (IF s.kick.on THEN 1 ELSE 0)
<1>1. \A i \in 1..Len(<<>>) : FALSE
  OBVIOUS
<1>2. \A i \in 1..Len(s.packets) : FALSE
  BY ONLY <1>1, s.packets = <<>>, Zenon
<1>3. Sent(s, V)
  BY ONLY <1>2, s \in VuState, Zenon,
     s.kick.on => Open(s.kick, V, s.cycles) /\ Seen(s.kick, s.mem, V) DEF Sent
<1>4. {i \in 1..Len(s.packets) : s.packets[i][1].val.eop} = {}
  BY ONLY <1>2, Zenon
<1>5. EopCount(s.packets) = 0
  BY ONLY <1>4, FS_EmptySet, Zenon DEF EopCount
<1>6. PICK n \in Nat : n = s.rejected
  BY VuTypes
<1>7. Kicks(s) = n + (IF s.kick.on THEN 1 ELSE 0) + 0
  BY ONLY <1>5, <1>6, Zenon DEF Kicks
<1>8. PICK k \in Nat : k = IF s.kick.on THEN 1 ELSE 0
  OBVIOUS
<1>9. n + k + 0 = n + k
  BY ONLY n \in Nat, k \in Nat
<1> QED BY ONLY <1>3, <1>6, <1>7, <1>8, <1>9, Zenon

Begins(mem) ==
  [cycles |-> 1, pc |-> 0, running |-> FALSE, branch |-> NoBranch, endp |-> FALSE,
   vf |-> [r \in Vf |-> Zero], ready |-> [r \in Vf |-> 0],
   vi |-> [r \in Vi |-> Zero], old |-> [reg |-> None, val |-> Zero, ready |-> 0],
   q |-> Zero, pendingQ |-> Zero, qReady |-> 0, qPending |-> FALSE,
   mac |-> Zero, pipe |-> [i \in 1..4 |-> Zero], mem |-> mem,
   kick |-> Idle, packets |-> <<>>, rejected |-> 0]
BeginsPast(mem) ==
  [macs |-> {Zero}, divs |-> {Zero}, vis |-> {}, stores |-> <<>>, pairs |-> <<>>,
   mem |-> mem, ended |-> FALSE, start |-> 1, mac |-> Zero, runs |-> 0, kicks |-> 0]

LEMMA BeginsIs ==
  ASSUME NEW mem \in [Cells -> Qword]
  PROVE  LET s == Begins(mem)
         IN  /\ s \in VuState /\ s.cycles = 1 /\ s.branch = NoBranch /\ ~s.endp
             /\ s.q = 0 /\ ~s.qPending /\ s.mac = 0 /\ s.pipe = [i \in 1..4 |-> 0]
             /\ s.mem = mem /\ ~s.kick.on /\ s.packets = <<>> /\ s.rejected = 0
<1>1. Zero = 0 /\ 0 \in Pcs /\ 0 \in Cells /\ NoBranch \in Pcs \cup {NoBranch}
  BY SizeAssumption DEF Zero, Pcs, Cells
<1>2. PICK k : k = Idle
  OBVIOUS
<1>3. k \in KickState /\ ~k.on
  <2>1. PICK e : e = <<>>
    OBVIOUS
  <2>2. e \in Seq(Item)
    BY ONLY <2>1
  <2>3. k = [on |-> FALSE, addr |-> 0, due |-> 0, tags |-> 0, left |-> 0, eop |-> FALSE,
             packet |-> e]
    BY ONLY <1>2, <2>1, Zenon DEF Idle
  <2> QED BY ONLY <1>1, <2>2, <2>3 DEF KickState
<1>4. PICK o : o = [reg |-> None, val |-> 0, ready |-> 0]
  OBVIOUS
<1>5. o \in OldState
  BY ONLY <1>4 DEF OldState
<1>6. PICK f : f = [r \in Vf |-> 0]
  OBVIOUS
<1>7. PICK g : g = [r \in Vi |-> 0]
  OBVIOUS
<1>8. PICK d : d = [i \in 1..4 |-> 0]
  OBVIOUS
<1>9. f \in [Vf -> Nat] /\ g \in [Vi -> Nat] /\ d \in [1..4 -> Nat]
  BY ONLY <1>6, <1>7, <1>8
<1>10. PICK e : e = <<>>
  OBVIOUS
<1>11. e \in Seq(Seq(Item))
  BY ONLY <1>10
<1>12. PICK s : s = Begins(mem)
  OBVIOUS
<1>13. s = [cycles |-> 1, pc |-> 0, running |-> FALSE, branch |-> NoBranch, endp |-> FALSE,
            vf |-> f, ready |-> f, vi |-> g, old |-> o,
            q |-> 0, pendingQ |-> 0, qReady |-> 0, qPending |-> FALSE,
            mac |-> 0, pipe |-> d, mem |-> mem, kick |-> k, packets |-> e, rejected |-> 0]
  BY ONLY <1>1, <1>2, <1>4, <1>6, <1>7, <1>8, <1>10, <1>12, Zenon DEF Begins
<1>14. s \in VuState
  BY ONLY <1>1, <1>3, <1>5, <1>9, <1>11, <1>13, mem \in [Cells -> Qword] DEF VuState
<1>15. /\ s.cycles = 1 /\ s.branch = NoBranch /\ s.endp = FALSE
       /\ s.q = 0 /\ s.qPending = FALSE /\ s.mac = 0 /\ s.pipe = d
       /\ s.mem = mem /\ s.kick = k /\ s.packets = e /\ s.rejected = 0
  BY ONLY <1>13
<1> QED BY ONLY <1>3, <1>8, <1>10, <1>12, <1>14, <1>15, Zenon

LEMMA BeginsPastIs ==
  ASSUME NEW mem \in [Cells -> Qword]
  PROVE  LET h == BeginsPast(mem)
         IN  /\ h \in PastState /\ h.macs = {0} /\ h.divs = {0} /\ h.stores = <<>>
             /\ h.pairs = <<>> /\ h.mem = mem /\ ~h.ended /\ h.start = 1 /\ h.mac = 0
             /\ h.kicks = 0
<1>1. PICK e : e = <<>>
  OBVIOUS
<1>2. PICK d : d = {0}
  OBVIOUS
<1>3. PICK w : w = {}
  OBVIOUS
<1>4. e \in Seq(StoreRecord) /\ e \in Seq(PairRecord)
  BY ONLY <1>1
<1>5. d \in SUBSET Nat /\ w \in SUBSET ViRecord
  BY ONLY <1>2, <1>3
<1>6. PICK h : h = BeginsPast(mem)
  OBVIOUS
<1>7. h = [macs |-> d, divs |-> d, vis |-> w, stores |-> e, pairs |-> e,
           mem |-> mem, ended |-> FALSE, start |-> 1, mac |-> 0, runs |-> 0, kicks |-> 0]
  BY ONLY <1>1, <1>2, <1>3, <1>6, Zenon DEF BeginsPast, Zero
<1>8. h \in PastState
  BY ONLY <1>4, <1>5, <1>7, mem \in [Cells -> Qword] DEF PastState
<1>9. /\ h.macs = d /\ h.divs = d /\ h.stores = e /\ h.pairs = e /\ h.mem = mem
      /\ h.ended = FALSE /\ h.start = 1 /\ h.mac = 0 /\ h.kicks = 0
  BY ONLY <1>7
<1> QED BY ONLY <1>1, <1>2, <1>6, <1>8, <1>9, Zenon

LEMMA InitInv ==
  Init => Inv
<1>1. SUFFICES ASSUME Init PROVE Inv
  OBVIOUS
<1>2. PICK m \in Menus : LET mem == [a \in DOMAIN m.tags |->
                                     [ver |-> Zero, n |-> m.tags[a].n, eop |-> m.tags[a].eop]]
                         IN  menu = m /\ vu = Begins(mem) /\ past = BeginsPast(mem) /\ inRun = FALSE
  BY <1>1, Zenon DEF Init, Begins, BeginsPast
<1>3. PICK mem : mem = [a \in DOMAIN m.tags |->
                        [ver |-> Zero, n |-> m.tags[a].n, eop |-> m.tags[a].eop]]
  OBVIOUS
<1>4. mem \in [Cells -> Qword]
  <2>1. m.tags \in [Cells -> Shapes] /\ Shapes \subseteq [n : Nat, eop : BOOLEAN]
    BY SizeAssumption DEF Cells
  <2>2. DOMAIN m.tags = Cells
    BY ONLY <2>1
  <2>3. mem = [a \in Cells |-> [ver |-> 0, n |-> m.tags[a].n, eop |-> m.tags[a].eop]]
    BY ONLY <1>3, <2>2, Zenon DEF Zero
  <2>4. SUFFICES ASSUME NEW a \in Cells
                 PROVE  [ver |-> 0, n |-> m.tags[a].n, eop |-> m.tags[a].eop] \in Qword
    BY ONLY <2>3, <2>4
  <2>5. m.tags[a] \in [n : Nat, eop : BOOLEAN]
    BY ONLY <2>1, a \in Cells
  <2> QED BY ONLY <2>5 DEF Qword
<1>5. vu = Begins(mem) /\ past = BeginsPast(mem) /\ inRun = FALSE /\ menu \in Menus
  BY <1>2, <1>3, Zenon
<1>6. PICK s, h : s = vu /\ h = past
  OBVIOUS
<1>7. /\ s \in VuState /\ s.cycles = 1 /\ s.branch = NoBranch /\ ~s.endp
      /\ s.q = 0 /\ ~s.qPending /\ s.mac = 0 /\ s.pipe = [i \in 1..4 |-> 0]
      /\ s.mem = mem /\ ~s.kick.on /\ s.packets = <<>> /\ s.rejected = 0
  BY ONLY <1>4, <1>5, <1>6, BeginsIs
<1>8. /\ h \in PastState /\ h.macs = {0} /\ h.divs = {0} /\ h.stores = <<>>
      /\ h.pairs = <<>> /\ h.mem = mem /\ ~h.ended /\ h.start = 1 /\ h.mac = 0
      /\ h.kicks = 0
  BY ONLY <1>4, <1>5, <1>6, BeginsPastIs
<1>9. TypeInv
  BY ONLY <1>5, <1>6, <1>7, <1>8 DEF TypeInv
<1>10. SentPast(s, h)
  <2>1. PICK V : V = StoredOf(h)
    OBVIOUS
  <2>2. Sent(s, V) /\ Kicks(s) = 0
    BY ONLY <1>7, NoneSent
  <2>3. MemNow(s, V)
    <3>1. \A a \in Cells, t \in Nat : V[a, t] = mem[a]
      <4>1. V = StoredIn(<<>>, mem)
        BY ONLY <1>8, <2>1, Zenon DEF StoredOf
      <4> QED BY ONLY <4>1, NothingStored, Zenon
    <3> QED BY ONLY <1>7, <3>1, Zenon DEF MemNow
  <2>4. \A i \in 1..Len(h.stores) : h.stores[i].cycle < s.cycles
    <3>1. \A i \in 1..Len(<<>>) : FALSE
      OBVIOUS
    <3> QED BY ONLY <1>8, <3>1, Zenon
  <2> QED BY ONLY <1>8, <2>1, <2>2, <2>3, <2>4, Zenon DEF SentPast
<1>11. QOk(s, h.divs)
  <2>1. Division(0, FALSE, s.pendingQ, s.qReady, 1, {0})
    BY ONLY DEF Division
  <2>2. s.qPending = FALSE
    BY <1>7, VuTypes
  <2> QED BY ONLY <1>7, <1>8, <2>1, <2>2, Zenon DEF QOk
<1>12. FlagsOk(s, h.macs, h.start, h.mac)
  <2>1. PICK d : d = [i \in 1..4 |-> 0]
    OBVIOUS
  <2>2. Flags(d, 0, 1, {0}, 1, 0)
    BY ONLY <2>1 DEF Flags
  <2> QED BY ONLY <1>7, <1>8, <2>1, <2>2, Zenon DEF FlagsOk
<1>13. FlowOk(s, h.pairs, h.ended, FALSE)
  <2>1. Len(<<>>) = 0 /\ 0 <= 2 /\ ~(0 > 0)
    OBVIOUS
  <2>2. Len(h.pairs) = 0
    BY ONLY <1>8, <2>1, Zenon
  <2> QED BY ONLY <1>8, <2>1, <2>2, Zenon DEF FlowOk
<1> QED BY ONLY <1>5, <1>6, <1>9, <1>10, <1>11, <1>12, <1>13, Zenon
        DEF Inv, SentInv, QInv, FlagsInv, OldInv, FlowInv

-----------------------------------------------------------------------------
(* A program begins                                                          *)

BegunAt(s, pc) ==
  [s EXCEPT !.pc = pc, !.running = TRUE, !.branch = NoBranch, !.endp = FALSE,
            !.old.ready = 0, !.pipe = [i \in 1..4 |-> s.mac], !.packets = <<>>]

LEMMA BegunAtIs ==
  ASSUME NEW s \in VuState, NEW pc \in Pcs
  PROVE  LET r == BegunAt(s, pc)
         IN  /\ r \in VuState /\ r.cycles = s.cycles /\ r.mem = s.mem /\ SameQ(r, s)
             /\ r.mac = s.mac /\ r.pipe = [i \in 1..4 |-> s.mac]
             /\ r.running /\ r.branch = NoBranch /\ ~r.endp /\ r.old.ready = 0
             /\ r.packets = <<>> /\ r.kick = s.kick /\ r.rejected = s.rejected
<1>1. s.old \in OldState /\ s.mac \in Nat
  BY VuTypes
<1>2. PICK o : o = [s.old EXCEPT !.ready = 0]
  OBVIOUS
<1>3. o \in OldState /\ o.ready = 0
  BY ONLY <1>1, <1>2 DEF OldState
<1>4. PICK d : d = [i \in 1..4 |-> s.mac]
  OBVIOUS
<1>5. d \in [1..4 -> Nat]
  BY ONLY <1>1, <1>4
<1>6. PICK e : e = <<>>
  OBVIOUS
<1>7. e \in Seq(Seq(Item))
  BY ONLY <1>6
<1>8. PICK b \in Pcs \cup {NoBranch} : b = NoBranch
  OBVIOUS
<1>9. PICK r : r = BegunAt(s, pc)
  OBVIOUS
<1>10. r = [s EXCEPT !.pc = pc, !.running = TRUE, !.branch = b, !.endp = FALSE,
                     !.old = o, !.pipe = d, !.packets = e]
  BY ONLY <1>2, <1>4, <1>6, <1>8, <1>9, s \in VuState DEF BegunAt, VuState
<1>11. r \in VuState
  BY ONLY <1>3, <1>5, <1>7, <1>10, s \in VuState, pc \in Pcs, b \in Pcs \cup {NoBranch} DEF VuState
<1>12. /\ r.cycles = s.cycles /\ r.mem = s.mem /\ SameQ(r, s) /\ r.mac = s.mac /\ r.pipe = d
       /\ r.running = TRUE /\ r.branch = b /\ r.endp = FALSE /\ r.old = o
       /\ r.packets = e /\ r.kick = s.kick /\ r.rejected = s.rejected
  BY ONLY <1>10, s \in VuState DEF VuState, SameQ
<1> QED BY ONLY <1>3, <1>4, <1>6, <1>8, <1>9, <1>11, <1>12, Zenon

AtStart(h, start, mac, kicks) ==
  [h EXCEPT !.vis = {}, !.pairs = <<>>, !.ended = FALSE, !.start = start, !.mac = mac,
            !.runs = @ + 1, !.kicks = kicks]

IsAtStart(r, h, start, mac, kicks) ==
  /\ r \in PastState /\ r.vis = {} /\ r.pairs = <<>> /\ ~r.ended /\ r.start = start
  /\ r.mac = mac /\ r.kicks = kicks /\ r.macs = h.macs /\ r.divs = h.divs
  /\ r.stores = h.stores /\ r.mem = h.mem

LEMMA AtStartIs ==
  ASSUME NEW h \in PastState, NEW start \in Nat, NEW mac \in Nat, NEW kicks \in Nat
  PROVE  IsAtStart(AtStart(h, start, mac, kicks), h, start, mac, kicks)
<1>1. PICK e : e = <<>>
  OBVIOUS
<1>2. e \in Seq(PairRecord)
  BY ONLY <1>1
<1>3. PICK w : w = {}
  OBVIOUS
<1>4. w \in SUBSET ViRecord
  BY ONLY <1>3
<1>5. PICK n \in Nat : n = h.runs + 1
  BY PastTypes
<1>6. PICK r : r = AtStart(h, start, mac, kicks)
  OBVIOUS
<1>7. r = [h EXCEPT !.vis = w, !.pairs = e, !.ended = FALSE, !.start = start, !.mac = mac,
                    !.runs = n, !.kicks = kicks]
  BY ONLY <1>1, <1>3, <1>5, <1>6, Zenon DEF AtStart
<1>8. r \in PastState
  BY ONLY <1>2, <1>4, <1>7, h \in PastState, start \in Nat, mac \in Nat, kicks \in Nat, n \in Nat
  DEF PastState
<1>9. /\ r.vis = w /\ r.pairs = e /\ r.ended = FALSE /\ r.start = start
      /\ r.mac = mac /\ r.kicks = kicks /\ r.macs = h.macs /\ r.divs = h.divs
      /\ r.stores = h.stores /\ r.mem = h.mem
  BY ONLY <1>7, h \in PastState DEF PastState
<1> QED BY ONLY <1>1, <1>3, <1>6, <1>8, <1>9, Zenon DEF IsAtStart

LEMMA BeginInv ==
  ASSUME Inv, NEW pc \in Pcs, Begin(pc)
  PROVE  Inv'
<1>1. PICK s, h, r, g : s = vu /\ h = past /\ r = vu' /\ g = past'
  OBVIOUS
<1>2. /\ s \in VuState /\ h \in PastState /\ menu \in Menus
      /\ SentPast(s, h) /\ QOk(s, h.divs) /\ FlagsOk(s, h.macs, h.start, h.mac)
  BY <1>1 DEF Inv, TypeInv, SentInv, QInv, FlagsInv
<1>3. r = BegunAt(s, pc) /\ inRun' = TRUE /\ menu' = menu
      /\ g = AtStart(h, s.cycles, s.mac, s.rejected + (IF s.kick.on THEN 1 ELSE 0))
  BY <1>1, Zenon DEF Begin, BegunAt, AtStart
<1>4. /\ r \in VuState /\ r.cycles = s.cycles /\ r.mem = s.mem /\ SameQ(r, s)
      /\ r.mac = s.mac /\ r.pipe = [i \in 1..4 |-> s.mac]
      /\ r.running /\ r.branch = NoBranch /\ ~r.endp /\ r.old.ready = 0
      /\ r.packets = <<>> /\ r.kick = s.kick /\ r.rejected = s.rejected
  BY ONLY <1>2, <1>3, BegunAtIs, pc \in Pcs
<1>5. s.cycles \in Nat /\ s.mac \in Nat /\ s.rejected \in Nat
  BY <1>2, VuTypes
<1>6. PICK k \in Nat : k = s.rejected + (IF s.kick.on THEN 1 ELSE 0)
  BY ONLY <1>5
<1>7. /\ g \in PastState /\ g.vis = {} /\ g.pairs = <<>> /\ ~g.ended /\ g.start = s.cycles
      /\ g.mac = s.mac /\ g.kicks = k /\ g.macs = h.macs /\ g.divs = h.divs
      /\ g.stores = h.stores /\ g.mem = h.mem
  <2>1. PICK c \in Nat, m \in Nat : c = s.cycles /\ m = s.mac
    BY ONLY <1>5
  <2>2. g = AtStart(h, c, m, k)
    BY ONLY <1>3, <1>6, <2>1, Zenon
  <2>3. /\ g \in PastState /\ g.vis = {} /\ g.pairs = <<>> /\ ~g.ended /\ g.start = c
        /\ g.mac = m /\ g.kicks = k /\ g.macs = h.macs /\ g.divs = h.divs
        /\ g.stores = h.stores /\ g.mem = h.mem
    <3>1. h \in PastState
      BY ONLY <1>2, Zenon
    <3>2. IsAtStart(AtStart(h, c, m, k), h, c, m, k)
      BY ONLY <3>1, AtStartIs, c \in Nat, m \in Nat, k \in Nat
    <3> QED BY ONLY <2>2, <3>2, Zenon DEF IsAtStart
  <2> QED BY ONLY <2>1, <2>3, Zenon
<1>8. SentPast(r, g)
  <2>1. PICK V : V = StoredOf(h)
    OBVIOUS
  <2>2. V = StoredOf(g)
    BY ONLY <1>7, <2>1, Zenon DEF StoredOf
  <2>3. Sent(s, V) /\ MemNow(s, V) /\ \A i \in 1..Len(h.stores) : h.stores[i].cycle < s.cycles
    BY ONLY <1>2, <2>1, Zenon DEF SentPast
  <2>4. r.kick.on => Open(r.kick, V, r.cycles) /\ Seen(r.kick, r.mem, V)
    BY ONLY <1>4, <2>3, Zenon DEF Sent
  <2>5. Sent(r, V) /\ Kicks(r) = r.rejected + (IF r.kick.on THEN 1 ELSE 0)
    BY ONLY <1>4, <2>4, NoneSent
  <2>6. Kicks(r) = g.kicks
    BY ONLY <1>4, <1>6, <1>7, <2>5, Zenon
  <2>7. MemNow(r, V)
    BY ONLY <1>4, <2>3, Zenon DEF MemNow
  <2>8. \A i \in 1..Len(g.stores) : g.stores[i].cycle < r.cycles
    BY ONLY <1>4, <1>7, <2>3, Zenon
  <2> QED BY ONLY <2>2, <2>5, <2>6, <2>7, <2>8, Zenon DEF SentPast
<1>9. QOk(r, g.divs)
  BY ONLY <1>2, <1>4, <1>7, Zenon DEF QOk, SameQ
<1>10. FlagsOk(r, g.macs, g.start, g.mac)
  <2>1. PICK d : d = [i \in 1..4 |-> s.mac]
    OBVIOUS
  <2>2. PICK c \in Nat, m \in Nat : c = s.cycles /\ m = s.mac
    BY ONLY <1>5
  <2>3. PICK M, b, m0 : M = h.macs /\ b = h.start /\ m0 = h.mac
    OBVIOUS
  <2>4. Flags(s.pipe, m, c, M, b, m0)
    BY ONLY <1>2, <2>2, <2>3, Zenon DEF FlagsOk
  <2>5. M \in SUBSET Nat /\ m \in M /\ (\A x \in M : x <= m) /\ m <= c
    BY ONLY <2>4, Zenon DEF Flags
  <2>6. \A i \in 1..4 : d[i] = m /\ c - 5 + i < c
    BY ONLY <2>1, <2>2, c \in Nat
  <2>7. c <= c
    BY ONLY c \in Nat
  <2>8. Flags(d, m, c, M, c, m)
    BY ONLY <2>5, <2>6, <2>7, c \in Nat, Zenon DEF Flags
  <2> QED BY ONLY <1>4, <1>7, <2>1, <2>2, <2>3, <2>8, Zenon DEF FlagsOk
<1>11. OldOk(r, g.vis)
  <2>1. PICK c \in Nat : c = s.cycles
    BY ONLY <1>5
  <2>5. PICK o : o = r.old
    OBVIOUS
  <2>2. PICK e : e = {}
    OBVIOUS
  <2>3. o.ready = 0
    BY ONLY <1>4, <2>5, Zenon
  <2>4. Kept(o, c, e)
    BY ONLY <2>2, <2>3, c \in Nat DEF Kept
  <2> QED BY ONLY <1>4, <1>7, <2>1, <2>2, <2>4, <2>5, Zenon DEF OldOk
<1>12. FlowOk(r, g.pairs, g.ended, TRUE)
  <2>1. Len(<<>>) = 0 /\ 0 <= 2 /\ ~(0 > 0)
    OBVIOUS
  <2>2. Len(g.pairs) = 0
    BY ONLY <1>7, <2>1, Zenon
  <2> QED BY ONLY <1>4, <1>7, <2>1, <2>2, Zenon DEF FlowOk
<1>13. TypeInv'
  BY ONLY <1>1, <1>2, <1>3, <1>4, <1>7, Zenon DEF TypeInv
<1> QED BY ONLY <1>1, <1>3, <1>8, <1>9, <1>10, <1>11, <1>12, <1>13, Zenon
        DEF Inv, SentInv, QInv, FlagsInv, OldInv, FlowInv

-----------------------------------------------------------------------------
(* A pair runs                                                               *)

(* The store of a pair, at its issue.                                        *)
LEMMA StoreAdds ==
  ASSUME NEW s \in VuState, NEW h \in PastState, SentPast(s, h), NEW p, PairOk(p),
         NEW shape \in Shape, NEW taken, NEW V, V = StoredOf(h), NEW w, NEW u, NEW l, NEW t,
         Stages(s, p, shape, taken, V, w, u, l, t), NEW c \in Nat, c = Issued(s, p),
         s.cycles <= c, c < t.cycles, NEW S, S = Stores2(h.stores, c, p, s.vf, shape),
         NEW V2, V2 = StoredIn(S, h.mem)
  PROVE  /\ LowOf(p) # "store" => V2 = V
         /\ LowOf(p) = "store" => Extends(V2, V, c, l.mem)
         /\ \A i \in 1..Len(S) : S[i].cycle < t.cycles
<1>1. PICK Q, m, e : Q = h.stores /\ m = h.mem /\ e = t.cycles
  OBVIOUS
<1>2. Q \in Seq(StoreRecord)
  BY ONLY <1>1, PastTypes, h \in PastState
<1>3. PICK b \in Nat : b = s.cycles
  BY VuTypes
<1>4. V = StoredIn(Q, m) /\ V2 = StoredIn(S, m)
  BY ONLY <1>1, V = StoredOf(h), V2 = StoredIn(S, h.mem), Zenon DEF StoredOf
<1>5. \A i \in 1..Len(Q) : Q[i].cycle < b
  BY ONLY <1>1, <1>3, SentPast(s, h), Zenon DEF SentPast
<1>6. b <= c /\ c < e /\ e \in Nat
  <2>1. t \in VuState
    BY DEF Stages, WasRetired
  <2>2. t.cycles \in Nat
    BY ONLY <2>1, VuTypes
  <2> QED BY ONLY <1>1, <1>3, <2>2, s.cycles <= c, c < t.cycles, Zenon
<1>7. \A i \in 1..Len(Q) : Q[i] \in StoreRecord
  BY ONLY <1>2
<1>8. \A i \in 1..Len(Q) : Q[i].cycle < c /\ Q[i].cycle < e
  <2>1. TAKE i \in 1..Len(Q)
  <2>2. PICK x \in Nat : x = Q[i].cycle
    BY ONLY <1>7, i \in 1..Len(Q) DEF StoreRecord
  <2>3. x < b
    BY ONLY <1>5, <2>2, Zenon
  <2>4. x < c /\ x < e
    BY ONLY <1>6, <2>3, x \in Nat, b \in Nat, c \in Nat
  <2> QED BY ONLY <2>2, <2>4, Zenon
<1>9. CASE LowOf(p) # "store"
  <2>1. S = Q
    BY ONLY <1>1, <1>9, S = Stores2(h.stores, c, p, s.vf, shape), Zenon DEF Stores2
  <2> QED BY ONLY <1>1, <1>4, <1>8, <1>9, <2>1, Zenon
<1>10. CASE LowOf(p) = "store"
  <2>1. PICK x : x = StoreOf(c, p, s.vf, shape)
    OBVIOUS
  <2>2. x \in StoreRecord /\ x.cycle = c /\ x.addr = p.a /\ x.val = StoredBy(p, s.vf, shape)
    BY ONLY <1>10, <2>1, StoreOfIs, s \in VuState, PairOk(p), c \in Nat, shape \in Shape
  <2>3. S = Append(Q, x)
    BY ONLY <1>1, <1>10, <2>1, S = Stores2(h.stores, c, p, s.vf, shape), Zenon DEF Stores2
  <2>4. PICK now : now = s.mem
    OBVIOUS
  <2>5. now \in [Cells -> Qword]
    BY ONLY <2>4, VuTypes, s \in VuState
  <2>6. \A a \in Cells, d \in Nat : d >= b => V[a, d] = now[a]
    BY ONLY <1>3, <2>4, SentPast(s, h), V = StoredOf(h), Zenon DEF SentPast, MemNow
  <2>7. l.mem = [now EXCEPT ![x.addr] = x.val]
    <3>1. w.mem = s.mem /\ w.vf = s.vf
      BY ONLY Stages(s, p, shape, taken, V, w, u, l, t), Zenon DEF Stages, WasReady, SameRegs
    <3>2. u.mem = w.mem
      BY ONLY Stages(s, p, shape, taken, V, w, u, l, t), Zenon DEF Stages, Uppered
    <3>3. Lowered(l, u, p, w.vf, shape, taken, V)
      BY ONLY Stages(s, p, shape, taken, V, w, u, l, t), Zenon DEF Stages
    <3>4. l.mem = IF LowOf(p) = "store"
                    THEN [u.mem EXCEPT ![p.a] = StoredBy(p, w.vf, shape)] ELSE u.mem
      BY ONLY <3>3, Zenon DEF Lowered
    <3>5. l.mem = [u.mem EXCEPT ![p.a] = StoredBy(p, w.vf, shape)]
      BY ONLY <1>10, <3>4, Zenon
    <3> QED BY ONLY <2>2, <2>4, <3>1, <3>2, <3>5, Zenon
  <2>8. \A a \in Cells, d \in Nat : d >= b => StoredIn(Q, m)[a, d] = now[a]
    BY ONLY <1>4, <2>6, Zenon
  <2>9. \A i \in 1..Len(Q) : Q[i].cycle < c
    BY ONLY <1>8
  <2>10. Extends(StoredIn(Append(Q, x), m), StoredIn(Q, m), c, [now EXCEPT ![x.addr] = x.val])
    BY ONLY <1>2, <1>6, <2>2, <2>5, <2>8, <2>9, StoredMore, b \in Nat, c \in Nat
  <2>11. Extends(V2, V, c, l.mem)
    BY ONLY <1>4, <2>3, <2>7, <2>10, Zenon
  <2>12. \A i \in 1..Len(S) : S[i].cycle < e
    <3>1. PICK n \in Nat : n = Len(Q)
      BY ONLY <1>2
    <3>2. Len(S) = n + 1 /\ (\A j \in 1..n : S[j] = Q[j]) /\ S[n + 1] = x
      BY ONLY <1>2, <2>2, <2>3, <3>1, AppendIs
    <3>3. TAKE i \in 1..Len(S)
    <3>4. i \in 1..n \/ i = n + 1
      BY ONLY <3>2, n \in Nat, i \in 1..Len(S)
    <3> QED BY ONLY <1>6, <1>8, <2>2, <3>1, <3>2, <3>4, Zenon
  <2> QED BY ONLY <1>1, <1>10, <2>11, <2>12, Zenon
<1> QED BY <1>9, <1>10

(* The invariant after a pair, before the end that may follow it.            *)
Added(t, g, q) ==
  /\ SentPast(t, g) /\ QOk(t, g.divs) /\ FlagsOk(t, g.macs, g.start, g.mac)
  /\ OldOk(t, g.vis) /\ g \in PastState /\ g.pairs = q
AddedBy(g, h, s, p, c, shape, q) ==
  IsPast(g, h, Marked(h.macs, p.up, c), Divided(h.divs, LowOf(p), c),
         Kept2(h.vis, LowOf(p), c, p.r, s.vi[p.r]),
         Stores2(h.stores, c, p, s.vf, shape), Kicks2(h.kicks, LowOf(p)), q)

LEMMA PairAdds ==
  ASSUME NEW s \in VuState, NEW h \in PastState, SentPast(s, h), QOk(s, h.divs),
         FlagsOk(s, h.macs, h.start, h.mac), OldOk(s, h.vis),
         NEW p, PairOk(p), NEW shape \in Shape, NEW taken \in Pcs \cup {NoBranch},
         NEW w, NEW u, NEW l, NEW t, Stages(s, p, shape, taken, StoredOf(h), w, u, l, t),
         NEW c \in Nat, c = Issued(s, p), s.cycles <= c, c < t.cycles, NEW q, NEW g,
         AddedBy(g, h, s, p, c, shape, q)
  PROVE  Added(t, g, q)
<1>1. PICK V : V = StoredOf(h)
  OBVIOUS
<1>2. Stages(s, p, shape, taken, V, w, u, l, t)
  BY <1>1, Zenon
<1>3. /\ g.macs = Marked(h.macs, p.up, c) /\ g.divs = Divided(h.divs, LowOf(p), c)
      /\ g.vis = Kept2(h.vis, LowOf(p), c, p.r, s.vi[p.r])
      /\ g.stores = Stores2(h.stores, c, p, s.vf, shape) /\ g.kicks = Kicks2(h.kicks, LowOf(p))
      /\ g.pairs = q /\ g.mem = h.mem /\ g.start = h.start /\ g.mac = h.mac /\ g \in PastState
  BY Zenon DEF IsPast, AddedBy
<1>4. PICK S, V2 : S = g.stores /\ V2 = StoredIn(S, h.mem)
  OBVIOUS
<1>5. S = Stores2(h.stores, c, p, s.vf, shape)
  BY ONLY <1>3, <1>4, Zenon
<1>6. V2 = StoredOf(g)
  BY ONLY <1>3, <1>4, Zenon DEF StoredOf
<1>7. /\ LowOf(p) # "store" => V2 = V
      /\ LowOf(p) = "store" => Extends(V2, V, c, l.mem)
      /\ \A i \in 1..Len(S) : S[i].cycle < t.cycles
  BY <1>1, <1>2, <1>4, <1>5, StoreAdds
<1>8. /\ Sent(t, V2) /\ MemNow(t, V2)
      /\ Kicks(t) = Kicks(s) + (IF LowOf(p) = "kick" THEN 1 ELSE 0)
  <2>1. MemNow(s, V)
    BY <1>1, Zenon DEF SentPast
  <2>2. LowOf(p) = "store" => Extends(V2, V, Issued(s, p), l.mem)
    BY ONLY <1>7, c = Issued(s, p), Zenon
  <2> QED BY ONLY <1>2, <1>7, <2>1, <2>2, SentStep, s \in VuState, PairOk(p)
<1>9. Kicks(t) = g.kicks
  <2>1. PICK k \in Nat : k = h.kicks
    BY PastTypes
  <2>2. Kicks(s) = k
    BY ONLY <2>1, SentPast(s, h), Zenon DEF SentPast
  <2>3. Kicks(t) = k + (IF LowOf(p) = "kick" THEN 1 ELSE 0)
    BY ONLY <1>8, <2>2, Zenon
  <2>4. g.kicks = IF LowOf(p) = "kick" THEN k + 1 ELSE k
    BY ONLY <1>3, <2>1, Zenon DEF Kicks2
  <2> QED BY ONLY <2>3, <2>4, k \in Nat
<1>10. SentPast(t, g)
  BY ONLY <1>4, <1>6, <1>7, <1>8, <1>9, Zenon DEF SentPast
<1>11. QOk(t, g.divs)
  <2>1. PICK D : D = h.divs
    OBVIOUS
  <2>2. c <= t.cycles
    <3>1. t \in VuState
      BY DEF Stages, WasRetired
    <3>2. PICK e \in Nat : e = t.cycles
      BY ONLY <3>1, VuTypes
    <3>3. c <= e
      BY ONLY <3>2, c < t.cycles, c \in Nat, e \in Nat
    <3> QED BY ONLY <3>2, <3>3, Zenon
  <2>3. QOk(t, Divided(D, LowOf(p), c))
    BY <1>2, <2>1, <2>2, QStep
  <2> QED BY ONLY <1>3, <2>1, <2>3, Zenon
<1>12. FlagsOk(t, g.macs, g.start, g.mac)
  <2>1. PICK M, b, m0 : M = h.macs /\ b = h.start /\ m0 = h.mac
    OBVIOUS
  <2>2. FlagsOk(s, M, b, m0)
    BY <2>1, Zenon
  <2>3. FlagsOk(t, Marked(M, p.up, c), b, m0)
    BY ONLY <1>2, <2>2, FlagsStep, s \in VuState, c = Issued(s, p)
  <2> QED BY ONLY <1>3, <2>1, <2>3, Zenon
<1>13. OldOk(t, g.vis)
  <2>1. PICK vis : vis = h.vis
    OBVIOUS
  <2>2. OldOk(t, Kept2(vis, LowOf(p), c, p.r, s.vi[p.r]))
    BY <1>2, <2>1, OldStep
  <2> QED BY ONLY <1>3, <2>1, <2>2, Zenon
<1> QED BY ONLY <1>3, <1>10, <1>11, <1>12, <1>13, Zenon DEF Added

LEMMA MenuPair ==
  ASSUME NEW m \in Menus, NEW p \in m.pairs
  PROVE  PairOk(p)
BY SizeAssumption DEF PairOk

Ends(h, x) == [h EXCEPT !.ended = x]

LEMMA EndsIs ==
  ASSUME NEW h \in PastState, NEW x \in BOOLEAN
  PROVE  LET r == Ends(h, x)
         IN  /\ r \in PastState /\ r.ended = x /\ r.macs = h.macs /\ r.divs = h.divs
             /\ r.vis = h.vis /\ r.stores = h.stores /\ r.kicks = h.kicks /\ r.pairs = h.pairs
             /\ r.mem = h.mem /\ r.start = h.start /\ r.mac = h.mac
<1>1. PICK r : r = Ends(h, x)
  OBVIOUS
<1>2. r \in PastState
  BY <1>1 DEF PastState, Ends
<1>3. /\ r.ended = x /\ r.macs = h.macs /\ r.divs = h.divs
      /\ r.vis = h.vis /\ r.stores = h.stores /\ r.kicks = h.kicks /\ r.pairs = h.pairs
      /\ r.mem = h.mem /\ r.start = h.start /\ r.mac = h.mac
  BY <1>1 DEF PastState, Ends
<1> QED BY ONLY <1>1, <1>2, <1>3, Zenon

(* The end of a program, when what is under way has been waited for.         *)
LEMMA FinishKeeps ==
  ASSUME NEW t \in VuState, NEW g \in PastState, SentPast(t, g), QOk(t, g.divs),
         FlagsOk(t, g.macs, g.start, g.mac)
  PROVE  LET r == Finish(t)
         IN  /\ r \in VuState /\ SentPast(r, g) /\ QOk(r, g.divs)
             /\ FlagsOk(r, g.macs, g.start, g.mac)
             /\ r.pc = t.pc /\ r.branch = t.branch /\ r.endp = t.endp /\ ~r.running
             /\ ~r.kick.on /\ ~r.qPending
<1>1. PICK V : V = StoredOf(g)
  OBVIOUS
<1>2. /\ Sent(t, V) /\ MemNow(t, V) /\ g.kicks = Kicks(t)
      /\ \A i \in 1..Len(g.stores) : g.stores[i].cycle < t.cycles
  BY <1>1, Zenon DEF SentPast
<1>3. PICK r : r = Finish(t)
  OBVIOUS
<1>4. /\ r \in VuState /\ (\E n \in Nat : Aged(r, t, n)) /\ r.mem = t.mem
      /\ r.pc = t.pc /\ r.branch = t.branch /\ r.endp = t.endp /\ ~r.running
      /\ r.q = (IF t.qPending THEN t.pendingQ ELSE t.q) /\ ~r.qPending
      /\ t.qPending => r.cycles >= t.qReady
      /\ Sent(r, V) /\ ~r.kick.on /\ Kicks(r) = Kicks(t)
  BY ONLY <1>2, <1>3, FinishIs
<1>5. PICK n \in Nat : Aged(r, t, n)
  BY <1>4
<1>6. t.cycles <= r.cycles /\ t.cycles \in Nat /\ r.cycles \in Nat
  BY <1>5, AgedLater
<1>7. MemNow(r, V)
  BY <1>2, <1>4, <1>6, NowLater
<1>8. \A i \in 1..Len(g.stores) : g.stores[i].cycle < r.cycles
  <2>1. PICK Q : Q = g.stores
    OBVIOUS
  <2>2. Q \in Seq(StoreRecord)
    BY ONLY <2>1, PastTypes, g \in PastState
  <2>3. PICK a \in Nat, b \in Nat : a = t.cycles /\ b = r.cycles
    BY <1>6
  <2>4. a <= b
    BY ONLY <1>6, <2>3, Zenon
  <2>5. TAKE i \in 1..Len(g.stores)
  <2>6. i \in 1..Len(Q)
    BY ONLY <2>1, i \in 1..Len(g.stores), Zenon
  <2>7. Q[i] \in StoreRecord
    BY ONLY <2>2, <2>6
  <2>8. PICK x \in Nat : x = Q[i].cycle
    BY ONLY <2>7 DEF StoreRecord
  <2>9. x < a
    BY ONLY <1>2, <2>1, <2>3, <2>6, <2>8, Zenon
  <2>10. x < b
    BY ONLY <2>4, <2>9, x \in Nat, a \in Nat, b \in Nat
  <2> QED BY ONLY <2>1, <2>3, <2>8, <2>10, Zenon
<1>9. SentPast(r, g)
  BY ONLY <1>1, <1>2, <1>4, <1>7, <1>8, Zenon DEF SentPast
<1>10. QOk(r, g.divs)
  <2>1. PICK D : D = g.divs
    OBVIOUS
  <2>2. QOk(t, D)
    BY <2>1, Zenon
  <2>3. QOk(r, D)
    BY ONLY <1>4, <1>6, <2>2, QFinish, t \in VuState
  <2> QED BY ONLY <2>1, <2>3, Zenon
<1>11. FlagsOk(r, g.macs, g.start, g.mac)
  <2>1. PICK M, b, m0 : M = g.macs /\ b = g.start /\ m0 = g.mac
    OBVIOUS
  <2>2. FlagsOk(t, M, b, m0)
    BY <2>1, Zenon
  <2>3. FlagsOk(r, M, b, m0)
    BY ONLY <1>4, <1>5, <2>2, FlagsAged, t \in VuState, n \in Nat
  <2> QED BY ONLY <2>1, <2>3, Zenon
<1> QED BY ONLY <1>3, <1>4, <1>9, <1>10, <1>11, Zenon

LEMMA RunPairInv ==
  ASSUME Inv, RunPair
  PROVE  Inv'
<1>1. PICK s, h, r, g : s = vu /\ h = past /\ r = vu' /\ g = past'
  OBVIOUS
<1>2. /\ s \in VuState /\ h \in PastState /\ menu \in Menus
      /\ SentPast(s, h) /\ QOk(s, h.divs) /\ FlagsOk(s, h.macs, h.start, h.mac)
      /\ OldOk(s, h.vis) /\ FlowOk(s, h.pairs, h.ended, TRUE) /\ inRun = TRUE
  <2>1. inRun = TRUE
    BY DEF RunPair, Inv, TypeInv
  <2> QED BY <1>1, <2>1, Zenon DEF Inv, TypeInv, SentInv, QInv, FlagsInv, OldInv, FlowInv
<1>3. PICK p \in menu.pairs, shape \in Shape, taken \in Pcs \cup {NoBranch} :
        /\ p.up # "bad" /\ ~(p.up # "imm" /\ p.low = "bad")
        /\ r = Step(s, p, shape, taken)
        /\ g = Ends(Remember(vu, p, shape, taken), ~r.running)
  <2>1. PICK p \in menu.pairs :
          /\ p.up # "bad" /\ ~(p.up # "imm" /\ p.low = "bad")
          /\ \E shape \in IF p.low = "store" THEN Shapes ELSE {[n |-> 0, eop |-> FALSE]},
                taken \in CASE p.low = "branch" -> (IF BranchVi(VfStall(vu, p), p.r) = Zero
                                                      THEN {NoBranch} ELSE 0..(PcSize - 1))
                            [] p.low = "jump" -> 0..(PcSize - 1)
                            [] OTHER -> {NoBranch} :
               /\ vu' = Step(vu, p, shape, taken)
               /\ past' = [Remember(vu, p, shape, taken) EXCEPT !.ended = ~vu'.running]
    BY Zenon DEF RunPair
  <2>2. PICK A : A = IF p.low = "store" THEN Shapes ELSE {[n |-> 0, eop |-> FALSE]}
    OBVIOUS
  <2>3. PICK B : B = CASE p.low = "branch" -> (IF BranchVi(VfStall(vu, p), p.r) = Zero
                                                 THEN {NoBranch} ELSE 0..(PcSize - 1))
                       [] p.low = "jump" -> 0..(PcSize - 1)
                       [] OTHER -> {NoBranch}
    OBVIOUS
  <2>4. A \subseteq Shape
    <3>1. Shapes \subseteq Shape
      BY SizeAssumption DEF Shape
    <3>2. [n |-> 0, eop |-> FALSE] \in Shape
      BY DEF Shape
    <3> QED BY ONLY <2>2, <3>1, <3>2
  <2>5. B \subseteq Pcs \cup {NoBranch}
    <3>1. CASE p.low = "branch"
      BY ONLY <2>3, <3>1 DEF Pcs
    <3>2. CASE p.low = "jump"
      BY ONLY <2>3, <3>2 DEF Pcs
    <3>3. CASE p.low # "branch" /\ p.low # "jump"
      BY ONLY <2>3, <3>3
    <3> QED BY <3>1, <3>2, <3>3
  <2>6. PICK shape \in A, taken \in B :
          /\ vu' = Step(vu, p, shape, taken)
          /\ past' = [Remember(vu, p, shape, taken) EXCEPT !.ended = ~vu'.running]
    BY ONLY <2>1, <2>2, <2>3, Zenon
  <2>7. shape \in Shape /\ taken \in Pcs \cup {NoBranch}
    BY ONLY <2>4, <2>5, shape \in A, taken \in B, Zenon
  <2> QED BY ONLY <1>1, <2>1, <2>6, <2>7, Zenon DEF Ends
<1>4. PairOk(p) /\ LowOf(p) # "bad"
  <2>1. PairOk(p)
    BY <1>2, MenuPair
  <2> QED BY <1>3, <2>1 DEF LowOf
<1>5. PICK V : V = StoredOf(h)
  OBVIOUS
<1>6. Sent(s, V) /\ MemNow(s, V)
  BY ONLY <1>2, <1>5, Zenon DEF SentPast
<1>7. PICK w, u, l, t : /\ Stages(s, p, shape, taken, V, w, u, l, t)
                        /\ Step(s, p, shape, taken) = IF s.endp THEN Finish(t) ELSE t
  BY ONLY <1>4, <1>6, StepStages, shape \in Shape, taken \in Pcs \cup {NoBranch}
<1>8. PICK c : c = Issued(s, p)
  OBVIOUS
<1>9. c \in Nat /\ s.cycles <= c /\ c < t.cycles /\ t \in VuState
  <2>1. PICK S : S = Stores2(h.stores, c, p, s.vf, shape)
    OBVIOUS
  <2>2. w \in VuState /\ w.cycles = c /\ (\E n \in Nat : Aged(w, s, n))
    BY ONLY <1>7, <1>8, Zenon DEF Stages, WasReady
  <2>3. PICK n \in Nat : Aged(w, s, n)
    BY <2>2
  <2>4. s.cycles <= w.cycles /\ w.cycles \in Nat
    BY <1>2, <2>3, AgedLater
  <2>5. u \in VuState /\ u.cycles = w.cycles
    BY ONLY <1>7, Zenon DEF Stages, Uppered
  <2>6. l \in VuState /\ \E k \in Nat : Aged(l, u, k)
    BY ONLY <1>7, Zenon DEF Stages, Lowered
  <2>7. PICK k \in Nat : Aged(l, u, k)
    BY <2>6
  <2>8. u.cycles <= l.cycles /\ u.cycles \in Nat /\ l.cycles \in Nat
    BY <2>5, <2>7, AgedLater
  <2>9. t \in VuState /\ Aged(t, l, 1)
    BY ONLY <1>7, Zenon DEF Stages, WasRetired
  <2>10. t.cycles = l.cycles + 1
    BY ONLY <2>9, Zenon DEF Aged
  <2>11. PICK a \in Nat, b \in Nat : a = w.cycles /\ b = l.cycles
    BY ONLY <2>4, <2>8
  <2>12. a <= b
    BY ONLY <2>5, <2>8, <2>11, Zenon
  <2>13. a < b + 1
    BY ONLY <2>12, a \in Nat, b \in Nat
  <2> QED BY ONLY <2>2, <2>4, <2>9, <2>10, <2>11, <2>13, Zenon
<1>10. PICK q : q = LastTwo(h.pairs, PairOf(s, p, taken))
  OBVIOUS
<1>11. PICK f : f = Remember(vu, p, shape, taken)
  OBVIOUS
<1>12. IsPast(f, h, Marked(h.macs, p.up, c), Divided(h.divs, LowOf(p), c),
              Kept2(h.vis, LowOf(p), c, p.r, s.vi[p.r]),
              Stores2(h.stores, c, p, s.vf, shape), Kicks2(h.kicks, LowOf(p)), q)
  <2>1. Len(past.pairs) <= 2
    BY ONLY <1>1, <1>2, Zenon DEF FlowOk
  <2>2. vu \in VuState /\ past \in PastState /\ c = Issued(vu, p)
    BY ONLY <1>1, <1>2, <1>8, Zenon
  <2>3. IsPast(Remember(vu, p, shape, taken), past,
                Marked(past.macs, p.up, c), Divided(past.divs, LowOf(p), c),
                Kept2(past.vis, LowOf(p), c, p.r, vu.vi[p.r]),
                Stores2(past.stores, c, p, vu.vf, shape), Kicks2(past.kicks, LowOf(p)),
                LastTwo(past.pairs, PairOf(vu, p, taken)))
    BY ONLY <1>4, <1>9, <2>1, <2>2, RememberIs, shape \in Shape, taken \in Pcs \cup {NoBranch}
  <2> QED BY ONLY <1>1, <1>10, <1>11, <2>3, Zenon
<1>13. /\ SentPast(t, f) /\ QOk(t, f.divs) /\ FlagsOk(t, f.macs, f.start, f.mac)
       /\ OldOk(t, f.vis) /\ f \in PastState /\ f.pairs = q
  <2>1. Stages(s, p, shape, taken, StoredOf(h), w, u, l, t)
    BY ONLY <1>5, <1>7, Zenon
  <2>2. AddedBy(f, h, s, p, c, shape, q)
    BY ONLY <1>12, Zenon DEF AddedBy
  <2>3. Added(t, f, q)
    BY ONLY <1>2, <1>4, <1>8, <1>9, <2>1, <2>2, PairAdds, shape \in Shape,
       taken \in Pcs \cup {NoBranch}
  <2> QED BY ONLY <2>3, Zenon DEF Added
<1>14. t.running = TRUE
  BY ONLY <1>2, <1>7, <1>9, Zenon DEF Stages, WasReady, Uppered, Lowered, WasRetired, SameFlow, FlowOk
<1>15. PICK e \in BOOLEAN : e = s.endp
  BY <1>2, VuTypes
<1>16. /\ r \in VuState /\ SentPast(r, f) /\ QOk(r, f.divs) /\ FlagsOk(r, f.macs, f.start, f.mac)
       /\ r.pc = t.pc /\ r.branch = t.branch /\ r.endp = t.endp /\ r.running = ~e
       /\ e => ~r.kick.on /\ ~r.qPending
       /\ ~e => r = t
  <2>1. CASE e = TRUE
    <3>1. r = Finish(t)
      BY ONLY <1>3, <1>7, <1>15, <2>1, Zenon
    <3>2. /\ r \in VuState /\ SentPast(r, f) /\ QOk(r, f.divs)
          /\ FlagsOk(r, f.macs, f.start, f.mac)
          /\ r.pc = t.pc /\ r.branch = t.branch /\ r.endp = t.endp /\ ~r.running
          /\ ~r.kick.on /\ ~r.qPending
      BY ONLY <1>9, <1>13, <3>1, FinishKeeps
    <3>3. r.running = FALSE
      BY ONLY <3>2, VuTypes
    <3> QED BY ONLY <2>1, <3>2, <3>3
  <2>2. CASE e = FALSE
    <3>1. r = t
      BY ONLY <1>3, <1>7, <1>15, <2>2, Zenon
    <3> QED BY ONLY <1>9, <1>13, <1>14, <2>2, <3>1
  <2> QED BY ONLY <2>1, <2>2, e \in BOOLEAN
<1>17. /\ g \in PastState /\ g.ended = e /\ g.macs = f.macs /\ g.divs = f.divs
       /\ g.vis = f.vis /\ g.stores = f.stores /\ g.kicks = f.kicks /\ g.pairs = q
       /\ g.mem = f.mem /\ g.start = f.start /\ g.mac = f.mac
  <2>1. (~r.running) = e
    BY ONLY <1>16, e \in BOOLEAN
  <2>2. g = Ends(f, e)
    BY ONLY <1>3, <1>11, <2>1, Zenon
  <2> QED BY ONLY <1>13, <2>2, EndsIs, e \in BOOLEAN
<1>18. SentPast(r, g)
  BY ONLY <1>16, <1>17, Zenon DEF SentPast, StoredOf
<1>19. QOk(r, g.divs) /\ FlagsOk(r, g.macs, g.start, g.mac)
  BY ONLY <1>16, <1>17, Zenon
<1>20. inRun' = ~e
  BY ONLY <1>1, <1>16, RunPair, Zenon DEF RunPair
<1>21. inRun' => OldOk(r, g.vis)
  BY ONLY <1>13, <1>16, <1>17, <1>20, Zenon
<1>22. FlowOk(r, g.pairs, g.ended, inRun')
  <2>1. h.ended = FALSE
    BY ONLY <1>2, PastTypes, Zenon DEF FlowOk
  <2>2. PICK P : P = h.pairs
    OBVIOUS
  <2>3. P \in Seq(PairRecord)
    BY ONLY <1>2, <2>2, PastTypes
  <2>4. FlowOk(s, P, FALSE, TRUE)
    BY ONLY <1>2, <2>1, <2>2, Zenon
  <2>5. FlowOk(r, LastTwo(P, PairOf(s, p, taken)), e, ~e)
    BY ONLY <1>2, <1>4, <1>7, <1>15, <1>16, <2>3, <2>4, FlowStep, taken \in Pcs \cup {NoBranch},
       e \in BOOLEAN
  <2> QED BY ONLY <1>10, <1>17, <1>20, <2>2, <2>5, Zenon
<1>23. TypeInv'
  <2>1. menu' = menu
    BY Zenon DEF RunPair
  <2>2. inRun' \in BOOLEAN
    BY <1>20
  <2> QED BY ONLY <1>1, <1>2, <1>16, <1>17, <2>1, <2>2, Zenon DEF TypeInv
<1> QED BY ONLY <1>1, <1>18, <1>19, <1>21, <1>22, <1>23, Zenon
        DEF Inv, SentInv, QInv, FlagsInv, OldInv, FlowInv

-----------------------------------------------------------------------------
(* An instruction that is not implemented                                    *)

Halted(s) == [s EXCEPT !.running = FALSE]

LEMMA HaltedIs ==
  ASSUME NEW s \in VuState
  PROVE  LET r == Halted(s)
         IN  /\ r \in VuState /\ r.cycles = s.cycles /\ r.mem = s.mem /\ r.pc = s.pc
             /\ r.q = s.q /\ r.pendingQ = s.pendingQ /\ r.qReady = s.qReady
             /\ r.qPending = s.qPending /\ r.mac = s.mac /\ r.pipe = s.pipe
             /\ SameKick(r, s)
<1>1. PICK r : r = Halted(s)
  OBVIOUS
<1>2. r \in VuState
  BY <1>1 DEF VuState, Halted
<1>3. /\ r.cycles = s.cycles /\ r.mem = s.mem /\ r.pc = s.pc
      /\ r.q = s.q /\ r.pendingQ = s.pendingQ /\ r.qReady = s.qReady
      /\ r.qPending = s.qPending /\ r.mac = s.mac /\ r.pipe = s.pipe
      /\ SameKick(r, s)
  BY <1>1 DEF VuState, Halted, SameKick
<1> QED BY ONLY <1>1, <1>2, <1>3, Zenon

MarkedAt(h, c) == [h EXCEPT !.macs = @ \cup {c}]

LEMMA MarkedAtIs ==
  ASSUME NEW h \in PastState, NEW c \in Nat
  PROVE  LET r == MarkedAt(h, c)
         IN  /\ r \in PastState /\ r.macs = h.macs \cup {c} /\ r.divs = h.divs
             /\ r.stores = h.stores /\ r.kicks = h.kicks /\ r.pairs = h.pairs
             /\ r.mem = h.mem /\ r.start = h.start /\ r.mac = h.mac /\ r.ended = h.ended
<1>1. PICK M : M = h.macs \cup {c}
  OBVIOUS
<1>2. M \in SUBSET Nat
  BY <1>1, PastTypes
<1>3. PICK r : r = MarkedAt(h, c)
  OBVIOUS
<1>4. r = [h EXCEPT !.macs = M]
  BY ONLY <1>1, <1>3, Zenon DEF MarkedAt
<1>5. r \in PastState
  BY ONLY <1>2, <1>4, h \in PastState DEF PastState
<1>6. /\ r.macs = M /\ r.divs = h.divs
      /\ r.stores = h.stores /\ r.kicks = h.kicks /\ r.pairs = h.pairs
      /\ r.mem = h.mem /\ r.start = h.start /\ r.mac = h.mac /\ r.ended = h.ended
  BY ONLY <1>4, h \in PastState DEF PastState
<1> QED BY ONLY <1>1, <1>3, <1>5, <1>6, Zenon

LEMMA UnsupportedInv ==
  ASSUME Inv, Unsupported
  PROVE  Inv'
<1>1. PICK s, h, r, g : s = vu /\ h = past /\ r = vu' /\ g = past'
  OBVIOUS
<1>2. /\ s \in VuState /\ h \in PastState /\ menu \in Menus
      /\ SentPast(s, h) /\ QOk(s, h.divs) /\ FlagsOk(s, h.macs, h.start, h.mac)
      /\ FlowOk(s, h.pairs, h.ended, TRUE)
  <2>1. inRun = TRUE
    BY DEF Unsupported, Inv, TypeInv
  <2> QED BY <1>1, <2>1, Zenon DEF Inv, TypeInv, SentInv, QInv, FlagsInv, FlowInv
<1>3. PICK p \in menu.pairs :
        LET w == Begun(Ready(s, p), p)
        IN  /\ r = Halted(IF p.up = "bad" THEN w ELSE Upper(w, p))
            /\ g = IF p.up = "add" THEN MarkedAt(h, w.cycles) ELSE h
  BY <1>1, Zenon DEF Unsupported, Begun, Ready, Halted, MarkedAt
<1>4. PairOk(p)
  BY <1>2, MenuPair
<1>5. PICK V : V = StoredOf(h)
  OBVIOUS
<1>6. /\ Sent(s, V) /\ MemNow(s, V) /\ h.kicks = Kicks(s)
      /\ \A i \in 1..Len(h.stores) : h.stores[i].cycle < s.cycles
  BY ONLY <1>2, <1>5, Zenon DEF SentPast
<1>7. PICK w, c : w = Ready(s, p) /\ c = Issued(s, p)
  OBVIOUS
<1>8. WasReady(w, s, p, c, V)
  <2>1. LET x == Ready(s, p)
            d == Issued(s, p)
        IN   /\ x \in VuState /\ x.cycles = d /\ x.mem = s.mem
             /\ \E n \in Nat : Aged(x, s, n)
             /\ SameFlow(x, s) /\ SameRegs(x, s) /\ SameOld(x, s)
             /\ x.q = (IF Due(s, d) THEN s.pendingQ ELSE s.q)
             /\ x.qPending <=> (s.qPending /\ ~Due(s, d))
             /\ x.pendingQ = s.pendingQ /\ x.qReady = s.qReady
             /\ Lower(p) = "div" => ~x.qPending
             /\ Sent(x, V) /\ Kicks(x) = Kicks(s) /\ (x.kick.on => d < x.kick.due)
    BY ONLY <1>4, <1>6, ReadyIs
  <2> QED BY ONLY <1>7, <2>1, Zenon DEF WasReady
<1>9. PICK x : x = Begun(w, p)
  OBVIOUS
<1>10. PICK u : u = Upper(x, p)
  OBVIOUS
<1>11. Uppered(u, w, p)
  <2>1. w \in VuState
    BY ONLY <1>8, Zenon DEF WasReady
  <2> QED BY ONLY <1>4, <1>9, <1>10, <2>1, BegunIs
<1>12. r = Halted(u)
  <2>1. p.up = "bad" => u = x
    BY ONLY <1>10 DEF Upper
  <2> QED BY ONLY <1>3, <1>7, <1>9, <1>10, <2>1, Zenon
<1>13. x.cycles = c
  <2>1. w \in VuState /\ w.cycles = c
    BY ONLY <1>8, Zenon DEF WasReady
  <2>2. x.cycles = w.cycles
    BY ONLY <1>9, <2>1 DEF Begun, VuState
  <2> QED BY ONLY <2>1, <2>2, Zenon
<1>14. g = IF p.up = "add" THEN MarkedAt(h, c) ELSE h
  BY ONLY <1>3, <1>7, <1>9, <1>13, Zenon
<1>15. /\ w \in VuState /\ w.cycles = c /\ w.mem = s.mem /\ w.pc = s.pc
       /\ Sent(w, V) /\ Kicks(w) = Kicks(s) /\ (\E n \in Nat : Aged(w, s, n))
  BY ONLY <1>8, Zenon DEF WasReady, SameFlow
<1>16. PICK n \in Nat : Aged(w, s, n)
  BY <1>15
<1>17. s.cycles <= c /\ s.cycles \in Nat /\ c \in Nat
  BY <1>2, <1>15, <1>16, AgedLater
<1>18. /\ u \in VuState /\ u.cycles = c /\ u.mem = w.mem /\ u.pc = s.pc /\ SameQ(u, w)
       /\ SameKick(u, w)
  BY ONLY <1>11, <1>15, Zenon DEF Uppered
<1>19. /\ r \in VuState /\ r.cycles = u.cycles /\ r.mem = u.mem /\ r.pc = u.pc
       /\ r.q = u.q /\ r.pendingQ = u.pendingQ /\ r.qReady = u.qReady
       /\ r.qPending = u.qPending /\ r.mac = u.mac /\ r.pipe = u.pipe
       /\ SameKick(r, u)
  BY ONLY <1>12, <1>18, HaltedIs
<1>20. PICK M, M2 : M = h.macs /\ M2 = IF p.up = "add" THEN M \cup {c} ELSE M
  OBVIOUS
<1>21. /\ g \in PastState /\ g.macs = M2 /\ g.divs = h.divs
       /\ g.stores = h.stores /\ g.kicks = h.kicks /\ g.pairs = h.pairs
       /\ g.mem = h.mem /\ g.start = h.start /\ g.mac = h.mac /\ g.ended = h.ended
  <2>1. CASE p.up = "add"
    <3>1. g = MarkedAt(h, c)
      BY ONLY <1>14, <2>1, Zenon
    <3>2. /\ g \in PastState /\ g.macs = h.macs \cup {c} /\ g.divs = h.divs
          /\ g.stores = h.stores /\ g.kicks = h.kicks /\ g.pairs = h.pairs
          /\ g.mem = h.mem /\ g.start = h.start /\ g.mac = h.mac /\ g.ended = h.ended
      BY ONLY <1>2, <1>17, <3>1, MarkedAtIs
    <3> QED BY ONLY <1>20, <2>1, <3>2, Zenon
  <2>2. CASE p.up # "add"
    BY ONLY <1>2, <1>14, <1>20, <2>2, Zenon
  <2> QED BY <2>1, <2>2
<1>22. SentPast(r, g)
  <2>1. V = StoredOf(g)
    BY ONLY <1>5, <1>21, Zenon DEF StoredOf
  <2>2. PICK a \in Nat, b \in Nat : a = s.cycles /\ b = r.cycles
    BY ONLY <1>17, <1>18, <1>19
  <2>3. a <= b
    BY ONLY <1>17, <1>18, <1>19, <2>2, Zenon
  <2>4. r.mem = s.mem
    BY ONLY <1>15, <1>18, <1>19, Zenon
  <2>5. Sent(u, V) /\ Kicks(u) = Kicks(w)
    <3>1. w.cycles <= u.cycles
      BY ONLY <1>15, <1>17, <1>18
    <3> QED BY ONLY <1>15, <1>18, <3>1, SentKept
  <2>6. Sent(r, V) /\ Kicks(r) = Kicks(u)
    <3>1. u.cycles <= r.cycles
      BY ONLY <1>17, <1>18, <1>19
    <3> QED BY ONLY <1>19, <2>5, <3>1, SentKept
  <2>7. MemNow(r, V)
    <3>1. s.cycles <= r.cycles
      BY ONLY <2>2, <2>3, Zenon
    <3> QED BY ONLY <1>2, <1>6, <1>19, <2>4, <3>1, NowLater
  <2>8. \A i \in 1..Len(g.stores) : g.stores[i].cycle < r.cycles
    <3>1. PICK Q : Q = h.stores
      OBVIOUS
    <3>2. Q \in Seq(StoreRecord)
      BY ONLY <1>2, <3>1, PastTypes
    <3>3. TAKE i \in 1..Len(g.stores)
    <3>4. i \in 1..Len(Q)
      BY ONLY <1>21, <3>1, i \in 1..Len(g.stores), Zenon
    <3>5. Q[i] \in StoreRecord
      BY ONLY <3>2, <3>4
    <3>6. PICK y \in Nat : y = Q[i].cycle
      BY ONLY <3>5 DEF StoreRecord
    <3>7. y < a
      BY ONLY <1>6, <2>2, <3>1, <3>4, <3>6, Zenon
    <3>8. y < b
      BY ONLY <2>3, <3>7, y \in Nat, a \in Nat, b \in Nat
    <3> QED BY ONLY <1>21, <2>2, <3>1, <3>6, <3>8, Zenon
  <2>9. g.kicks = Kicks(r)
    BY ONLY <1>6, <1>15, <1>21, <2>5, <2>6, Zenon
  <2> QED BY ONLY <2>1, <2>6, <2>7, <2>8, <2>9, Zenon DEF SentPast
<1>23. QOk(r, g.divs)
  <2>1. PICK D : D = h.divs
    OBVIOUS
  <2>2. QOk(s, D)
    BY ONLY <1>2, <2>1, Zenon
  <2>3. QOk(w, D)
    BY ONLY <1>2, <1>8, <1>17, <2>2, ReadyQ
  <2>4. QOk(r, D)
    BY ONLY <1>15, <1>18, <1>19, <2>3, Zenon DEF QOk, SameQ
  <2> QED BY ONLY <1>21, <2>1, <2>4, Zenon
<1>24. FlagsOk(r, g.macs, g.start, g.mac)
  <2>1. PICK b, m0 : b = h.start /\ m0 = h.mac
    OBVIOUS
  <2>2. FlagsOk(s, M, b, m0)
    BY ONLY <1>2, <1>20, <2>1, Zenon
  <2>3. FlagsOk(w, M, b, m0)
    BY ONLY <1>2, <1>15, <1>16, <2>2, FlagsAged, n \in Nat
  <2>4. M \in {M, Since(M, w.cycles - 4)}
    OBVIOUS
  <2>5. FlagsOk(u, IF p.up = "add" THEN M \cup {w.cycles} ELSE M, b, m0)
    BY ONLY <1>11, <1>15, <2>3, <2>4, FlagsUpper, Zenon
  <2>6. FlagsOk(u, M2, b, m0)
    BY ONLY <1>15, <1>20, <2>5, Zenon
  <2>7. FlagsOk(r, M2, b, m0)
    BY ONLY <1>19, <2>6, Zenon DEF FlagsOk
  <2> QED BY ONLY <1>21, <2>1, <2>7, Zenon
<1>25. inRun' = FALSE /\ menu' = menu
  BY Zenon DEF Unsupported
<1>26. FlowOk(r, g.pairs, g.ended, FALSE)
  <2>1. r.pc = s.pc
    BY ONLY <1>18, <1>19, Zenon
  <2> QED BY ONLY <1>2, <1>21, <2>1, Zenon DEF FlowOk
<1>27. TypeInv'
  BY ONLY <1>1, <1>2, <1>19, <1>21, <1>25, Zenon DEF TypeInv
<1> QED BY ONLY <1>1, <1>22, <1>23, <1>24, <1>25, <1>26, <1>27, Zenon
        DEF Inv, SentInv, QInv, FlagsInv, OldInv, FlowInv

-----------------------------------------------------------------------------
(* The theorems                                                              *)

LEMMA NextInv ==
  ASSUME Inv, [Next]_vars
  PROVE  Inv'
<1>1. CASE Start
  <2>1. PICK pc \in Pcs : Begin(pc)
    BY <1>1, Zenon DEF Start, Pcs
  <2> QED BY <2>1, BeginInv
<1>2. CASE Resume
  <2>1. PICK pc : pc = vu.pc
    OBVIOUS
  <2>2. pc \in Pcs
    BY <2>1, VuTypes DEF Inv, TypeInv
  <2>3. Begin(pc)
    BY <1>2, <2>1, Zenon DEF Resume
  <2> QED BY <2>2, <2>3, BeginInv
<1>3. CASE RunPair
  BY <1>3, RunPairInv
<1>4. CASE Unsupported
  BY <1>4, UnsupportedInv
<1>5. CASE OutOfBudget
  <2>1. vu' = vu /\ past' = past /\ menu' = menu /\ inRun' = FALSE
    BY <1>5, Zenon DEF OutOfBudget
  <2>2. FlowOk(vu, past.pairs, past.ended, FALSE)
    BY Zenon DEF Inv, FlowInv, FlowOk
  <2>3. TypeInv' /\ SentInv' /\ QInv' /\ FlagsInv'
    BY <2>1, Zenon DEF Inv, TypeInv, SentInv, QInv, FlagsInv
  <2>4. OldInv' /\ FlowInv'
    BY <2>1, <2>2, Zenon DEF OldInv, FlowInv
  <2> QED BY <2>3, <2>4, Zenon DEF Inv
<1>6. CASE UNCHANGED vars
  BY <1>6, Zenon DEF vars, Inv, TypeInv, SentInv, QInv, FlagsInv, OldInv, FlowInv
<1> QED BY <1>1, <1>2, <1>3, <1>4, <1>5, <1>6, Zenon DEF Next

(* The invariant holds of every execution: vu.cpp's run, whatever the        *)
(* microprogram.                                                             *)
THEOREM PipelineTheorem ==
  Spec => []Inv
<1>1. Init => Inv
  BY InitInv
<1>2. Inv /\ [Next]_vars => Inv'
  BY NextInv
<1> QED BY <1>1, <1>2, PTL DEF Spec

(* Quotients and flags arrive in their cycle, none lost and none early.      *)
THEOREM ResultsTheorem ==
  Spec => []ResultsInTime
<1>1. Inv => ResultsInTime
  <2>1. SUFFICES ASSUME Inv PROVE ResultsInTime
    OBVIOUS
  <2>2. vu \in VuState /\ QOk(vu, past.divs) /\ FlagsOk(vu, past.macs, past.start, past.mac)
    BY <2>1, Zenon DEF Inv, TypeInv, QInv, FlagsInv
  <2>3. PICK s, D, M, b, m : s = vu /\ D = past.divs /\ M = past.macs /\ b = past.start
                             /\ m = past.mac
    OBVIOUS
  <2>4. s \in VuState /\ QOk(s, D) /\ FlagsOk(s, M, b, m)
    BY ONLY <2>2, <2>3, Zenon
  <2>5. Quotient(s).q = Max({Zero} \cup {d \in D : d + 7 <= s.cycles})
    BY ONLY <2>4, QInTime
  <2>6. Head(s.pipe) = IF s.cycles - 4 < b THEN m ELSE LatestBy(M, s.cycles - 4)
    BY ONLY <2>4, FlagsHead
  <2>7. QuotientInTime
    BY ONLY <2>3, <2>5, Zenon DEF QuotientInTime
  <2>8. FlagsInTime
    BY ONLY <2>3, <2>6, Zenon DEF FlagsInTime
  <2> QED BY ONLY <2>7, <2>8, Zenon DEF ResultsInTime
<1> QED BY <1>1, PipelineTheorem, PTL

(* A branch sees its register as it was before the run of writes to it that  *)
(* ends in the cycle just before.                                            *)
THEOREM OperandTheorem ==
  Spec => []BranchOperand
<1>1. Inv => BranchOperand
  <2>1. SUFFICES ASSUME Inv, inRun, NEW r \in Vi
                 PROVE  BranchVi(vu, r) = IF RunOf(r) = {} THEN vu.vi[r]
                           ELSE (CHOOSE w \in RunOf(r) : \A x \in RunOf(r) : w.cycle <= x.cycle).before
    BY Zenon DEF BranchOperand
  <2>2. vu \in VuState /\ OldOk(vu, past.vis)
    BY <2>1, Zenon DEF Inv, TypeInv, OldInv
  <2> QED BY ONLY <2>2, OperandIs, r \in Vi
<1> QED BY <1>1, PipelineTheorem, PTL

(* Every packet handed on is whole, consecutive and as stored when each of   *)
(* its qwords was due; every kick is sent, rejected or still on.             *)
THEOREM PacketsTheorem ==
  Spec => []PacketsAsStored
<1>1. Inv => PacketsAsStored
  <2>1. SUFFICES ASSUME Inv PROVE PacketsAsStored
    OBVIOUS
  <2>2. vu \in VuState /\ SentPast(vu, past)
    BY <2>1, Zenon DEF Inv, TypeInv, SentInv
  <2>3. PICK V : V = StoredOf(past)
    OBVIOUS
  <2>4. Sent(vu, V) /\ past.kicks = Kicks(vu)
    BY ONLY <2>2, <2>3, Zenon DEF SentPast
  <2>5. past.kicks = Kicked
    BY ONLY <2>4, Zenon DEF Kicks, Kicked, EopCount
  <2>6. ASSUME NEW i \in 1..Len(vu.packets)
        PROVE  LET p == vu.packets[i]
               IN  Len(p) = 1 + p[1].val.n /\ Consecutive(p) /\ AsStored(p)
    <3>1. PICK p : p = vu.packets[i]
      OBVIOUS
    <3>2. Whole(p, V, vu.cycles)
      BY ONLY <2>4, <3>1, i \in 1..Len(vu.packets), Zenon DEF Sent
    <3>3. p \in Seq(Item)
      <4>1. PICK ps : ps = vu.packets
        OBVIOUS
      <4>2. ps \in Seq(Seq(Item))
        BY ONLY <2>2, <4>1, VuTypes
      <4>3. i \in 1..Len(ps) /\ p = ps[i]
        BY ONLY <3>1, <4>1, i \in 1..Len(vu.packets), Zenon
      <4> QED BY ONLY <4>2, <4>3
    <3>4. AsStored(p)
      <4>1. SUFFICES ASSUME NEW j \in 1..Len(p)
                     PROVE  p[j].val = StoredBefore(p[j].addr, p[j].due)
        BY Zenon DEF AsStored
      <4>2. p[j] \in Item
        BY ONLY <3>3, j \in 1..Len(p)
      <4>3. PICK a \in Cells, t \in Nat : a = p[j].addr /\ t = p[j].due
        BY ONLY <4>2 DEF Item
      <4>4. p[j].val = V[a, t]
        BY ONLY <3>2, <4>3, j \in 1..Len(p), Zenon DEF Whole, Items
      <4>5. V[a, t] = StoredBefore(a, t)
        BY ONLY <2>3, StoredIs, a \in Cells, t \in Nat
      <4> QED BY ONLY <4>3, <4>4, <4>5, Zenon
    <3> QED BY ONLY <3>1, <3>2, <3>4, Zenon DEF Whole
  <2> QED BY ONLY <2>5, <2>6, Zenon DEF PacketsAsStored
<1> QED BY <1>1, PipelineTheorem, PTL

(* A branch has one delay pair, and so has the E bit; a program that ended   *)
(* has nothing under way.                                                    *)
THEOREM FlowTheorem ==
  Spec => []ControlFlow
<1>1. Inv => ControlFlow
  <2>1. SUFFICES ASSUME Inv PROVE ControlFlow
    OBVIOUS
  <2>2. FlowOk(vu, past.pairs, past.ended, inRun)
    BY <2>1, Zenon DEF Inv, FlowInv
  <2>3. PICK P, n : P = past.pairs /\ n = Len(P)
    OBVIOUS
  <2>4. n > 0 => /\ vu.pc = NextPc(P[n].pc, IF n >= 2 THEN P[n - 1].taken ELSE NoBranch)
                 /\ past.ended = (n >= 2 /\ P[n - 1].e)
    BY ONLY <2>2, <2>3, Zenon DEF FlowOk
  <2>5. past.ended => ~vu.kick.on /\ ~vu.qPending
    BY ONLY <2>2, Zenon DEF FlowOk
  <2>6. NextPc(P[n].pc, IF n >= 2 THEN P[n - 1].taken ELSE NoBranch)
          = IF n >= 2 /\ P[n - 1].taken # NoBranch THEN P[n - 1].taken
            ELSE (P[n].pc + 1) % PcSize
    BY ONLY Zenon DEF NextPc
  <2>7. n > 0 => vu.pc = IF n >= 2 /\ P[n - 1].taken # NoBranch THEN P[n - 1].taken
                         ELSE (P[n].pc + 1) % PcSize
    BY ONLY <2>4, <2>6, Zenon
  <2> QED BY ONLY <2>3, <2>4, <2>5, <2>7, Zenon DEF ControlFlow
<1> QED BY <1>1, PipelineTheorem, PTL

===============================================================================
