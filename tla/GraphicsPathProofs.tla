--------------------------- MODULE GraphicsPathProofs ---------------------------
(***************************************************************************)
(* Two stages of the graphics path, for every value of their constants; the *)
(* third, Vif1Stream, has its proofs in Vif1StreamProofs.                   *)
(*                                                                          *)
(* VifChain: at every step, what the channel has read is the data of the    *)
(* tags it has passed, in their order, each of its cells where the spans    *)
(* say; each tag follows from the one before it, and the stack holds the    *)
(* returns of the calls of the path that have not returned (ChainInv).      *)
(*                                                                          *)
(* GifStream: what the GIF has in its buffer and what is not submitted are  *)
(* whole tags and then the tag being written (GifInv).  The state of the    *)
(* GIF is AsLog of what the tags before them wrote: registers, the vertices *)
(* that wait for a primitive, what is drawn and what a transfer has moved   *)
(* are those a reader of the log finds; each entry more is one Effect, and  *)
(* a packet of submit is its complete tags, one by one.                     *)
(***************************************************************************)
EXTENDS GraphicsPath, SequencesExt, FiniteSetsExt, FiniteSetTheorems, SequenceTheorems,
        WellFoundedInduction, TLAPS

-----------------------------------------------------------------------------
(* Numbers and sequences                                                     *)

(* A set of natural numbers has a least element.                             *)
LEMMA Least ==
  ASSUME NEW T \in SUBSET Nat, T # {}
  PROVE  \E m \in T : \A n \in T : m <= n
<1> DEFINE R == OpToRel(<, Nat)
<1>1. IsWellFoundedOn(R, Nat)
  BY NatLessThanWellFounded, Zenon
<1>4. \A n, m \in Nat : n < m => <<n, m>> \in R
  BY Zenon DEF OpToRel
<1> HIDE DEF R
<1>2. PICK m \in T : \A n \in T : ~(<<n, m>> \in R)
  BY <1>1, WFMin, Zenon
<1>3. \A n \in T : ~(n < m)
  BY <1>2, <1>4
<1> QED BY <1>3

(* Induction, over a set instead of a predicate.                            *)
LEMMA Induction ==
  ASSUME NEW T, 0 \in T, \A k \in Nat : k \in T => k + 1 \in T
  PROVE  Nat \subseteq T
<1>1. SUFFICES ASSUME ~(Nat \subseteq T) PROVE FALSE
  OBVIOUS
<1>2. PICK m \in Nat \ T : \A n \in Nat \ T : m <= n
  <2>1. Nat \ T \in SUBSET Nat /\ Nat \ T # {}
    BY <1>1
  <2> QED BY <2>1, Least, Zenon
<1>3. m # 0 /\ m - 1 \in Nat
  BY <1>2
<1>4. m - 1 \in T
  BY <1>2, <1>3
<1>5. (m - 1) + 1 \in T
  BY <1>3, <1>4
<1> QED BY <1>2, <1>5

LEMMA MaxIs ==
  ASSUME NEW S \in SUBSET Int, NEW x \in S, \A y \in S : y <= x
  PROVE  Max(S) = x
<1>1. PICK m : m = Max(S)
  OBVIOUS
<1>2. \E y \in S : \A z \in S : y >= z
  <2>1. \A z \in S : x >= z
    OBVIOUS
  <2> QED BY <2>1
<1>3. m = CHOOSE y \in S : \A z \in S : y >= z
  BY <1>1, Zenon DEF Max
<1>4. m \in S /\ \A z \in S : m >= z
  BY ONLY <1>2, <1>3, Zenon
<1>5. x \in Int /\ m \in Int /\ m >= x /\ m <= x
  BY <1>4
<1>6. m = x
  BY ONLY <1>5
<1> QED BY ONLY <1>1, <1>6

LEMMA BoundedMax ==
  ASSUME NEW S \in SUBSET Nat, S # {}, NEW b \in Nat, \A y \in S : y <= b
  PROVE  Max(S) \in S /\ \A y \in S : y <= Max(S)
<1> DEFINE T == {b - y : y \in S}
<1>1. T \in SUBSET Nat /\ T # {}
  <2>1. \A y \in S : b - y \in Nat
    OBVIOUS
  <2>2. T \in SUBSET Nat
    BY <2>1
  <2>3. PICK y : y \in S
    OBVIOUS
  <2>4. b - y \in T
    BY <2>3
  <2> QED BY <2>2, <2>4
<1>2. PICK m \in T : \A k \in T : m <= k
  BY <1>1, Least, Zenon
<1>3. PICK x \in S : m = b - x
  BY <1>2
<1>4. \A y \in S : y <= x
  <2>1. \A y \in S : b - y \in T
    OBVIOUS
  <2> HIDE DEF T
  <2>2. \A y \in S : b - x <= b - y
    BY ONLY <1>2, <1>3, <2>1
  <2> QED BY <1>3, <2>2
<1>5. Max(S) = x
  BY <1>4, MaxIs
<1> QED BY <1>4, <1>5

LEMMA MinIs ==
  ASSUME NEW S \in SUBSET Int, NEW x \in S, \A y \in S : x <= y
  PROVE  Min(S) = x
<1>1. PICK m : m = Min(S)
  OBVIOUS
<1>2. \E y \in S : \A z \in S : y <= z
  BY Zenon
<1>3. m = CHOOSE y \in S : \A z \in S : y <= z
  BY <1>1, Zenon DEF Min
<1>4. m \in S /\ \A z \in S : m <= z
  BY ONLY <1>2, <1>3, Zenon
<1>5. x \in Int /\ m \in Int /\ m >= x /\ m <= x
  BY <1>4
<1>6. m = x
  BY ONLY <1>5
<1> QED BY ONLY <1>1, <1>6

(* The sums that FlattenSeq is the last of.                                 *)
Upto(f, s, i) == IF i = 1 THEN s[i] ELSE f[i - 1] \o s[i]
Follows(f, s, n) == \A i \in 1..n : f[i] = Upto(f, s, i)
Alike(s, t, n) == \A i \in 1..n : s[i] = t[i]
Sums(f, s, X, n) == f \in [1..n -> Seq(X)] /\ Follows(f, s, n)

LEMMA SumsExist ==
  ASSUME NEW X, NEW s \in Seq(Seq(X))
  PROVE  \E f : Sums(f, s, X, Len(s))
<1> DEFINE T == {k \in Nat : k <= Len(s) => \E f : Sums(f, s, X, k)}
<1>0. Len(s) \in Nat /\ \A i \in 1..Len(s) : s[i] \in Seq(X)
  OBVIOUS
<1>1. \A k \in Nat : k \in T <=> (k <= Len(s) => \E f : Sums(f, s, X, k))
  BY Zenon
<1> HIDE DEF T
<1>2. 0 \in T
  <2> DEFINE f == [i \in 1..0 |-> <<>>]
  <2>1. Sums(f, s, X, 0)
    BY DEF Sums, Follows
  <2> HIDE DEF f
  <2>2. \E g : Sums(g, s, X, 0)
    BY <2>1, Zenon
  <2> QED BY <1>1, <2>2
<1>3. ASSUME NEW k \in Nat, k \in T PROVE k + 1 \in T
  <2>0. k + 1 \in Nat
    OBVIOUS
  <2>00. SUFFICES ASSUME k + 1 <= Len(s) PROVE \E f : Sums(f, s, X, k + 1)
    BY <1>1, <2>0, Zenon
  <2>01. k <= Len(s) /\ k + 1 \in 1..Len(s)
    BY <1>0, <2>00
  <2>1. PICK f : Sums(f, s, X, k)
    BY <1>1, <1>3, <2>01, Zenon
  <2> DEFINE v == Upto(f, s, k + 1)
             g == [i \in 1..(k + 1) |-> IF i = k + 1 THEN v ELSE f[i]]
  <2>2. v \in Seq(X)
    <3>1. s[k + 1] \in Seq(X)
      BY <1>0, <2>01
    <3>2. CASE k = 0
      BY <3>1, <3>2 DEF Upto
    <3>3. CASE k # 0
      <4>1. k \in 1..k /\ (k + 1) - 1 = k /\ k + 1 # 1
        BY <3>3
      <4>2. f[k] \in Seq(X)
        BY <2>1, <4>1 DEF Sums
      <4>3. v = f[k] \o s[k + 1]
        BY <4>1 DEF Upto
      <4>4. f[k] \o s[k + 1] \in Seq(X)
        BY <3>1, <4>2
      <4> QED BY <4>3, <4>4, Zenon
    <3> QED BY <3>2, <3>3
  <2>3. \A i \in 1..k : f[i] \in Seq(X) /\ f[i] = Upto(f, s, i)
    BY <2>1 DEF Sums, Follows
  <2> HIDE DEF v
  <2>4. g \in [1..(k + 1) -> Seq(X)]
    BY <2>2, <2>3
  <2>5. ASSUME NEW i \in 1..(k + 1) PROVE g[i] = Upto(g, s, i)
    <3>1. i # 1 => g[i - 1] = f[i - 1]
      BY Z3
    <3> HIDE DEF g
    <3>2. Upto(g, s, i) = Upto(f, s, i)
      BY <3>1 DEF Upto
    <3>3. g[i] = Upto(f, s, i)
      BY <2>3 DEF g, v
    <3> QED BY <3>2, <3>3
  <2>6. Sums(g, s, X, k + 1)
    BY <2>4, <2>5 DEF Sums, Follows
  <2> HIDE DEF g
  <2> QED BY <2>6, Zenon
<1>4. Len(s) \in T
  BY <1>0, <1>2, <1>3, Induction
<1>5. Len(s) <= Len(s)
  BY <1>0
<1> QED BY <1>0, <1>1, <1>4, <1>5, Zenon

(* Sums of sequences that begin alike are alike.                            *)
LEMMA SumsAgree ==
  ASSUME NEW f, NEW g, NEW s, NEW t, NEW k \in Nat,
         Alike(s, t, k), Follows(f, s, k), Follows(g, t, k)
  PROVE  Alike(f, g, k)
<1> SUFFICES ASSUME NEW j \in 1..k, f[j] # g[j] PROVE FALSE
  BY DEF Alike
<1> DEFINE T == {i \in 1..k : f[i] # g[i]}
<1>1. T \in SUBSET Nat /\ T # {}
  OBVIOUS
<1>2. PICK m \in T : \A n \in T : m <= n
  BY <1>1, Least, Zenon
<1>3. m \in 1..k /\ f[m] # g[m] /\ f[m] = Upto(f, s, m) /\ g[m] = Upto(g, t, m) /\ s[m] = t[m]
  BY <1>2 DEF Alike, Follows
<1>4. m # 1
  BY <1>3 DEF Upto
<1>5. m - 1 \in 1..k /\ f[m - 1] = g[m - 1]
  BY <1>2, <1>4
<1>6. Upto(f, s, m) = Upto(g, t, m)
  BY <1>3, <1>4, <1>5 DEF Upto
<1> QED BY <1>3, <1>6

LEMMA FlattenIs ==
  ASSUME NEW X, NEW s \in Seq(Seq(X)), NEW f, Sums(f, s, X, Len(s)), Len(s) # 0
  PROVE  FlattenSeq(s) = f[Len(s)]
<1> DEFINE Rec(g) == g = [i \in 1..Len(s) |-> IF i = 1 THEN s[i] ELSE g[i - 1] \o s[i]]
           c == CHOOSE g : Rec(g)
<1>0. Len(s) \in Nat
  OBVIOUS
<1>1. Rec(f)
  <2>1. \A i \in 1..Len(s) : f[i] = IF i = 1 THEN s[i] ELSE f[i - 1] \o s[i]
    BY Zenon DEF Sums, Follows, Upto
  <2>2. f \in [1..Len(s) -> Seq(X)]
    BY DEF Sums, Follows
  <2> QED BY <2>1, <2>2
<1>2. Rec(c)
  <2> HIDE DEF Rec
  <2> QED BY <1>1, Zenon
<1>3. FlattenSeq(s) = c[Len(s)]
  BY Zenon DEF FlattenSeq
<1> HIDE DEF c
<1>4. Follows(c, s, Len(s))
  BY <1>2 DEF Upto, Follows
<1> HIDE DEF Rec
<1>5. Alike(c, f, Len(s))
  <2>1. Follows(f, s, Len(s))
    BY DEF Sums, Follows
  <2>2. Alike(s, s, Len(s))
    BY DEF Alike
  <2> QED BY <1>0, <1>4, <2>1, <2>2, SumsAgree
<1> QED BY <1>0, <1>3, <1>5 DEF Alike

LEMMA FlattenEmpty == FlattenSeq(<<>>) = <<>>
  BY DEF FlattenSeq

LEMMA FlattenType ==
  ASSUME NEW X, NEW s \in Seq(Seq(X))
  PROVE  FlattenSeq(s) \in Seq(X)
<1>0. Len(s) \in Nat
  OBVIOUS
<1>1. PICK f : Sums(f, s, X, Len(s))
  BY SumsExist
<1>2. CASE Len(s) = 0
  <2>1. s = <<>>
    BY <1>2
  <2>2. FlattenSeq(s) = <<>>
    BY <2>1, FlattenEmpty, Zenon
  <2> QED BY <2>2
<1>3. CASE Len(s) # 0
  <2>1. Len(s) \in 1..Len(s)
    BY <1>0, <1>3
  <2>3. f \in [1..Len(s) -> Seq(X)]
    BY <1>1, Zenon DEF Sums
  <2>2. f[Len(s)] \in Seq(X)
    BY <2>1, <2>3
  <2> QED BY <1>1, <1>3, <2>2, FlattenIs
<1> QED BY <1>2, <1>3

LEMMA FlattenAppend ==
  ASSUME NEW X, NEW s \in Seq(Seq(X)), NEW e \in Seq(X)
  PROVE  FlattenSeq(Append(s, e)) = FlattenSeq(s) \o e
<1> DEFINE t == Append(s, e)
           n == Len(s)
<1>1. t \in Seq(Seq(X)) /\ Len(t) = n + 1 /\ n \in Nat /\ t[n + 1] = e
      /\ Alike(s, t, n)
  BY DEF Alike
<1>0. n = 0 => s = <<>>
  OBVIOUS
<1> HIDE DEF t
<1>2. PICK f : Sums(f, s, X, Len(s))
  BY SumsExist
<1>3. PICK g : Sums(g, t, X, Len(t))
  BY <1>1, SumsExist
<1> HIDE DEF n
<1>4. \A i \in 1..(n + 1) : g[i] = Upto(g, t, i)
  BY <1>1, <1>3 DEF Sums, Follows
<1>5. Alike(f, g, n)
  <2>1. Follows(f, s, n)
    BY <1>2 DEF Sums, n
  <2>2. Follows(g, t, n)
    BY <1>1, <1>4 DEF Follows
  <2> QED BY <1>1, <2>1, <2>2, SumsAgree
<1>6. FlattenSeq(t) = g[n + 1] /\ g[n + 1] = Upto(g, t, n + 1)
  <2>1. Len(t) # 0 /\ n + 1 \in 1..(n + 1)
    BY <1>1
  <2> QED BY <1>1, <1>3, <1>4, <2>1, FlattenIs
<1>7. CASE n = 0
  <2>1. FlattenSeq(s) = <<>>
    BY <1>0, <1>7, FlattenEmpty
  <2>2. g[n + 1] = e
    BY <1>1, <1>6, <1>7 DEF Upto
  <2> QED BY <1>6, <2>1, <2>2 DEF t
<1>8. CASE n # 0
  <2>1. FlattenSeq(s) = f[n]
    BY <1>2, <1>8, FlattenIs DEF n
  <2>2. f[n] = g[n]
    BY <1>1, <1>5, <1>8 DEF Alike
  <2>3. g[n + 1] = g[n] \o e
    <3>1. n + 1 # 1 /\ (n + 1) - 1 = n
      BY <1>1, <1>8
    <3> QED BY <1>1, <1>6, <3>1 DEF Upto
  <2> QED BY <1>6, <2>1, <2>2, <2>3 DEF t
<1> QED BY <1>7, <1>8

LEMMA FlattenConcat ==
  ASSUME NEW X, NEW s \in Seq(Seq(X)), NEW t \in Seq(Seq(X))
  PROVE  FlattenSeq(s \o t) = FlattenSeq(s) \o FlattenSeq(t)
<1> DEFINE P(k) == FlattenSeq(s \o SubSeq(t, 1, k)) = FlattenSeq(s) \o FlattenSeq(SubSeq(t, 1, k))
           U == {k \in Nat : k <= Len(t) => P(k)}
<1>0. Len(t) \in Nat
  OBVIOUS
<1>01. FlattenSeq(s) \in Seq(X)
  BY FlattenType
<1>1. P(0)
  <2>1. SubSeq(t, 1, 0) = <<>>
    OBVIOUS
  <2>2. s \o <<>> = s
    OBVIOUS
  <2>3. FlattenSeq(s) \o <<>> = FlattenSeq(s)
    BY <1>01
  <2> QED BY <2>1, <2>2, <2>3, FlattenEmpty
<1>2. ASSUME NEW k \in Nat, k + 1 <= Len(t), P(k) PROVE P(k + 1)
  <2> DEFINE p == SubSeq(t, 1, k)
             e == t[k + 1]
  <2>1. p \in Seq(Seq(X)) /\ e \in Seq(X)
    BY <1>0, <1>2
  <2>2. SubSeq(t, 1, k + 1) = Append(p, e)
    BY <1>0, <1>2, <2>1
  <2>3. FlattenSeq(s \o p) = FlattenSeq(s) \o FlattenSeq(p)
    BY <1>2
  <2> HIDE DEF p, e
  <2>4. s \o Append(p, e) = Append(s \o p, e) /\ s \o p \in Seq(Seq(X))
    BY <2>1
  <2>5. FlattenSeq(p) \in Seq(X)
    BY <2>1, FlattenType
  <2>6. FlattenSeq(Append(s \o p, e)) = FlattenSeq(s \o p) \o e
    BY <2>1, <2>4, FlattenAppend
  <2>7. FlattenSeq(Append(p, e)) = FlattenSeq(p) \o e
    BY <2>1, FlattenAppend
  <2>8. (FlattenSeq(s) \o FlattenSeq(p)) \o e = FlattenSeq(s) \o (FlattenSeq(p) \o e)
    BY <1>01, <2>1, <2>5, ConcatAssociative
  <2> QED BY <2>2, <2>3, <2>4, <2>6, <2>7, <2>8
<1> HIDE DEF P
<1>3. Len(t) \in U
  <2>1. 0 \in U
    BY <1>1
  <2>2. \A k \in Nat : k \in U => k + 1 \in U
    BY <1>0, <1>2
  <2> HIDE DEF U
  <2> QED BY <1>0, <2>1, <2>2, Induction
<1>4. P(Len(t))
  BY <1>0, <1>3
<1>5. SubSeq(t, 1, Len(t)) = t
  OBVIOUS
<1> QED BY <1>4, <1>5 DEF P

LEMMA ConcatIs ==
  ASSUME NEW X, NEW a \in Seq(X), NEW b \in Seq(X), NEW c \in Seq(X), Len(c) = Len(a) + Len(b),
         \A i \in 1..Len(a) : c[i] = a[i],
         \A i \in (Len(a) + 1)..(Len(a) + Len(b)) : c[i] = b[i - Len(a)]
  PROVE  c = a \o b
<1>1. a \o b \in Seq(X) /\ Len(a \o b) = Len(a) + Len(b)
  OBVIOUS
<1>2. \A i \in 1..(Len(a) + Len(b)) : c[i] = (a \o b)[i]
  OBVIOUS
<1> QED BY <1>1, <1>2, SeqEqual

-----------------------------------------------------------------------------
(* DMA: calls and returns                                                   *)

(* How many tags of a kind a stretch of tags has.                           *)
Kind(p, i, j, id) == {k \in i..j : p[k].tag.id = id}
Count(p, i, j, id) == Cardinality(Kind(p, i, j, id))

LEMMA CountType ==
  ASSUME NEW p, NEW i \in Int, NEW j \in Int, NEW id
  PROVE  IsFiniteSet(Kind(p, i, j, id)) /\ Count(p, i, j, id) \in Nat
<1>1. IsFiniteSet(i..j)
  BY FS_Interval
<1>2. Kind(p, i, j, id) \subseteq i..j
  BY DEF Kind
<1>3. IsFiniteSet(Kind(p, i, j, id))
  BY <1>1, <1>2, FS_Subset
<1> QED BY <1>3, FS_CardinalityType DEF Count

LEMMA CountSplit ==
  ASSUME NEW p, NEW i \in Int, NEW j \in Int, NEW k \in Int, NEW id, i <= j + 1, j <= k
  PROVE  Count(p, i, k, id) = Count(p, i, j, id) + Count(p, j + 1, k, id)
<1> DEFINE A == Kind(p, i, j, id)
           B == Kind(p, j + 1, k, id)
<1>1. Kind(p, i, k, id) = A \cup B /\ A \cap B = {}
  BY DEF Kind
<1>2. IsFiniteSet(A) /\ IsFiniteSet(B) /\ Cardinality(A) \in Nat /\ Cardinality(B) \in Nat
  <2>1. j + 1 \in Int
    OBVIOUS
  <2> QED BY <2>1, CountType DEF Count
<1> HIDE DEF A, B
<1>3. Cardinality(A \cup B) = Cardinality(A) + Cardinality(B) - Cardinality({})
  BY <1>1, <1>2, FS_Union, Zenon
<1>4. Cardinality({}) = 0
  BY FS_EmptySet
<1> QED BY <1>1, <1>2, <1>3, <1>4 DEF Count, A, B

LEMMA CountOne ==
  ASSUME NEW p, NEW i \in Int, NEW id
  PROVE  /\ Count(p, i, i, id) = IF p[i].tag.id = id THEN 1 ELSE 0
         /\ Count(p, i + 1, i, id) = 0
<1>1. Kind(p, i, i, id) = IF p[i].tag.id = id THEN {i} ELSE {}
  BY DEF Kind
<1>2. Kind(p, i + 1, i, id) = {}
  BY DEF Kind
<1>3. Cardinality({i}) = 1 /\ Cardinality({}) = 0
  BY FS_Singleton, FS_EmptySet
<1> QED BY <1>1, <1>2, <1>3 DEF Count

LEMMA CountSame ==
  ASSUME NEW p, NEW q, NEW i \in Int, NEW j \in Int, NEW id, \A k \in i..j : p[k] = q[k]
  PROVE  Count(p, i, j, id) = Count(q, i, j, id)
<1>1. Kind(p, i, j, id) = Kind(q, i, j, id)
  BY DEF Kind
<1> QED BY <1>1 DEF Count

(* Every call of a stretch returns in it, and nothing else does.            *)
Matched(p, i, j) ==
  /\ Count(p, i, j, "call") = Count(p, i, j, "ret")
  /\ \A k \in i..j : Count(p, k, j, "call") <= Count(p, k, j, "ret")

LEMMA MatchedNone ==
  ASSUME NEW p, NEW i \in Int
  PROVE  Matched(p, i + 1, i)
<1>1. Count(p, i + 1, i, "call") = Count(p, i + 1, i, "ret")
  BY CountOne
<1>2. \A k \in (i + 1)..i : FALSE
  OBVIOUS
<1> QED BY <1>1, <1>2 DEF Matched

LEMMA MatchedSame ==
  ASSUME NEW p, NEW q, NEW i \in Int, NEW j \in Int, \A k \in i..j : p[k] = q[k], Matched(p, i, j)
  PROVE  Matched(q, i, j)
<1>1. Count(q, i, j, "call") = Count(q, i, j, "ret")
  <2>1. /\ Count(p, i, j, "call") = Count(q, i, j, "call")
        /\ Count(p, i, j, "ret") = Count(q, i, j, "ret")
    BY CountSame
  <2> QED BY <2>1 DEF Matched
<1>2. ASSUME NEW k \in i..j PROVE Count(q, k, j, "call") <= Count(q, k, j, "ret")
  <2>1. \A l \in k..j : p[l] = q[l]
    OBVIOUS
  <2>2. k \in Int
    OBVIOUS
  <2>3. /\ Count(p, k, j, "call") = Count(q, k, j, "call")
        /\ Count(p, k, j, "ret") = Count(q, k, j, "ret")
    BY <2>1, <2>2, CountSame
  <2>4. Count(p, k, j, "call") <= Count(p, k, j, "ret")
    BY DEF Matched
  <2> QED BY <2>3, <2>4
<1> QED BY <1>1, <1>2 DEF Matched

(* Another tag at its end.                                                  *)
LEMMA MatchedMore ==
  ASSUME NEW p, NEW i \in Int, NEW j \in Int, i <= j + 1, Matched(p, i, j),
         p[j + 1].tag.id \notin {"call", "ret"}
  PROVE  Matched(p, i, j + 1)
<1>1. \A k \in Int, id \in {"call", "ret"} : k <= j + 1 => Count(p, k, j + 1, id) = Count(p, k, j, id)
  <2> SUFFICES ASSUME NEW k \in Int, NEW id \in {"call", "ret"}, k <= j + 1
               PROVE  Count(p, k, j + 1, id) = Count(p, k, j, id)
    OBVIOUS
  <2>1. j + 1 \in Int /\ j <= j + 1
    OBVIOUS
  <2>2. Count(p, k, j + 1, id) = Count(p, k, j, id) + Count(p, j + 1, j + 1, id)
    BY <2>1, CountSplit
  <2>3. Count(p, j + 1, j + 1, id) = 0
    BY <2>1, CountOne
  <2>4. Count(p, k, j, id) \in Nat
    BY CountType
  <2> QED BY <2>2, <2>3, <2>4
<1>2. Count(p, i, j + 1, "call") = Count(p, i, j + 1, "ret")
  BY <1>1 DEF Matched
<1>3. ASSUME NEW k \in i..(j + 1) PROVE Count(p, k, j + 1, "call") <= Count(p, k, j + 1, "ret")
  <2>1. CASE k = j + 1
    <3>1. Count(p, j + 1, j, "call") = 0 /\ Count(p, j + 1, j, "ret") = 0
      BY CountOne
    <3>2. k \in Int
      OBVIOUS
    <3> QED BY <1>1, <2>1, <3>1, <3>2
  <2>2. CASE k # j + 1
    <3>1. k \in i..j
      BY <2>2
    <3>2. Count(p, k, j, "call") <= Count(p, k, j, "ret")
      BY <3>1 DEF Matched
    <3>3. k \in Int
      OBVIOUS
    <3> QED BY <1>1, <3>1, <3>2, <3>3
  <2> QED BY <2>1, <2>2
<1> QED BY <1>2, <1>3 DEF Matched

(* A call, what it called, and its return.                                  *)
LEMMA MatchedCall ==
  ASSUME NEW p, NEW i \in Int, NEW c \in Int, NEW j \in Int, i <= c, c <= j,
         Matched(p, i, c - 1), Matched(p, c + 1, j), p[c].tag.id = "call", p[j + 1].tag.id = "ret"
  PROVE  Matched(p, i, j + 1)
<1> DEFINE C(k, l) == Count(p, k, l, "call")
           R(k, l) == Count(p, k, l, "ret")
<1>0. j + 1 \in Int /\ c - 1 \in Int /\ c + 1 \in Int /\ (c - 1) + 1 = c
  OBVIOUS
<1>1. \A k, l \in Int : C(k, l) \in Nat /\ R(k, l) \in Nat
  BY CountType
<1>2. C(j + 1, j + 1) = 0 /\ R(j + 1, j + 1) = 1 /\ C(c, c) = 1 /\ R(c, c) = 0
  BY <1>0, CountOne
<1>3. \A k, l, m \in Int : k <= l + 1 /\ l <= m => /\ C(k, m) = C(k, l) + C(l + 1, m)
                                                   /\ R(k, m) = R(k, l) + R(l + 1, m)
  BY CountSplit
<1>4. C(c + 1, j) = R(c + 1, j) /\ \A k \in (c + 1)..j : C(k, j) <= R(k, j)
  BY DEF Matched
<1>5. C(i, c - 1) = R(i, c - 1) /\ \A k \in i..(c - 1) : C(k, c - 1) <= R(k, c - 1)
  BY DEF Matched
<1> HIDE DEF C, R
<1>6. C(c, j) = C(c, c) + C(c + 1, j) /\ R(c, j) = R(c, c) + R(c + 1, j)
  BY ONLY <1>0, <1>3, c \in Int, j \in Int, c <= j
<1>7. \A k \in Int : k <= j + 1 => /\ C(k, j + 1) = C(k, j) + C(j + 1, j + 1)
                                   /\ R(k, j + 1) = R(k, j) + R(j + 1, j + 1)
  BY ONLY <1>0, <1>3, j \in Int
<1>8. \A k \in Int : k <= c => C(k, j) = C(k, c - 1) + C(c, j) /\ R(k, j) = R(k, c - 1) + R(c, j)
  BY ONLY <1>0, <1>3, c \in Int, j \in Int, c <= j
<1>13. C(c, j) = R(c, j) + 1
  BY ONLY <1>1, <1>2, <1>4, <1>6, <1>0, c \in Int, j \in Int
<1>11. \A k \in Int : k <= j + 1 => C(k, j + 1) = C(k, j) /\ R(k, j + 1) = R(k, j) + 1
  <2> SUFFICES ASSUME NEW k \in Int, k <= j + 1
               PROVE  C(k, j + 1) = C(k, j) /\ R(k, j + 1) = R(k, j) + 1
    OBVIOUS
  <2>1. C(k, j) \in Nat /\ R(k, j) \in Nat
    BY ONLY <1>1, k \in Int, j \in Int
  <2>2. C(k, j + 1) = C(k, j) + C(j + 1, j + 1) /\ R(k, j + 1) = R(k, j) + R(j + 1, j + 1)
    BY ONLY <1>7, k \in Int, k <= j + 1
  <2> QED BY ONLY <1>2, <2>1, <2>2
<1>12. \A k \in Int : k <= c /\ C(k, c - 1) <= R(k, c - 1) => C(k, j + 1) <= R(k, j + 1)
  <2> SUFFICES ASSUME NEW k \in Int, k <= c, C(k, c - 1) <= R(k, c - 1)
               PROVE  C(k, j + 1) <= R(k, j + 1)
    OBVIOUS
  <2>1. C(k, c - 1) \in Nat /\ R(k, c - 1) \in Nat /\ C(c, j) \in Nat /\ R(c, j) \in Nat
    BY ONLY <1>0, <1>1, k \in Int, j \in Int, c \in Int
  <2>2. C(k, j) = C(k, c - 1) + C(c, j) /\ R(k, j) = R(k, c - 1) + R(c, j)
    BY ONLY <1>8, k \in Int, k <= c
  <2>3. k <= j + 1
    BY ONLY k \in Int, k <= c, c \in Int, c <= j, j \in Int
  <2>4. C(k, j + 1) = C(k, j) /\ R(k, j + 1) = R(k, j) + 1
    BY ONLY <1>11, <2>3, k \in Int
  <2> QED BY ONLY <1>13, <2>1, <2>2, <2>4, C(k, c - 1) <= R(k, c - 1)
<1>9. C(i, j + 1) = R(i, j + 1)
  <2>1. C(i, c - 1) \in Nat /\ R(i, c - 1) \in Nat /\ C(c, j) \in Nat /\ R(c, j) \in Nat
    BY ONLY <1>0, <1>1, i \in Int, j \in Int, c \in Int
  <2>2. C(i, j) = C(i, c - 1) + C(c, j) /\ R(i, j) = R(i, c - 1) + R(c, j)
    BY ONLY <1>8, i \in Int, i <= c
  <2>3. i <= j + 1
    BY ONLY i \in Int, i <= c, c \in Int, c <= j, j \in Int
  <2>4. C(i, j + 1) = C(i, j) /\ R(i, j + 1) = R(i, j) + 1
    BY ONLY <1>11, <2>3, i \in Int
  <2> QED BY ONLY <1>5, <1>13, <2>1, <2>2, <2>4
<1>10. ASSUME NEW k \in i..(j + 1) PROVE C(k, j + 1) <= R(k, j + 1)
  <2>0. k \in Int /\ i <= k /\ k <= j + 1 /\ (k = j + 1 \/ k \in (c + 1)..j \/ k = c \/ k \in i..(c - 1))
    OBVIOUS
  <2>1. CASE k = j + 1
    BY <1>2, <2>1
  <2>2. CASE k \in (c + 1)..j
    <3>1. C(k, j) <= R(k, j) /\ C(k, j) \in Nat /\ R(k, j) \in Nat
      BY ONLY <1>1, <1>4, <2>0, <2>2, j \in Int
    <3>2. C(k, j + 1) = C(k, j) /\ R(k, j + 1) = R(k, j) + 1
      BY ONLY <1>11, <2>0
    <3> QED BY ONLY <3>1, <3>2
  <2>3. CASE k = c
    <3>1. C(c, j + 1) = C(c, j) /\ R(c, j + 1) = R(c, j) + 1
      BY ONLY <1>11, <2>0, <2>3
    <3>2. R(c, j) \in Nat
      BY ONLY <1>1, c \in Int, j \in Int
    <3> QED BY ONLY <1>13, <2>3, <3>1, <3>2
  <2>4. CASE k \in i..(c - 1)
    <3>1. C(k, c - 1) <= R(k, c - 1) /\ k <= c
      BY ONLY <1>5, <2>0, <2>4, i \in Int, c \in Int
    <3> QED BY ONLY <1>12, <2>0, <3>1
  <2> QED BY <2>0, <2>1, <2>2, <2>3, <2>4
<1> QED BY <1>9, <1>10 DEF Matched, C, R

LEMMA ModPlus ==
  ASSUME NEW x \in Nat, NEW m \in Nat, m # 0, NEW j \in Nat, (x % m) + j < m
  PROVE  (x + j) % m = (x % m) + j
<1> DEFINE r == x % m
           q == x \div m
           s == (x + j) % m
           p == (x + j) \div m
<1>1. r \in Nat /\ q \in Int /\ x = m * q + r /\ r < m
  OBVIOUS
<1>2. s \in Nat /\ p \in Int /\ x + j = m * p + s /\ s < m
  OBVIOUS
<1>3. r + j < m
  OBVIOUS
<1> HIDE DEF r, q, s, p
<1>4. m * p - m * q = m * (p - q)
  BY <1>1, <1>2
<1>5. m * (p - q) = r + j - s
  BY ONLY <1>1, <1>2, <1>4, m \in Nat, j \in Nat, x \in Nat
<1>6. PICK d \in Int : d = p - q
  BY <1>1, <1>2
<1>7. m * d < m /\ m * d > 0 - m /\ m * d = r + j - s
  BY ONLY <1>1, <1>2, <1>3, <1>5, <1>6, m \in Nat, j \in Nat
<1>8. d <= 0
  <2>1. d >= 1 => m * d >= m
    BY ONLY <1>6, m \in Nat
  <2>2. m * d \in Int
    BY <1>6
  <2> QED BY ONLY <1>6, <1>7, <2>1, <2>2, m \in Nat
<1>9. d >= 0
  <2>1. d <= 0 - 1 => m * d <= 0 - m
    BY ONLY <1>6, m \in Nat
  <2>2. m * d \in Int
    BY <1>6
  <2> QED BY ONLY <1>6, <1>7, <2>1, <2>2, m \in Nat
<1>10. d = 0
  BY ONLY <1>6, <1>8, <1>9
<1>11. m * d = 0
  BY ONLY <1>10, m \in Nat
<1>12. s = r + j
  BY ONLY <1>1, <1>2, <1>7, <1>11, j \in Nat
<1> QED BY <1>12 DEF s, r

(* A cell a transfer takes, and a span of them.                             *)
Spot == {"ram", "spr"} \X Nat
Span == [cell : Spot, offset : Nat, size : Nat]
CellsOf(s) == [k \in 1..s.size |-> <<s.cell[1], s.cell[2] + k - 1>>]
AllCells(s) == [i \in 1..Len(s) |-> CellsOf(s[i])]
Chained(s, o) == \A i \in 1..Len(s) : s[i].offset = (IF i = 1 THEN o ELSE s[i - 1].offset + s[i - 1].size)
EndsAt(s, e) == Len(s) # 0 => s[Len(s)].offset + s[Len(s)].size = e

(* The spans s say where the packet p, from offset o on, was read.          *)
Spread(s, p, o) ==
  /\ s \in Seq(Span) /\ p \in Seq(Spot)
  /\ FlattenSeq(AllCells(s)) = p
  /\ Chained(s, o) /\ EndsAt(s, o + Len(p))

LEMMA CellsType ==
  ASSUME NEW s \in Seq(Span)
  PROVE  AllCells(s) \in Seq(Seq(Spot)) /\ Len(AllCells(s)) = Len(s)
<1>1. \A i \in 1..Len(s) : CellsOf(s[i]) \in Seq(Spot)
  <2> SUFFICES ASSUME NEW i \in 1..Len(s) PROVE CellsOf(s[i]) \in Seq(Spot)
    OBVIOUS
  <2>1. s[i] \in Span
    OBVIOUS
  <2>2. PICK e : e = s[i]
    OBVIOUS
  <2>3. e.cell \in Spot /\ e.size \in Nat
    BY <2>1, <2>2 DEF Span
  <2>4. \A k \in 1..e.size : <<e.cell[1], e.cell[2] + k - 1>> \in Spot
    BY <2>3 DEF Spot
  <2>5. CellsOf(e) \in Seq(Spot)
    BY <2>3, <2>4 DEF CellsOf
  <2> QED BY <2>2, <2>5
<1> QED BY <1>1 DEF AllCells

LEMMA SpreadNone ==
  ASSUME NEW o \in Nat
  PROVE  Spread(<<>>, <<>>, o)
<1>1. AllCells(<<>>) = <<>>
  BY DEF AllCells
<1>2. FlattenSeq(AllCells(<<>>)) = <<>>
  BY <1>1, FlattenEmpty
<1> QED BY <1>2 DEF Spread, Chained, EndsAt

LEMMA SpreadOne ==
  ASSUME NEW s \in Span
  PROVE  Spread(<<s>>, CellsOf(s), s.offset)
<1> DEFINE t == <<s>>
<1>1. t \in Seq(Span) /\ Len(t) = 1 /\ t[1] = s
  OBVIOUS
<1>2. AllCells(t) \in Seq(Seq(Spot)) /\ Len(AllCells(t)) = 1 /\ AllCells(t)[1] = CellsOf(s)
  <2>1. AllCells(t)[1] = CellsOf(t[1])
    BY <1>1 DEF AllCells
  <2> QED BY <1>1, <2>1, CellsType
<1> HIDE DEF t
<1>3. CellsOf(s) \in Seq(Spot) /\ Len(CellsOf(s)) = s.size
  <2>0. 1 \in 1..Len(AllCells(t))
    BY <1>2
  <2>1. CellsOf(s) \in Seq(Spot)
    BY <1>2, <2>0, ElementOfSeq
  <2>2. DOMAIN CellsOf(s) = 1..s.size /\ s.size \in Nat
    BY DEF CellsOf, Span
  <2> QED BY <2>1, <2>2
<1>4. FlattenSeq(AllCells(t)) = CellsOf(s)
  <2>1. AllCells(t) = Append(<<>>, CellsOf(s))
    BY <1>2
  <2>2. <<>> \in Seq(Seq(Spot))
    OBVIOUS
  <2>3. FlattenSeq(Append(<<>>, CellsOf(s))) = FlattenSeq(<<>>) \o CellsOf(s)
    BY <1>3, <2>2, FlattenAppend
  <2>4. <<>> \o CellsOf(s) = CellsOf(s)
    BY <1>3
  <2> QED BY <2>1, <2>3, <2>4, FlattenEmpty
<1>5. Chained(t, s.offset) /\ EndsAt(t, s.offset + Len(CellsOf(s)))
  BY <1>1, <1>3 DEF Chained, EndsAt
<1> QED BY <1>1, <1>3, <1>4, <1>5 DEF Spread, t

LEMMA SpreadJoin ==
  ASSUME NEW s, NEW p, NEW t, NEW q, NEW o \in Nat, Spread(s, p, o), Spread(t, q, o + Len(p))
  PROVE  Spread(s \o t, p \o q, o)
<1>1. s \in Seq(Span) /\ t \in Seq(Span) /\ p \in Seq(Spot) /\ q \in Seq(Spot)
  BY DEF Spread
<1>2. /\ s \o t \in Seq(Span) /\ p \o q \in Seq(Spot) /\ Len(p \o q) = Len(p) + Len(q)
      /\ Len(s) \in Nat /\ Len(t) \in Nat /\ Len(p) \in Nat /\ Len(q) \in Nat /\ Len(s \o t) = Len(s) + Len(t)
  BY <1>1
<1>3. /\ \A i \in 1..Len(s) : (s \o t)[i] = s[i]
      /\ \A i \in (Len(s) + 1)..(Len(s) + Len(t)) : (s \o t)[i] = t[i - Len(s)]
  BY <1>1
<1>4. AllCells(s \o t) = AllCells(s) \o AllCells(t)
  <2>1. /\ AllCells(s) \in Seq(Seq(Spot)) /\ Len(AllCells(s)) = Len(s)
        /\ AllCells(t) \in Seq(Seq(Spot)) /\ Len(AllCells(t)) = Len(t)
        /\ AllCells(s \o t) \in Seq(Seq(Spot)) /\ Len(AllCells(s \o t)) = Len(s) + Len(t)
    BY <1>1, <1>2, CellsType
  <2>2. \A i \in 1..Len(s) : AllCells(s \o t)[i] = AllCells(s)[i]
    BY <1>2, <1>3 DEF AllCells
  <2>3. \A i \in (Len(s) + 1)..(Len(s) + Len(t)) : AllCells(s \o t)[i] = AllCells(t)[i - Len(s)]
    BY <1>2, <1>3 DEF AllCells
  <2>4. PICK a, b, c : a = AllCells(s) /\ b = AllCells(t) /\ c = AllCells(s \o t)
    OBVIOUS
  <2>5. /\ a \in Seq(Seq(Spot)) /\ b \in Seq(Seq(Spot)) /\ c \in Seq(Seq(Spot))
        /\ Len(a) = Len(s) /\ Len(b) = Len(t) /\ Len(c) = Len(a) + Len(b)
    BY <2>1, <2>4
  <2>6. /\ \A i \in 1..Len(a) : c[i] = a[i]
        /\ \A i \in (Len(a) + 1)..(Len(a) + Len(b)) : c[i] = b[i - Len(a)]
    BY ONLY <2>2, <2>3, <2>4, <2>5
  <2>7. c = a \o b
    BY ONLY <2>5, <2>6, ConcatIs
  <2> QED BY ONLY <2>4, <2>7
<1>5. FlattenSeq(AllCells(s \o t)) = p \o q
  <2>1. AllCells(s) \in Seq(Seq(Spot)) /\ AllCells(t) \in Seq(Seq(Spot))
    BY <1>1, CellsType
  <2>2. FlattenSeq(AllCells(s) \o AllCells(t)) = FlattenSeq(AllCells(s)) \o FlattenSeq(AllCells(t))
    BY <2>1, FlattenConcat
  <2>3. FlattenSeq(AllCells(s)) = p /\ FlattenSeq(AllCells(t)) = q
    BY DEF Spread
  <2> QED BY <1>4, <2>2, <2>3
<1>6. Chained(s \o t, o)
  <2> SUFFICES ASSUME NEW i \in 1..(Len(s) + Len(t))
               PROVE (s \o t)[i].offset
                     = (IF i = 1 THEN o ELSE (s \o t)[i - 1].offset + (s \o t)[i - 1].size)
    BY <1>2 DEF Chained
  <2>1. /\ \A k \in 1..Len(s) : s[k].offset = (IF k = 1 THEN o ELSE s[k - 1].offset + s[k - 1].size)
        /\ \A k \in 1..Len(t) : t[k].offset = (IF k = 1 THEN o + Len(p) ELSE t[k - 1].offset + t[k - 1].size)
        /\ Len(s) # 0 => s[Len(s)].offset + s[Len(s)].size = o + Len(p)
    BY DEF Spread, Chained, EndsAt
  <2>2. CASE i \in 1..Len(s)
    <3>1. i # 1 => i - 1 \in 1..Len(s)
      BY <1>2, <2>2
    <3>2. (s \o t)[i] = s[i] /\ (i # 1 => (s \o t)[i - 1] = s[i - 1])
      BY <1>3, <2>2, <3>1
    <3> QED BY <2>1, <2>2, <3>2
  <2>3. CASE i = Len(s) + 1
    <3>1. (s \o t)[i] = t[1] /\ 1 \in 1..Len(t)
      BY <1>2, <1>3, <2>3
    <3>2. t[1].offset = o + Len(p)
      BY <2>1, <3>1
    <3>3. CASE Len(s) = 0
      <4>1. s = <<>>
        BY <1>1, <3>3
      <4>2. p = <<>>
        <5>1. AllCells(<<>>) = <<>>
          BY DEF AllCells
        <5> QED BY <4>1, <5>1, FlattenEmpty DEF Spread
      <4>3. i = 1 /\ o + Len(p) = o
        BY <2>3, <3>3, <4>2
      <4> QED BY <3>1, <3>2, <4>3
    <3>4. CASE Len(s) # 0
      <4>1. i # 1 /\ i - 1 = Len(s) /\ i - 1 \in 1..Len(s)
        BY <1>2, <2>3, <3>4
      <4>2. (s \o t)[i - 1] = s[Len(s)]
        BY <1>3, <4>1
      <4> QED BY <2>1, <3>1, <3>2, <3>4, <4>1, <4>2
    <3> QED BY <3>3, <3>4
  <2>4. CASE i \in (Len(s) + 2)..(Len(s) + Len(t))
    <3>1. /\ i \in (Len(s) + 1)..(Len(s) + Len(t)) /\ i - 1 \in (Len(s) + 1)..(Len(s) + Len(t))
          /\ i - Len(s) \in 1..Len(t) /\ i - Len(s) # 1 /\ (i - Len(s)) - 1 = (i - 1) - Len(s) /\ i # 1
      BY <1>2, <2>4
    <3>2. (s \o t)[i] = t[i - Len(s)] /\ (s \o t)[i - 1] = t[(i - 1) - Len(s)]
      BY <1>3, <3>1
    <3>3. t[i - Len(s)].offset = t[(i - Len(s)) - 1].offset + t[(i - Len(s)) - 1].size
      BY <2>1, <3>1
    <3> QED BY <3>1, <3>2, <3>3
  <2> QED BY <1>2, <2>2, <2>3, <2>4
<1>7. EndsAt(s \o t, o + Len(p \o q))
  <2>1. SUFFICES ASSUME Len(s) + Len(t) # 0
        PROVE (s \o t)[Len(s) + Len(t)].offset + (s \o t)[Len(s) + Len(t)].size = o + Len(p) + Len(q)
    BY <1>2 DEF EndsAt
  <2>2. CASE Len(t) # 0
    <3>1. Len(s) + Len(t) \in (Len(s) + 1)..(Len(s) + Len(t)) /\ (Len(s) + Len(t)) - Len(s) = Len(t)
      BY <1>2, <2>2
    <3>2. (s \o t)[Len(s) + Len(t)] = t[Len(t)]
      BY <1>3, <3>1
    <3> QED BY <2>2, <3>2 DEF Spread, EndsAt
  <2>3. CASE Len(t) = 0
    <3>1. Len(s) + Len(t) = Len(s) /\ Len(s) \in 1..Len(s)
      BY <1>2, <2>1, <2>3
    <3>2. (s \o t)[Len(s)] = s[Len(s)]
      BY <1>3, <3>1
    <3>3. q = <<>>
      <4>1. t = <<>>
        BY <1>1, <2>3
      <4>2. AllCells(<<>>) = <<>>
        BY DEF AllCells
      <4> QED BY <4>1, <4>2, FlattenEmpty DEF Spread
    <3>4. s[Len(s)].offset + s[Len(s)].size = o + Len(p) /\ o + Len(p) + Len(q) = o + Len(p)
      BY <1>2, <3>1, <3>3 DEF Spread, EndsAt
    <3> QED BY <3>1, <3>2, <3>4
  <2> QED BY <2>2, <2>3
<1> QED BY <1>2, <1>5, <1>6, <1>7 DEF Spread

(* A stage's copies of the libraries' operators are the libraries'.          *)
LEMMA SameSets ==
  ASSUME NEW S
  PROVE  Dma!Max(S) = Max(S) /\ Dma!Min(S) = Min(S) /\ Dma!Cardinality(S) = Cardinality(S)
  BY DEF Dma!Max, Max, Dma!Min, Min, Dma!Cardinality, Cardinality

LEMMA SameSequences ==
  ASSUME NEW s
  PROVE  Dma!Last(s) = Last(s) /\ Dma!Front(s) = Front(s) /\ Dma!FlattenSeq(s) = FlattenSeq(s)
  BY DEF Dma!Last, Last, Dma!Front, Front, Dma!FlattenSeq, FlattenSeq

Sized == Ram \in Nat \ {0} /\ Spr \in Nat \ {0}

LEMMA PlusIs ==
  ASSUME NEW a \in Dma!Address, NEW n \in Nat
  PROVE  /\ Dma!Plus(a, n) \in Dma!Address /\ Dma!Plus(a, n).bank = a.bank /\ Dma!Plus(a, n).at = a.at + n
         /\ Dma!Plus(a, 0) = a
         /\ \A m \in Nat : Dma!Plus(Dma!Plus(a, n), m) = Dma!Plus(a, n + m)
<1>1. \A m \in Nat : /\ Dma!Plus(a, m) = [bank |-> a.bank, at |-> a.at + m]
                     /\ Dma!Plus(a, m) \in Dma!Address /\ Dma!Plus(a, m).bank = a.bank /\ Dma!Plus(a, m).at = a.at + m
  BY DEF Dma!Plus, Dma!Address
<1>4. \A b \in Dma!Address, m \in Nat : Dma!Plus(b, m) = [bank |-> b.bank, at |-> b.at + m]
  BY DEF Dma!Plus, Dma!Address
<1>2. Dma!Plus(a, 0) = a
  BY <1>1 DEF Dma!Address
<1>3. \A m \in Nat : Dma!Plus(Dma!Plus(a, n), m) = Dma!Plus(a, n + m)
  <2> SUFFICES ASSUME NEW m \in Nat PROVE Dma!Plus(Dma!Plus(a, n), m) = Dma!Plus(a, n + m)
    OBVIOUS
  <2>1. Dma!Plus(Dma!Plus(a, n), m) = [bank |-> Dma!Plus(a, n).bank, at |-> Dma!Plus(a, n).at + m]
    BY <1>1, <1>4
  <2>2. n + m \in Nat /\ (a.at + n) + m = a.at + (n + m)
    BY DEF Dma!Address
  <2> QED BY <1>1, <2>1, <2>2
<1> QED BY <1>1, <1>2, <1>3

LEMMA CellType ==
  ASSUME Sized, NEW a \in Dma!Address
  PROVE  Dma!CellOf(a) \in Spot
<1>1. Spr \in Nat /\ Spr # 0 /\ a.at \in Nat /\ a.bank \in {"ram", "spr"}
  BY DEF Sized, Dma!Address
<1>2. a.at % Spr \in Nat
  BY <1>1
<1> QED BY <1>1, <1>2 DEF Dma!CellOf, Spot

LEMMA BytesType ==
  ASSUME Sized, NEW a \in Dma!Address, NEW n \in Nat
  PROVE  Dma!Bytes(a, n) \in Seq(Spot) /\ Len(Dma!Bytes(a, n)) = n
<1>1. \A i \in 1..n : Dma!CellOf(Dma!Plus(a, i - 1)) \in Spot
  <2> SUFFICES ASSUME NEW i \in 1..n PROVE Dma!CellOf(Dma!Plus(a, i - 1)) \in Spot
    OBVIOUS
  <2>1. i - 1 \in Nat
    OBVIOUS
  <2>2. Dma!Plus(a, i - 1) \in Dma!Address
    BY <2>1, PlusIs
  <2> QED BY <2>2, CellType
<1> QED BY <1>1 DEF Dma!Bytes

LEMMA BytesJoin ==
  ASSUME Sized, NEW a \in Dma!Address, NEW n \in Nat, NEW m \in Nat
  PROVE  Dma!Bytes(a, n + m) = Dma!Bytes(a, n) \o Dma!Bytes(Dma!Plus(a, n), m)
<1> DEFINE x == Dma!Bytes(a, n)
           y == Dma!Bytes(Dma!Plus(a, n), m)
           z == Dma!Bytes(a, n + m)
<1>1. Dma!Plus(a, n) \in Dma!Address /\ n + m \in Nat
  BY PlusIs
<1>2. /\ x \in Seq(Spot) /\ y \in Seq(Spot) /\ z \in Seq(Spot)
      /\ Len(x) = n /\ Len(y) = m /\ Len(z) = n + m
  BY <1>1, BytesType
<1>3. \A i \in 1..n : z[i] = x[i]
  BY DEF Dma!Bytes
<1>4. ASSUME NEW i \in (n + 1)..(n + m) PROVE z[i] = y[i - n]
  <2>1. i - n \in 1..m /\ (i - n) - 1 \in Nat /\ n + ((i - n) - 1) = i - 1 /\ i \in 1..(n + m)
    OBVIOUS
  <2>2. z[i] = Dma!CellOf(Dma!Plus(a, i - 1))
    BY <2>1 DEF Dma!Bytes
  <2>3. y[i - n] = Dma!CellOf(Dma!Plus(Dma!Plus(a, n), (i - n) - 1))
    BY <2>1 DEF Dma!Bytes
  <2>4. Dma!Plus(Dma!Plus(a, n), (i - n) - 1) = Dma!Plus(a, n + ((i - n) - 1))
    BY <2>1, PlusIs
  <2> QED BY <2>1, <2>2, <2>3, <2>4
<1> HIDE DEF x, y, z
<1>5. z = x \o y
  BY <1>2, <1>3, <1>4, ConcatIs
<1> QED BY <1>5 DEF x, y, z

(* A span is of consecutive cells, and not empty.                           *)
LEMMA ChunkIs ==
  ASSUME Sized, NEW a \in Dma!Address, NEW n \in Nat, n # 0, NEW o \in Nat
  PROVE  LET s == [cell |-> Dma!CellOf(a), offset |-> o, size |-> Dma!Chunk(a, n)]
         IN  Dma!Chunk(a, n) \in 1..n /\ s \in Span /\ CellsOf(s) = Dma!Bytes(a, Dma!Chunk(a, n))
<1> DEFINE r == a.at % Spr
           c == Dma!Chunk(a, n)
           s == [cell |-> Dma!CellOf(a), offset |-> o, size |-> c]
<1>1. /\ Spr \in Nat /\ Spr # 0 /\ a.at \in Nat /\ a.bank \in {"ram", "spr"}
      /\ r \in Nat /\ r < Spr
  BY DEF Sized, Dma!Address
<1>2. c \in 1..n /\ (a.bank = "spr" => c <= Spr - r)
  <2>1. CASE a.bank # "spr"
    BY <2>1 DEF Dma!Chunk
  <2>2. CASE a.bank = "spr"
    <3> HIDE DEF r
    <3>1. PICK m : m = Spr - r /\ m \in Nat /\ m # 0
      BY <1>1
    <3>2. c = Min({n, m})
      BY <2>2, <3>1, SameSets DEF Dma!Chunk, r
    <3>3. c = IF n <= m THEN n ELSE m
      <4>1. CASE n <= m
        <5>1. n \in {n, m} /\ \A y \in {n, m} : n <= y
          BY <3>1, <4>1
        <5> QED BY <3>2, <4>1, <5>1, MinIs, <3>1
      <4>2. CASE ~(n <= m)
        <5>1. m \in {n, m} /\ \A y \in {n, m} : m <= y
          BY <3>1, <4>2
        <5> QED BY <3>2, <4>2, <5>1, MinIs, <3>1
      <4> QED BY <4>1, <4>2
    <3> QED BY <3>1, <3>3
  <2> QED BY <2>1, <2>2
<1> HIDE DEF c
<1>3. s \in Span
  BY <1>2, CellType DEF Span
<1>4. CellsOf(s) = Dma!Bytes(a, c)
  <2>1. \A k \in 1..c : <<Dma!CellOf(a)[1], Dma!CellOf(a)[2] + k - 1>> = Dma!CellOf(Dma!Plus(a, k - 1))
    <3> SUFFICES ASSUME NEW k \in 1..c
                 PROVE  <<Dma!CellOf(a)[1], Dma!CellOf(a)[2] + k - 1>> = Dma!CellOf(Dma!Plus(a, k - 1))
      OBVIOUS
    <3>1. k - 1 \in Nat /\ a.at + k - 1 = a.at + (k - 1) /\ r + k - 1 = r + (k - 1)
      BY <1>1, <1>2
    <3>2. Dma!Plus(a, k - 1).bank = a.bank /\ Dma!Plus(a, k - 1).at = a.at + (k - 1)
      BY <3>1, PlusIs
    <3>3. CASE a.bank # "spr"
      BY <3>1, <3>2, <3>3 DEF Dma!CellOf
    <3>4. CASE a.bank = "spr"
      <4>1. r + (k - 1) < Spr
        BY <1>1, <1>2, <3>4
      <4>2. (a.at + (k - 1)) % Spr = r + (k - 1)
        BY <1>1, <3>1, <4>1, ModPlus
      <4> QED BY <3>1, <3>2, <3>4, <4>2 DEF Dma!CellOf
    <3> QED BY <3>3, <3>4
  <2> QED BY <2>1 DEF CellsOf, Dma!Bytes
<1> QED BY <1>2, <1>3, <1>4 DEF c

(* The recursion of Spans.                                                  *)
SpanAt(a, n, off, o) ==
  [cell |-> Dma!CellOf(Dma!Plus(a, o)), offset |-> off + o, size |-> Dma!Chunk(Dma!Plus(a, o), n - o)]
Rest(f, a, n, off, o) ==
  IF o = n THEN <<>> ELSE <<SpanAt(a, n, off, o)>> \o f[o + Dma!Chunk(Dma!Plus(a, o), n - o)]
Splits(f, a, n, off, k) == f = [o \in k..n |-> f[o]] /\ \A o \in k..n : f[o] = Rest(f, a, n, off, o)

LEMMA SplitsStep ==
  ASSUME Sized, NEW a \in Dma!Address, NEW n \in Nat, NEW o \in 0..n, o # n
  PROVE  o + Dma!Chunk(Dma!Plus(a, o), n - o) \in (o + 1)..n
<1>1. o \in Nat /\ n - o \in Nat /\ n - o # 0
  OBVIOUS
<1>2. Dma!Plus(a, o) \in Dma!Address
  BY <1>1, PlusIs
<1>3. Dma!Chunk(Dma!Plus(a, o), n - o) \in 1..(n - o)
  BY <1>1, <1>2, ChunkIs
<1> QED BY <1>3

LEMMA SplitsExist ==
  ASSUME Sized, NEW a \in Dma!Address, NEW n \in Nat, NEW off
  PROVE  \E f : Splits(f, a, n, off, 0)
<1> DEFINE T == {k \in Nat : k <= n => \E f : Splits(f, a, n, off, n - k)}
<1>1. \A k \in Nat : k \in T <=> (k <= n => \E f : Splits(f, a, n, off, n - k))
  BY Zenon
<1> HIDE DEF T
<1>2. 0 \in T
  <2>1. n - 0 = n
    OBVIOUS
  <2> DEFINE f == [i \in n..n |-> <<>>]
  <2>2. Splits(f, a, n, off, n)
    BY DEF Splits, Rest
  <2> HIDE DEF f
  <2>3. \E g : Splits(g, a, n, off, n)
    BY <2>2, Zenon
  <2> QED BY <1>1, <2>1, <2>3
<1>3. ASSUME NEW k \in Nat, k \in T PROVE k + 1 \in T
  <2>0. k + 1 \in Nat
    OBVIOUS
  <2>00. SUFFICES ASSUME k + 1 <= n PROVE \E f : Splits(f, a, n, off, n - (k + 1))
    BY <1>1, <2>0, Zenon
  <2>01. k <= n
    BY <2>00
  <2>02. PICK m : m = n - k
    OBVIOUS
  <2>03. m \in 1..n /\ m - 1 \in 0..n /\ m - 1 # n /\ n - (k + 1) = m - 1
    BY <2>00, <2>02
  <2>1. PICK f : Splits(f, a, n, off, m)
    BY <1>1, <1>3, <2>01, <2>02, Zenon
  <2> DEFINE v == Rest(f, a, n, off, m - 1)
             g == [i \in (m - 1)..n |-> IF i = m - 1 THEN v ELSE f[i]]
  <2>2. \A i \in m..n : g[i] = f[i] /\ f[i] = Rest(f, a, n, off, i)
    <3> HIDE DEF v
    <3>1. \A i \in m..n : f[i] = Rest(f, a, n, off, i)
      BY <2>1 DEF Splits
    <3>2. \A i \in m..n : g[i] = f[i]
      BY <2>03
    <3> QED BY <3>1, <3>2
  <2>3. g = [i \in (m - 1)..n |-> g[i]] /\ g[m - 1] = v
    BY <2>03
  <2> HIDE DEF g
  <2>4. ASSUME NEW i \in (m - 1)..n PROVE g[i] = Rest(g, a, n, off, i)
    <3>1. CASE i = n
      <4>1. i \in m..n
        BY <2>03, <3>1
      <4> QED BY <2>2, <3>1, <4>1 DEF Rest
    <3>2. CASE i # n
      <4>1. i \in 0..n
        BY <2>03
      <4>2. PICK j : j = i + Dma!Chunk(Dma!Plus(a, i), n - i)
        OBVIOUS
      <4>3. j \in (i + 1)..n
        BY <3>2, <4>1, <4>2, SplitsStep
      <4>4. j \in m..n
        BY <2>03, <4>3
      <4>5. g[j] = f[j]
        BY <2>2, <4>4
      <4>6. Rest(g, a, n, off, i) = Rest(f, a, n, off, i)
        BY <4>2, <4>5 DEF Rest
      <4>7. g[i] = Rest(f, a, n, off, i)
        <5>1. CASE i = m - 1
          BY <2>3, <5>1 DEF v
        <5>2. CASE i # m - 1
          <6>1. i \in m..n
            BY <2>03, <5>2
          <6> QED BY <2>2, <6>1
        <5> QED BY <5>1, <5>2
      <4> QED BY <4>6, <4>7
    <3> QED BY <3>1, <3>2
  <2>5. Splits(g, a, n, off, m - 1)
    BY <2>3, <2>4 DEF Splits
  <2> QED BY <2>03, <2>5, Zenon
<1>4. n \in T
  BY <1>2, <1>3, Induction
<1>5. n <= n /\ n - n = 0
  OBVIOUS
<1> QED BY <1>1, <1>4, <1>5

LEMMA SplitsSpread ==
  ASSUME Sized, NEW a \in Dma!Address, NEW n \in Nat, NEW off \in Nat, NEW f, Splits(f, a, n, off, 0)
  PROVE  Spread(f[0], Dma!Bytes(a, n), off)
<1> DEFINE Good(o) == Spread(f[o], Dma!Bytes(Dma!Plus(a, o), n - o), off + o)
           T == {k \in 0..n : ~Good(n - k)}
<1>1. SUFFICES ASSUME ~Good(0) PROVE FALSE
  <2>1. Dma!Plus(a, 0) = a /\ n - 0 = n /\ off + 0 = off
    BY PlusIs
  <2> QED BY <2>1
<1>00. \A k \in 0..n : k \in T <=> ~Good(n - k)
  OBVIOUS
<1>01. T \in SUBSET Nat
  OBVIOUS
<1> HIDE DEF Good, T
<1>2. T # {}
  <2>1. n \in 0..n /\ n - n = 0
    OBVIOUS
  <2>2. n \in T
    BY <1>00, <1>1, <2>1
  <2> QED BY <2>2
<1>3. PICK k \in T : \A j \in T : k <= j
  BY <1>01, <1>2, Least, Zenon
<1>03. k \in 0..n
  BY <1>3 DEF T
<1>4. PICK o : o = n - k
  OBVIOUS
<1>5. o \in 0..n /\ ~Good(o) /\ f[o] = Rest(f, a, n, off, o)
  BY <1>00, <1>03, <1>3, <1>4 DEF Splits
<1>6. CASE o = n
  <2>1. f[o] = <<>> /\ n - o = 0 /\ off + o \in Nat
    BY <1>5, <1>6 DEF Rest
  <2>2. Dma!Bytes(Dma!Plus(a, o), 0) = <<>>
    BY DEF Dma!Bytes
  <2>3. Good(o)
    BY <2>1, <2>2, SpreadNone DEF Good
  <2> QED BY <1>5, <2>3
<1>7. CASE o # n
  <2> DEFINE b == Dma!Plus(a, o)
             c == Dma!Chunk(b, n - o)
             s == SpanAt(a, n, off, o)
             p == o + c
  <2>1. o \in Nat /\ n - o \in Nat /\ n - o # 0 /\ off + o \in Nat
    BY <1>5, <1>7
  <2>2. b \in Dma!Address
    BY <2>1, PlusIs
  <2>3. c \in 1..(n - o) /\ s \in Span /\ CellsOf(s) = Dma!Bytes(b, c) /\ s.offset = off + o
    BY <2>1, <2>2, ChunkIs DEF SpanAt
  <2>4. f[o] = <<s>> \o f[p]
    BY <1>5, <1>7 DEF Rest
  <2> HIDE DEF b, c, s
  <2>5. p \in 0..n /\ n - p \in 0..n /\ n - p < k /\ c \in Nat /\ n - (n - p) = p
    <3>1. o \in 0..n
      BY <1>5
    <3>2. c \in 1..(n - o)
      BY <2>3
    <3> QED BY ONLY <1>4, <3>1, <3>2, <1>03, n \in Nat
  <2>6. Good(p)
    <3>1. ~(n - p \in T)
      BY <1>3, <1>03, <2>5
    <3> QED BY <1>00, <2>5, <3>1
  <2>7. Spread(<<s>>, Dma!Bytes(b, c), off + o)
    BY <2>3, SpreadOne
  <2>8. Len(Dma!Bytes(b, c)) = c
    BY <2>2, <2>5, BytesType
  <2>9. Dma!Plus(a, p) = Dma!Plus(b, c)
    BY <2>1, <2>5, PlusIs DEF b
  <2>10. n - o = c + (n - p) /\ n - p \in Nat /\ off + p = (off + o) + c
    BY <1>5, <2>1, <2>5
  <2>11. Spread(f[p], Dma!Bytes(Dma!Plus(b, c), n - p), (off + o) + Len(Dma!Bytes(b, c)))
    BY <2>6, <2>8, <2>9, <2>10 DEF Good
  <2> HIDE DEF p
  <2>12. Spread(<<s>> \o f[p], Dma!Bytes(b, c) \o Dma!Bytes(Dma!Plus(b, c), n - p), off + o)
    BY <2>1, <2>7, <2>11, SpreadJoin
  <2>13. Dma!Bytes(b, n - o) = Dma!Bytes(b, c) \o Dma!Bytes(Dma!Plus(b, c), n - p)
    <3>1. Dma!Bytes(b, c + (n - p)) = Dma!Bytes(b, c) \o Dma!Bytes(Dma!Plus(b, c), n - p)
      BY <2>2, <2>5, <2>10, BytesJoin
    <3> QED BY ONLY <2>10, <3>1
  <2>14. Good(o)
    BY <2>4, <2>12, <2>13 DEF Good, b
  <2> QED BY <1>5, <2>14
<1> QED BY <1>6, <1>7

(* The spans of a piece of memory say where each of its cells is.           *)
LEMMA SpansIs ==
  ASSUME Sized, NEW a \in Dma!Address, NEW n \in Nat, NEW off \in Nat
  PROVE  Spread(Dma!Spans(a, n, off), Dma!Bytes(a, n), off)
<1> DEFINE Rec(f) == f = [o \in 0..n |-> Rest(f, a, n, off, o)]
           c == CHOOSE f : Rec(f)
<1>1. Dma!Spans(a, n, off) = c[0]
  BY DEF Dma!Spans, Rest, SpanAt
<1>2. PICK f : Splits(f, a, n, off, 0)
  BY SplitsExist
<1>3. Rec(f)
  BY <1>2 DEF Splits
<1>4. Rec(c)
  <2> HIDE DEF Rec
  <2> QED BY <1>3, Zenon
<1> HIDE DEF c
<1>5. Splits(c, a, n, off, 0)
  BY <1>4 DEF Splits
<1> QED BY <1>1, <1>5, SplitsSpread

(* The properties of VifChain, of any sequence of tags.                     *)
Placed == [tag : Dma!Tag, at : Dma!Address]
AfterIn(p, i) == Dma!Plus(Dma!Source(p[i].tag, p[i].at), 2 * p[i].tag.qwc)
Callers(p, j) == {i \in 1..(j - 1) : /\ p[i].tag.id = "call"
                                     /\ Count(p, i + 1, j - 1, "call") = Count(p, i + 1, j - 1, "ret")}
PlaceIn(p, i) ==
  LET id == p[i].tag.id
  IN  CASE id \in {"cnt", "end"} -> AfterIn(p, i)
        [] id \in {"ref", "refs", "refe"} -> Dma!Plus(p[i].at, 2)
        [] id \in {"next", "call"} -> p[i].tag.addr
        [] id = "ret" -> AfterIn(p, Max(Callers(p, i)))
EndsIn(tie, t) == t.id \in {"refe", "end"} \/ (t.irq /\ tie)
Leads(tie, p, i, a) ==
  \/ a = PlaceIn(p, i) /\ (p[i].tag.id = "ret" => Callers(p, i) # {})
  \/ p[i].tag.id \in {"next", "call", "ret"} /\ EndsIn(tie, p[i].tag) /\ a = AfterIn(p, i)
Linked(tie, p) == \A i \in 1..(Len(p) - 1) : Leads(tie, p, i, p[i + 1].at)
LeadsTo(tie, p, a) == Len(p) # 0 => Leads(tie, p, Len(p), a)

(* The calls that the stack s holds the returns of, at the end of p.        *)
Calls(p, s, c) ==
  /\ c \in [1..Len(s) -> 1..Len(p)]
  /\ \A d \in 1..Len(s) : s[d] = AfterIn(p, c[d]) /\ p[c[d]].tag.id = "call"
  /\ \A d \in 1..Len(s) : \A e \in 1..Len(s) :
       e = d + 1 => c[d] < c[e] /\ Matched(p, c[d] + 1, c[e] - 1)
  /\ Len(s) # 0 => Matched(p, c[Len(s)] + 1, Len(p))

LEMMA PlaceSame ==
  ASSUME NEW p, NEW q, NEW i \in Nat, \A k \in 1..i : p[k] = q[k], i # 0, p[i] \in Placed, NEW a,
         NEW tie, Leads(tie, p, i, a)
  PROVE  Leads(tie, q, i, a)
<1>1. \A j \in 1..i : AfterIn(p, j) = AfterIn(q, j)
  BY DEF AfterIn
<1>0. i \in 1..i /\ p[i] = q[i]
  OBVIOUS
<1>2. Callers(p, i) = Callers(q, i)
  <2>1. ASSUME NEW j \in 1..(i - 1), NEW id
        PROVE  Count(p, j + 1, i - 1, id) = Count(q, j + 1, i - 1, id)
    <3>1. j + 1 \in Int /\ i - 1 \in Int /\ \A k \in (j + 1)..(i - 1) : p[k] = q[k]
      OBVIOUS
    <3> QED BY <3>1, CountSame
  <2>2. \A j \in 1..(i - 1) : p[j] = q[j]
    OBVIOUS
  <2> QED BY <2>1, <2>2 DEF Callers
<1>3. p[i].tag.id = "ret" /\ Callers(p, i) # {} => PlaceIn(p, i) = PlaceIn(q, i)
  <2> SUFFICES ASSUME p[i].tag.id = "ret", Callers(p, i) # {} PROVE PlaceIn(p, i) = PlaceIn(q, i)
    OBVIOUS
  <2>1. PICK m : m = Max(Callers(p, i))
    OBVIOUS
  <2>2. PlaceIn(p, i) = AfterIn(p, m) /\ PlaceIn(q, i) = AfterIn(q, m)
    BY <1>0, <1>2, <2>1 DEF PlaceIn
  <2>3. Callers(p, i) \in SUBSET Nat /\ \A j \in Callers(p, i) : j <= i
    BY DEF Callers
  <2>4. m \in Callers(p, i)
    BY <2>1, <2>3, BoundedMax
  <2>5. m \in 1..i
    BY <2>4 DEF Callers
  <2> QED BY <1>1, <2>2, <2>5
<1>4. p[i].tag.id # "ret" => PlaceIn(p, i) = PlaceIn(q, i)
  <2>1. PICK t : t = p[i].tag /\ t = q[i].tag /\ t \in Dma!Tag
    BY <1>0 DEF Placed
  <2>2. t.id \in {"refe", "cnt", "next", "ref", "refs", "call", "ret", "end"}
    BY <2>1 DEF Dma!Tag
  <2>3. p[i].at = q[i].at
    BY <1>0
  <2> QED BY <1>0, <1>1, <2>1, <2>2, <2>3 DEF PlaceIn
<1> QED BY <1>0, <1>1, <1>2, <1>3, <1>4 DEF Leads

LEMMA CallsNone ==
  ASSUME NEW p
  PROVE  \E c : Calls(p, <<>>, c)
<1> DEFINE c == [d \in 1..0 |-> 0]
<1>1. Calls(p, <<>>, c)
  BY DEF Calls
<1> HIDE DEF c
<1> QED BY <1>1, Zenon

(* A tag that neither calls nor returns.                                    *)
LEMMA CallsSame ==
  ASSUME NEW p \in Seq(Placed), NEW s \in Seq(Dma!Address), NEW c, Calls(p, s, c), NEW e \in Placed,
         e.tag.id \notin {"call", "ret"}
  PROVE  Calls(Append(p, e), s, c)
<1> DEFINE q == Append(p, e)
<1>1. /\ Len(p) \in Nat /\ Len(s) \in Nat /\ Len(q) = Len(p) + 1 /\ q[Len(p) + 1] = e
      /\ \A k \in 1..Len(p) : p[k] = q[k]
  OBVIOUS
<1>2. c \in [1..Len(s) -> 1..Len(p)] /\ \A d \in 1..Len(s) : c[d] \in 1..Len(p)
  BY DEF Calls
<1> HIDE DEF q
<1>3. c \in [1..Len(s) -> 1..Len(q)]
  BY <1>1, <1>2
<1>4. ASSUME NEW d \in 1..Len(s) PROVE s[d] = AfterIn(q, c[d]) /\ q[c[d]].tag.id = "call"
  <2>1. s[d] = AfterIn(p, c[d]) /\ p[c[d]].tag.id = "call"
    BY DEF Calls
  <2> QED BY <1>1, <1>2, <2>1 DEF AfterIn
<1>5. ASSUME NEW d \in 1..Len(s), NEW f \in 1..Len(s), f = d + 1
      PROVE  c[d] < c[f] /\ Matched(q, c[d] + 1, c[f] - 1)
  <2>1. c[d] < c[f] /\ Matched(p, c[d] + 1, c[f] - 1)
    BY <1>5 DEF Calls
  <2>2. c[d] \in 1..Len(p) /\ c[f] \in 1..Len(p)
    BY <1>2
  <2>3. \A k \in (c[d] + 1)..(c[f] - 1) : p[k] = q[k]
    BY <1>1, <2>2
  <2>4. c[d] + 1 \in Int /\ c[f] - 1 \in Int
    BY <2>2
  <2> QED BY <2>1, <2>3, <2>4, MatchedSame
<1>6. ASSUME Len(s) # 0 PROVE Matched(q, c[Len(s)] + 1, Len(q))
  <2>1. Len(s) \in 1..Len(s)
    BY <1>1, <1>6
  <2>2. PICK k : k = c[Len(s)]
    OBVIOUS
  <2>3. k \in 1..Len(p) /\ Matched(p, k + 1, Len(p))
    BY <1>2, <1>6, <2>1, <2>2 DEF Calls
  <2>4. k + 1 \in Int /\ Len(p) \in Int /\ k + 1 <= Len(p) + 1 /\ \A n \in (k + 1)..Len(p) : p[n] = q[n]
    BY <1>1, <2>3
  <2>5. Matched(q, k + 1, Len(p))
    BY <2>3, <2>4, MatchedSame
  <2>6. q[Len(p) + 1].tag.id \notin {"call", "ret"}
    BY <1>1
  <2>7. Matched(q, k + 1, Len(p) + 1)
    BY <2>4, <2>5, <2>6, MatchedMore
  <2> QED BY <1>1, <2>2, <2>7
<1>7. Calls(q, s, c)
  BY <1>3, <1>4, <1>5, <1>6 DEF Calls
<1> QED BY <1>7 DEF q

(* A call.                                                                  *)
LEMMA CallsPush ==
  ASSUME NEW p \in Seq(Placed), NEW s \in Seq(Dma!Address), NEW c, Calls(p, s, c), NEW e \in Placed,
         e.tag.id = "call", NEW a \in Dma!Address, a = Dma!Plus(Dma!Source(e.tag, e.at), 2 * e.tag.qwc)
  PROVE  \E f : Calls(Append(p, e), Append(s, a), f)
<1> DEFINE q == Append(p, e)
           n == Len(s)
           r == Append(s, a)
           f == [d \in 1..(n + 1) |-> IF d = n + 1 THEN Len(p) + 1 ELSE c[d]]
<1>1. /\ Len(p) \in Nat /\ n \in Nat /\ Len(q) = Len(p) + 1 /\ q[Len(p) + 1] = e
      /\ \A k \in 1..Len(p) : p[k] = q[k]
      /\ Len(r) = n + 1 /\ r[n + 1] = a /\ \A d \in 1..n : r[d] = s[d]
  OBVIOUS
<1>2. c \in [1..n -> 1..Len(p)] /\ \A d \in 1..n : c[d] \in 1..Len(p)
  BY DEF Calls
<1> HIDE DEF q, r, n
<1>3. f \in [1..(n + 1) -> 1..Len(q)] /\ f[n + 1] = Len(p) + 1 /\ \A d \in 1..n : f[d] = c[d]
  BY <1>1, <1>2
<1> HIDE DEF f
<1>4. ASSUME NEW d \in 1..(n + 1) PROVE r[d] = AfterIn(q, f[d]) /\ q[f[d]].tag.id = "call"
  <2>1. CASE d = n + 1
    BY <1>1, <1>3, <2>1 DEF AfterIn
  <2>2. CASE d # n + 1
    <3>1. d \in 1..n
      BY <1>1, <2>2
    <3>2. s[d] = AfterIn(p, c[d]) /\ p[c[d]].tag.id = "call"
      BY <3>1 DEF Calls, n
    <3> QED BY <1>1, <1>2, <1>3, <3>1, <3>2 DEF AfterIn
  <2> QED BY <2>1, <2>2
<1>5. ASSUME NEW d \in 1..(n + 1), NEW g \in 1..(n + 1), g = d + 1
      PROVE  f[d] < f[g] /\ Matched(q, f[d] + 1, f[g] - 1)
  <2>0. d \in 1..n
    BY <1>1, <1>5
  <2>1. PICK k : k = c[d] /\ k \in 1..Len(p) /\ f[d] = k
    BY <1>2, <1>3, <2>0
  <2>2. CASE g = n + 1
    <3>1. d = n /\ n # 0 /\ f[g] = Len(p) + 1
      BY <1>1, <1>3, <1>5, <2>0, <2>2
    <3>2. Matched(p, k + 1, Len(p))
      BY <2>1, <3>1 DEF Calls, n
    <3>3. \A j \in (k + 1)..Len(p) : p[j] = q[j]
      BY <1>1, <2>1
    <3>4. k + 1 \in Int /\ Len(p) \in Int /\ (Len(p) + 1) - 1 = Len(p) /\ k < Len(p) + 1
      BY <1>1, <2>1
    <3>5. Matched(q, k + 1, Len(p))
      BY <3>2, <3>3, <3>4, MatchedSame
    <3> QED BY <2>1, <3>1, <3>4, <3>5
  <2>3. CASE g # n + 1
    <3>1. g \in 1..n
      BY <1>1, <2>3
    <3>2. PICK m : m = c[g] /\ m \in 1..Len(p) /\ f[g] = m
      BY <1>2, <1>3, <3>1
    <3>3. k < m /\ Matched(p, k + 1, m - 1)
      BY <1>5, <2>0, <2>1, <3>1, <3>2 DEF Calls, n
    <3>4. \A j \in (k + 1)..(m - 1) : p[j] = q[j]
      <4>1. k \in 1..Len(p) /\ m \in 1..Len(p) /\ Len(p) \in Nat /\ \A j \in 1..Len(p) : p[j] = q[j]
        BY <1>1, <2>1, <3>2
      <4> QED BY ONLY <4>1
    <3>5. k + 1 \in Int /\ m - 1 \in Int
      BY <2>1, <3>2
    <3>6. Matched(q, k + 1, m - 1)
      BY <3>3, <3>4, <3>5, MatchedSame
    <3> QED BY <2>1, <3>2, <3>3, <3>6
  <2> QED BY <2>2, <2>3
<1>6. Matched(q, f[n + 1] + 1, Len(q))
  <2>1. Len(p) + 1 \in Int
    BY <1>1
  <2>2. Matched(q, (Len(p) + 1) + 1, Len(p) + 1)
    BY <2>1, MatchedNone
  <2> QED BY <1>1, <1>3, <2>2
<1>7. Calls(q, r, f)
  BY <1>1, <1>3, <1>4, <1>5, <1>6 DEF Calls
<1> QED BY <1>7, Zenon DEF q, r

(* The caller of a return is the latest call on the stack.                  *)
LEMMA CallerIs ==
  ASSUME NEW p \in Seq(Placed), NEW s \in Seq(Dma!Address), NEW c, Calls(p, s, c), Len(s) # 0,
         NEW q, \A k \in 1..Len(p) : p[k] = q[k]
  PROVE  c[Len(s)] \in Callers(q, Len(p) + 1) /\ Max(Callers(q, Len(p) + 1)) = c[Len(s)]
<1>0. Len(p) \in Nat /\ Len(s) \in Nat /\ Len(s) \in 1..Len(s)
  OBVIOUS
<1>1. PICK m : m = c[Len(s)]
  OBVIOUS
<1>2. PICK n : n = Len(p) /\ n \in Nat
  BY <1>0
<1>3. m \in 1..n /\ p[m].tag.id = "call" /\ Matched(p, m + 1, n)
  BY <1>0, <1>1, <1>2 DEF Calls
<1>4. Matched(q, m + 1, n)
  <2>1. m + 1 \in Int /\ n \in Int /\ \A k \in (m + 1)..n : p[k] = q[k]
    BY <1>2, <1>3
  <2> QED BY <1>3, <2>1, MatchedSame
<1>5. (n + 1) - 1 = n
  BY <1>2
<1>6. Callers(q, n + 1) = {i \in 1..n : /\ q[i].tag.id = "call"
                                        /\ Count(q, i + 1, n, "call") = Count(q, i + 1, n, "ret")}
  BY <1>5 DEF Callers
<1>7. m \in Callers(q, n + 1)
  <2>1. q[m].tag.id = "call"
    BY <1>2, <1>3
  <2>2. Count(q, m + 1, n, "call") = Count(q, m + 1, n, "ret")
    BY <1>4 DEF Matched
  <2> QED BY <1>3, <1>6, <2>1, <2>2
<1>8. ASSUME NEW i \in Callers(q, n + 1) PROVE i <= m
  <2>1. i \in 1..n /\ q[i].tag.id = "call" /\ Count(q, i + 1, n, "call") = Count(q, i + 1, n, "ret")
    BY <1>6
  <2>2. SUFFICES ASSUME i > m PROVE FALSE
    BY <1>3, <2>1
  <2>3. i \in (m + 1)..n /\ i \in Int /\ n \in Int /\ i <= i + 1 /\ i <= n
    BY <1>2, <1>3, <2>1, <2>2
  <2>4. Count(q, i, n, "call") <= Count(q, i, n, "ret")
    BY <1>4, <2>3 DEF Matched
  <2>5. /\ Count(q, i, n, "call") = Count(q, i, i, "call") + Count(q, i + 1, n, "call")
        /\ Count(q, i, n, "ret") = Count(q, i, i, "ret") + Count(q, i + 1, n, "ret")
    BY <2>3, CountSplit
  <2>6. Count(q, i, i, "call") = 1 /\ Count(q, i, i, "ret") = 0
    BY <2>1, <2>3, CountOne
  <2>7. Count(q, i + 1, n, "call") \in Nat /\ Count(q, i + 1, n, "ret") \in Nat
    <3>1. i + 1 \in Int
      BY <2>3
    <3> QED BY <2>3, <3>1, CountType
  <2> QED BY ONLY <2>1, <2>4, <2>5, <2>6, <2>7
<1>9. Callers(q, n + 1) \in SUBSET Int
  BY <1>6
<1>10. Max(Callers(q, n + 1)) = m
  BY <1>7, <1>8, <1>9, MaxIs
<1> QED BY <1>1, <1>2, <1>7, <1>10

(* A return.                                                                *)
LEMMA CallsPop ==
  ASSUME NEW p \in Seq(Placed), NEW s \in Seq(Dma!Address), NEW c, Calls(p, s, c), Len(s) # 0, NEW e \in Placed,
         e.tag.id = "ret"
  PROVE  \E f : Calls(Append(p, e), Front(s), f)
<1> DEFINE q == Append(p, e)
           n == Len(s)
           r == Front(s)
           f == [d \in 1..(n - 1) |-> c[d]]
<1>1. /\ Len(p) \in Nat /\ n \in Nat /\ n # 0 /\ Len(q) = Len(p) + 1 /\ q[Len(p) + 1] = e
      /\ \A k \in 1..Len(p) : p[k] = q[k]
  OBVIOUS
<1>01. Len(r) = n - 1 /\ \A d \in 1..(n - 1) : r[d] = s[d]
  <2>1. n - 1 \in Nat /\ r = SubSeq(s, 1, n - 1) /\ n - 1 <= Len(s)
    BY <1>1 DEF Front
  <2>2. Len(SubSeq(s, 1, n - 1)) = n - 1 /\ \A d \in 1..(n - 1) : SubSeq(s, 1, n - 1)[d] = s[d]
    <3>1. PICK m : m = n - 1 /\ m \in Nat /\ m <= Len(s)
      BY <2>1
    <3>2. Len(SubSeq(s, 1, m)) = m /\ \A d \in 1..m : SubSeq(s, 1, m)[d] = s[d]
      BY ONLY <3>1, s \in Seq(Dma!Address)
    <3> QED BY ONLY <3>1, <3>2
  <2> QED BY <2>1, <2>2
<1>2. c \in [1..n -> 1..Len(p)] /\ \A d \in 1..n : c[d] \in 1..Len(p)
  BY DEF Calls
<1> HIDE DEF q, r, n
<1>3. f \in [1..(n - 1) -> 1..Len(q)] /\ \A d \in 1..(n - 1) : f[d] = c[d] /\ d \in 1..n
  BY <1>1, <1>2
<1> HIDE DEF f
<1>4. ASSUME NEW d \in 1..(n - 1) PROVE r[d] = AfterIn(q, f[d]) /\ q[f[d]].tag.id = "call"
  <2>1. d \in 1..n
    BY <1>3
  <2>2. s[d] = AfterIn(p, c[d]) /\ p[c[d]].tag.id = "call"
    BY <2>1 DEF Calls, n
  <2> QED BY <1>01, <1>1, <1>2, <1>3, <2>1, <2>2 DEF AfterIn
<1>5. ASSUME NEW d \in 1..(n - 1), NEW g \in 1..(n - 1), g = d + 1
      PROVE  f[d] < f[g] /\ Matched(q, f[d] + 1, f[g] - 1)
  <2>1. PICK k : k = c[d] /\ k \in 1..Len(p) /\ f[d] = k
    BY <1>2, <1>3
  <2>2. PICK m : m = c[g] /\ m \in 1..Len(p) /\ f[g] = m
    BY <1>2, <1>3
  <2>3. k < m /\ Matched(p, k + 1, m - 1)
    BY <1>3, <1>5, <2>1, <2>2 DEF Calls, n
  <2>4. \A j \in (k + 1)..(m - 1) : p[j] = q[j]
    BY <1>1, <2>1, <2>2
  <2>5. k + 1 \in Int /\ m - 1 \in Int
    BY <2>1, <2>2
  <2>6. Matched(q, k + 1, m - 1)
    BY <2>3, <2>4, <2>5, MatchedSame
  <2> QED BY <2>1, <2>2, <2>3, <2>6
<1>6. ASSUME n - 1 # 0 PROVE Matched(q, f[n - 1] + 1, Len(q))
  <2>1. n - 1 \in 1..(n - 1) /\ n - 1 \in 1..n /\ n \in 1..n /\ n = (n - 1) + 1
    BY <1>1, <1>6
  <2>2. PICK k : k = c[n - 1] /\ k \in 1..Len(p) /\ f[n - 1] = k
    BY <1>2, <1>3, <2>1
  <2>3. PICK m : m = c[n] /\ m \in 1..Len(p)
    BY <1>2, <2>1
  <2>4. k < m /\ Matched(p, k + 1, m - 1)
    BY <2>1, <2>2, <2>3 DEF Calls, n
  <2>5. Matched(p, m + 1, Len(p)) /\ p[m].tag.id = "call"
    BY <1>1, <2>1, <2>3 DEF Calls, n
  <2>6. /\ k + 1 \in Int /\ m - 1 \in Int /\ m \in Int /\ m + 1 \in Int /\ Len(p) \in Int
        /\ k + 1 <= m /\ m <= Len(p)
        /\ \A j \in (k + 1)..(m - 1) : p[j] = q[j]
        /\ \A j \in (m + 1)..Len(p) : p[j] = q[j]
    <3>1. PICK l : l = Len(p) /\ l \in Nat
      BY <1>1
    <3>2. k \in 1..l /\ m \in 1..l
      BY <2>2, <2>3, <3>1
    <3>3. \A j \in 1..l : p[j] = q[j]
      BY <1>1, <3>1
    <3>4. k < m
      BY <2>4
    <3> QED BY ONLY <3>1, <3>2, <3>3, <3>4
  <2>7. Matched(q, k + 1, m - 1) /\ Matched(q, m + 1, Len(p))
    BY <2>4, <2>5, <2>6, MatchedSame
  <2>8. q[m].tag.id = "call" /\ q[Len(p) + 1].tag.id = "ret"
    BY <1>1, <2>3, <2>5
  <2>9. Matched(q, k + 1, Len(p) + 1)
    BY <2>6, <2>7, <2>8, MatchedCall
  <2> QED BY <1>1, <2>2, <2>9
<1>7. Calls(q, r, f)
  BY <1>01, <1>3, <1>4, <1>5, <1>6 DEF Calls
<1> QED BY <1>7, Zenon DEF q, r

Walk == [tadr : Dma!Address, stack : Seq(Dma!Address), count : Nat, qwc : Nat, packet : Seq(Spot),
         spans : Seq(Span), tags : Seq(Placed)]
DataOf(tte, e) == (IF tte THEN Dma!Bytes(Dma!Plus(e.at, 1), 1) ELSE <<>>)
                  \o Dma!Bytes(Dma!Source(e.tag, e.at), 2 * e.tag.qwc)
DataAll(tte, s) == [i \in 1..Len(s) |-> DataOf(tte, s[i])]
ReadSoFar(tte, w) == /\ w \in Walk /\ Spread(w.spans, w.packet, 0)
           /\ Len(w.packet) = 2 * w.qwc + (IF tte THEN w.count ELSE 0)
           /\ w.packet = FlattenSeq(DataAll(tte, w.tags))
ChainTyped == chain \in Chains /\ tadr \in Dma!Address /\ path \in Seq(Placed) /\ delivered \in Seq(Spot)
OnItsWay(tie, p, a, s) == Linked(tie, p) /\ LeadsTo(tie, p, a) /\ \E c : Calls(p, s, c)
ChainInv ==
  /\ ChainTyped /\ ReadSoFar(chain.tte, walk)
  /\ delivered = FlattenSeq(DataAll(chain.tte, path))
  /\ Linked(chain.tie, path) /\ LeadsTo(chain.tie, path, tadr)
  /\ outcome = "walk" => OnItsWay(chain.tie, path \o walk.tags, walk.tadr, walk.stack)

LEMMA ConstantsIs ==
  ASSUME Dma!ChainAssumption, chain \in Chains
  PROVE  /\ Sized /\ chain.tte \in BOOLEAN /\ chain.start \in Dma!Address
         /\ \A a : Dma!TagAt(a) \in Dma!Tag
<1>1. Sized
  BY DEF Dma!ChainAssumption, Sized
<1>2. /\ \A a \in DOMAIN chain.tags : chain.tags[a] \in Dma!Tag
      /\ chain.start \in Dma!Address /\ chain.tte \in BOOLEAN
  BY DEF Dma!ChainAssumption
<1>3. Dma!Zeros \in Dma!Tag
  BY DEF Dma!Zeros, Dma!Tag, Dma!Address
<1> QED BY <1>1, <1>2, <1>3 DEF Dma!TagAt

LEMMA SourceIs ==
  ASSUME NEW t \in Dma!Tag, NEW a \in Dma!Address
  PROVE  /\ Dma!Source(t, a) \in Dma!Address /\ 2 * t.qwc \in Nat
         /\ Dma!Plus(Dma!Source(t, a), 2 * t.qwc) \in Dma!Address
<1>1. t.addr \in Dma!Address /\ t.qwc \in Nat
  BY DEF Dma!Tag
<1>2. Dma!Plus(a, 2) \in Dma!Address
  BY PlusIs
<1>3. Dma!Source(t, a) \in Dma!Address /\ 2 * t.qwc \in Nat
  BY <1>1, <1>2 DEF Dma!Source
<1> QED BY <1>3, PlusIs

LEMMA DataType ==
  ASSUME Sized, NEW tte, NEW s \in Seq(Placed)
  PROVE  DataAll(tte, s) \in Seq(Seq(Spot)) /\ Len(DataAll(tte, s)) = Len(s)
<1>1. \A i \in 1..Len(s) : DataOf(tte, s[i]) \in Seq(Spot)
  <2> SUFFICES ASSUME NEW i \in 1..Len(s) PROVE DataOf(tte, s[i]) \in Seq(Spot)
    OBVIOUS
  <2>1. PICK e \in Placed : e = s[i]
    BY ElementOfSeq
  <2>2. e.tag \in Dma!Tag /\ e.at \in Dma!Address
    BY DEF Placed
  <2>3. Dma!Plus(e.at, 1) \in Dma!Address
    BY <2>2, PlusIs
  <2>4. Dma!Bytes(Dma!Plus(e.at, 1), 1) \in Seq(Spot)
    BY <2>3, BytesType
  <2>5. Dma!Bytes(Dma!Source(e.tag, e.at), 2 * e.tag.qwc) \in Seq(Spot)
    BY <2>2, SourceIs, BytesType
  <2>6. (IF tte THEN Dma!Bytes(Dma!Plus(e.at, 1), 1) ELSE <<>>) \in Seq(Spot)
    BY <2>4
  <2> QED BY <2>1, <2>5, <2>6 DEF DataOf
<1> QED BY <1>1 DEF DataAll

LEMMA DataJoin ==
  ASSUME Sized, NEW tte, NEW s \in Seq(Placed), NEW t \in Seq(Placed)
  PROVE  FlattenSeq(DataAll(tte, s \o t)) = FlattenSeq(DataAll(tte, s)) \o FlattenSeq(DataAll(tte, t))
<1>1. s \o t \in Seq(Placed) /\ Len(s \o t) = Len(s) + Len(t) /\ Len(s) \in Nat /\ Len(t) \in Nat
  OBVIOUS
<1>2. PICK a, b, c : a = DataAll(tte, s) /\ b = DataAll(tte, t) /\ c = DataAll(tte, s \o t)
  OBVIOUS
<1>3. /\ a \in Seq(Seq(Spot)) /\ b \in Seq(Seq(Spot)) /\ c \in Seq(Seq(Spot))
      /\ Len(a) = Len(s) /\ Len(b) = Len(t) /\ Len(c) = Len(a) + Len(b)
  BY <1>1, <1>2, DataType
<1>4. \A i \in 1..Len(s) : (s \o t)[i] = s[i]
  OBVIOUS
<1>5. \A i \in (Len(s) + 1)..(Len(s) + Len(t)) : (s \o t)[i] = t[i - Len(s)]
  OBVIOUS
<1>6. \A i \in 1..Len(a) : c[i] = a[i]
  BY <1>1, <1>2, <1>3, <1>4 DEF DataAll
<1>7. \A i \in (Len(a) + 1)..(Len(a) + Len(b)) : c[i] = b[i - Len(a)]
  BY <1>1, <1>2, <1>3, <1>5 DEF DataAll
<1>8. c = a \o b
  BY ONLY <1>3, <1>6, <1>7, ConcatIs
<1>9. FlattenSeq(a \o b) = FlattenSeq(a) \o FlattenSeq(b)
  BY <1>3, FlattenConcat
<1> QED BY <1>2, <1>8, <1>9

LEMMA DataOne ==
  ASSUME Sized, NEW tte, NEW e \in Placed
  PROVE  FlattenSeq(DataAll(tte, <<e>>)) = DataOf(tte, e) /\ DataOf(tte, e) \in Seq(Spot)
<1>0. <<e>> \in Seq(Placed) /\ Len(<<e>>) = 1 /\ <<e>>[1] = e
  OBVIOUS
<1>1. PICK a : a = DataAll(tte, <<e>>)
  OBVIOUS
<1>2. a \in Seq(Seq(Spot)) /\ Len(a) = 1
  BY <1>0, <1>1, DataType
<1>3. a[1] = DataOf(tte, e)
  BY <1>0, <1>1 DEF DataAll
<1>4. a[1] \in Seq(Spot)
  <2>1. 1 \in 1..Len(a)
    BY <1>2
  <2> QED BY <1>2, <2>1, ElementOfSeq
<1>5. a = Append(<<>>, a[1]) /\ <<>> \in Seq(Seq(Spot))
  BY <1>2
<1>6. FlattenSeq(Append(<<>>, a[1])) = FlattenSeq(<<>>) \o a[1]
  BY <1>4, <1>5, FlattenAppend
<1>7. <<>> \o a[1] = a[1]
  BY <1>4
<1> QED BY <1>1, <1>3, <1>4, <1>5, <1>6, <1>7, FlattenEmpty

(* What append does to a walk.                                              *)
LEMMA Append2Is ==
  ASSUME Sized, NEW w \in Walk, Spread(w.spans, w.packet, 0), NEW a \in Dma!Address, NEW n \in Nat
  PROVE  LET v == Dma!Append2(w, a, n)
         IN  /\ v \in Walk /\ Spread(v.spans, v.packet, 0)
             /\ v.packet = w.packet \o Dma!Bytes(a, n) /\ Len(v.packet) = Len(w.packet) + n
             /\ v.tadr = w.tadr /\ v.stack = w.stack /\ v.count = w.count /\ v.qwc = w.qwc /\ v.tags = w.tags
<1> DEFINE v == Dma!Append2(w, a, n)
           b == Dma!Bytes(a, n)
           s == Dma!Spans(a, n, Len(w.packet))
<1>1. /\ w.packet \in Seq(Spot) /\ Len(w.packet) \in Nat
      /\ 0 + Len(w.packet) = Len(w.packet) /\ w.spans \in Seq(Span)
  BY DEF Walk
<1>2. b \in Seq(Spot) /\ Len(b) = n
  BY BytesType
<1>3. Spread(s, b, 0 + Len(w.packet))
  BY <1>1, SpansIs
<1>4. s \in Seq(Span)
  BY <1>3 DEF Spread
<1> HIDE DEF b, s
<1>5. Spread(w.spans \o s, w.packet \o b, 0)
  BY <1>3, SpreadJoin
<1>6. v.packet = w.packet \o b /\ v.spans = w.spans \o s
  BY DEF Dma!Append2, Walk, b, s
<1>7. v.tadr = w.tadr /\ v.stack = w.stack /\ v.count = w.count /\ v.qwc = w.qwc /\ v.tags = w.tags
  BY DEF Dma!Append2, Walk
<1>8. w.packet \o b \in Seq(Spot) /\ w.spans \o s \in Seq(Span)
  BY <1>1, <1>2, <1>4
<1>9. v \in Walk
  <2>1. v = [w EXCEPT !.packet = @ \o b, !.spans = @ \o s]
    BY DEF Dma!Append2, b, s
  <2> HIDE DEF v
  <2> QED BY <1>8, <2>1 DEF Walk
<1>10. Len(w.packet \o b) = Len(w.packet) + n
  BY <1>1, <1>2
<1> HIDE DEF v
<1>11. Spread(v.spans, v.packet, 0)
  BY <1>5, <1>6
<1> QED BY <1>6, <1>7, <1>9, <1>10, <1>11 DEF v, b

LEMMA TakenIs ==
  ASSUME Sized, NEW tte \in BOOLEAN, tte = chain.tte, ReadSoFar(tte, walk), NEW t \in Dma!Tag
  PROVE  LET w == Dma!Taken(t)
             e == [tag |-> t, at |-> walk.tadr]
         IN  /\ ReadSoFar(tte, w) /\ w.tadr = walk.tadr /\ w.stack = walk.stack /\ w.tags = Append(walk.tags, e)
             /\ e \in Placed
<1> DEFINE a == walk.tadr
           e == [tag |-> t, at |-> a]
           u == IF tte THEN Dma!Append2(walk, Dma!Plus(a, 1), 1) ELSE walk
           v == Dma!Append2(u, Dma!Source(t, a), 2 * t.qwc)
           w == Dma!Taken(t)
           x == IF tte THEN Dma!Bytes(Dma!Plus(a, 1), 1) ELSE <<>>
           y == Dma!Bytes(Dma!Source(t, a), 2 * t.qwc)
<1>1. /\ walk \in Walk /\ a \in Dma!Address /\ walk.tags \in Seq(Placed) /\ walk.packet \in Seq(Spot)
      /\ Spread(walk.spans, walk.packet, 0) /\ walk.qwc \in Nat /\ walk.count \in Nat /\ t.qwc \in Nat
  BY DEF ReadSoFar, Walk, Dma!Tag
<1>2. Dma!Plus(a, 1) \in Dma!Address /\ Dma!Source(t, a) \in Dma!Address /\ 2 * t.qwc \in Nat /\ 1 \in Nat
  BY <1>1, PlusIs, SourceIs
<1>3. /\ u \in Walk /\ Spread(u.spans, u.packet, 0) /\ u.packet = walk.packet \o x
      /\ Len(u.packet) = Len(walk.packet) + (IF tte THEN 1 ELSE 0)
      /\ u.tadr = walk.tadr /\ u.stack = walk.stack /\ u.count = walk.count /\ u.qwc = walk.qwc /\ u.tags = walk.tags
  <2>1. CASE tte
    <3>1. PICK z : z = Dma!Append2(walk, Dma!Plus(a, 1), 1)
      OBVIOUS
    <3>2. /\ z \in Walk /\ Spread(z.spans, z.packet, 0)
          /\ z.packet = walk.packet \o Dma!Bytes(Dma!Plus(a, 1), 1) /\ Len(z.packet) = Len(walk.packet) + 1
          /\ z.tadr = walk.tadr /\ z.stack = walk.stack /\ z.count = walk.count /\ z.qwc = walk.qwc
          /\ z.tags = walk.tags
      BY <1>1, <1>2, <3>1, Append2Is
    <3>3. u = z /\ x = Dma!Bytes(Dma!Plus(a, 1), 1)
      BY <2>1, <3>1
    <3> QED BY ONLY <2>1, <3>2, <3>3
  <2>2. CASE ~tte
    <3>1. walk.packet \o <<>> = walk.packet /\ Len(walk.packet) + 0 = Len(walk.packet)
      BY <1>1
    <3> QED BY <1>1, <2>2, <3>1
  <2> QED BY <2>1, <2>2
<1> HIDE DEF u
<1>4. /\ v \in Walk /\ Spread(v.spans, v.packet, 0) /\ v.packet = u.packet \o y
      /\ Len(v.packet) = Len(u.packet) + 2 * t.qwc
      /\ v.tadr = walk.tadr /\ v.stack = walk.stack /\ v.count = walk.count /\ v.qwc = walk.qwc /\ v.tags = walk.tags
  BY <1>2, <1>3, Append2Is
<1>5. w = [v EXCEPT !.qwc = @ + t.qwc, !.count = @ + 1, !.tags = Append(@, e)]
  BY Zenon DEF Dma!Taken, u, v
<1> HIDE DEF v, w
<1>6. e \in Placed
  BY <1>1 DEF Placed
<1>7. Append(walk.tags, e) \in Seq(Placed)
  BY <1>1, <1>6
<1> HIDE DEF e
<1>8. /\ w \in Walk /\ w.spans = v.spans /\ w.packet = v.packet /\ w.tadr = walk.tadr /\ w.stack = walk.stack
      /\ w.qwc = walk.qwc + t.qwc /\ w.count = walk.count + 1 /\ w.tags = Append(walk.tags, e)
  <2>1. v.qwc + t.qwc \in Nat /\ v.count + 1 \in Nat
    BY <1>1, <1>4
  <2> QED BY <1>4, <1>5, <1>7, <2>1 DEF Walk
<1>9. Len(w.packet) = 2 * w.qwc + (IF tte THEN w.count ELSE 0)
  <2>1. Len(walk.packet) = 2 * walk.qwc + (IF tte THEN walk.count ELSE 0)
    BY DEF ReadSoFar
  <2>2. Len(w.packet) = Len(walk.packet) + (IF tte THEN 1 ELSE 0) + 2 * t.qwc
    BY <1>3, <1>4, <1>8
  <2>3. PICK m, k, c, q : m = Len(walk.packet) /\ k = walk.qwc /\ c = walk.count /\ q = t.qwc
    OBVIOUS
  <2>4. k \in Nat /\ c \in Nat /\ q \in Nat /\ w.qwc = k + q /\ w.count = c + 1
    BY <1>1, <1>8, <2>3
  <2>5. CASE tte
    <3>1. m = 2 * k + c /\ Len(w.packet) = m + 1 + 2 * q
      BY <2>1, <2>2, <2>3, <2>5
    <3>2. Len(w.packet) = 2 * (k + q) + (c + 1)
      BY ONLY <2>4, <3>1
    <3> QED BY <2>4, <2>5, <3>2
  <2>6. CASE ~tte
    <3>1. m = 2 * k + 0 /\ Len(w.packet) = m + 0 + 2 * q
      BY <2>1, <2>2, <2>3, <2>6
    <3>2. Len(w.packet) = 2 * (k + q) + 0
      BY ONLY <2>4, <3>1
    <3> QED BY <2>4, <2>6, <3>2
  <2> QED BY <2>5, <2>6
<1>10. w.packet = FlattenSeq(DataAll(tte, w.tags))
  <2>1. w.packet = (walk.packet \o x) \o y
    BY <1>3, <1>4, <1>8
  <2>2. x \in Seq(Spot) /\ y \in Seq(Spot)
    <3>1. Dma!Bytes(Dma!Plus(a, 1), 1) \in Seq(Spot)
      BY <1>2, BytesType
    <3>2. y \in Seq(Spot)
      BY <1>2, BytesType
    <3> QED BY <3>1, <3>2
  <2>3. DataOf(tte, e) = x \o y
    BY DEF DataOf, e
  <2> HIDE DEF x, y
  <2>4. (walk.packet \o x) \o y = walk.packet \o (x \o y)
    <3>1. PICK p : p = walk.packet /\ p \in Seq(Spot)
      BY <1>1
    <3>2. PICK b, c : b = x /\ c = y
      OBVIOUS
    <3>3. p \in Seq(Spot) /\ b \in Seq(Spot) /\ c \in Seq(Spot)
      BY ONLY <2>2, <3>1, <3>2
    <3>4. (p \o b) \o c = p \o (b \o c)
      BY ONLY <3>3, ConcatAssociative
    <3> QED BY ONLY <3>1, <3>2, <3>4
  <2>5. Append(walk.tags, e) = walk.tags \o <<e>> /\ <<e>> \in Seq(Placed)
    BY <1>1, <1>6
  <2>6. FlattenSeq(DataAll(tte, walk.tags \o <<e>>))
        = FlattenSeq(DataAll(tte, walk.tags)) \o FlattenSeq(DataAll(tte, <<e>>))
    BY <1>1, <2>5, DataJoin
  <2>7. FlattenSeq(DataAll(tte, <<e>>)) = DataOf(tte, e)
    BY <1>6, DataOne
  <2>8. walk.packet = FlattenSeq(DataAll(tte, walk.tags))
    BY DEF ReadSoFar
  <2> QED BY <1>8, <2>1, <2>3, <2>4, <2>5, <2>6, <2>7, <2>8, Zenon
<1>11. ReadSoFar(tte, w)
  <2>1. Spread(w.spans, w.packet, 0)
    BY <1>4, <1>8
  <2> QED BY <1>8, <1>9, <1>10, <2>1 DEF ReadSoFar
<1> QED BY <1>6, <1>8, <1>11 DEF w, e

(* One more tag.                                                            *)
LEMMA LinkedMore ==
  ASSUME NEW tie, NEW p \in Seq(Placed), NEW e \in Placed, Linked(tie, p), LeadsTo(tie, p, e.at)
  PROVE  Linked(tie, Append(p, e))
<1> DEFINE q == Append(p, e)
<1>1. /\ Len(p) \in Nat /\ Len(q) = Len(p) + 1 /\ q[Len(p) + 1] = e
      /\ \A k \in 1..Len(p) : p[k] = q[k] /\ p[k] \in Placed
  OBVIOUS
<1> HIDE DEF q
<1>2. ASSUME NEW i \in 1..Len(p) PROVE Leads(tie, q, i, q[i + 1].at)
  <2>0. i \in Nat /\ i # 0 /\ p[i] \in Placed /\ \A k \in 1..i : p[k] = q[k]
    BY <1>1
  <2>1. CASE i = Len(p)
    <3>1. Leads(tie, p, i, e.at) /\ q[i + 1] = e
      BY <1>1, <2>0, <2>1 DEF LeadsTo
    <3>2. Leads(tie, q, i, e.at)
      BY <2>0, <3>1, PlaceSame
    <3> QED BY <3>1, <3>2
  <2>2. CASE i # Len(p)
    <3>1. i \in 1..(Len(p) - 1) /\ i + 1 \in 1..Len(p)
      BY <1>1, <2>2
    <3>2. Leads(tie, p, i, p[i + 1].at) /\ p[i + 1] = q[i + 1]
      BY <1>1, <3>1 DEF Linked
    <3>3. Leads(tie, q, i, p[i + 1].at)
      BY <2>0, <3>2, PlaceSame
    <3> QED BY <3>2, <3>3
  <2> QED BY <2>1, <2>2
<1>3. Linked(tie, q)
  <2>1. Len(q) - 1 = Len(p)
    BY <1>1
  <2> QED BY <1>2, <2>1 DEF Linked
<1> QED BY <1>3 DEF q

(* What a tag is followed by.                                               *)
LEMMA LeadsMore ==
  ASSUME NEW tie, NEW p \in Seq(Placed), NEW e \in Placed, NEW a,
         \/ e.tag.id \in {"cnt", "end"} /\ a = Dma!Plus(Dma!Source(e.tag, e.at), 2 * e.tag.qwc)
         \/ e.tag.id \in {"ref", "refs", "refe"} /\ a = Dma!Plus(e.at, 2)
         \/ e.tag.id \in {"next", "call"} /\ a = e.tag.addr
         \/ /\ e.tag.id \in {"next", "call", "ret"} /\ EndsIn(tie, e.tag)
            /\ a = Dma!Plus(Dma!Source(e.tag, e.at), 2 * e.tag.qwc)
  PROVE  LeadsTo(tie, Append(p, e), a)
<1> DEFINE q == Append(p, e)
<1>1. Len(q) \in Nat /\ q[Len(q)] = e
  OBVIOUS
<1> HIDE DEF q
<1>2. AfterIn(q, Len(q)) = Dma!Plus(Dma!Source(e.tag, e.at), 2 * e.tag.qwc)
  BY <1>1 DEF AfterIn
<1>3. PICK t : t = e.tag
  OBVIOUS
<1>4. Leads(tie, q, Len(q), a)
  BY <1>1, <1>2, <1>3 DEF Leads, PlaceIn
<1> QED BY <1>4 DEF LeadsTo, q

LEMMA ReturnLeads ==
  ASSUME NEW tie, NEW p \in Seq(Placed), NEW e \in Placed, e.tag.id = "ret",
         NEW s \in Seq(Dma!Address), NEW c, Calls(p, s, c), Len(s) # 0
  PROVE  LeadsTo(tie, Append(p, e), s[Len(s)])
<1> DEFINE q == Append(p, e)
<1>1. /\ Len(p) \in Nat /\ Len(q) = Len(p) + 1 /\ q[Len(p) + 1] = e
      /\ \A k \in 1..Len(p) : p[k] = q[k]
      /\ Len(s) \in 1..Len(s)
  OBVIOUS
<1> HIDE DEF q
<1>2. PICK m : m = c[Len(s)]
  OBVIOUS
<1>3. m \in Callers(q, Len(q)) /\ Max(Callers(q, Len(q))) = m
  BY <1>1, <1>2, CallerIs
<1>4. m \in 1..Len(p) /\ s[Len(s)] = AfterIn(p, m)
  BY <1>1, <1>2 DEF Calls
<1>5. AfterIn(q, m) = AfterIn(p, m)
  BY <1>1, <1>4 DEF AfterIn
<1>6. PlaceIn(q, Len(q)) = AfterIn(q, m)
  BY <1>1, <1>3 DEF PlaceIn
<1>7. Leads(tie, q, Len(q), s[Len(s)])
  BY <1>3, <1>4, <1>5, <1>6 DEF Leads
<1> QED BY <1>7 DEF LeadsTo, q

LEMMA WalkMore ==
  ASSUME ReadSoFar(chain.tte, walk), NEW v, ReadSoFar(chain.tte, v), NEW e \in Placed, v.tags = Append(walk.tags, e),
         path \in Seq(Placed)
  PROVE  /\ path \o walk.tags \in Seq(Placed) /\ path \o v.tags = Append(path \o walk.tags, e)
<1>1. walk.tags \in Seq(Placed)
  BY DEF ReadSoFar, Walk
<1>2. PICK t : t = walk.tags /\ t \in Seq(Placed)
  BY <1>1
<1>3. path \o Append(t, e) = Append(path \o t, e) /\ path \o t \in Seq(Placed)
  BY <1>2
<1> QED BY <1>2, <1>3

LEMMA ChainInit ==
  ASSUME Dma!ChainAssumption, Dma!Init
  PROVE  ChainInv
<1>1. chain \in Chains /\ chain.start \in Dma!Address /\ tadr \in Dma!Address
  BY ConstantsIs DEF Dma!Init
<1>2. ChainTyped
  BY <1>1 DEF ChainTyped, Dma!Init
<1>3. DataAll(chain.tte, <<>>) = <<>>
  BY DEF DataAll
<1>4. ReadSoFar(chain.tte, walk)
  <2>1. walk \in Walk
    BY <1>1 DEF Dma!Init, Walk
  <2>2. /\ walk.spans = <<>> /\ walk.packet = <<>> /\ walk.tags = <<>>
        /\ Len(walk.packet) = 0 /\ walk.qwc = 0 /\ walk.count = 0
    BY DEF Dma!Init
  <2>3. Spread(<<>>, <<>>, 0)
    BY SpreadNone
  <2> QED BY <1>3, <2>1, <2>2, <2>3, FlattenEmpty DEF ReadSoFar
<1>5. delivered = FlattenSeq(DataAll(chain.tte, path))
  BY <1>3, FlattenEmpty DEF Dma!Init
<1>6. Linked(chain.tie, path) /\ LeadsTo(chain.tie, path, tadr)
  BY DEF Dma!Init, Linked, LeadsTo
<1>7. outcome # "walk"
  BY DEF Dma!Init
<1> QED BY <1>2, <1>4, <1>5, <1>6, <1>7 DEF ChainInv

(* A walk over another tag, after which it goes on.                         *)
LEMMA StepWalks ==
  ASSUME Dma!ChainAssumption, ChainInv, NEW t, t = Dma!TagAt(walk.tadr), outcome = "walk",
         UNCHANGED <<chain, tadr, outcome, path, delivered>>,
         NEW a \in Dma!Address, NEW s \in Seq(Dma!Address), walk' = [Dma!Taken(t) EXCEPT !.tadr = a, !.stack = s],
         NEW e, e = [tag |-> t, at |-> walk.tadr], NEW q, q = Append(path \o walk.tags, e),
         LeadsTo(chain.tie, q, a), \E c : Calls(q, s, c)
  PROVE  ChainInv'
<1> DEFINE p == path \o walk.tags
           w == Dma!Taken(t)
<1>1. /\ Sized /\ chain.tte \in BOOLEAN /\ t \in Dma!Tag /\ ReadSoFar(chain.tte, walk) /\ ChainTyped
  BY ConstantsIs DEF ChainInv, ChainTyped
<1>2. ReadSoFar(chain.tte, w) /\ w.tags = Append(walk.tags, e) /\ e \in Placed
  BY <1>1, TakenIs
<1>3. e.at = walk.tadr /\ LeadsTo(chain.tie, Append(p, e), a) /\ \E c : Calls(Append(p, e), s, c)
  OBVIOUS
<1>03. walk' = [w EXCEPT !.tadr = a, !.stack = s]
  OBVIOUS
<1> HIDE DEF w
<1>4. /\ walk' \in Walk /\ walk'.packet = w.packet /\ walk'.spans = w.spans /\ walk'.tags = w.tags
      /\ walk'.qwc = w.qwc /\ walk'.count = w.count /\ walk'.tadr = a /\ walk'.stack = s
  <2>1. w \in Walk
    BY <1>2 DEF ReadSoFar
  <2> QED BY <1>03, <2>1 DEF Walk
<1>5. ReadSoFar(chain.tte, walk')
  BY <1>2, <1>4, Zenon DEF ReadSoFar
<1>6. path \in Seq(Placed) /\ Linked(chain.tie, p) /\ LeadsTo(chain.tie, p, e.at)
  BY <1>3 DEF ChainInv, ChainTyped, OnItsWay
<1>7. p \in Seq(Placed) /\ path \o walk'.tags = Append(p, e)
  BY <1>1, <1>2, <1>4, <1>5, <1>6, WalkMore
<1> HIDE DEF p
<1>8. Linked(chain.tie, Append(p, e))
  BY <1>2, <1>6, <1>7, LinkedMore
<1>9. OnItsWay(chain.tie, path \o walk'.tags, walk'.tadr, walk'.stack)
  BY <1>3, <1>4, <1>7, <1>8, Zenon DEF OnItsWay
<1>10. /\ ChainTyped /\ delivered = FlattenSeq(DataAll(chain.tte, path))
       /\ Linked(chain.tie, path) /\ LeadsTo(chain.tie, path, tadr)
  BY DEF ChainInv
<1> QED BY <1>5, <1>9, <1>10, Zenon DEF ChainInv, ChainTyped

LEMMA StepStarts ==
  ASSUME Dma!ChainAssumption, ChainInv, Dma!Start
  PROVE  ChainInv'
<1>1. /\ UNCHANGED <<chain, tadr, path, delivered>>
      /\ walk' = [tadr |-> tadr, stack |-> <<>>, count |-> 0, qwc |-> 0, packet |-> <<>>, spans |-> <<>>,
                  tags |-> <<>>]
  BY DEF Dma!Start
<1>2. /\ ChainTyped /\ delivered = FlattenSeq(DataAll(chain.tte, path))
      /\ Linked(chain.tie, path) /\ LeadsTo(chain.tie, path, tadr)
  BY DEF ChainInv
<1>3. DataAll(chain.tte, <<>>) = <<>>
  BY DEF DataAll
<1>4. /\ walk' \in Walk /\ walk'.spans = <<>> /\ walk'.packet = <<>> /\ walk'.tags = <<>>
      /\ Len(walk'.packet) = 0 /\ walk'.qwc = 0 /\ walk'.count = 0 /\ walk'.tadr = tadr /\ walk'.stack = <<>>
  BY <1>1, <1>2 DEF Walk, ChainTyped
<1>5. ReadSoFar(chain.tte, walk')
  <2>1. Spread(<<>>, <<>>, 0)
    BY SpreadNone
  <2> QED BY <1>3, <1>4, <2>1, FlattenEmpty DEF ReadSoFar
<1>6. path \o walk'.tags = path
  <2>1. path \o <<>> = path
    BY <1>2 DEF ChainTyped
  <2> QED BY <1>4, <2>1
<1>7. OnItsWay(chain.tie, path \o walk'.tags, walk'.tadr, walk'.stack)
  BY <1>2, <1>4, <1>6, CallsNone, Zenon DEF OnItsWay
<1> QED BY <1>1, <1>2, <1>5, <1>7, Zenon DEF ChainInv, ChainTyped

LEMMA StepEnds ==
  ASSUME Dma!ChainAssumption, ChainInv, Dma!Complete
  PROVE  ChainInv'
<1> DEFINE t == Dma!TagAt(walk.tadr)
           e == [tag |-> t, at |-> walk.tadr]
           p == path \o walk.tags
           w == Dma!Taken(t)
<1>0. /\ outcome = "walk" /\ outcome' = "done" /\ chain' = chain /\ Dma!Ends(t) /\ walk' = w /\ tadr' = Dma!Final(t)
      /\ path' = path \o walk'.tags /\ delivered' = delivered \o walk'.packet
  BY DEF Dma!Complete
<1>1. Sized /\ chain.tte \in BOOLEAN /\ t \in Dma!Tag /\ ReadSoFar(chain.tte, walk) /\ ChainTyped
  BY ConstantsIs DEF ChainInv, ChainTyped
<1>2. ReadSoFar(chain.tte, w) /\ w.tags = Append(walk.tags, e) /\ e \in Placed
  BY <1>1, TakenIs
<1>3. e.at = walk.tadr /\ e.tag = t
  OBVIOUS
<1> HIDE DEF e, w, t
<1>4. path \in Seq(Placed) /\ Linked(chain.tie, p) /\ LeadsTo(chain.tie, p, e.at)
  BY <1>0, <1>3 DEF ChainInv, ChainTyped, OnItsWay
<1>5. p \in Seq(Placed) /\ path' = Append(p, e)
  BY <1>0, <1>1, <1>2, <1>4, WalkMore
<1> HIDE DEF p
<1>6. Linked(chain.tie, path') /\ path' \in Seq(Placed)
  BY <1>2, <1>4, <1>5, LinkedMore
<1>7. tadr' \in Dma!Address
  <2>1. walk.tadr \in Dma!Address
    BY <1>1 DEF ReadSoFar, Walk
  <2>2. Dma!Plus(walk.tadr, 2) \in Dma!Address /\ Dma!Behind(t) \in Dma!Address
    BY <1>1, <2>1, PlusIs, SourceIs DEF Dma!Behind
  <2> QED BY <1>0, <2>2 DEF Dma!Final
<1>8. LeadsTo(chain.tie, path', tadr')
  <2>1. EndsIn(chain.tie, t)
    BY <1>0 DEF EndsIn, Dma!Ends
  <2>2. t.id \in {"refe", "cnt", "next", "ref", "refs", "call", "ret", "end"}
    BY <1>1 DEF Dma!Tag
  <2>3. t.id \in {"cnt", "next", "call", "ret", "end"} => tadr' = Dma!Plus(Dma!Source(t, walk.tadr), 2 * t.qwc)
    BY <1>0 DEF Dma!Final, Dma!Inline, Dma!Behind
  <2>4. t.id \in {"ref", "refs", "refe"} => tadr' = Dma!Plus(walk.tadr, 2)
    BY <1>0 DEF Dma!Final, Dma!Inline
  <2>5. \/ e.tag.id \in {"cnt", "end"} /\ tadr' = Dma!Plus(Dma!Source(e.tag, e.at), 2 * e.tag.qwc)
        \/ e.tag.id \in {"ref", "refs", "refe"} /\ tadr' = Dma!Plus(e.at, 2)
        \/ /\ e.tag.id \in {"next", "call", "ret"} /\ EndsIn(chain.tie, e.tag)
           /\ tadr' = Dma!Plus(Dma!Source(e.tag, e.at), 2 * e.tag.qwc)
    BY ONLY <1>3, <2>1, <2>2, <2>3, <2>4
  <2>6. LeadsTo(chain.tie, Append(p, e), tadr')
    BY <1>2, <1>5, <2>5, LeadsMore
  <2> QED BY <1>5, <2>6
<1>9. delivered' \in Seq(Spot) /\ delivered' = FlattenSeq(DataAll(chain.tte, path'))
  <2>1. w.tags \in Seq(Placed) /\ w.packet \in Seq(Spot) /\ w.packet = FlattenSeq(DataAll(chain.tte, w.tags))
    BY <1>2 DEF ReadSoFar, Walk
  <2>2. delivered \in Seq(Spot) /\ delivered = FlattenSeq(DataAll(chain.tte, path))
    BY DEF ChainInv, ChainTyped
  <2>3. delivered' = delivered \o w.packet /\ path' = path \o w.tags
    BY <1>0
  <2>4. delivered \o w.packet \in Seq(Spot)
    BY <2>1, <2>2
  <2>5. FlattenSeq(DataAll(chain.tte, path \o w.tags))
        = FlattenSeq(DataAll(chain.tte, path)) \o FlattenSeq(DataAll(chain.tte, w.tags))
    BY <1>1, <1>4, <2>1, DataJoin
  <2> QED BY <2>1, <2>2, <2>3, <2>4, <2>5, Zenon
<1>10. ChainTyped'
  BY <1>0, <1>1, <1>6, <1>7, <1>9 DEF ChainTyped
<1>11. ReadSoFar(chain.tte, walk)'
  BY <1>0, <1>2, Zenon
<1>12. outcome' # "walk"
  BY <1>0
<1> QED BY <1>0, <1>6, <1>8, <1>9, <1>10, <1>11, <1>12, Zenon DEF ChainInv

(* What the walk knows of the tag it is at.                                 *)
LEMMA AtTag ==
  ASSUME Dma!ChainAssumption, ChainInv, outcome = "walk", NEW t, t = Dma!TagAt(walk.tadr)
  PROVE  LET e == [tag |-> t, at |-> walk.tadr]
         IN  /\ t \in Dma!Tag /\ e \in Placed /\ walk.tadr \in Dma!Address /\ walk.stack \in Seq(Dma!Address)
             /\ path \o walk.tags \in Seq(Placed) /\ Dma!Behind(t) \in Dma!Address /\ t.addr \in Dma!Address
             /\ Dma!Behind(t) = Dma!Plus(Dma!Source(t, walk.tadr), 2 * t.qwc)
             /\ \E c : Calls(path \o walk.tags, walk.stack, c)
             /\ Dma!Taken(t).tadr = walk.tadr /\ Dma!Taken(t).stack = walk.stack
<1>1. /\ Sized /\ chain.tte \in BOOLEAN /\ t \in Dma!Tag /\ ReadSoFar(chain.tte, walk) /\ path \in Seq(Placed)
  BY ConstantsIs DEF ChainInv, ChainTyped
<1>2. walk.tadr \in Dma!Address /\ walk.stack \in Seq(Dma!Address) /\ walk.tags \in Seq(Placed)
  BY <1>1 DEF ReadSoFar, Walk
<1>3. path \o walk.tags \in Seq(Placed)
  BY <1>1, <1>2
<1>4. Dma!Behind(t) \in Dma!Address /\ Dma!Behind(t) = Dma!Plus(Dma!Source(t, walk.tadr), 2 * t.qwc)
  BY <1>1, <1>2, SourceIs DEF Dma!Behind
<1>5. t.addr \in Dma!Address
  BY <1>1 DEF Dma!Tag
<1>6. \E c : Calls(path \o walk.tags, walk.stack, c)
  BY DEF ChainInv, OnItsWay
<1>7. [tag |-> t, at |-> walk.tadr] \in Placed
  BY <1>1, <1>2 DEF Placed
<1>8. Dma!Taken(t).tadr = walk.tadr /\ Dma!Taken(t).stack = walk.stack
  BY <1>1, TakenIs
<1> QED BY <1>1, <1>2, <1>3, <1>4, <1>5, <1>6, <1>7, <1>8

LEMMA TakenRecord ==
  ASSUME NEW w \in Walk, NEW a, NEW s
  PROVE  /\ [w EXCEPT !.tadr = a] = [w EXCEPT !.tadr = a, !.stack = w.stack]
  BY DEF Walk

(* Tags that neither call nor return.                                       *)
LEMMA StepPlain ==
  ASSUME Dma!ChainAssumption, ChainInv, NEW t, t = Dma!TagAt(walk.tadr), outcome = "walk",
         UNCHANGED <<chain, tadr, outcome, path, delivered>>,
         NEW a \in Dma!Address, walk' = [Dma!Taken(t) EXCEPT !.tadr = a], t.id \notin {"call", "ret"},
         \/ t.id \in {"cnt", "end"} /\ a = Dma!Plus(Dma!Source(t, walk.tadr), 2 * t.qwc)
         \/ t.id \in {"ref", "refs", "refe"} /\ a = Dma!Plus(walk.tadr, 2)
         \/ t.id \in {"next", "call"} /\ a = t.addr
  PROVE  ChainInv'
<1> DEFINE e == [tag |-> t, at |-> walk.tadr]
           p == path \o walk.tags
           q == Append(p, e)
           s == walk.stack
<1>1. /\ t \in Dma!Tag /\ e \in Placed /\ p \in Seq(Placed) /\ s \in Seq(Dma!Address) /\ \E c : Calls(p, s, c)
      /\ Dma!Taken(t).stack = s
  BY AtTag
<1>2. e.tag = t /\ e.at = walk.tadr
  OBVIOUS
<1>3. walk' = [Dma!Taken(t) EXCEPT !.tadr = a, !.stack = s]
  <2>1. Dma!Taken(t) \in Walk
    <3>1. Sized /\ chain.tte \in BOOLEAN /\ ReadSoFar(chain.tte, walk)
      BY ConstantsIs DEF ChainInv, ChainTyped
    <3>2. ReadSoFar(chain.tte, Dma!Taken(t))
      BY <1>1, <3>1, TakenIs
    <3> QED BY <3>2 DEF ReadSoFar
  <2> QED BY <1>1, <2>1, TakenRecord
<1> HIDE DEF e, p, s
<1>4. LeadsTo(chain.tie, q, a)
  BY <1>1, <1>2, LeadsMore
<1>5. \E c : Calls(q, s, c)
  <2>1. PICK c : Calls(p, s, c)
    BY <1>1
  <2>2. Calls(q, s, c)
    BY <1>1, <1>2, <2>1, CallsSame
  <2> QED BY <2>2
<1> QED BY <1>1, <1>3, <1>4, <1>5, StepWalks DEF e, p

LEMMA StepNext ==
  ASSUME Dma!ChainAssumption, ChainInv, Dma!Sequential \/ Dma!NextTag
  PROVE  ChainInv'
<1>1. CASE Dma!Sequential
  <2> DEFINE t == Dma!TagAt(walk.tadr)
             a == IF t.id = "cnt" THEN Dma!Behind(t) ELSE Dma!Plus(walk.tadr, 2)
  <2>1. /\ outcome = "walk" /\ t.id \in {"cnt", "ref", "refs"} /\ UNCHANGED <<chain, tadr, outcome, path, delivered>>
        /\ walk' = [Dma!Taken(t) EXCEPT !.tadr = IF t.id = "cnt" THEN Dma!Behind(t) ELSE Dma!Plus(@, 2)]
    BY <1>1 DEF Dma!Sequential, Dma!GoesOn
  <2>2. /\ walk.tadr \in Dma!Address /\ Dma!Behind(t) \in Dma!Address
        /\ Dma!Behind(t) = Dma!Plus(Dma!Source(t, walk.tadr), 2 * t.qwc)
        /\ Dma!Taken(t).tadr = walk.tadr
    BY <2>1, AtTag
  <2>3. a \in Dma!Address
    BY <2>2, PlusIs
  <2>4. walk' = [Dma!Taken(t) EXCEPT !.tadr = a]
    BY <2>1, <2>2
  <2>5. \/ t.id \in {"cnt", "end"} /\ a = Dma!Plus(Dma!Source(t, walk.tadr), 2 * t.qwc)
        \/ t.id \in {"ref", "refs", "refe"} /\ a = Dma!Plus(walk.tadr, 2)
    BY <2>1, <2>2
  <2>6. t = Dma!TagAt(walk.tadr) /\ t.id \notin {"call", "ret"}
    BY <2>1
  <2> HIDE DEF t, a
  <2> QED BY <2>1, <2>3, <2>4, <2>5, <2>6, StepPlain
<1>2. CASE Dma!NextTag
  <2> DEFINE t == Dma!TagAt(walk.tadr)
  <2>1. /\ outcome = "walk" /\ t.id = "next" /\ UNCHANGED <<chain, tadr, outcome, path, delivered>>
        /\ walk' = [Dma!Taken(t) EXCEPT !.tadr = t.addr]
    BY <1>2 DEF Dma!NextTag, Dma!GoesOn
  <2>2. t.addr \in Dma!Address /\ t = Dma!TagAt(walk.tadr) /\ t.id \notin {"call", "ret"} /\ t.id \in {"next", "call"}
    BY <2>1, AtTag
  <2> HIDE DEF t
  <2> QED BY <2>1, <2>2, StepPlain
<1> QED BY <1>1, <1>2

LEMMA StepCalls ==
  ASSUME Dma!ChainAssumption, ChainInv, Dma!Call
  PROVE  ChainInv'
<1> DEFINE t == Dma!TagAt(walk.tadr)
           e == [tag |-> t, at |-> walk.tadr]
           p == path \o walk.tags
           s == walk.stack
           b == Dma!Behind(t)
<1>1. /\ outcome = "walk" /\ t.id = "call" /\ UNCHANGED <<chain, tadr, outcome, path, delivered>>
      /\ walk' = [Dma!Taken(t) EXCEPT !.tadr = t.addr, !.stack = Append(@, b)]
  BY DEF Dma!Call, Dma!GoesOn
<1>2. /\ t \in Dma!Tag /\ e \in Placed /\ p \in Seq(Placed) /\ s \in Seq(Dma!Address) /\ \E c : Calls(p, s, c)
      /\ Dma!Taken(t).stack = s /\ t.addr \in Dma!Address /\ b \in Dma!Address
      /\ b = Dma!Plus(Dma!Source(t, walk.tadr), 2 * t.qwc) /\ t = Dma!TagAt(walk.tadr)
  BY <1>1, AtTag
<1>3. e.tag = t /\ e.at = walk.tadr
  OBVIOUS
<1>4. walk' = [Dma!Taken(t) EXCEPT !.tadr = t.addr, !.stack = Append(s, b)] /\ Append(s, b) \in Seq(Dma!Address)
  BY <1>1, <1>2
<1> HIDE DEF e, p, s, t, b
<1>5. LeadsTo(chain.tie, Append(p, e), t.addr)
  BY <1>1, <1>2, <1>3, LeadsMore
<1>6. \E c : Calls(Append(p, e), Append(s, b), c)
  <2>1. PICK c : Calls(p, s, c)
    BY <1>2
  <2> QED BY <1>1, <1>2, <1>3, <2>1, CallsPush
<1> QED BY <1>1, <1>2, <1>4, <1>5, <1>6, StepWalks DEF e, p

LEMMA StepReturns ==
  ASSUME Dma!ChainAssumption, ChainInv, Dma!Return
  PROVE  ChainInv'
<1> DEFINE t == Dma!TagAt(walk.tadr)
           e == [tag |-> t, at |-> walk.tadr]
           p == path \o walk.tags
           s == walk.stack
           a == s[Len(s)]
<1>1. /\ outcome = "walk" /\ t.id = "ret" /\ UNCHANGED <<chain, tadr, outcome, path, delivered>>
      /\ s # <<>> /\ walk' = [Dma!Taken(t) EXCEPT !.tadr = Last(s), !.stack = Front(@)]
  BY SameSequences DEF Dma!Return, Dma!GoesOn
<1>2. /\ t \in Dma!Tag /\ e \in Placed /\ p \in Seq(Placed) /\ s \in Seq(Dma!Address) /\ \E c : Calls(p, s, c)
      /\ Dma!Taken(t).stack = s /\ t = Dma!TagAt(walk.tadr)
  BY <1>1, AtTag
<1>3. e.tag = t /\ e.at = walk.tadr
  OBVIOUS
<1>4. Len(s) # 0 /\ Len(s) \in 1..Len(s)
  BY <1>1, <1>2
<1>5. a \in Dma!Address /\ Front(s) \in Seq(Dma!Address) /\ Last(s) = a
  <2>1. a \in Dma!Address
    BY <1>2, <1>4, ElementOfSeq
  <2>2. PICK m : m = Len(s) - 1 /\ m \in Nat /\ m <= Len(s)
    <3>1. Len(s) \in Nat /\ Len(s) # 0
      BY <1>2, <1>4
    <3> HIDE DEF s
    <3> QED BY <3>1
  <2>3. SubSeq(s, 1, m) \in Seq(Dma!Address)
    BY ONLY <1>2, <2>2
  <2> QED BY <2>1, <2>2, <2>3 DEF Front, Last
<1>6. walk' = [Dma!Taken(t) EXCEPT !.tadr = a, !.stack = Front(s)]
  BY <1>1, <1>2, <1>5
<1> HIDE DEF e, p, s, t, a
<1>7. PICK c : Calls(p, s, c)
  BY <1>2
<1>8. LeadsTo(chain.tie, Append(p, e), a)
  BY <1>1, <1>2, <1>3, <1>4, <1>7, ReturnLeads DEF a
<1>9. \E d : Calls(Append(p, e), Front(s), d)
  BY <1>1, <1>2, <1>3, <1>4, <1>7, CallsPop
<1> QED BY <1>1, <1>2, <1>5, <1>6, <1>8, <1>9, StepWalks DEF e, p

LEMMA ChainStep ==
  ASSUME Dma!ChainAssumption, ChainInv, [Dma!Next]_Dma!vars
  PROVE  ChainInv'
<1>1. CASE Dma!Fail
  BY <1>1, Zenon DEF Dma!Fail, ChainInv, ChainTyped
<1>2. CASE UNCHANGED Dma!vars
  BY <1>2 DEF Dma!vars, ChainInv, ChainTyped
<1> QED BY <1>1, <1>2, StepStarts, StepNext, StepCalls, StepReturns, StepEnds DEF Dma!Next

LEMMA ChainHolds ==
  ASSUME Dma!ChainAssumption, ChainInv
  PROVE  Dma!ChainExact
<1>1. ChainTyped /\ ReadSoFar(chain.tte, walk) /\ walk \in Walk /\ Spread(walk.spans, walk.packet, 0)
  BY DEF ChainInv, ReadSoFar
<1>2. Dma!SpansExact
  <2> DEFINE s == walk.spans
             cells(i) == [k \in 1..s[i].size |-> <<s[i].cell[1], s[i].cell[2] + k - 1>>]
  <2>1. s \in Seq(Span) /\ DOMAIN s = 1..Len(s)
    BY <1>1 DEF Walk
  <2>2. [i \in DOMAIN s |-> cells(i)] = AllCells(s)
    BY <2>1 DEF AllCells, CellsOf
  <2>3. FlattenSeq([i \in DOMAIN s |-> cells(i)]) = walk.packet
    BY <1>1, <2>2 DEF Spread
  <2>4. \A i \in DOMAIN s : s[i].offset = (IF i = 1 THEN 0 ELSE s[i - 1].offset + s[i - 1].size)
    BY <1>1, <2>1 DEF Spread, Chained
  <2>5. Len(walk.packet) = 2 * walk.qwc + (IF chain.tte THEN walk.count ELSE 0)
    BY <1>1 DEF ReadSoFar
  <2>6. Dma!FlattenSeq([i \in DOMAIN s |-> cells(i)]) = walk.packet
    BY <2>3, SameSequences, Zenon
  <2> QED BY <2>4, <2>5, <2>6 DEF Dma!SpansExact
<1>3. path \in Seq(Placed) /\ Linked(chain.tie, path) /\ DOMAIN path = 1..Len(path) /\ Len(path) \in Nat
  BY <1>1 DEF ChainInv, ChainTyped
<1>4. ASSUME NEW i \in 1..(Len(path) - 1)
      PROVE  \/ path[i + 1].at = Dma!Place(i)
             \/ path[i].tag.id \in {"next", "call", "ret"} /\ Dma!Ends(path[i].tag) /\ path[i + 1].at = Dma!After(i)
  <2>1. Leads(chain.tie, path, i, path[i + 1].at)
    BY <1>3 DEF Linked
  <2>2. Dma!After(i) = AfterIn(path, i)
    BY DEF Dma!After, AfterIn
  <2>3. EndsIn(chain.tie, path[i].tag) => Dma!Ends(path[i].tag)
    BY DEF EndsIn, Dma!Ends
  <2>4. PlaceIn(path, i) = Dma!Place(i)
    <3>1. {k \in 1..(i - 1) : path[k].tag.id = "call" /\ Dma!Among(k, i, "call") = Dma!Among(k, i, "ret")}
          = Callers(path, i)
      BY SameSets DEF Callers, Dma!Among, Count, Kind
    <3>2. Dma!Caller(i) = Max(Callers(path, i))
      BY <3>1, SameSets, Zenon DEF Dma!Caller
    <3>3. Dma!After(Dma!Caller(i)) = AfterIn(path, Max(Callers(path, i)))
      BY <3>2 DEF Dma!After, AfterIn
    <3> QED BY <2>2, <3>3, Zenon DEF PlaceIn, Dma!Place
  <2> QED BY <2>1, <2>2, <2>3, <2>4 DEF Leads
<1>5. delivered = FlattenSeq([i \in DOMAIN path |-> Dma!Data(i)])
  <2>1. \A i \in 1..Len(path) : Dma!Data(i) = DataOf(chain.tte, path[i])
    BY DEF Dma!Data, DataOf
  <2>2. [i \in DOMAIN path |-> Dma!Data(i)] = DataAll(chain.tte, path)
    BY <1>3, <2>1 DEF DataAll
  <2> QED BY <2>2 DEF ChainInv
<1>7. delivered = Dma!FlattenSeq([i \in DOMAIN path |-> Dma!Data(i)])
  BY <1>5, SameSequences, Zenon
<1>6. Dma!Continues
  BY <1>4, <1>7 DEF Dma!Continues
<1> QED BY <1>2, <1>6 DEF Dma!ChainExact

LEMMA ChainKept ==
  ASSUME Constants, part = "dma" => ChainInv, [Next]_vars
  PROVE  (part = "dma" => ChainInv)'
<1>1. SUFFICES ASSUME part' = "dma" PROVE ChainInv'
  OBVIOUS
<1>2. part = "dma" /\ [Dma!Next]_Dma!vars
  BY <1>1 DEF Next, vars, dmaVars, Dma!vars
<1>3. Dma!ChainAssumption
  BY DEF Constants
<1> QED BY <1>2, <1>3, ChainStep

(* VifChain: every transfer of the channel carries exactly what its tags     *)
(* say, through calls, wraps and the registers it is restarted from.         *)
THEOREM ChainTheorem == Spec => []ChainExact
<1> DEFINE Inv == part = "dma" => ChainInv
<1>1. Init => Inv
  BY Constants, ChainInit DEF Init, Constants
<1>2. Inv /\ [Next]_vars => Inv'
  BY Constants, ChainKept
<1>3. Inv => ChainExact
  BY Constants, ChainHolds DEF ChainExact, Constants
<1> QED BY <1>1, <1>2, <1>3, PTL DEF Spec

-----------------------------------------------------------------------------
(* The GIF's copies of the libraries' operators are the libraries'.           *)
LEMMA GifSets ==
  ASSUME NEW S
  PROVE  Gif!Max(S) = Max(S) /\ Gif!Min(S) = Min(S) /\ Gif!Cardinality(S) = Cardinality(S)
  BY DEF Gif!Max, Max, Gif!Min, Min, Gif!Cardinality, Cardinality

LEMMA GifSequences ==
  ASSUME NEW s
  PROVE  Gif!Last(s) = Last(s) /\ Gif!FlattenSeq(s) = FlattenSeq(s)
  BY DEF Gif!Last, Last, Gif!FlattenSeq, FlattenSeq

-----------------------------------------------------------------------------
(* The GIF: types                                                            *)

Vertex == [at : Nat, col : Nat, q : Nat \cup {Gif!One}]
Drawing == [type : 0..7, vs : Seq(Vertex)]
Datum == [at : Nat, val : Gif!Value]
Qword == [tag : Gif!Tag, vals : Seq(Datum)]
Pixel == [pos : Nat, pix : Nat \X Nat]
GifState ==
  [pending : Seq(Qword), prim : Gif!Prim, col : Nat, q : Nat \cup {Gif!One}, packedQ : Nat \cup {Gif!One},
   count : Nat, v : Seq(Vertex), first : Seq(Vertex), drawn : Seq(Drawing),
   trx : [total : Nat, size : {0, 1, 2}], dir : {0, 1}, moved : Nat, image : Seq(Pixel)]

Whats == {"tag", "prim", "rgbaq", "packed_rgbaq", "st", "packed_st", "xyz", "xyz3", "trxreg", "trxdir",
          "other", "nop", "nothing", "pixels"}
Entry == [what : Whats, at : Nat, val : Gif!Value]
         \cup [what : {"tag", "prim"}, at : Nat, val : [prim : Gif!Prim]]

-----------------------------------------------------------------------------
(* What a log says, as in GifStream, of any log.                             *)
LastIn(L, i, whats) == LET S == {j \in 1..(i - 1) : L[j].what \in whats} IN IF S = {} THEN 0 ELSE Max(S)
PrimIn(L, i) == LET j == LastIn(L, i, {"prim"})
                IN IF j = 0 THEN [type |-> 0, smooth |-> FALSE] ELSE L[j].val.prim
KicksIn(L, i, m) == {j \in (LastIn(L, i, {"prim"}) + 1)..m : L[j].what \in {"xyz", "xyz3"}}
ColourIn(L, i) == LET j == LastIn(L, i, {"rgbaq", "packed_rgbaq"}) IN IF j = 0 THEN 0 ELSE L[j].at
PackedQIn(L, i) == LET s == LastIn(L, i, {"tag", "packed_st"})
                   IN IF s = 0 \/ L[s].what = "tag" THEN Gif!One ELSE L[s].at
QIn(L, i) == LET j == LastIn(L, i, {"rgbaq", "packed_rgbaq"})
             IN IF j = 0 THEN Gif!One ELSE IF L[j].what = "rgbaq" THEN L[j].at ELSE PackedQIn(L, j)
VertexIn(L, j) == [at |-> L[j].at, col |-> ColourIn(L, j), q |-> QIn(L, j)]
VerticesOf(L, S) == [k \in 1..Cardinality(S) |-> VertexIn(L, Gif!Nth(S, k))]
ExpectedIn(L, i) ==
  IF L[i].what = "xyz" THEN Gif!Formed(PrimIn(L, i), VerticesOf(L, KicksIn(L, i, i))) ELSE <<>>
AllExpected(L) == [i \in 1..Len(L) |-> ExpectedIn(L, i)]
Waiting(L) == VerticesOf(L, KicksIn(L, Len(L) + 1, Len(L)))

TrxIn(L, i) == LET j == LastIn(L, i, {"trxreg"})
               IN IF j = 0 THEN [total |-> 0, size |-> 0]
                  ELSE [total |-> L[j].val.total, size |-> L[j].val.size]
DirIn(L, i) == LET j == LastIn(L, i, {"trxdir"}) IN IF j = 0 THEN 0 ELSE L[j].val.dir
DataIn(L, j, size) == IF L[j].what = "pixels" THEN Gif!Pixels(L[j], size) ELSE <<>>
ImageData(L, d, size) == [i \in 1..(Len(L) - d) |-> DataIn(L, d + i, size)]
Fitting(all, total) == [i \in 1..Min({Len(all), total}) |-> [pos |-> i - 1, pix |-> all[i]]]

-----------------------------------------------------------------------------
(* What the GIF's state is after a log.                                      *)
Registers(g, L) ==
  LET n == Len(L) + 1
  IN  g.prim = PrimIn(L, n) /\ g.col = ColourIn(L, n) /\ g.q = QIn(L, n) /\ g.packedQ = PackedQIn(L, n)

(* The vertices w since PRIM, of which these are kept.                       *)
Kept(type, w) ==
  LET m == Len(w)
  IN  CASE type = 1 -> IF m % 2 = 0 THEN <<>> ELSE <<w[m]>>
        [] type = 2 -> IF m = 0 THEN <<>> ELSE <<w[m]>>
        [] type = 3 -> IF m % 3 = 0 THEN <<>> ELSE IF m % 3 = 1 THEN <<w[m]>> ELSE <<w[m - 1], w[m]>>
        [] type = 4 -> IF m = 0 THEN <<>> ELSE IF m = 1 THEN <<w[1]>> ELSE <<w[m - 1], w[m]>>
        [] type = 5 -> IF m = 0 THEN <<>> ELSE IF m = 1 THEN <<w[1]>> ELSE <<w[1], w[m]>>
        [] OTHER -> <<>>
Assembled(g, w) ==
  /\ g.v = Kept(g.prim.type, w) /\ g.count = Len(g.v)
  /\ g.first = IF g.prim.type = 6 /\ Len(w) % 2 = 1 THEN <<w[Len(w)]>> ELSE <<>>

DrawnIs(g, L) == g.drawn = FlattenSeq(AllExpected(L))

Transfers(L, d, r) ==
  d = LastIn(L, Len(L) + 1, {"trxdir"}) /\ r = LastIn(L, d, {"trxreg"}) /\ r # 0
  /\ LastIn(L, Len(L) + 1, {"trxreg"}) = r
Moved(g, all) == g.image = Fitting(all, g.trx.total) /\ g.moved = Len(g.image)
ImageIs(g, L) ==
  /\ g.trx = TrxIn(L, Len(L) + 1) /\ g.dir = DirIn(L, Len(L) + 1)
  /\ \A d, r \in 0..Len(L) : Transfers(L, d, r) => 
       IF g.dir # 0 THEN g.image = <<>> ELSE Moved(g, FlattenSeq(ImageData(L, d, g.trx.size)))

AsLog(g, L) == /\ Registers(g, L) /\ Assembled(g, Waiting(L)) /\ DrawnIs(g, L) /\ ImageIs(g, L)

(* What an entry other than image data does.                                 *)
Effect(g, e) ==
  CASE e.what = "tag" -> [g EXCEPT !.packedQ = Gif!One]
    [] e.what = "prim" -> Gif!SetPrim(g, e.val.prim)
    [] e.what = "rgbaq" -> [g EXCEPT !.col = e.at, !.q = e.at]
    [] e.what = "packed_rgbaq" -> [g EXCEPT !.col = e.at, !.q = g.packedQ]
    [] e.what = "packed_st" -> [g EXCEPT !.packedQ = e.at]
    [] e.what = "xyz" -> Gif!Emit(g, e.at, TRUE)
    [] e.what = "xyz3" -> Gif!Emit(g, e.at, FALSE)
    [] e.what = "trxreg" -> [g EXCEPT !.trx = [total |-> e.val.total, size |-> e.val.size]]
    [] e.what = "trxdir" -> [g EXCEPT !.dir = e.val.dir, !.moved = 0, !.image = <<>>]
    [] OTHER -> g

(* The qwords of a tag and its payload, and of the tag being written.        *)
Group == [tag : Gif!Tag, data : Seq(Seq(Datum))]
Full(a) == Len(a.data) = Gif!Payload(a.tag)
FilledUp(a) == \A i \in 1..Len(a.data) : Len(a.data[i]) = Gif!PerQword(a.tag)
QwordsOf(a) == <<[tag |-> a.tag, vals |-> <<>>]>>
               \o [i \in 1..Len(a.data) |-> [tag |-> a.tag, vals |-> a.data[i]]]
OpenQwords(w) == IF w.open = <<>> THEN <<>> ELSE QwordsOf([tag |-> w.open[1], data |-> w.qwords])
-----------------------------------------------------------------------------
(* The GIF: positions in a log                                               *)

Agree(L, M, m) == \A j \in 1..m : L[j] = M[j]

LEMMA LastSame ==
  ASSUME NEW L, NEW M, NEW i \in Nat, Agree(L, M, i - 1), NEW whats
  PROVE  LastIn(L, i, whats) = LastIn(M, i, whats)
<1>1. {j \in 1..(i - 1) : L[j].what \in whats} = {j \in 1..(i - 1) : M[j].what \in whats}
  BY DEF Agree
<1> QED BY <1>1 DEF LastIn

LEMMA LastType ==
  ASSUME NEW L, NEW i \in Nat, NEW whats
  PROVE  /\ LastIn(L, i, whats) \in Nat /\ (i # 0 => LastIn(L, i, whats) < i)
         /\ LastIn(L, i, whats) # 0 => /\ LastIn(L, i, whats) \in 1..(i - 1)
                                       /\ L[LastIn(L, i, whats)].what \in whats
<1> DEFINE S == {j \in 1..(i - 1) : L[j].what \in whats}
<1>1. CASE S = {}
  BY <1>1 DEF LastIn
<1>2. CASE S # {}
  <2>1. S \in SUBSET Nat /\ \A j \in S : j <= i
    OBVIOUS
  <2>2. \A j \in S : j \in 1..(i - 1) /\ L[j].what \in whats
    OBVIOUS
  <2>3. LastIn(L, i, whats) = Max(S)
    BY <1>2 DEF LastIn
  <2> HIDE DEF S
  <2>4. Max(S) \in S
    BY <1>2, <2>1, BoundedMax
  <2> QED BY <2>2, <2>3, <2>4
<1> QED BY <1>1, <1>2

LEMMA LastNew ==
  ASSUME NEW L, NEW i \in Nat, i # 0, NEW whats
  PROVE  LastIn(L, i + 1, whats) = IF L[i].what \in whats THEN i ELSE LastIn(L, i, whats)
<1> DEFINE S == {j \in 1..(i - 1) : L[j].what \in whats}
           T == {j \in 1..((i + 1) - 1) : L[j].what \in whats}
<1>1. CASE L[i].what \in whats
  <2>1. i \in T /\ T \in SUBSET Int /\ \A j \in T : j <= i
    BY <1>1
  <2>2. LastIn(L, i + 1, whats) = Max(T)
    BY <2>1 DEF LastIn
  <2> HIDE DEF T
  <2>3. Max(T) = i
    BY <2>1, MaxIs
  <2> QED BY <1>1, <2>2, <2>3
<1>2. CASE ~(L[i].what \in whats)
  <2>1. S = T
    BY <1>2
  <2> QED BY <1>2, <2>1 DEF LastIn
<1> QED BY <1>1, <1>2

LEMMA RegistersSame ==
  ASSUME NEW L, NEW M, NEW i \in Nat, i # 0, Agree(L, M, i - 1)
  PROVE  /\ PrimIn(L, i) = PrimIn(M, i) /\ ColourIn(L, i) = ColourIn(M, i)
         /\ PackedQIn(L, i) = PackedQIn(M, i) /\ QIn(L, i) = QIn(M, i)
         /\ TrxIn(L, i) = TrxIn(M, i) /\ DirIn(L, i) = DirIn(M, i)
<1>1. \A w : LastIn(L, i, w) = LastIn(M, i, w)
  BY LastSame
<1>2. \A w : LastIn(L, i, w) # 0 => L[LastIn(L, i, w)] = M[LastIn(L, i, w)]
  BY LastType DEF Agree
<1>3. \A k \in 1..i : PackedQIn(L, k) = PackedQIn(M, k)
  <2> SUFFICES ASSUME NEW k \in 1..i PROVE PackedQIn(L, k) = PackedQIn(M, k)
    OBVIOUS
  <2>1. Agree(L, M, k - 1) /\ k \in Nat
    BY DEF Agree
  <2>2. \A w : LastIn(L, k, w) = LastIn(M, k, w)
    BY <2>1, LastSame
  <2>3. \A w : LastIn(L, k, w) # 0 => L[LastIn(L, k, w)] = M[LastIn(L, k, w)]
    BY <2>1, LastType DEF Agree
  <2> QED BY <2>2, <2>3 DEF PackedQIn
<1>4. QIn(L, i) = QIn(M, i)
  <2>1. PICK j : j = LastIn(L, i, {"rgbaq", "packed_rgbaq"})
    OBVIOUS
  <2>2. j # 0 => j \in 1..i
    BY <2>1, LastType
  <2>3. j # 0 => PackedQIn(L, j) = PackedQIn(M, j) /\ L[j] = M[j]
    BY <1>2, <1>3, <2>1, <2>2
  <2>4. j = LastIn(M, i, {"rgbaq", "packed_rgbaq"})
    BY <1>1, <2>1
  <2> QED BY <2>1, <2>3, <2>4 DEF QIn
<1>5. i \in 1..i
  OBVIOUS
<1> QED BY <1>1, <1>2, <1>3, <1>4, <1>5 DEF PrimIn, ColourIn, TrxIn, DirIn

LEMMA VertexSame ==
  ASSUME NEW L, NEW M, NEW j \in Nat, j # 0, Agree(L, M, j)
  PROVE  VertexIn(L, j) = VertexIn(M, j)
<1>1. Agree(L, M, j - 1) /\ L[j] = M[j]
  BY DEF Agree
<1> QED BY <1>1, RegistersSame DEF VertexIn

-----------------------------------------------------------------------------
(* The GIF: the n-th element of a set of positions                           *)

Ranked(S, k) == {j \in S : Cardinality({l \in S : l <= j}) = k}

RankedAbove(S, i) ==
  /\ IsFiniteSet(S) /\ Cardinality(S) \in Nat /\ Cardinality(S \cup {i}) = Cardinality(S) + 1
  /\ Gif!Nth(S \cup {i}, Cardinality(S) + 1) = i
  /\ \A k \in 1..Cardinality(S) : Gif!Nth(S \cup {i}, k) = Gif!Nth(S, k)

LEMMA NthIs ==
  ASSUME NEW S, NEW k
  PROVE  Gif!Nth(S, k) = Max(Ranked(S, k))
<1>1. \A j : Gif!Cardinality({l \in S : l <= j}) = Cardinality({l \in S : l <= j})
  BY GifSets, Zenon
<1>2. {j \in S : Gif!Cardinality({l \in S : l <= j}) = k} = Ranked(S, k)
  BY <1>1 DEF Ranked
<1>3. Gif!Nth(S, k) = Gif!Max({j \in S : Gif!Cardinality({l \in S : l <= j}) = k})
  BY Zenon DEF Gif!Nth
<1> QED BY <1>2, <1>3, GifSets

LEMMA NthTop ==
  ASSUME NEW m \in Nat, NEW S \in SUBSET (1..m), NEW i \in Nat, i > m
  PROVE  RankedAbove(S, i)
<1> DEFINE T == S \cup {i}
           n == Cardinality(S)
<1>1. IsFiniteSet(S)
  <2>1. IsFiniteSet(1..m)
    BY FS_Interval
  <2> QED BY <2>1, FS_Subset
<1>2. n \in Nat /\ Cardinality(T) = n + 1
  <2>1. ~(i \in S)
    OBVIOUS
  <2> QED BY <1>1, <2>1, FS_CardinalityType, FS_AddElement
<1>3. \A j \in S : {l \in T : l <= j} = {l \in S : l <= j}
  OBVIOUS
<1>4. {l \in T : l <= i} = T
  <2>1. \A l \in S : l <= i
    OBVIOUS
  <2>2. \A l \in T : l <= i
    BY <2>1
  <2> HIDE DEF T
  <2> QED BY <2>2
<1>5. \A j \in S : Cardinality({l \in S : l <= j}) <= n
  <2> SUFFICES ASSUME NEW j \in S PROVE Cardinality({l \in S : l <= j}) <= n
    OBVIOUS
  <2>1. {l \in S : l <= j} \in SUBSET S
    OBVIOUS
  <2> QED BY <1>1, <2>1, FS_Subset
<1>6. \A j \in S : Cardinality({l \in T : l <= j}) = Cardinality({l \in S : l <= j})
  BY <1>3
<1>7. Cardinality({l \in T : l <= i}) = n + 1
  BY <1>2, <1>4
<1>8. \A k \in 1..n : Ranked(T, k) = Ranked(S, k)
  <2> SUFFICES ASSUME NEW k \in 1..n PROVE Ranked(T, k) = Ranked(S, k)
    OBVIOUS
  <2>1. k # n + 1
    BY <1>2
  <2>2. \A j : j \in T <=> j \in S \/ j = i
    OBVIOUS
  <2> HIDE DEF T, n
  <2>3. \A j : j \in Ranked(T, k) <=> j \in Ranked(S, k)
    BY <1>6, <1>7, <2>1, <2>2 DEF Ranked
  <2> QED BY <2>3
<1>9. Ranked(T, n + 1) = {i}
  <2>2. \A j : j \in T <=> j \in S \/ j = i
    OBVIOUS
  <2>3. \A j \in S : Cardinality({l \in T : l <= j}) # n + 1
    <3> SUFFICES ASSUME NEW j \in S, Cardinality({l \in S : l <= j}) = n + 1 PROVE FALSE
      BY <1>6
    <3>1. n + 1 <= n
      BY <1>5
    <3> QED BY <1>2, <3>1
  <2> HIDE DEF T, n
  <2>4. \A j : j \in Ranked(T, n + 1) <=> j = i
    BY <1>7, <2>2, <2>3 DEF Ranked
  <2> QED BY <2>4
<1>10. Max({i}) = i
  BY MaxIs
<1>11. Gif!Nth(T, n + 1) = i
  <2> HIDE DEF T, n
  <2> QED BY <1>9, <1>10, NthIs
<1>12. \A k \in 1..n : Gif!Nth(T, k) = Gif!Nth(S, k)
  <2> HIDE DEF T, n
  <2> QED BY <1>8, NthIs
<1> QED BY <1>1, <1>2, <1>11, <1>12 DEF RankedAbove

LEMMA NthIn ==
  ASSUME NEW m \in Nat
  PROVE  \A S \in SUBSET (1..m) : \A k \in 1..Cardinality(S) : Gif!Nth(S, k) \in S
<1> DEFINE P(b) == \A S \in SUBSET (1..b) : \A k \in 1..Cardinality(S) : Gif!Nth(S, k) \in S
           T == {b \in Nat : P(b)}
<1>1. 0 \in T
  <2>1. SUBSET (1..0) = {{}} /\ Cardinality({}) = 0
    BY FS_EmptySet
  <2>2. P(0)
    <3> SUFFICES ASSUME NEW S \in SUBSET (1..0), NEW k \in 1..Cardinality(S) PROVE FALSE
      OBVIOUS
    <3>1. Cardinality(S) = 0
      BY <2>1
    <3> QED BY <3>1
  <2> QED BY <2>2
<1>2. ASSUME NEW b \in Nat, b \in T PROVE b + 1 \in T
  <2>1. P(b)
    BY <1>2
  <2>2. ASSUME NEW S \in SUBSET (1..(b + 1)), NEW k \in 1..Cardinality(S) PROVE Gif!Nth(S, k) \in S
    <3>1. CASE S \in SUBSET (1..b)
      BY <2>1, <3>1
    <3>2. CASE ~(S \in SUBSET (1..b))
      <4> DEFINE R == S \ {b + 1}
      <4>1. b + 1 \in S /\ R \in SUBSET (1..b) /\ S = R \cup {b + 1}
        BY <3>2
      <4>4. b + 1 \in Nat /\ b + 1 > b
        OBVIOUS
      <4> HIDE DEF R
      <4>2. /\ Cardinality(R) \in Nat /\ Cardinality(S) = Cardinality(R) + 1
            /\ Gif!Nth(S, Cardinality(R) + 1) = b + 1
            /\ \A l \in 1..Cardinality(R) : Gif!Nth(S, l) = Gif!Nth(R, l)
        <5>1. PICK i \in Nat : i = b + 1 /\ i > b
          BY <4>4
        <5>2. R \in SUBSET (1..b) /\ b \in Nat
          BY <4>1
        <5>4. RankedAbove(R, i)
          BY ONLY <5>1, <5>2, NthTop
        <5>3. /\ Cardinality(R) \in Nat /\ Cardinality(R \cup {i}) = Cardinality(R) + 1
              /\ Gif!Nth(R \cup {i}, Cardinality(R) + 1) = i
              /\ \A l \in 1..Cardinality(R) : Gif!Nth(R \cup {i}, l) = Gif!Nth(R, l)
          BY ONLY <5>4 DEF RankedAbove
        <5> QED BY <4>1, <5>1, <5>3, Zenon
      <4>3. k = Cardinality(R) + 1 \/ k \in 1..Cardinality(R)
        BY <4>2
      <4> QED BY <2>1, <4>1, <4>2, <4>3
    <3> QED BY <3>1, <3>2
  <2>3. P(b + 1)
    BY <2>2
  <2> QED BY <2>3
<1>3. \A b \in T : P(b)
  OBVIOUS
<1> HIDE DEF T
<1>4. Nat \subseteq T
  BY <1>1, <1>2, Induction
<1> QED BY <1>3, <1>4
-----------------------------------------------------------------------------
(* The GIF: what an entry more says                                          *)

LEMMA KicksType ==
  ASSUME NEW L, NEW i \in Nat, NEW m \in Nat
  PROVE  KicksIn(L, i, m) \in SUBSET (1..m)
<1>1. LastIn(L, i, {"prim"}) \in Nat
  BY LastType
<1> QED BY <1>1 DEF KicksIn

LEMMA KicksSame ==
  ASSUME NEW L, NEW M, NEW i \in Nat, NEW m \in Nat, i <= m + 1, Agree(L, M, m)
  PROVE  KicksIn(L, i, m) = KicksIn(M, i, m)
<1>1. PICK p : p = LastIn(L, i, {"prim"})
  OBVIOUS
<1>2. Agree(L, M, i - 1)
  BY DEF Agree
<1>3. p = LastIn(M, i, {"prim"}) /\ p \in Nat
  BY <1>1, <1>2, LastSame, LastType
<1>4. \A j \in (p + 1)..m : L[j] = M[j]
  BY <1>3 DEF Agree
<1>5. {j \in (p + 1)..m : L[j].what \in {"xyz", "xyz3"}} = {j \in (p + 1)..m : M[j].what \in {"xyz", "xyz3"}}
  BY <1>4
<1> QED BY <1>1, <1>3, <1>5 DEF KicksIn

LEMMA VerticesSame ==
  ASSUME NEW L, NEW M, NEW m \in Nat, Agree(L, M, m), NEW S \in SUBSET (1..m)
  PROVE  VerticesOf(L, S) = VerticesOf(M, S)
<1>1. ASSUME NEW k \in 1..Cardinality(S) PROVE VertexIn(L, Gif!Nth(S, k)) = VertexIn(M, Gif!Nth(S, k))
  <2>1. PICK j : j = Gif!Nth(S, k) /\ j \in 1..m
    BY NthIn
  <2>2. j \in Nat /\ j # 0 /\ Agree(L, M, j)
    BY <2>1 DEF Agree
  <2> QED BY <2>1, <2>2, VertexSame
<1> QED BY <1>1 DEF VerticesOf

LEMMA ExpectedSame ==
  ASSUME NEW L, NEW M, NEW m \in Nat, Agree(L, M, m), NEW i \in 1..m
  PROVE  ExpectedIn(L, i) = ExpectedIn(M, i)
<1>1. L[i] = M[i] /\ Agree(L, M, i) /\ Agree(L, M, i - 1) /\ i \in Nat /\ i # 0 /\ i <= i + 1
  BY DEF Agree
<1>2. PICK S : S = KicksIn(L, i, i)
  OBVIOUS
<1>3. S = KicksIn(M, i, i) /\ S \in SUBSET (1..i)
  BY <1>1, <1>2, KicksSame, KicksType
<1>4. VerticesOf(L, S) = VerticesOf(M, S)
  BY <1>1, <1>3, VerticesSame
<1>5. PrimIn(L, i) = PrimIn(M, i)
  BY <1>1, RegistersSame
<1> QED BY <1>1, <1>2, <1>3, <1>4, <1>5 DEF ExpectedIn

LEMMA AppendIs ==
  ASSUME NEW n \in Nat, NEW s, s = [k \in 1..(n + 1) |-> s[k]], NEW r, r = [k \in 1..n |-> r[k]],
         \A k \in 1..n : s[k] = r[k]
  PROVE  s = Append(r, s[n + 1])
<1> DEFINE X == {s[k] : k \in 1..(n + 1)}
<1>1. \A k \in 1..(n + 1) : s[k] \in X
  OBVIOUS
<1> HIDE DEF X
<1>2. s \in [1..(n + 1) -> X] /\ n + 1 \in Nat
  BY <1>1
<1>3. s \in Seq(X) /\ Len(s) = n + 1
  BY <1>2
<1>10. s[n + 1] \in X
  <2>1. n + 1 \in 1..(n + 1)
    OBVIOUS
  <2> QED BY <1>1, <2>1
<1>11. \A k \in 1..n : r[k] \in X
  <2>1. \A k \in 1..n : k \in 1..(n + 1)
    OBVIOUS
  <2> QED BY <1>1, <2>1
<1>4. r \in [1..n -> X] /\ s[n + 1] \in X
  BY <1>10, <1>11
<1>5. r \in Seq(X) /\ Len(r) = n
  BY <1>4
<1>6. Append(r, s[n + 1]) \in Seq(X) /\ Len(Append(r, s[n + 1])) = n + 1
  BY <1>4, <1>5
<1>7. \A k \in 1..(n + 1) : s[k] = Append(r, s[n + 1])[k]
  <2> SUFFICES ASSUME NEW k \in 1..(n + 1) PROVE s[k] = Append(r, s[n + 1])[k]
    OBVIOUS
  <2>1. PICK x : x = s[n + 1]
    OBVIOUS
  <2>2. x \in X /\ Append(r, x)[n + 1] = x /\ \A j \in 1..n : Append(r, x)[j] = r[j]
    BY ONLY <1>4, <1>5, <2>1, n \in Nat
  <2>3. k = n + 1 \/ k \in 1..n
    OBVIOUS
  <2> QED BY <2>1, <2>2, <2>3
<1> QED BY <1>3, <1>6, <1>7, SeqEqual

LEMMA VerticesMore ==
  ASSUME NEW L, NEW m \in Nat, NEW S \in SUBSET (1..m), NEW i \in Nat, i > m
  PROVE  VerticesOf(L, S \cup {i}) = Append(VerticesOf(L, S), VertexIn(L, i))
<1>1. RankedAbove(S, i)
  BY NthTop
<1>2. PICK n : n = Cardinality(S)
  OBVIOUS
<1>3. n \in Nat /\ Cardinality(S \cup {i}) = n + 1 /\ Gif!Nth(S \cup {i}, n + 1) = i
      /\ \A k \in 1..n : Gif!Nth(S \cup {i}, k) = Gif!Nth(S, k)
  BY <1>1, <1>2 DEF RankedAbove
<1>4. PICK new : new = VerticesOf(L, S \cup {i})
  OBVIOUS
<1>5. PICK old : old = VerticesOf(L, S)
  OBVIOUS
<1>6. /\ new = [k \in 1..(n + 1) |-> VertexIn(L, Gif!Nth(S \cup {i}, k))]
      /\ old = [k \in 1..n |-> VertexIn(L, Gif!Nth(S, k))]
  BY <1>2, <1>3, <1>4, <1>5 DEF VerticesOf
<1>7. new = [k \in 1..(n + 1) |-> new[k]] /\ old = [k \in 1..n |-> old[k]]
      /\ \A k \in 1..n : new[k] = old[k]
  <2>1. \A k \in 1..n : k \in 1..(n + 1)
    BY <1>3
  <2>2. (\A k \in 1..(n + 1) : new[k] = VertexIn(L, Gif!Nth(S \cup {i}, k)))
        /\ \A k \in 1..n : old[k] = VertexIn(L, Gif!Nth(S, k))
    BY ONLY <1>6
  <2>3. \A k \in 1..n : new[k] = old[k]
    BY <1>3, <2>1, <2>2
  <2>4. new = [k \in 1..(n + 1) |-> new[k]] /\ old = [k \in 1..n |-> old[k]]
    BY ONLY <1>6
  <2> QED BY <2>3, <2>4
<1>8. new[n + 1] = VertexIn(L, i)
  <2>1. n + 1 \in 1..(n + 1)
    BY <1>3
  <2> QED BY <1>3, <1>6, <2>1
<1>9. new = Append(old, new[n + 1])
  BY <1>3, <1>7, AppendIs
<1> QED BY <1>4, <1>5, <1>8, <1>9

LEMMA LogMore ==
  ASSUME NEW L \in Seq(Entry), NEW e \in Entry, NEW M, M = Append(L, e)
  PROVE  /\ M \in Seq(Entry) /\ Len(M) = Len(L) + 1 /\ Len(L) \in Nat /\ M[Len(L) + 1] = e
         /\ Agree(L, M, Len(L))
<1>1. \A j \in 1..Len(L) : M[j] = L[j]
  OBVIOUS
<1> QED BY <1>1 DEF Agree

(* What is said after one entry more, the n-th.                              *)
SaysNow(L, M, e, n) ==
  /\ PrimIn(M, n + 1) = IF e.what = "prim" THEN e.val.prim ELSE PrimIn(L, n)
  /\ ColourIn(M, n + 1) = IF e.what \in {"rgbaq", "packed_rgbaq"} THEN e.at ELSE ColourIn(L, n)
  /\ PackedQIn(M, n + 1) = IF e.what = "tag" THEN Gif!One ELSE IF e.what = "packed_st" THEN e.at
                             ELSE PackedQIn(L, n)
  /\ QIn(M, n + 1) = IF e.what = "rgbaq" THEN e.at ELSE IF e.what = "packed_rgbaq" THEN PackedQIn(L, n)
                       ELSE QIn(L, n)
  /\ TrxIn(M, n + 1) = IF e.what = "trxreg" THEN [total |-> e.val.total, size |-> e.val.size]
                         ELSE TrxIn(L, n)
  /\ DirIn(M, n + 1) = IF e.what = "trxdir" THEN e.val.dir ELSE DirIn(L, n)

LEMMA RegistersNew ==
  ASSUME NEW L \in Seq(Entry), NEW e \in Entry, NEW M, M = Append(L, e), NEW n, n = Len(L) + 1
  PROVE  SaysNow(L, M, e, n)
<1>1. n \in Nat /\ n # 0 /\ M[n] = e /\ Agree(L, M, n - 1)
  <2>1. M \in Seq(Entry) /\ Len(M) = Len(L) + 1 /\ Len(L) \in Nat /\ M[Len(L) + 1] = e
        /\ Agree(L, M, Len(L))
    BY LogMore
  <2>2. n - 1 = Len(L)
    BY <2>1
  <2> QED BY <2>1, <2>2
<1>2. \A w : LastIn(M, n + 1, w) = IF e.what \in w THEN n ELSE LastIn(M, n, w)
  <2> SUFFICES ASSUME NEW w PROVE LastIn(M, n + 1, w) = IF e.what \in w THEN n ELSE LastIn(M, n, w)
    OBVIOUS
  <2>1. LastIn(M, n + 1, w) = IF M[n].what \in w THEN n ELSE LastIn(M, n, w)
    BY ONLY <1>1, LastNew
  <2> QED BY <1>1, <2>1
<1>3. PrimIn(M, n + 1) = IF e.what = "prim" THEN e.val.prim ELSE PrimIn(M, n)
  BY <1>1, <1>2 DEF PrimIn
<1>4. ColourIn(M, n + 1) = IF e.what \in {"rgbaq", "packed_rgbaq"} THEN e.at ELSE ColourIn(M, n)
  BY <1>1, <1>2 DEF ColourIn
<1>5. PackedQIn(M, n + 1) = IF e.what = "tag" THEN Gif!One ELSE IF e.what = "packed_st" THEN e.at
                            ELSE PackedQIn(M, n)
  BY <1>1, <1>2 DEF PackedQIn
<1>6. QIn(M, n + 1) = IF e.what = "rgbaq" THEN e.at ELSE IF e.what = "packed_rgbaq" THEN PackedQIn(M, n)
                      ELSE QIn(M, n)
  BY <1>1, <1>2 DEF QIn
<1>7. TrxIn(M, n + 1) = IF e.what = "trxreg" THEN [total |-> e.val.total, size |-> e.val.size]
                        ELSE TrxIn(M, n)
  BY <1>1, <1>2 DEF TrxIn
<1>8. DirIn(M, n + 1) = IF e.what = "trxdir" THEN e.val.dir ELSE DirIn(M, n)
  BY <1>1, <1>2 DEF DirIn
<1>9. /\ PrimIn(L, n) = PrimIn(M, n) /\ ColourIn(L, n) = ColourIn(M, n)
      /\ PackedQIn(L, n) = PackedQIn(M, n) /\ QIn(L, n) = QIn(M, n)
      /\ TrxIn(L, n) = TrxIn(M, n) /\ DirIn(L, n) = DirIn(M, n)
  BY <1>1, RegistersSame
<1> QED BY ONLY <1>3, <1>4, <1>5, <1>6, <1>7, <1>8, <1>9 DEF SaysNow

WaitsNow(L, M, e, n) ==
  Waiting(M) = IF e.what = "prim" THEN <<>>
               ELSE IF e.what \in {"xyz", "xyz3"}
               THEN Append(Waiting(L), [at |-> e.at, col |-> ColourIn(L, n), q |-> QIn(L, n)])
               ELSE Waiting(L)

LEMMA WaitingNew ==
  ASSUME NEW L \in Seq(Entry), NEW e \in Entry, NEW M, M = Append(L, e), NEW n, n = Len(L) + 1
  PROVE  WaitsNow(L, M, e, n)
<1>1. n \in Nat /\ n # 0 /\ M[n] = e /\ Agree(L, M, n - 1) /\ Len(M) = n /\ Len(L) = n - 1 /\ n - 1 \in Nat
      /\ n <= (n - 1) + 1 /\ (n - 1) + 1 = n
  <2>1. M \in Seq(Entry) /\ Len(M) = Len(L) + 1 /\ Len(L) \in Nat /\ M[Len(L) + 1] = e
        /\ Agree(L, M, Len(L))
    BY LogMore
  <2>2. n - 1 = Len(L)
    BY <2>1
  <2> QED BY <2>1, <2>2
<1>2. PICK S : S = KicksIn(L, n, n - 1)
  OBVIOUS
<1>3. S = KicksIn(M, n, n - 1) /\ S \in SUBSET (1..(n - 1))
  BY <1>1, <1>2, KicksSame, KicksType
<1>4. VerticesOf(L, S) = VerticesOf(M, S) /\ Waiting(L) = VerticesOf(L, S)
  <2>1. VerticesOf(L, S) = VerticesOf(M, S)
    BY <1>1, <1>3, VerticesSame
  <2> QED BY <1>1, <1>2, <2>1 DEF Waiting
<1>5. Waiting(M) = VerticesOf(M, KicksIn(M, n + 1, n))
  BY <1>1 DEF Waiting
<1>6. PICK p : p = LastIn(M, n, {"prim"}) /\ p \in Nat /\ p < n
  BY <1>1, LastType
<1>7. S = {j \in (p + 1)..(n - 1) : M[j].what \in {"xyz", "xyz3"}}
  BY <1>3, <1>6 DEF KicksIn
<1>8. LastIn(M, n + 1, {"prim"}) = IF e.what = "prim" THEN n ELSE p
  <2>0. PICK w : w = {"prim"}
    OBVIOUS
  <2>2. n \in Nat /\ n # 0
    BY <1>1
  <2>3. LastIn(M, n + 1, w) = IF M[n].what \in w THEN n ELSE LastIn(M, n, w)
    BY ONLY <2>2, LastNew
  <2>1. LastIn(M, n + 1, {"prim"}) = IF M[n].what \in {"prim"} THEN n ELSE LastIn(M, n, {"prim"})
    BY ONLY <2>0, <2>3
  <2> QED BY <1>1, <1>6, <2>1
<1>9. CASE e.what = "prim"
  <2>1. KicksIn(M, n + 1, n) = {}
    BY <1>1, <1>8, <1>9 DEF KicksIn
  <2>2. VerticesOf(M, {}) = <<>>
    BY FS_EmptySet DEF VerticesOf
  <2> QED BY <1>5, <1>9, <2>1, <2>2 DEF WaitsNow
<1>10. CASE e.what \in {"xyz", "xyz3"}
  <2>1. KicksIn(M, n + 1, n) = {j \in (p + 1)..n : M[j].what \in {"xyz", "xyz3"}}
    BY <1>8, <1>10 DEF KicksIn
  <2>2. KicksIn(M, n + 1, n) = S \cup {n}
    BY <1>1, <1>6, <1>7, <1>10, <2>1
  <2>3. VerticesOf(M, S \cup {n}) = Append(VerticesOf(M, S), VertexIn(M, n))
    <3>1. n > n - 1
      BY <1>1
    <3>2. PICK m : m = n - 1
      OBVIOUS
    <3> QED BY ONLY <1>1, <1>3, <3>1, <3>2, VerticesMore
  <2>4. VertexIn(M, n) = [at |-> e.at, col |-> ColourIn(L, n), q |-> QIn(L, n)]
    BY <1>1, RegistersSame DEF VertexIn
  <2> QED BY <1>4, <1>5, <1>10, <2>2, <2>3, <2>4 DEF WaitsNow
<1>11. CASE e.what # "prim" /\ e.what \notin {"xyz", "xyz3"}
  <2>1. KicksIn(M, n + 1, n) = {j \in (p + 1)..n : M[j].what \in {"xyz", "xyz3"}}
    BY <1>8, <1>11 DEF KicksIn
  <2>2. KicksIn(M, n + 1, n) = S
    BY <1>1, <1>6, <1>7, <1>11, <2>1
  <2> QED BY <1>4, <1>5, <1>11, <2>2 DEF WaitsNow
<1>12. e.what # "prim" => (e.what \in {"xyz", "xyz3"} <=> ~(e.what \notin {"xyz", "xyz3"}))
  OBVIOUS
<1> QED BY <1>9, <1>10, <1>11, <1>12 DEF WaitsNow
-----------------------------------------------------------------------------
(* The GIF: vertex assembly                                                  *)

LEMMA TupleIs ==
  ASSUME NEW f
  PROVE  /\ f = [i \in 1..1 |-> f[i]] => f = <<f[1]>>
         /\ f = [i \in 1..2 |-> f[i]] => f = <<f[1], f[2]>>
         /\ f = [i \in 1..3 |-> f[i]] => f = <<f[1], f[2], f[3]>>
  OBVIOUS

(* A vertex in the colour of the one that draws, if the shading is flat.     *)
Tint(p, a, x) == IF p.smooth THEN a ELSE [a EXCEPT !.col = x.col]

LEMMA ShadedIs ==
  ASSUME NEW g \in GifState, NEW a \in Vertex, NEW b \in Vertex, NEW x \in Vertex
  PROVE  /\ Gif!Shaded(g, <<a, x>>) = <<Tint(g.prim, a, x), x>>
         /\ Gif!Shaded(g, <<a, b, x>>) = <<Tint(g.prim, a, x), Tint(g.prim, b, x), x>>
<1>1. Last(<<a, x>>) = x /\ Last(<<a, b, x>>) = x
  BY DEF Last
<1>2. [x EXCEPT !.col = x.col] = x
  BY DEF Vertex
<1>3. CASE g.prim.smooth
  BY <1>3 DEF Gif!Shaded, Tint
<1>4. CASE ~g.prim.smooth
  <2> DEFINE f == [i \in 1..2 |-> [<<a, x>>[i] EXCEPT !.col = x.col]]
             h == [i \in 1..3 |-> [<<a, b, x>>[i] EXCEPT !.col = x.col]]
  <2>1. Gif!Shaded(g, <<a, x>>) = f /\ Gif!Shaded(g, <<a, b, x>>) = h
    <3>1. Gif!Last(<<a, x>>) = x /\ Gif!Last(<<a, b, x>>) = x
      BY <1>1, GifSequences
    <3> QED BY <1>4, <3>1 DEF Gif!Shaded
  <2>2. f[1] = [a EXCEPT !.col = x.col] /\ f[2] = x
    BY <1>2
  <2>3. h[1] = [a EXCEPT !.col = x.col] /\ h[2] = [b EXCEPT !.col = x.col] /\ h[3] = x
    BY <1>2
  <2>4. f = [i \in 1..2 |-> f[i]] /\ h = [i \in 1..3 |-> h[i]]
    OBVIOUS
  <2> HIDE DEF f, h
  <2>5. f = <<f[1], f[2]>> /\ h = <<h[1], h[2], h[3]>>
    BY <2>4, TupleIs
  <2> QED BY <1>4, <2>1, <2>2, <2>3, <2>5 DEF Tint
<1> QED BY <1>3, <1>4

(* The primitive a vertex x completes after the vertices w.                  *)
Made(p, w, x) ==
  LET m == Len(w)
  IN  CASE p.type = 0 -> <<x>>
        [] p.type = 1 -> IF m % 2 = 1 THEN <<Tint(p, w[m], x), x>> ELSE <<>>
        [] p.type = 2 -> IF m # 0 THEN <<Tint(p, w[m], x), x>> ELSE <<>>
        [] p.type = 3 -> IF m % 3 = 2 THEN <<Tint(p, w[m - 1], x), Tint(p, w[m], x), x>> ELSE <<>>
        [] p.type = 4 -> IF m > 1 THEN <<Tint(p, w[m - 1], x), Tint(p, w[m], x), x>> ELSE <<>>
        [] p.type = 5 -> IF m > 1 THEN <<Tint(p, w[1], x), Tint(p, w[m], x), x>> ELSE <<>>
        [] p.type = 6 -> IF m % 2 = 1 THEN <<[w[m] EXCEPT !.col = x.col, !.q = x.q], x>> ELSE <<>>
        [] OTHER -> <<>>
MadeOf(p, w, x) == IF Made(p, w, x) = <<>> THEN <<>> ELSE <<[type |-> p.type, vs |-> Made(p, w, x)]>>

LEMMA FormedIs ==
  ASSUME NEW p \in Gif!Prim, NEW w \in Seq(Vertex), NEW x \in Vertex
  PROVE  Gif!Formed(p, Append(w, x)) = MadeOf(p, w, x)
<1>1. PICK u : u = Append(w, x)
  OBVIOUS
<1>2. PICK m \in Nat : m = Len(w)
  OBVIOUS
<1>3. Len(u) = m + 1 /\ u[m + 1] = x /\ \A i \in 1..m : u[i] = w[i] /\ w[i] \in Vertex
  BY <1>1, <1>2
<1> DEFINE vs == Gif!Chosen(p.type, m + 1)
           colour(k) == IF p.smooth /\ p.type # 6 THEN u[vs[k]].col ELSE x.col
           q(k) == IF p.type = 6 THEN x.q ELSE u[vs[k]].q
           ver(k) == [at |-> u[vs[k]].at, col |-> colour(k), q |-> q(k)]
           s == [k \in DOMAIN vs |-> ver(k)]
<1>4. Gif!Formed(p, u) = IF vs = <<>> THEN <<>> ELSE <<[type |-> p.type, vs |-> s]>>
  BY <1>3 DEF Gif!Formed
<1>5. SUFFICES Made(p, w, x) = IF vs = <<>> THEN <<>> ELSE s
  <2>1. vs # <<>> => s # <<>>
    <3> SUFFICES ASSUME vs # <<>>, s = <<>> PROVE FALSE
      OBVIOUS
    <3>1. DOMAIN s = DOMAIN vs /\ DOMAIN s = {}
      OBVIOUS
    <3>2. \/ \E a : vs = <<a>>
          \/ \E a, b : vs = <<a, b>>
          \/ \E a, b, c : vs = <<a, b, c>>
      <4>0. p.type \in 0..7
        BY DEF Gif!Prim
      <4>1. vs \in {<<>>, <<m + 1>>, <<(m + 1) - 1, m + 1>>, <<(m + 1) - 2, (m + 1) - 1, m + 1>>, <<1, (m + 1) - 1, m + 1>>}
        BY <4>0 DEF Gif!Chosen
      <4> HIDE DEF s, vs
      <4> QED BY <4>1, Zenon
    <3>3. 1 \in DOMAIN vs
      <4> HIDE DEF vs
      <4> QED BY <3>2
    <3> QED BY <3>1, <3>3
  <2> HIDE DEF s, vs
  <2> QED BY <1>1, <1>4, <2>1 DEF MadeOf
<1>6. p.type \in 0..7 /\ p.smooth \in BOOLEAN
  BY DEF Gif!Prim
<1>7. \A a \in Vertex : a = [at |-> a.at, col |-> a.col, q |-> a.q]
  BY DEF Vertex
<1>8. \A a \in Vertex : Tint(p, a, x) = [at |-> a.at, col |-> IF p.smooth THEN a.col ELSE x.col, q |-> a.q]
  BY DEF Vertex, Tint
<1>9. \A a \in Vertex : [a EXCEPT !.col = x.col, !.q = x.q] = [at |-> a.at, col |-> x.col, q |-> x.q]
  <2> SUFFICES ASSUME NEW a \in Vertex
               PROVE  [a EXCEPT !.col = x.col, !.q = x.q] = [at |-> a.at, col |-> x.col, q |-> x.q]
    OBVIOUS
  <2>1. PICK b : b = [a EXCEPT !.col = x.col]
    OBVIOUS
  <2>2. b = [at |-> a.at, col |-> x.col, q |-> a.q]
    BY <2>1 DEF Vertex
  <2>3. [b EXCEPT !.q = x.q] = [at |-> a.at, col |-> x.col, q |-> x.q]
    BY <2>2
  <2> QED BY <2>1, <2>3
<1>10. ASSUME NEW a, vs = <<a>> PROVE s = <<ver(1)>>
  <2>1. s = [k \in 1..1 |-> s[k]] /\ s[1] = ver(1)
    BY <1>10
  <2> HIDE DEF s, ver, vs
  <2> QED BY <2>1, TupleIs
<1>11. ASSUME NEW a, NEW b, vs = <<a, b>> PROVE s = <<ver(1), ver(2)>>
  <2>1. s = [k \in 1..2 |-> s[k]] /\ s[1] = ver(1) /\ s[2] = ver(2)
    BY <1>11
  <2> HIDE DEF s, ver, vs
  <2> QED BY <2>1, TupleIs
<1>12. ASSUME NEW a, NEW b, NEW c, vs = <<a, b, c>> PROVE s = <<ver(1), ver(2), ver(3)>>
  <2>1. s = [k \in 1..3 |-> s[k]] /\ s[1] = ver(1) /\ s[2] = ver(2) /\ s[3] = ver(3)
    BY <1>12
  <2> HIDE DEF s, ver, vs
  <2> QED BY <2>1, TupleIs
<1>13. ASSUME NEW k, vs[k] = m + 1 PROVE ver(k) = x
  BY <1>3, <1>7, <1>13
<1>14. ASSUME NEW k, NEW i \in 1..m, vs[k] = i, p.type # 6 PROVE ver(k) = Tint(p, w[i], x)
  BY <1>3, <1>8, <1>14
<1>15. ASSUME NEW k, NEW i \in 1..m, vs[k] = i, p.type = 6
       PROVE  ver(k) = [w[i] EXCEPT !.col = x.col, !.q = x.q]
  <2>1. ver(k) = [at |-> w[i].at, col |-> x.col, q |-> x.q]
    BY <1>3, <1>15
  <2> QED BY <1>3, <1>9, <2>1
<1> HIDE DEF s, ver
<1>16. CASE p.type = 0
  <2>1. vs = <<m + 1>> /\ vs[1] = m + 1 /\ vs # <<>>
    BY <1>16 DEF Gif!Chosen
  <2> QED BY <1>2, <1>10, <1>13, <1>16, <2>1 DEF Made
<1>17. CASE p.type \in {1, 6}
  <2>1. CASE m % 2 = 1
    <3>1. (m + 1) % 2 = 0 /\ m \in 1..m /\ (m + 1) - 1 = m
      BY <2>1
    <3>2. vs = <<m, m + 1>> /\ vs[1] = m /\ vs[2] = m + 1 /\ vs # <<>>
      BY <1>17, <3>1 DEF Gif!Chosen
    <3> HIDE DEF vs
    <3>3. s = <<ver(1), ver(2)>> /\ ver(2) = x
      BY <1>11, <1>13, <3>2
    <3>4. ver(1) = IF p.type = 6 THEN [w[m] EXCEPT !.col = x.col, !.q = x.q] ELSE Tint(p, w[m], x)
      BY <1>14, <1>15, <3>1, <3>2
    <3>5. CASE p.type = 1
      BY <1>2, <2>1, <3>2, <3>3, <3>4, <3>5 DEF Made
    <3>6. CASE p.type = 6
      BY <1>2, <2>1, <3>2, <3>3, <3>4, <3>6 DEF Made
    <3> QED BY <1>17, <3>5, <3>6
  <2>2. CASE m % 2 # 1
    <3>1. (m + 1) % 2 # 0
      BY <2>2
    <3> QED BY <1>2, <1>17, <2>2, <3>1 DEF Made, Gif!Chosen
  <2> QED BY <2>1, <2>2
<1>18. CASE p.type = 2
  <2>1. CASE m # 0
    <3>1. m + 1 >= 2 /\ m \in 1..m /\ (m + 1) - 1 = m
      BY <2>1
    <3>2. vs = <<m, m + 1>> /\ vs[1] = m /\ vs[2] = m + 1 /\ vs # <<>>
      BY <1>18, <3>1 DEF Gif!Chosen
    <3> HIDE DEF vs
    <3>3. s = <<ver(1), ver(2)>> /\ ver(2) = x
      BY <1>11, <1>13, <3>2
    <3> QED BY <1>2, <1>14, <1>18, <2>1, <3>1, <3>2, <3>3 DEF Made
  <2>2. CASE m = 0
    BY <1>2, <1>18, <2>2 DEF Made, Gif!Chosen
  <2> QED BY <2>1, <2>2
<1>19. CASE p.type \in {3, 4}
  <2>1. CASE IF p.type = 3 THEN m % 3 = 2 ELSE m > 1
    <3>1. (p.type = 3 => (m + 1) % 3 = 0) /\ m + 1 >= 3 /\ m \in 1..m /\ m - 1 \in 1..m /\ (m + 1) - 1 = m
          /\ (m + 1) - 2 = m - 1
      BY <1>19, <2>1
    <3>2. vs = <<m - 1, m, m + 1>> /\ vs[1] = m - 1 /\ vs[2] = m /\ vs[3] = m + 1 /\ vs # <<>>
      BY <1>19, <3>1 DEF Gif!Chosen
    <3> HIDE DEF vs
    <3>3. s = <<ver(1), ver(2), ver(3)>> /\ ver(3) = x
      BY <1>12, <1>13, <3>2
    <3>4. p.type # 6
      BY <1>19
    <3>5. ver(1) = Tint(p, w[m - 1], x) /\ ver(2) = Tint(p, w[m], x)
      BY <1>14, <3>1, <3>2, <3>4
    <3> QED BY <1>2, <1>19, <2>1, <3>2, <3>3, <3>5 DEF Made
  <2>2. CASE ~(IF p.type = 3 THEN m % 3 = 2 ELSE m > 1)
    <3>1. (p.type = 3 => (m + 1) % 3 # 0) /\ (p.type = 4 => ~(m + 1 >= 3))
      BY <1>19, <2>2
    <3> QED BY <1>2, <1>19, <2>2, <3>1 DEF Made, Gif!Chosen
  <2> QED BY <2>1, <2>2
<1>20. CASE p.type = 5
  <2>1. CASE m > 1
    <3>1. m + 1 >= 3 /\ m \in 1..m /\ 1 \in 1..m /\ (m + 1) - 1 = m
      BY <2>1
    <3>2. vs = <<1, m, m + 1>> /\ vs[1] = 1 /\ vs[2] = m /\ vs[3] = m + 1 /\ vs # <<>>
      BY <1>20, <3>1 DEF Gif!Chosen
    <3> HIDE DEF vs
    <3>3. s = <<ver(1), ver(2), ver(3)>> /\ ver(3) = x
      BY <1>12, <1>13, <3>2
    <3>5. ver(1) = Tint(p, w[1], x) /\ ver(2) = Tint(p, w[m], x)
      BY <1>14, <1>20, <3>1, <3>2
    <3> QED BY <1>2, <1>20, <2>1, <3>2, <3>3, <3>5 DEF Made
  <2>2. CASE ~(m > 1)
    <3>1. ~(m + 1 >= 3)
      BY <2>2
    <3> QED BY <1>2, <1>20, <2>2, <3>1 DEF Made, Gif!Chosen
  <2> QED BY <2>1, <2>2
<1>21. CASE p.type = 7
  BY <1>21 DEF Made, Gif!Chosen
<1> QED BY <1>6, <1>16, <1>17, <1>18, <1>19, <1>20, <1>21
(* The fields that assembly leaves alone.                                    *)
Unmoved(h, g) ==
  /\ h.pending = g.pending /\ h.prim = g.prim /\ h.col = g.col /\ h.q = g.q /\ h.packedQ = g.packedQ
  /\ h.trx = g.trx /\ h.dir = g.dir /\ h.moved = g.moved /\ h.image = g.image
Now(h, g, drawn, v, first) ==
  /\ h \in GifState /\ Unmoved(h, g) /\ h.drawn = drawn /\ h.v = v /\ h.count = Len(v) /\ h.first = first

LEMMA TintType ==
  ASSUME NEW p \in Gif!Prim, NEW a \in Vertex, NEW x \in Vertex
  PROVE  Tint(p, a, x) \in Vertex /\ [a EXCEPT !.col = x.col, !.q = x.q] \in Vertex
<1>1. PICK b : b = [a EXCEPT !.col = x.col]
  OBVIOUS
<1>2. b \in Vertex
  BY <1>1 DEF Vertex
<1>3. [b EXCEPT !.q = x.q] \in Vertex
  BY <1>2 DEF Vertex
<1> QED BY <1>1, <1>2, <1>3 DEF Tint

LEMMA DrawIs ==
  ASSUME NEW g \in GifState, g.count = Len(g.v), NEW vs \in Seq(Vertex), NEW draw \in BOOLEAN,
         NEW d, d = IF draw THEN Gif!Draw(g, vs) ELSE g
  PROVE  Now(d, g, g.drawn \o (IF draw THEN <<[type |-> g.prim.type, vs |-> vs]>> ELSE <<>>), g.v, g.first)
<1>1. PICK r : r = [type |-> g.prim.type, vs |-> vs]
  OBVIOUS
<1>2. r \in Drawing
  BY <1>1 DEF Drawing, GifState, Gif!Prim
<1>3. g.drawn \in Seq(Drawing)
  BY DEF GifState
<1>4. CASE draw
  <2>1. PICK s : s = Append(g.drawn, r)
    OBVIOUS
  <2>2. s \in Seq(Drawing) /\ s = g.drawn \o <<r>>
    BY <1>2, <1>3, <2>1
  <2>3. d = [g EXCEPT !.drawn = s]
    BY <1>1, <1>4, <2>1 DEF Gif!Draw
  <2>4. d \in GifState /\ d.drawn = s /\ d.v = g.v /\ d.count = g.count /\ d.first = g.first /\ Unmoved(d, g)
    BY <2>2, <2>3 DEF GifState, Unmoved
  <2> QED BY <1>1, <1>4, <2>2, <2>4 DEF Now
<1>5. CASE ~draw
  <2>1. d = g /\ g.drawn \o <<>> = g.drawn
    BY <1>3, <1>5
  <2> QED BY <1>5, <2>1 DEF Now, Unmoved
<1> QED BY <1>4, <1>5

LEMMA KeepIs ==
  ASSUME NEW g, NEW d, NEW drawn, NEW v, NEW first, Now(d, g, drawn, v, first), NEW u \in Seq(Vertex)
  PROVE  /\ Now([d EXCEPT !.count = Len(u), !.v = u], g, drawn, u, first)
         /\ Now([d EXCEPT !.v = u, !.count = Len(u)], g, drawn, u, first)
         /\ Len(u) = Len(v) => Now([d EXCEPT !.v = u], g, drawn, u, first)
         /\ Now([d EXCEPT !.first = u], g, drawn, v, u)
<1>1. PICK c \in Nat : c = Len(u)
  OBVIOUS
<1>2. d \in GifState
  BY DEF Now
<1>3. /\ [d EXCEPT !.count = c, !.v = u] \in GifState /\ [d EXCEPT !.v = u, !.count = c] \in GifState
      /\ [d EXCEPT !.v = u] \in GifState /\ [d EXCEPT !.first = u] \in GifState
  BY <1>2 DEF GifState
<1>4. Now([d EXCEPT !.count = c, !.v = u], g, drawn, u, first)
  BY <1>1, <1>2, <1>3 DEF Now, Unmoved, GifState
<1>5. Now([d EXCEPT !.v = u, !.count = c], g, drawn, u, first)
  BY <1>1, <1>2, <1>3 DEF Now, Unmoved, GifState
<1>6. Len(u) = Len(v) => Now([d EXCEPT !.v = u], g, drawn, u, first)
  BY <1>1, <1>2, <1>3 DEF Now, Unmoved, GifState
<1>7. Now([d EXCEPT !.first = u], g, drawn, v, u)
  BY <1>1, <1>2, <1>3 DEF Now, Unmoved, GifState
<1> QED BY <1>1, <1>4, <1>5, <1>6, <1>7

(* What is drawn, if anything.                                               *)
With(g, w, x, draw) == g.drawn \o (IF draw THEN MadeOf(g.prim, w, x) ELSE <<>>)
Emits(g, w, x, draw, h) ==
  \E first, v : Now(h, g, With(g, w, x, draw), v, first)
                /\ v = Kept(g.prim.type, Append(w, x))
                /\ first = IF g.prim.type = 6 /\ Len(Append(w, x)) % 2 = 1 THEN <<x>> ELSE <<>>

LEMMA LineIs ==
  ASSUME NEW g \in GifState, NEW w \in Seq(Vertex), Assembled(g, w), NEW x \in Vertex, NEW draw \in BOOLEAN,
         g.prim.type \in {1, 2}
  PROVE  Emits(g, w, x, draw, Gif!Line(g, x, draw))
<1>1. PICK m \in Nat : m = Len(w)
  OBVIOUS
<1>2. PICK u : u = Append(w, x)
  OBVIOUS
<1>3. Len(u) = m + 1 /\ u[m + 1] = x /\ g.drawn \in Seq(Drawing) /\ g.drawn \o <<>> = g.drawn
  BY <1>1, <1>2 DEF GifState
<1>4. g.first = <<>> /\ g.count = Len(g.v) /\ g.prim \in Gif!Prim
  BY DEF Assembled, GifState
<1>5. Now(g, g, g.drawn, g.v, g.first)
  BY <1>4 DEF Now, Unmoved
<1>6. <<x>> \in Seq(Vertex) /\ Len(<<x>>) = 1 /\ <<>> \in Seq(Vertex) /\ Len(<<>>) = 0
  OBVIOUS
<1>7. SUFFICES Now(Gif!Line(g, x, draw), g, With(g, w, x, draw), Kept(g.prim.type, u), <<>>)
  <2>1. <<>> = IF g.prim.type = 6 /\ Len(u) % 2 = 1 THEN <<x>> ELSE <<>>
    OBVIOUS
  <2> QED BY <1>2, <2>1 DEF Emits
<1>8. CASE IF g.prim.type = 1 THEN m % 2 = 0 ELSE m = 0
  <2>1. g.v = <<>> /\ g.count = 0
    BY <1>1, <1>8 DEF Assembled, Kept
  <2>2. Made(g.prim, w, x) = <<>>
    BY <1>1, <1>8 DEF Made
  <2>3. With(g, w, x, draw) = g.drawn
    BY <1>3, <2>2 DEF With, MadeOf
  <2>4. Kept(g.prim.type, u) = <<x>>
    <3>1. (m % 2 = 0 => (m + 1) % 2 # 0) /\ m + 1 # 0
      OBVIOUS
    <3> QED BY <1>3, <1>8, <3>1 DEF Kept
  <2>5. Gif!Line(g, x, draw) = [g EXCEPT !.v = <<x>>, !.count = 1]
    BY <2>1 DEF Gif!Line
  <2>6. Now([g EXCEPT !.v = <<x>>, !.count = Len(<<x>>)], g, g.drawn, <<x>>, g.first)
    BY <1>5, <1>6, KeepIs, Zenon
  <2> QED BY <1>4, <1>6, <2>3, <2>4, <2>5, <2>6
<1>9. CASE ~(IF g.prim.type = 1 THEN m % 2 = 0 ELSE m = 0)
  <2>1. m # 0 /\ m \in 1..Len(w) /\ (g.prim.type = 1 => m % 2 = 1 /\ (m + 1) % 2 = 0) /\ m + 1 # 0
    BY <1>1, <1>9
  <2>2. g.v = <<w[m]>> /\ g.count = 1 /\ w[m] \in Vertex
    BY <1>1, <1>9, <2>1 DEF Assembled, Kept
  <2>3. PICK t : t = <<Tint(g.prim, w[m], x), x>>
    OBVIOUS
  <2>4. t \in Seq(Vertex) /\ t # <<>> /\ Gif!Shaded(g, <<g.v[1], x>>) = t
    <3>1. Tint(g.prim, w[m], x) \in Vertex
      BY <1>4, <2>2, TintType
    <3>2. t \in Seq(Vertex) /\ t # <<>>
      BY <2>3, <3>1
    <3>3. g.v[1] = w[m]
      BY <2>2
    <3>4. Gif!Shaded(g, <<w[m], x>>) = t
      BY <2>2, <2>3, ShadedIs
    <3> QED BY <3>2, <3>3, <3>4
  <2>5. Made(g.prim, w, x) = t
    BY <1>1, <1>9, <2>1, <2>3 DEF Made
  <2>6. With(g, w, x, draw) = g.drawn \o (IF draw THEN <<[type |-> g.prim.type, vs |-> t]>> ELSE <<>>)
    BY <2>4, <2>5 DEF With, MadeOf
  <2>7. PICK d : d = IF draw THEN Gif!Draw(g, t) ELSE g
    OBVIOUS
  <2>8. Now(d, g, With(g, w, x, draw), g.v, g.first)
    BY <1>4, <2>4, <2>6, <2>7, DrawIs
  <2>9. Gif!Line(g, x, draw) = IF g.prim.type = 1 THEN [d EXCEPT !.count = 0, !.v = <<>>]
                               ELSE [d EXCEPT !.v = <<x>>]
    <3>1. g.count # 0
      BY <2>2
    <3>2. d = IF draw THEN Gif!Draw(g, Gif!Shaded(g, <<g.v[1], x>>)) ELSE g
      BY <2>4, <2>7
    <3> QED BY <3>1, <3>2 DEF Gif!Line
  <2>10. Kept(g.prim.type, u) = IF g.prim.type = 1 THEN <<>> ELSE <<x>>
    <3>1. CASE g.prim.type = 1
      BY <1>3, <2>1, <3>1 DEF Kept
    <3>2. CASE g.prim.type = 2
      BY <1>3, <2>1, <3>2 DEF Kept
    <3> QED BY <3>1, <3>2
  <2>11. CASE g.prim.type = 1
    <3>1. Now([d EXCEPT !.count = Len(<<>>), !.v = <<>>], g, With(g, w, x, draw), <<>>, g.first)
      BY <1>6, <2>8, KeepIs, Zenon
    <3> QED BY <1>4, <1>6, <2>9, <2>10, <2>11, <3>1
  <2>12. CASE g.prim.type = 2
    <3>1. Len(<<x>>) = Len(g.v)
      BY <1>6, <2>2
    <3>2. Now([d EXCEPT !.v = <<x>>], g, With(g, w, x, draw), <<x>>, g.first)
      BY <1>6, <2>8, <3>1, KeepIs, Zenon
    <3> QED BY <1>4, <2>9, <2>10, <2>12, <3>2
  <2> QED BY <2>11, <2>12
<1> QED BY <1>8, <1>9
LEMMA TriangleIs ==
  ASSUME NEW g \in GifState, NEW w \in Seq(Vertex), Assembled(g, w), NEW x \in Vertex, NEW draw \in BOOLEAN,
         g.prim.type \in {3, 4, 5}
  PROVE  Emits(g, w, x, draw, Gif!Triangle(g, x, draw))
<1>1. PICK m \in Nat : m = Len(w)
  OBVIOUS
<1>2. PICK u : u = Append(w, x)
  OBVIOUS
<1>3. /\ Len(u) = m + 1 /\ u[m + 1] = x /\ g.drawn \in Seq(Drawing) /\ g.drawn \o <<>> = g.drawn
      /\ \A i \in 1..m : u[i] = w[i] /\ w[i] \in Vertex
  BY <1>1, <1>2 DEF GifState
<1>4. g.first = <<>> /\ g.count = Len(g.v) /\ g.prim \in Gif!Prim /\ g.v \in Seq(Vertex)
  BY DEF Assembled, GifState
<1>5. Now(g, g, g.drawn, g.v, g.first)
  BY <1>4 DEF Now, Unmoved
<1>6. <<x>> \in Seq(Vertex) /\ Len(<<x>>) = 1 /\ <<>> \in Seq(Vertex) /\ Len(<<>>) = 0
  OBVIOUS
<1>7. SUFFICES Now(Gif!Triangle(g, x, draw), g, With(g, w, x, draw), Kept(g.prim.type, u), <<>>)
  <2>1. <<>> = IF g.prim.type = 6 /\ Len(u) % 2 = 1 THEN <<x>> ELSE <<>>
    OBVIOUS
  <2> QED BY <1>2, <2>1 DEF Emits
<1>8. CASE IF g.prim.type = 3 THEN m % 3 # 2 ELSE m < 2
  <2>1. Made(g.prim, w, x) = <<>>
    BY <1>1, <1>8 DEF Made
  <2>2. With(g, w, x, draw) = g.drawn
    BY <1>3, <2>1 DEF With, MadeOf
  <2>3. Kept(g.prim.type, u) = Append(g.v, x) /\ Len(g.v) < 2
    <3>1. CASE g.prim.type = 3
      <4>1. CASE m % 3 = 0
        <5>1. (m + 1) % 3 = 1
          BY <4>1
        <5>2. g.v = <<>>
          BY <1>1, <3>1, <4>1 DEF Assembled, Kept
        <5>3. Kept(g.prim.type, u) = <<x>>
          BY <1>3, <3>1, <5>1 DEF Kept
        <5> QED BY <5>2, <5>3
      <4>2. CASE m % 3 = 1
        <5>1. (m + 1) % 3 = 2 /\ m \in 1..m /\ (m + 1) - 1 = m
          BY <4>2
        <5>2. g.v = <<w[m]>>
          BY <1>1, <3>1, <4>2 DEF Assembled, Kept
        <5>3. Kept(g.prim.type, u) = <<w[m], x>>
          BY <1>3, <3>1, <5>1 DEF Kept
        <5> QED BY <5>2, <5>3
      <4> QED BY <1>8, <3>1, <4>1, <4>2
    <3>2. CASE g.prim.type # 3
      <4>1. CASE m = 0
        <5>2. g.v = <<>>
          BY <1>1, <3>2, <4>1 DEF Assembled, Kept
        <5>3. Kept(g.prim.type, u) = <<x>>
          BY <1>3, <3>2, <4>1 DEF Kept
        <5> QED BY <5>2, <5>3
      <4>2. CASE m = 1
        <5>2. g.v = <<w[1]>>
          BY <1>1, <3>2, <4>2 DEF Assembled, Kept
        <5>3. Kept(g.prim.type, u) = <<w[1], x>>
          BY <1>3, <3>2, <4>2 DEF Kept
        <5> QED BY <5>2, <5>3
      <4> QED BY <1>8, <3>2, <4>1, <4>2
    <3> QED BY <3>1, <3>2
  <2>4. PICK s : s = Append(g.v, x)
    OBVIOUS
  <2>5. s \in Seq(Vertex) /\ Len(s) = g.count + 1
    BY <1>4, <2>4
  <2>6. Gif!Triangle(g, x, draw) = [g EXCEPT !.v = s, !.count = Len(s)]
    BY <1>4, <2>3, <2>4, <2>5 DEF Gif!Triangle
  <2>7. Now([g EXCEPT !.v = s, !.count = Len(s)], g, g.drawn, s, g.first)
    BY <1>5, <2>5, KeepIs, Zenon
  <2> QED BY <1>4, <2>2, <2>3, <2>4, <2>6, <2>7
<1>9. CASE ~(IF g.prim.type = 3 THEN m % 3 # 2 ELSE m < 2)
  <2>1. m - 1 \in 1..m /\ m \in 1..m /\ 1 \in 1..m /\ (g.prim.type = 3 => (m + 1) % 3 = 0)
    BY <1>9
  <2>2. PICK a : a = IF g.prim.type = 5 THEN w[1] ELSE w[m - 1]
    OBVIOUS
  <2>3. PICK b : b = w[m]
    OBVIOUS
  <2>4. g.v = <<a, b>>
    <3>1. CASE g.prim.type = 3
      BY <1>1, <1>9, <2>2, <2>3, <3>1 DEF Assembled, Kept
    <3>2. CASE g.prim.type = 4
      BY <1>1, <1>9, <2>2, <2>3, <3>2 DEF Assembled, Kept
    <3>3. CASE g.prim.type = 5
      BY <1>1, <1>9, <2>2, <2>3, <3>3 DEF Assembled, Kept
    <3> QED BY <3>1, <3>2, <3>3
  <2>5. a \in Vertex /\ b \in Vertex /\ g.count = 2 /\ g.v[1] = a /\ g.v[2] = b
    BY <1>3, <1>4, <2>1, <2>2, <2>3, <2>4
  <2>6. PICK t : t = <<Tint(g.prim, a, x), Tint(g.prim, b, x), x>>
    OBVIOUS
  <2>7. t \in Seq(Vertex) /\ t # <<>> /\ Gif!Shaded(g, <<a, b, x>>) = t
    <3>1. Tint(g.prim, a, x) \in Vertex /\ Tint(g.prim, b, x) \in Vertex
      BY <1>4, <2>5, TintType
    <3>2. t \in Seq(Vertex) /\ t # <<>>
      BY <2>6, <3>1
    <3>3. Gif!Shaded(g, <<a, b, x>>) = t
      BY <2>5, <2>6, ShadedIs
    <3> QED BY <3>2, <3>3
  <2>8. Made(g.prim, w, x) = t
    <3>1. CASE g.prim.type = 3
      <4>1. m % 3 = 2
        BY <1>9, <3>1
      <4> QED BY <1>1, <2>2, <2>3, <2>6, <3>1, <4>1 DEF Made
    <3>2. CASE g.prim.type # 3
      <4>1. m > 1
        BY <1>9, <3>2
      <4>2. CASE g.prim.type = 4
        BY <1>1, <2>2, <2>3, <2>6, <4>1, <4>2 DEF Made
      <4>3. CASE g.prim.type = 5
        BY <1>1, <2>2, <2>3, <2>6, <4>1, <4>3 DEF Made
      <4> QED BY <3>2, <4>2, <4>3
    <3> QED BY <3>1, <3>2
  <2>9. With(g, w, x, draw) = g.drawn \o (IF draw THEN <<[type |-> g.prim.type, vs |-> t]>> ELSE <<>>)
    BY <2>7, <2>8 DEF With, MadeOf
  <2>10. PICK d : d = IF draw THEN Gif!Draw(g, t) ELSE g
    OBVIOUS
  <2>11. Now(d, g, With(g, w, x, draw), g.v, g.first)
    BY <1>4, <2>7, <2>9, <2>10, DrawIs
  <2>12. Gif!Triangle(g, x, draw) = CASE g.prim.type = 3 -> [d EXCEPT !.count = 0, !.v = <<>>]
                                  [] g.prim.type = 4 -> [d EXCEPT !.v = <<b, x>>]
                                  [] g.prim.type = 5 -> [d EXCEPT !.v = <<a, x>>]
    <3>1. ~(g.count < 2)
      BY <2>5
    <3>2. d = IF draw THEN Gif!Draw(g, Gif!Shaded(g, <<g.v[1], g.v[2], x>>)) ELSE g
      BY <2>5, <2>7, <2>10
    <3> QED BY <2>5, <3>1, <3>2 DEF Gif!Triangle
  <2>13. CASE g.prim.type = 3
    <3>1. Now([d EXCEPT !.count = Len(<<>>), !.v = <<>>], g, With(g, w, x, draw), <<>>, g.first)
      BY <1>6, <2>11, KeepIs, Zenon
    <3>2. Kept(g.prim.type, u) = <<>>
      BY <1>3, <2>1, <2>13 DEF Kept
    <3>3. Gif!Triangle(g, x, draw) = [d EXCEPT !.count = 0, !.v = <<>>]
      BY <2>12, <2>13
    <3> QED BY <1>4, <1>6, <3>1, <3>2, <3>3
  <2>14. CASE g.prim.type \in {4, 5}
    <3>1. PICK s : s = IF g.prim.type = 4 THEN <<b, x>> ELSE <<a, x>>
      OBVIOUS
    <3>2. s \in Seq(Vertex) /\ Len(s) = Len(g.v)
      BY <2>4, <2>5, <3>1
    <3>3. Now([d EXCEPT !.v = s], g, With(g, w, x, draw), s, g.first)
      BY <2>11, <3>2, KeepIs, Zenon
    <3>4. Kept(g.prim.type, u) = s
      <4>1. m + 1 # 0 /\ m + 1 # 1 /\ (m + 1) - 1 = m
        BY <2>1
      <4>2. CASE g.prim.type = 4
        BY <1>3, <2>1, <2>3, <3>1, <4>1, <4>2 DEF Kept
      <4>3. CASE g.prim.type = 5
        BY <1>3, <2>1, <2>2, <3>1, <4>1, <4>3 DEF Kept
      <4> QED BY <2>14, <4>2, <4>3
    <3>5. Gif!Triangle(g, x, draw) = [d EXCEPT !.v = s]
      <4>1. CASE g.prim.type = 4
        BY <2>12, <3>1, <4>1
      <4>2. CASE g.prim.type = 5
        BY <2>12, <3>1, <4>2
      <4> QED BY <2>14, <4>1, <4>2
    <3> QED BY <1>4, <3>3, <3>4, <3>5
  <2> QED BY <2>13, <2>14
<1> QED BY <1>8, <1>9

LEMMA SpriteIs ==
  ASSUME NEW g \in GifState, NEW w \in Seq(Vertex), Assembled(g, w), NEW x \in Vertex, NEW draw \in BOOLEAN,
         g.prim.type = 6
  PROVE  Emits(g, w, x, draw, Gif!Sprite(g, x, draw))
<1>1. PICK m \in Nat : m = Len(w)
  OBVIOUS
<1>2. PICK u : u = Append(w, x)
  OBVIOUS
<1>3. /\ Len(u) = m + 1 /\ u[m + 1] = x /\ g.drawn \in Seq(Drawing) /\ g.drawn \o <<>> = g.drawn
      /\ \A i \in 1..m : u[i] = w[i] /\ w[i] \in Vertex
  BY <1>1, <1>2 DEF GifState
<1>4. g.v = <<>> /\ g.count = Len(g.v) /\ g.prim \in Gif!Prim /\ \A s : Kept(g.prim.type, s) = <<>>
  BY DEF Assembled, GifState, Kept
<1>5. Now(g, g, g.drawn, g.v, g.first)
  BY <1>4 DEF Now, Unmoved
<1>6. <<x>> \in Seq(Vertex) /\ <<>> \in Seq(Vertex)
  OBVIOUS
<1>7. SUFFICES Now(Gif!Sprite(g, x, draw), g, With(g, w, x, draw), g.v, IF (m + 1) % 2 = 1 THEN <<x>> ELSE <<>>)
  <2>1. PICK f : f = IF (m + 1) % 2 = 1 THEN <<x>> ELSE <<>>
    OBVIOUS
  <2>2. f = IF g.prim.type = 6 /\ Len(u) % 2 = 1 THEN <<x>> ELSE <<>>
    BY <1>3, <2>1
  <2>3. g.v = Kept(g.prim.type, u)
    BY <1>4
  <2>4. Now(Gif!Sprite(g, x, draw), g, With(g, w, x, draw), g.v, f)
    BY <1>7, <2>1
  <2> QED BY <1>2, <2>2, <2>3, <2>4 DEF Emits
<1>8. CASE m % 2 = 0
  <2>1. g.first = <<>> /\ (m + 1) % 2 = 1
    BY <1>1, <1>8 DEF Assembled
  <2>2. Made(g.prim, w, x) = <<>>
    BY <1>1, <1>8 DEF Made
  <2>3. With(g, w, x, draw) = g.drawn
    BY <1>3, <2>2 DEF With, MadeOf
  <2>4. Now([g EXCEPT !.first = <<x>>], g, g.drawn, g.v, <<x>>)
    BY <1>5, <1>6, KeepIs, Zenon
  <2> QED BY <2>1, <2>3, <2>4 DEF Gif!Sprite
<1>9. CASE m % 2 # 0
  <2>1. m % 2 = 1 /\ (m + 1) % 2 = 0 /\ m \in 1..m
    BY <1>9
  <2>2. g.first = <<w[m]>> /\ g.first # <<>> /\ g.first[1] = w[m] /\ w[m] \in Vertex
    <3>1. g.first = <<w[m]>>
      BY <1>1, <2>1 DEF Assembled
    <3> QED BY <1>3, <2>1, <3>1
  <2>3. PICK t : t = <<[w[m] EXCEPT !.col = x.col, !.q = x.q], x>>
    OBVIOUS
  <2>4. t \in Seq(Vertex) /\ t # <<>>
    <3>1. [w[m] EXCEPT !.col = x.col, !.q = x.q] \in Vertex
      BY <1>4, <2>2, TintType
    <3> QED BY <2>3, <3>1
  <2>5. Made(g.prim, w, x) = t
    BY <1>1, <2>1, <2>3 DEF Made
  <2>6. With(g, w, x, draw) = g.drawn \o (IF draw THEN <<[type |-> g.prim.type, vs |-> t]>> ELSE <<>>)
    BY <2>4, <2>5 DEF With, MadeOf
  <2>7. PICK d : d = IF draw THEN Gif!Draw(g, t) ELSE g
    OBVIOUS
  <2>8. Now(d, g, With(g, w, x, draw), g.v, g.first)
    BY <1>4, <2>4, <2>6, <2>7, DrawIs
  <2>9. Gif!Sprite(g, x, draw) = [d EXCEPT !.first = <<>>]
    BY <2>2, <2>3, <2>7 DEF Gif!Sprite
  <2>10. Now([d EXCEPT !.first = <<>>], g, With(g, w, x, draw), g.v, <<>>)
    BY <1>6, <2>8, KeepIs, Zenon
  <2> QED BY <2>1, <2>9, <2>10
<1> QED BY <1>8, <1>9

LEMMA EmitIs ==
  ASSUME NEW g \in GifState, NEW w \in Seq(Vertex), Assembled(g, w), NEW at \in Nat, NEW draw \in BOOLEAN,
         NEW x, x = [at |-> at, col |-> g.col, q |-> g.q], NEW h, h = Gif!Emit(g, at, draw)
  PROVE  /\ x \in Vertex /\ h \in GifState /\ Unmoved(h, g) /\ Assembled(h, Append(w, x))
         /\ h.drawn = With(g, w, x, draw)
<1>1. x \in Vertex
  BY DEF Vertex, GifState
<1>2. g.prim \in Gif!Prim /\ g.prim.type \in 0..7 /\ g.drawn \in Seq(Drawing) /\ g.drawn \o <<>> = g.drawn
      /\ g.count = Len(g.v)
  BY DEF GifState, Gif!Prim, Assembled
<1>3. SUFFICES Emits(g, w, x, draw, h)
  <2>1. PICK first, v : /\ Now(h, g, With(g, w, x, draw), v, first)
                        /\ v = Kept(g.prim.type, Append(w, x))
                        /\ first = IF g.prim.type = 6 /\ Len(Append(w, x)) % 2 = 1 THEN <<x>> ELSE <<>>
    BY <1>3 DEF Emits
  <2>2. h.prim = g.prim /\ h \in GifState /\ Unmoved(h, g) /\ h.drawn = With(g, w, x, draw)
        /\ h.v = v /\ h.count = Len(v) /\ h.first = first
    BY <2>1 DEF Now, Unmoved
  <2>3. Append(w, x)[Len(Append(w, x))] = x
    BY <1>1
  <2> QED BY <1>1, <2>1, <2>2, <2>3 DEF Assembled
<1>4. CASE g.prim.type = 0
  <2>1. PICK t : t = <<x>>
    OBVIOUS
  <2>2. t \in Seq(Vertex) /\ t # <<>> /\ Made(g.prim, w, x) = t
    BY <1>1, <1>4, <2>1 DEF Made
  <2>3. With(g, w, x, draw) = g.drawn \o (IF draw THEN <<[type |-> g.prim.type, vs |-> t]>> ELSE <<>>)
    BY <2>2 DEF With, MadeOf
  <2>4. h = IF draw THEN Gif!Draw(g, t) ELSE g
    BY <1>4, <2>1 DEF Gif!Emit
  <2>5. Now(h, g, With(g, w, x, draw), g.v, g.first)
    BY <1>2, <2>2, <2>3, <2>4, DrawIs
  <2>6. g.v = Kept(g.prim.type, Append(w, x)) /\ g.first = <<>>
    BY <1>4 DEF Assembled, Kept
  <2> QED BY <1>4, <2>5, <2>6 DEF Emits
<1>5. CASE g.prim.type = 7
  <2>1. h = g
    BY <1>5 DEF Gif!Emit
  <2>2. Made(g.prim, w, x) = <<>>
    BY <1>5 DEF Made
  <2>3. With(g, w, x, draw) = g.drawn
    BY <1>2, <2>2 DEF With, MadeOf
  <2>4. Now(h, g, With(g, w, x, draw), g.v, g.first)
    BY <1>2, <2>1, <2>3 DEF Now, Unmoved
  <2>5. g.v = Kept(g.prim.type, Append(w, x)) /\ g.first = <<>>
    BY <1>5 DEF Assembled, Kept
  <2> QED BY <1>5, <2>4, <2>5 DEF Emits
<1>6. CASE g.prim.type \in {1, 2}
  <2>1. h = Gif!Line(g, x, draw)
    BY <1>6 DEF Gif!Emit
  <2> QED BY <1>1, <1>6, <2>1, LineIs
<1>7. CASE g.prim.type \in {3, 4, 5}
  <2>1. h = Gif!Triangle(g, x, draw)
    BY <1>7 DEF Gif!Emit
  <2> QED BY <1>1, <1>7, <2>1, TriangleIs
<1>8. CASE g.prim.type = 6
  <2>1. h = Gif!Sprite(g, x, draw)
    BY <1>8 DEF Gif!Emit
  <2> QED BY <1>1, <1>8, <2>1, SpriteIs
<1> QED BY <1>2, <1>4, <1>5, <1>6, <1>7, <1>8
-----------------------------------------------------------------------------
(* The GIF: transfers                                                        *)

Dot == Nat \X Nat

LEMMA MinOf ==
  ASSUME NEW a \in Nat, NEW b \in Nat
  PROVE  Min({a, b}) = IF a <= b THEN a ELSE b
<1>1. {a, b} \in SUBSET Int /\ a \in {a, b} /\ b \in {a, b}
  OBVIOUS
<1>2. CASE a <= b
  <2>1. \A y \in {a, b} : a <= y
    BY <1>2
  <2> QED BY <1>1, <1>2, <2>1, MinIs
<1>3. CASE ~(a <= b)
  <2>1. \A y \in {a, b} : b <= y
    BY <1>3
  <2> QED BY <1>1, <1>3, <2>1, MinIs
<1> QED BY <1>2, <1>3

LEMMA MaxOf ==
  ASSUME NEW a \in Int, NEW b \in Int
  PROVE  Max({a, b}) = IF a <= b THEN b ELSE a
<1>1. {a, b} \in SUBSET Int /\ a \in {a, b} /\ b \in {a, b}
  OBVIOUS
<1>2. CASE a <= b
  <2>1. \A y \in {a, b} : y <= b
    BY <1>2
  <2> QED BY <1>1, <1>2, <2>1, MaxIs
<1>3. CASE ~(a <= b)
  <2>1. \A y \in {a, b} : y <= a
    BY <1>3
  <2> QED BY <1>1, <1>3, <2>1, MaxIs
<1> QED BY <1>2, <1>3

LEMMA PixelsType ==
  ASSUME NEW x, x.at \in Nat, NEW size \in Nat
  PROVE  Gif!Pixels(x, size) \in Seq(Dot) /\ (size = 0 => Gif!Pixels(x, size) = <<>>)
<1>1. \A i \in 1..size : <<x.at, i>> \in Dot
  BY DEF Dot
<1> QED BY <1>1 DEF Gif!Pixels

LEMMA FlattenNone ==
  ASSUME NEW X, NEW s \in Seq(Seq(X)), \A i \in 1..Len(s) : s[i] = <<>>
  PROVE  FlattenSeq(s) = <<>>
<1>1. CASE Len(s) = 0
  <2>1. s = <<>>
    BY <1>1
  <2> QED BY <2>1, FlattenEmpty
<1>2. CASE Len(s) # 0
  <2> DEFINE f == [i \in 1..Len(s) |-> <<>>]
  <2>1. f \in [1..Len(s) -> Seq(X)] /\ Len(s) \in 1..Len(s)
    BY <1>2
  <2>2. \A i \in 1..Len(s) : f[i] = Upto(f, s, i)
    <3> SUFFICES ASSUME NEW i \in 1..Len(s) PROVE f[i] = Upto(f, s, i)
      OBVIOUS
    <3>1. <<>> \o <<>> = <<>> /\ f[i] = <<>> /\ s[i] = <<>>
      OBVIOUS
    <3>2. i # 1 => i - 1 \in 1..Len(s)
      OBVIOUS
    <3>3. i # 1 => f[i - 1] = <<>>
      BY <3>2
    <3> HIDE DEF f
    <3> QED BY <3>1, <3>3 DEF Upto
  <2>3. f[Len(s)] = <<>>
    BY <2>1
  <2> HIDE DEF f
  <2>4. Sums(f, s, X, Len(s))
    BY <2>1, <2>2 DEF Sums, Follows
  <2> QED BY <1>2, <2>3, <2>4, FlattenIs
<1> QED BY <1>1, <1>2

LEMMA ImageDataType ==
  ASSUME NEW L \in Seq(Entry), NEW d \in 0..Len(L), NEW size \in Nat
  PROVE  ImageData(L, d, size) \in Seq(Seq(Dot)) /\ Len(ImageData(L, d, size)) = Len(L) - d
<1>1. ASSUME NEW j \in 1..Len(L) PROVE DataIn(L, j, size) \in Seq(Dot)
  <2>1. L[j] \in Entry
    OBVIOUS
  <2>2. L[j].at \in Nat
    BY <2>1 DEF Entry
  <2> QED BY <2>2, PixelsType DEF DataIn
<1>2. PICK n \in Nat : n = Len(L) - d
  <2>1. Len(L) \in Nat
    OBVIOUS
  <2>2. Len(L) - d \in Nat
    BY <2>1
  <2> QED BY <2>2
<1>3. \A i \in 1..n : d + i \in 1..Len(L)
  BY <1>2
<1>4. [i \in 1..n |-> DataIn(L, d + i, size)] \in Seq(Seq(Dot))
  BY <1>1, <1>3
<1> QED BY <1>2, <1>4 DEF ImageData

(* Entries without a transfer register end a log with the same registers.    *)
Quiet(L, M) ==
  /\ L \in Seq(Entry) /\ M \in Seq(Entry) /\ Len(L) <= Len(M) /\ Agree(L, M, Len(L))
  /\ \A j \in (Len(L) + 1)..Len(M) : M[j].what \notin {"trxreg", "trxdir"}

LEMMA QuietSame ==
  ASSUME NEW L, NEW M, Quiet(L, M)
  PROVE  /\ TrxIn(M, Len(M) + 1) = TrxIn(L, Len(L) + 1) /\ DirIn(M, Len(M) + 1) = DirIn(L, Len(L) + 1)
         /\ \A d, r \in 0..Len(M) : Transfers(M, d, r)
              => d \in 0..Len(L) /\ r \in 0..Len(L) /\ Transfers(L, d, r)
<1>1. PICK n \in Nat : n = Len(L)
  BY DEF Quiet
<1>2. PICK m \in Nat : m = Len(M)
  BY DEF Quiet
<1>3. n <= m /\ Agree(L, M, n) /\ \A j \in (n + 1)..m : M[j].what \notin {"trxreg", "trxdir"}
  BY <1>1, <1>2 DEF Quiet
<1>4. \A w \in {{"trxreg"}, {"trxdir"}} : LastIn(M, m + 1, w) = LastIn(L, n + 1, w)
  <2> SUFFICES ASSUME NEW w, w = {"trxreg"} \/ w = {"trxdir"} PROVE LastIn(M, m + 1, w) = LastIn(L, n + 1, w)
    OBVIOUS
  <2>1. \A j \in (n + 1)..m : M[j].what \notin w
    BY <1>3
  <2>2. \A j \in 1..n : M[j] = L[j] /\ j \in 1..m
    BY <1>3 DEF Agree
  <2>3. {j \in 1..m : M[j].what \in w} = {j \in 1..n : L[j].what \in w}
    BY <2>1, <2>2
  <2>4. (m + 1) - 1 = m /\ (n + 1) - 1 = n
    OBVIOUS
  <2> QED BY <2>3, <2>4 DEF LastIn
<1>5. \A w \in {{"trxreg"}, {"trxdir"}} :
        LastIn(L, n + 1, w) # 0 => L[LastIn(L, n + 1, w)] = M[LastIn(L, n + 1, w)]
  <2> SUFFICES ASSUME NEW w, LastIn(L, n + 1, w) # 0
               PROVE  L[LastIn(L, n + 1, w)] = M[LastIn(L, n + 1, w)]
    OBVIOUS
  <2>1. n + 1 \in Nat
    OBVIOUS
  <2>2. LastIn(L, n + 1, w) \in 1..((n + 1) - 1)
    BY <2>1, LastType
  <2> QED BY <1>3, <2>2 DEF Agree
<1>6. TrxIn(M, m + 1) = TrxIn(L, n + 1) /\ DirIn(M, m + 1) = DirIn(L, n + 1)
  BY <1>4, <1>5 DEF TrxIn, DirIn
<1>7. ASSUME NEW d \in 0..m, NEW r \in 0..m, Transfers(M, d, r)
      PROVE  d \in 0..n /\ r \in 0..n /\ Transfers(L, d, r)
  <2>1. /\ d = LastIn(M, m + 1, {"trxdir"}) /\ r = LastIn(M, d, {"trxreg"}) /\ r # 0
        /\ LastIn(M, m + 1, {"trxreg"}) = r
    BY <1>2, <1>7 DEF Transfers
  <2>2. d = LastIn(L, n + 1, {"trxdir"}) /\ LastIn(L, n + 1, {"trxreg"}) = r
    BY <1>4, <2>1
  <2>3. d \in 0..n /\ r \in 0..n
    <3>1. n + 1 \in Nat /\ n + 1 # 0
      OBVIOUS
    <3>2. \A w : LastIn(L, n + 1, w) \in Nat /\ LastIn(L, n + 1, w) < n + 1
      BY <3>1, LastType
    <3> QED BY <2>2, <3>2
  <2>4. Agree(L, M, d - 1) /\ d \in Nat
    BY <1>3, <2>3 DEF Agree
  <2>5. r = LastIn(L, d, {"trxreg"})
    BY <2>1, <2>4, LastSame
  <2> QED BY <1>1, <2>1, <2>2, <2>3, <2>5 DEF Transfers
<1> QED BY <1>1, <1>2, <1>6, <1>7

LEMMA DataMore ==
  ASSUME NEW L, NEW M, Quiet(L, M), NEW d \in 0..Len(L), NEW size \in Nat,
         NEW more \in Seq(Seq(Dot)), Len(more) = Len(M) - Len(L),
         \A i \in 1..Len(more) : more[i] = DataIn(M, Len(L) + i, size)
  PROVE  FlattenSeq(ImageData(M, d, size)) = FlattenSeq(ImageData(L, d, size)) \o FlattenSeq(more)
<1>0. L \in Seq(Entry) /\ M \in Seq(Entry)
  BY DEF Quiet
<1>1. PICK n \in Nat : n = Len(L)
  BY <1>0
<1>2. PICK m \in Nat : m = Len(M)
  BY <1>0
<1>3. n <= m /\ Agree(L, M, n) /\ L \in Seq(Entry) /\ M \in Seq(Entry) /\ d \in 0..m /\ d <= n
  BY <1>1, <1>2 DEF Quiet
<1>4. PICK a : a = ImageData(L, d, size)
  OBVIOUS
<1>5. PICK c : c = ImageData(M, d, size)
  OBVIOUS
<1>6. a \in Seq(Seq(Dot)) /\ c \in Seq(Seq(Dot)) /\ Len(a) = n - d /\ Len(c) = m - d
  BY <1>1, <1>2, <1>3, <1>4, <1>5, ImageDataType
<1>7. a = [i \in 1..(n - d) |-> DataIn(L, d + i, size)] /\ c = [i \in 1..(m - d) |-> DataIn(M, d + i, size)]
  BY <1>1, <1>2, <1>4, <1>5 DEF ImageData
<1>8. \A i \in 1..Len(a) : c[i] = a[i]
  <2> SUFFICES ASSUME NEW i \in 1..(n - d) PROVE c[i] = a[i]
    BY <1>6
  <2>1. d + i \in 1..n /\ i \in 1..(m - d)
    BY <1>3
  <2>2. L[d + i] = M[d + i]
    BY <1>3, <2>1 DEF Agree
  <2>3. DataIn(L, d + i, size) = DataIn(M, d + i, size)
    BY <2>2 DEF DataIn
  <2> QED BY <1>7, <2>1, <2>3
<1>9. \A i \in (Len(a) + 1)..(Len(a) + Len(more)) : c[i] = more[i - Len(a)]
  <2> SUFFICES ASSUME NEW i \in (Len(a) + 1)..(Len(a) + Len(more)) PROVE c[i] = more[i - Len(a)]
    OBVIOUS
  <2>1. PICK k \in Nat : k = i - Len(a)
    BY <1>6
  <2>2. k \in 1..Len(more) /\ n + k = d + i /\ i \in 1..(m - d)
    BY <1>1, <1>2, <1>3, <1>6, <2>1
  <2>3. more[k] = DataIn(M, d + i, size)
    BY <1>1, <2>2
  <2>4. c[i] = DataIn(M, d + i, size)
    BY <1>7, <2>2
  <2> QED BY <2>1, <2>3, <2>4
<1>10. Len(c) = Len(a) + Len(more)
  BY <1>1, <1>2, <1>3, <1>6
<1>11. c = a \o more
  BY <1>6, <1>8, <1>9, <1>10, ConcatIs
<1>12. FlattenSeq(a \o more) = FlattenSeq(a) \o FlattenSeq(more)
  BY <1>6, FlattenConcat
<1> QED BY <1>4, <1>5, <1>11, <1>12
LEMMA FittingIs ==
  ASSUME NEW all \in Seq(Dot), NEW total \in Nat
  PROVE  /\ Fitting(all, total) \in Seq(Pixel)
         /\ Len(Fitting(all, total)) = IF Len(all) <= total THEN Len(all) ELSE total
         /\ \A i \in 1..Len(Fitting(all, total)) : Fitting(all, total)[i] = [pos |-> i - 1, pix |-> all[i]]
<1>1. PICK n \in Nat : n = IF Len(all) <= total THEN Len(all) ELSE total
  OBVIOUS
<1>2. Min({Len(all), total}) = n
  BY <1>1, MinOf
<1>3. Fitting(all, total) = [i \in 1..n |-> [pos |-> i - 1, pix |-> all[i]]]
  BY <1>2 DEF Fitting
<1>4. \A i \in 1..n : [pos |-> i - 1, pix |-> all[i]] \in Pixel
  <2> SUFFICES ASSUME NEW i \in 1..n PROVE [pos |-> i - 1, pix |-> all[i]] \in Pixel
    OBVIOUS
  <2>1. i \in 1..Len(all) /\ i - 1 \in Nat
    BY <1>1
  <2>2. all[i] \in Dot
    BY <2>1
  <2> QED BY <2>1, <2>2 DEF Pixel, Dot
<1> QED BY <1>1, <1>3, <1>4

LEMMA ImageStays ==
  ASSUME NEW g \in GifState, NEW h, h.trx = g.trx, h.dir = g.dir, h.moved = g.moved, h.image = g.image,
         NEW L, NEW M, Quiet(L, M), \A j \in (Len(L) + 1)..Len(M) : M[j].what # "pixels", ImageIs(g, L)
  PROVE  ImageIs(h, M)
<1>1. g.trx.size \in Nat
  BY DEF GifState
<1>2. L \in Seq(Entry) /\ M \in Seq(Entry) /\ Len(L) <= Len(M)
  BY DEF Quiet
<1>3. ASSUME NEW d \in 0..Len(M), NEW r \in 0..Len(M), Transfers(M, d, r)
      PROVE  IF g.dir # 0 THEN g.image = <<>> ELSE Moved(g, FlattenSeq(ImageData(M, d, g.trx.size)))
  <2>1. d \in 0..Len(L) /\ r \in 0..Len(L) /\ Transfers(L, d, r)
    BY <1>3, QuietSame
  <2>2. IF g.dir # 0 THEN g.image = <<>> ELSE Moved(g, FlattenSeq(ImageData(L, d, g.trx.size)))
    BY <2>1 DEF ImageIs
  <2>3. PICK n \in Nat : n = Len(M) - Len(L)
    BY <1>2
  <2>4. PICK more : more = [i \in 1..n |-> <<>>]
    OBVIOUS
  <2>5. more \in Seq(Seq(Dot)) /\ Len(more) = n /\ \A i \in 1..n : more[i] = <<>>
    <3>1. <<>> \in Seq(Dot)
      OBVIOUS
    <3> QED BY <2>4, <3>1
  <2>6. \A i \in 1..n : DataIn(M, Len(L) + i, g.trx.size) = <<>>
    <3> SUFFICES ASSUME NEW i \in 1..n PROVE DataIn(M, Len(L) + i, g.trx.size) = <<>>
      OBVIOUS
    <3>1. Len(L) + i \in (Len(L) + 1)..Len(M)
      BY <1>2, <2>3
    <3> QED BY <3>1 DEF DataIn
  <2>7. FlattenSeq(more) = <<>>
    BY <2>5, FlattenNone
  <2>8. FlattenSeq(ImageData(M, d, g.trx.size)) = FlattenSeq(ImageData(L, d, g.trx.size)) \o FlattenSeq(more)
    <3>1. PICK size \in Nat : size = g.trx.size
      BY <1>1
    <3>2. Len(more) = Len(M) - Len(L)
      BY <2>3, <2>5
    <3>3. \A i \in 1..Len(more) : more[i] = DataIn(M, Len(L) + i, size)
      BY <2>5, <2>6, <3>1
    <3>4. FlattenSeq(ImageData(M, d, size)) = FlattenSeq(ImageData(L, d, size)) \o FlattenSeq(more)
      <4>1. more \in Seq(Seq(Dot)) /\ d \in 0..Len(L) /\ Quiet(L, M)
        BY <2>1, <2>5
      <4> QED BY ONLY <3>2, <3>3, <4>1, size \in Nat, DataMore
    <3> QED BY <3>1, <3>4
  <2>9. FlattenSeq(ImageData(L, d, g.trx.size)) \in Seq(Dot)
    BY <1>1, <1>2, <2>1, ImageDataType, FlattenType
  <2>10. FlattenSeq(ImageData(M, d, g.trx.size)) = FlattenSeq(ImageData(L, d, g.trx.size))
    BY <2>7, <2>8, <2>9, ConcatEmptySeq
  <2> QED BY <2>2, <2>10
<1>4. g.trx = TrxIn(M, Len(M) + 1) /\ g.dir = DirIn(M, Len(M) + 1)
  BY QuietSame DEF ImageIs
<1> QED BY <1>3, <1>4 DEF ImageIs, Moved

LEMMA ImageSetUp ==
  ASSUME NEW g \in GifState, NEW L \in Seq(Entry), NEW e \in Entry, NEW M, M = Append(L, e), ImageIs(g, L),
         NEW h
  PROVE  /\ e.what = "trxreg" /\ h = [g EXCEPT !.trx = [total |-> e.val.total, size |-> e.val.size]]
            => ImageIs(h, M)
         /\ e.what = "trxdir" /\ h = [g EXCEPT !.dir = e.val.dir, !.moved = 0, !.image = <<>>]
            => ImageIs(h, M)
<1>1. PICK n \in Nat : n = Len(L) + 1
  <2>1. Len(L) + 1 \in Nat
    OBVIOUS
  <2> QED BY <2>1
<1>2. M \in Seq(Entry) /\ Len(M) = n /\ M[n] = e /\ n # 0
  BY <1>1, LogMore
<1>3. /\ TrxIn(M, n + 1) = IF e.what = "trxreg" THEN [total |-> e.val.total, size |-> e.val.size]
                           ELSE TrxIn(L, n)
      /\ DirIn(M, n + 1) = IF e.what = "trxdir" THEN e.val.dir ELSE DirIn(L, n)
  <2>1. n = Len(L) + 1
    BY <1>1
  <2>2. SaysNow(L, M, e, n)
    BY ONLY L \in Seq(Entry), e \in Entry, M = Append(L, e), <2>1, RegistersNew
  <2> QED BY ONLY <2>2 DEF SaysNow
<1>4. g.trx = TrxIn(L, n) /\ g.dir = DirIn(L, n)
  BY <1>1 DEF ImageIs
<1>5. \A w : LastIn(M, n + 1, w) = IF e.what \in w THEN n ELSE LastIn(M, n, w)
  <2> SUFFICES ASSUME NEW w PROVE LastIn(M, n + 1, w) = IF e.what \in w THEN n ELSE LastIn(M, n, w)
    OBVIOUS
  <2>1. LastIn(M, n + 1, w) = IF M[n].what \in w THEN n ELSE LastIn(M, n, w)
    BY ONLY <1>2, LastNew, n \in Nat
  <2> QED BY <1>2, <2>1
<1>6. CASE e.what = "trxreg" /\ h = [g EXCEPT !.trx = [total |-> e.val.total, size |-> e.val.size]]
  <2>1. h.trx = [total |-> e.val.total, size |-> e.val.size] /\ h.dir = g.dir
    BY <1>6 DEF GifState
  <2>2. ASSUME NEW d \in 0..n, NEW r \in 0..n, Transfers(M, d, r) PROVE FALSE
    <3>1. /\ d = LastIn(M, n + 1, {"trxdir"}) /\ r = LastIn(M, d, {"trxreg"}) /\ r # 0
          /\ LastIn(M, n + 1, {"trxreg"}) = r
      BY <1>2, <2>2 DEF Transfers
    <3>2. r = n /\ d = LastIn(M, n, {"trxdir"})
      BY <1>5, <1>6, <3>1
    <3>3. d < n
      BY <1>2, <3>2, LastType
    <3>4. d # 0
      <4>1. ASSUME d = 0 PROVE LastIn(M, d, {"trxreg"}) = 0
        <5>1. {j \in 1..(d - 1) : M[j].what \in {"trxreg"}} = {}
          BY <4>1
        <5> QED BY <5>1 DEF LastIn
      <4> QED BY <3>1, <4>1
    <3>5. PICK w : w = {"trxreg"}
      OBVIOUS
    <3>6. d \in Nat /\ r = LastIn(M, d, w)
      BY <3>1, <3>5
    <3>7. r < d
      BY ONLY <3>4, <3>6, LastType
    <3> QED BY <3>2, <3>3, <3>7
  <2> QED BY <1>2, <1>3, <1>4, <1>6, <2>1, <2>2 DEF ImageIs
<1>7. CASE e.what = "trxdir" /\ h = [g EXCEPT !.dir = e.val.dir, !.moved = 0, !.image = <<>>]
  <2>1. h.trx = g.trx /\ h.dir = e.val.dir /\ h.moved = 0 /\ h.image = <<>>
    BY <1>7 DEF GifState
  <2>2. ASSUME NEW d \in 0..n, NEW r \in 0..n, Transfers(M, d, r)
        PROVE  FlattenSeq(ImageData(M, d, g.trx.size)) = <<>>
    <3>1. d = LastIn(M, n + 1, {"trxdir"})
      BY <1>2, <2>2 DEF Transfers
    <3>2. d = n
      BY <1>5, <1>7, <3>1
    <3>3. g.trx.size \in Nat
      BY DEF GifState
    <3>4. ImageData(M, d, g.trx.size) \in Seq(Seq(Dot)) /\ Len(ImageData(M, d, g.trx.size)) = 0
      <4>1. n \in 0..Len(M) /\ Len(M) - n = 0
        BY <1>2
      <4> QED BY <1>2, <3>2, <3>3, <4>1, ImageDataType
    <3>5. ImageData(M, d, g.trx.size) = <<>>
      BY <3>4
    <3> QED BY <3>5, FlattenEmpty
  <2>3. g.trx.total \in Nat /\ <<>> \in Seq(Dot) /\ Len(<<>>) = 0
    BY DEF GifState
  <2>4. Fitting(<<>>, g.trx.total) \in Seq(Pixel) /\ Len(Fitting(<<>>, g.trx.total)) = 0
    <3>1. PICK none : none = <<>>
      OBVIOUS
    <3>2. none \in Seq(Dot) /\ Len(none) = 0
      BY <3>1
    <3>3. Fitting(none, g.trx.total) \in Seq(Pixel) /\ Len(Fitting(none, g.trx.total)) = 0
      <4>1. PICK total \in Nat : total = g.trx.total
        BY <2>3
      <4>2. Fitting(none, total) \in Seq(Pixel)
            /\ Len(Fitting(none, total)) = IF Len(none) <= total THEN Len(none) ELSE total
        BY ONLY <3>2, <4>1, FittingIs
      <4> QED BY <3>2, <4>1, <4>2
    <3> QED BY <3>1, <3>3
  <2>5. Fitting(<<>>, g.trx.total) = <<>>
    BY <2>4
  <2>6. Moved(h, <<>>)
    BY <2>1, <2>3, <2>5 DEF Moved
  <2> QED BY <1>2, <1>3, <1>4, <1>7, <2>1, <2>2, <2>6 DEF ImageIs
<1> QED BY <1>6, <1>7

(* The state but for the image.                                              *)
Beside(h, g) ==
  /\ h.pending = g.pending /\ h.prim = g.prim /\ h.col = g.col /\ h.q = g.q /\ h.packedQ = g.packedQ
  /\ h.count = g.count /\ h.v = g.v /\ h.first = g.first /\ h.drawn = g.drawn
  /\ h.trx = g.trx /\ h.dir = g.dir

LEMMA WriteIs ==
  ASSUME NEW g \in GifState, NEW xs \in Seq(Datum), NEW all,
         all = FlattenSeq([i \in DOMAIN xs |-> Gif!Pixels(xs[i], g.trx.size)]), all \in Seq(Dot),
         NEW h, h = Gif!WriteImage(g, xs)
  PROVE  /\ h \in GifState /\ Beside(h, g)
         /\ \A old \in Seq(Dot) : g.dir = 0 /\ g.trx.size # 0 /\ Moved(g, old) => Moved(h, old \o all)
         /\ g.dir # 0 \/ g.trx.size = 0 => h = g
<1>1. PICK total \in Nat : total = g.trx.total
  BY DEF GifState
<1>2. PICK moved \in Nat : moved = g.moved
  BY DEF GifState
<1>14. PICK b \in Nat : b = Len(all)
  <2>1. Len(all) \in Nat
    BY all \in Seq(Dot)
  <2> QED BY <2>1
<1>3. PICK room \in Nat : room = IF total <= moved THEN 0 ELSE total - moved
  <2>1. (IF total <= moved THEN 0 ELSE total - moved) \in Nat
    BY ONLY total \in Nat, moved \in Nat
  <2> QED BY ONLY <2>1
<1>15. PICK n \in Nat : n = IF b <= room THEN b ELSE room
  <2>1. (IF b <= room THEN b ELSE room) \in Nat
    BY ONLY b \in Nat, room \in Nat
  <2> QED BY ONLY <2>1
<1>4. n = IF Len(all) <= room THEN Len(all) ELSE room
  BY <1>14, <1>15
<1>5. Max({0, total - moved}) = room
  <2>1. total - moved \in Int
    OBVIOUS
  <2> QED BY <1>3, <2>1, MaxOf
<1>6. Min({Len(all), room}) = n
  BY <1>4, MinOf
<1>7. PICK new : new = [i \in 1..n |-> [pos |-> moved + i - 1, pix |-> all[i]]]
  OBVIOUS
<1>8. new \in Seq(Pixel) /\ Len(new) = n /\ \A i \in 1..n : new[i] = [pos |-> moved + i - 1, pix |-> all[i]]
  <2>1. \A i \in 1..n : [pos |-> moved + i - 1, pix |-> all[i]] \in Pixel
    <3> SUFFICES ASSUME NEW i \in 1..n PROVE [pos |-> moved + i - 1, pix |-> all[i]] \in Pixel
      OBVIOUS
    <3>1. i \in 1..Len(all) /\ moved + i - 1 \in Nat
      BY <1>4
    <3>2. all[i] \in Dot
      BY <3>1
    <3> QED BY <3>1, <3>2 DEF Pixel, Dot
  <2> QED BY <1>7, <2>1
<1>9. PICK image : image = g.image \o new
  OBVIOUS
<1>10. g.image \in Seq(Pixel) /\ image \in Seq(Pixel)
  BY <1>8, <1>9 DEF GifState
<1>11. h = IF g.dir # 0 \/ g.trx.size = 0 \/ total = 0 THEN g
           ELSE [g EXCEPT !.moved = moved + n, !.image = image]
  <2>1. Gif!FlattenSeq([i \in DOMAIN xs |-> Gif!Pixels(xs[i], g.trx.size)]) = all
    BY GifSequences
  <2>2. \A S : Gif!Min(S) = Min(S) /\ Gif!Max(S) = Max(S)
    BY GifSets
  <2> QED BY <1>1, <1>2, <1>5, <1>6, <1>7, <1>9, <2>1, <2>2 DEF Gif!WriteImage
<1>12. CASE g.dir # 0 \/ g.trx.size = 0 \/ total = 0
  <2>1. h = g
    BY <1>11, <1>12
  <2>2. ASSUME NEW old \in Seq(Dot), g.dir = 0, g.trx.size # 0, Moved(g, old) PROVE Moved(h, old \o all)
    <3>1. total = 0 /\ old \o all \in Seq(Dot)
      BY <1>12, <2>2
    <3>2. Fitting(old, total) \in Seq(Pixel) /\ Len(Fitting(old, total)) = 0
      BY <3>1, FittingIs
    <3>3. Fitting(old \o all, total) \in Seq(Pixel) /\ Len(Fitting(old \o all, total)) = 0
      <4>1. PICK both : both = old \o all /\ both \in Seq(Dot)
        BY <3>1
      <4>2. Fitting(both, total) \in Seq(Pixel)
            /\ Len(Fitting(both, total)) = IF Len(both) <= total THEN Len(both) ELSE total
        BY ONLY <4>1, total \in Nat, FittingIs
      <4>3. Len(both) \in Nat
        BY <4>1
      <4> QED BY <3>1, <4>1, <4>2, <4>3
    <3>4. Fitting(old, total) = Fitting(old \o all, total)
      BY <3>2, <3>3
    <3> QED BY <1>1, <2>1, <2>2, <3>4 DEF Moved
  <2> QED BY <2>1, <2>2 DEF Beside
<1>13. CASE ~(g.dir # 0 \/ g.trx.size = 0 \/ total = 0)
  <2>1. h = [g EXCEPT !.moved = moved + n, !.image = image]
    BY <1>11, <1>13
  <2>2. h \in GifState /\ Beside(h, g) /\ h.moved = moved + n /\ h.image = image
    <3>1. moved + n \in Nat
      OBVIOUS
    <3>2. h \in GifState
      BY <1>10, <2>1, <3>1 DEF GifState
    <3>3. h.moved = moved + n /\ h.image = image
      BY <2>1 DEF GifState
    <3>4. Beside(h, g)
      BY <2>1 DEF GifState, Beside
    <3> QED BY <3>2, <3>3, <3>4
  <2>3. ASSUME NEW old \in Seq(Dot), Moved(g, old) PROVE Moved(h, old \o all)
    <3>1. PICK a \in Nat : a = Len(old)
      <4>1. Len(old) \in Nat
        OBVIOUS
      <4> QED BY <4>1
    <3>3. PICK both : both = old \o all
      OBVIOUS
    <3>4. /\ both \in Seq(Dot) /\ Len(both) = a + b /\ (\A i \in 1..a : both[i] = old[i])
          /\ \A i \in 1..b : both[a + i] = all[i]
      BY ONLY <1>14, <3>1, <3>3, all \in Seq(Dot), old \in Seq(Dot)
    <3>5. PICK f : f = Fitting(old, total)
      OBVIOUS
    <3>6. PICK t : t = Fitting(both, total)
      OBVIOUS
    <3>7. /\ f \in Seq(Pixel) /\ Len(f) = (IF a <= total THEN a ELSE total)
          /\ \A i \in 1..Len(f) : f[i] = [pos |-> i - 1, pix |-> old[i]]
      BY <3>1, <3>5, FittingIs
    <3>8. /\ t \in Seq(Pixel) /\ Len(t) = (IF a + b <= total THEN a + b ELSE total)
          /\ \A i \in 1..Len(t) : t[i] = [pos |-> i - 1, pix |-> both[i]]
      BY <3>4, <3>6, FittingIs
    <3>9. g.image = f /\ moved = Len(f)
      BY <1>1, <1>2, <2>3, <3>5 DEF Moved
    <3>15. PICK lt \in Nat : lt = Len(t) /\ lt = IF a + b <= total THEN a + b ELSE total
      <4>1. (IF a + b <= total THEN a + b ELSE total) \in Nat
        BY ONLY a \in Nat, b \in Nat, total \in Nat
      <4> QED BY <3>8, <4>1
    <3>16. moved = IF a <= total THEN a ELSE total
      BY <3>7, <3>9
    <3>10. lt = moved + n
      BY ONLY <1>3, <1>15, <3>15, <3>16, a \in Nat, b \in Nat, total \in Nat, moved \in Nat, n \in Nat,
              room \in Nat, lt \in Nat
    <3>11. \A i \in 1..moved : t[i] = f[i]
      <4> SUFFICES ASSUME NEW i \in 1..moved PROVE t[i] = f[i]
        OBVIOUS
      <4>1. i \in 1..a /\ i \in 1..lt
        BY ONLY <3>10, <3>16, i \in 1..moved, a \in Nat, total \in Nat, moved \in Nat, n \in Nat
      <4>2. f[i] = [pos |-> i - 1, pix |-> old[i]]
        BY <3>7, <3>9
      <4>3. t[i] = [pos |-> i - 1, pix |-> both[i]]
        BY <3>8, <3>15, <4>1
      <4> QED BY <3>4, <4>1, <4>2, <4>3
    <3>12. \A i \in (moved + 1)..(moved + n) : t[i] = new[i - moved]
      <4> SUFFICES ASSUME NEW i \in (moved + 1)..(moved + n) PROVE t[i] = new[i - moved]
        OBVIOUS
      <4>1. PICK k \in Nat : k = i - moved
        OBVIOUS
      <4>2. k \in 1..n /\ i \in 1..lt /\ i = moved + k /\ k \in 1..b /\ moved = a
        BY ONLY <1>3, <1>15, <3>10, <3>16, <4>1, i \in (moved + 1)..(moved + n), a \in Nat, b \in Nat,
                total \in Nat, moved \in Nat, n \in Nat, room \in Nat, k \in Nat
      <4>4. both[a + k] = all[k]
        BY <3>4, <4>2
      <4>5. t[i] = [pos |-> i - 1, pix |-> both[i]]
        BY <3>8, <3>15, <4>2
      <4>6. new[k] = [pos |-> moved + k - 1, pix |-> all[k]]
        BY <1>8, <4>2
      <4>7. both[i] = all[k]
        BY <4>2, <4>4
      <4>8. i - 1 = moved + k - 1
        BY <4>2
      <4> QED BY <4>1, <4>5, <4>6, <4>7, <4>8
    <3>13. t = f \o new
      <4>1. Len(f) = moved /\ Len(new) = n /\ Len(t) = moved + n
        BY <1>8, <3>9, <3>10, <3>15
      <4>2. Len(t) = Len(f) + Len(new)
        BY <4>1
      <4>3. \A i \in 1..Len(f) : t[i] = f[i]
        BY <3>11, <4>1
      <4>4. \A i \in (Len(f) + 1)..(Len(f) + Len(new)) : t[i] = new[i - Len(f)]
        BY <3>12, <4>1
      <4> QED BY ONLY <1>8, <3>7, <3>8, <4>2, <4>3, <4>4, ConcatIs
    <3>14. h.image = t /\ h.moved = Len(t) /\ h.trx = g.trx
      BY <1>9, <2>2, <3>9, <3>10, <3>13, <3>15 DEF Beside
    <3> QED BY <1>1, <3>3, <3>6, <3>14 DEF Moved
  <2> QED BY <1>13, <2>2, <2>3
<1> QED BY <1>12, <1>13

LEMMA ImageWrites ==
  ASSUME NEW g \in GifState, NEW xs \in Seq(Datum), NEW L, NEW M, Quiet(L, M), Len(M) = Len(L) + Len(xs),
         \A i \in 1..Len(xs) : M[Len(L) + i] = Gif!Mark("pixels", xs[i]), ImageIs(g, L),
         NEW h, h = Gif!WriteImage(g, xs)
  PROVE  h \in GifState /\ Beside(h, g) /\ ImageIs(h, M)
<1>1. PICK size \in Nat : size = g.trx.size
  BY DEF GifState
<1>2. PICK more : more = [i \in DOMAIN xs |-> Gif!Pixels(xs[i], size)]
  OBVIOUS
<1>3. /\ more \in Seq(Seq(Dot)) /\ Len(more) = Len(xs)
      /\ \A i \in 1..Len(xs) : more[i] = Gif!Pixels(xs[i], size) /\ xs[i].at \in Nat
  <2>1. \A i \in 1..Len(xs) : xs[i].at \in Nat
    <3> SUFFICES ASSUME NEW i \in 1..Len(xs) PROVE xs[i].at \in Nat
      OBVIOUS
    <3>1. xs[i] \in Datum
      BY xs \in Seq(Datum)
    <3> QED BY <3>1 DEF Datum
  <2>2. \A i \in 1..Len(xs) : Gif!Pixels(xs[i], size) \in Seq(Dot)
    BY <2>1, PixelsType
  <2> QED BY <1>2, <2>1, <2>2
<1>4. PICK all : all = FlattenSeq(more)
  OBVIOUS
<1>5. all \in Seq(Dot)
  BY <1>3, <1>4, FlattenType
<1>6. /\ h \in GifState /\ Beside(h, g)
      /\ \A old \in Seq(Dot) : g.dir = 0 /\ g.trx.size # 0 /\ Moved(g, old) => Moved(h, old \o all)
      /\ g.dir # 0 \/ g.trx.size = 0 => h = g
  BY <1>1, <1>2, <1>4, <1>5, WriteIs
<1>7. L \in Seq(Entry) /\ M \in Seq(Entry)
  BY DEF Quiet
<1>8. \A i \in 1..Len(more) : more[i] = DataIn(M, Len(L) + i, size)
  <2> SUFFICES ASSUME NEW i \in 1..Len(xs) PROVE more[i] = DataIn(M, Len(L) + i, size)
    BY <1>3
  <2>1. M[Len(L) + i].what = "pixels" /\ M[Len(L) + i].at = xs[i].at
    <3>1. M[Len(L) + i] = Gif!Mark("pixels", xs[i])
      OBVIOUS
    <3>2. Gif!Mark("pixels", xs[i]).what = "pixels" /\ Gif!Mark("pixels", xs[i]).at = xs[i].at
      BY DEF Gif!Mark
    <3> QED BY <3>1, <3>2
  <2> QED BY <1>3, <2>1 DEF DataIn, Gif!Pixels
<1>9. ASSUME NEW d \in 0..Len(M), NEW r \in 0..Len(M), Transfers(M, d, r)
      PROVE  IF h.dir # 0 THEN h.image = <<>> ELSE Moved(h, FlattenSeq(ImageData(M, d, h.trx.size)))
  <2>1. d \in 0..Len(L) /\ r \in 0..Len(L) /\ Transfers(L, d, r)
    BY <1>9, QuietSame
  <2>2. IF g.dir # 0 THEN g.image = <<>> ELSE Moved(g, FlattenSeq(ImageData(L, d, size)))
    BY <1>1, <2>1 DEF ImageIs
  <2>3. PICK old : old = FlattenSeq(ImageData(L, d, size))
    OBVIOUS
  <2>4. old \in Seq(Dot)
    BY <1>7, <2>1, <2>3, ImageDataType, FlattenType
  <2>5. FlattenSeq(ImageData(M, d, size)) = old \o all
    <3>1. Len(more) = Len(M) - Len(L)
      BY <1>3, <1>7
    <3> QED BY <1>3, <1>4, <1>8, <2>1, <2>3, <3>1, DataMore
  <2>6. h.dir = g.dir /\ h.trx = g.trx
    BY <1>6 DEF Beside
  <2>7. CASE g.dir # 0
    BY <1>6, <2>2, <2>6, <2>7
  <2>8. CASE g.dir = 0 /\ size # 0
    <3>1. Moved(h, old \o all)
      BY <1>1, <1>6, <2>2, <2>3, <2>4, <2>8
    <3> QED BY <1>1, <2>5, <2>6, <2>8, <3>1
  <2>9. CASE g.dir = 0 /\ size = 0
    <3>1. \A i \in 1..Len(more) : more[i] = <<>>
      BY <1>3, <2>9, PixelsType
    <3>2. all = <<>>
      BY <1>3, <1>4, <3>1, FlattenNone
    <3>3. old \o all = old
      BY <2>4, <3>2, ConcatEmptySeq
    <3>4. h = g
      BY <1>1, <1>6, <2>9
    <3> QED BY <1>1, <2>2, <2>3, <2>5, <2>9, <3>3, <3>4
  <2> QED BY <2>7, <2>8, <2>9
<1>10. h.trx = TrxIn(M, Len(M) + 1) /\ h.dir = DirIn(M, Len(M) + 1)
  BY <1>6, QuietSame DEF ImageIs, Beside
<1> QED BY <1>6, <1>9, <1>10 DEF ImageIs
-----------------------------------------------------------------------------
(* The GIF: what an entry does                                               *)

LEMMA EntryIs ==
  ASSUME NEW e \in Entry
  PROVE  /\ e.at \in Nat /\ e.what \in Whats
         /\ e.what \notin {"tag", "prim"} => e.val \in Gif!Value
         /\ e.what = "prim" => e.val.prim \in Gif!Prim
<1>1. CASE e \in [what : Whats, at : Nat, val : Gif!Value]
  <2>1. e.val \in Gif!Value
    BY <1>1
  <2>2. e.val.prim \in Gif!Prim
    BY <2>1 DEF Gif!Value
  <2> QED BY <1>1, <2>1, <2>2
<1>2. CASE e \in [what : {"tag", "prim"}, at : Nat, val : [prim : Gif!Prim]]
  BY <1>2 DEF Whats
<1> QED BY <1>1, <1>2 DEF Entry

LEMMA SaidType ==
  ASSUME NEW L \in Seq(Entry), NEW i \in 1..(Len(L) + 1)
  PROVE  /\ PrimIn(L, i) \in Gif!Prim /\ ColourIn(L, i) \in Nat /\ QIn(L, i) \in Nat \cup {Gif!One}
         /\ PackedQIn(L, i) \in Nat \cup {Gif!One}
<1>1. ASSUME NEW k \in 1..(Len(L) + 1), NEW w
      PROVE  LET j == LastIn(L, k, w)
             IN  j # 0 => j \in 1..(k - 1) /\ L[j] \in Entry /\ L[j].at \in Nat /\ L[j].what \in w
                          /\ (L[j].what = "prim" => L[j].val.prim \in Gif!Prim)
  <2>1. PICK j : j = LastIn(L, k, w)
    OBVIOUS
  <2>2. j # 0 => j \in 1..(k - 1) /\ L[j].what \in w
    BY <2>1, LastType
  <2>3. j # 0 => L[j] \in Entry
    BY <2>2
  <2> QED BY <2>1, <2>2, <2>3, EntryIs
<1>2. ASSUME NEW k \in 1..(Len(L) + 1) PROVE PackedQIn(L, k) \in Nat \cup {Gif!One}
  <2>1. PICK s : s = LastIn(L, k, {"tag", "packed_st"})
    OBVIOUS
  <2>2. s # 0 => L[s].at \in Nat
    BY <1>1, <2>1
  <2> QED BY <2>1, <2>2 DEF PackedQIn
<1>3. PrimIn(L, i) \in Gif!Prim
  <2>1. PICK j : j = LastIn(L, i, {"prim"})
    OBVIOUS
  <2>2. j # 0 => L[j].val.prim \in Gif!Prim
    BY <1>1, <2>1
  <2>3. [type |-> 0, smooth |-> FALSE] \in Gif!Prim
    BY DEF Gif!Prim
  <2> QED BY <2>1, <2>2, <2>3 DEF PrimIn
<1>4. ColourIn(L, i) \in Nat
  BY <1>1 DEF ColourIn
<1>5. QIn(L, i) \in Nat \cup {Gif!One}
  <2>1. PICK j : j = LastIn(L, i, {"rgbaq", "packed_rgbaq"})
    OBVIOUS
  <2>2. j # 0 => j \in 1..(Len(L) + 1) /\ L[j].at \in Nat
    BY <1>1, <2>1
  <2> QED BY <1>2, <2>1, <2>2 DEF QIn
<1> QED BY <1>2, <1>3, <1>4, <1>5

LEMMA VerticesType ==
  ASSUME NEW L \in Seq(Entry), NEW S \in SUBSET (1..Len(L))
  PROVE  VerticesOf(L, S) \in Seq(Vertex)
<1>1. Len(L) \in Nat /\ IsFiniteSet(S)
  <2>1. PICK l \in Nat : l = Len(L)
    OBVIOUS
  <2>2. IsFiniteSet(1..l)
    BY FS_Interval
  <2>3. S \in SUBSET (1..l)
    BY <2>1
  <2>4. IsFiniteSet(S)
    BY ONLY <2>2, <2>3, FS_Subset
  <2> QED BY <2>1, <2>4
<1>2. PICK n \in Nat : n = Cardinality(S)
  BY <1>1, FS_CardinalityType
<1>3. \A k \in 1..n : VertexIn(L, Gif!Nth(S, k)) \in Vertex
  <2> SUFFICES ASSUME NEW k \in 1..n PROVE VertexIn(L, Gif!Nth(S, k)) \in Vertex
    OBVIOUS
  <2>1. PICK j : j = Gif!Nth(S, k) /\ j \in 1..Len(L)
    BY <1>1, <1>2, NthIn
  <2>2. L[j] \in Entry /\ j \in 1..(Len(L) + 1)
    BY <2>1
  <2>3. L[j].at \in Nat /\ ColourIn(L, j) \in Nat /\ QIn(L, j) \in Nat \cup {Gif!One}
    BY <2>2, EntryIs, SaidType
  <2> QED BY <2>1, <2>3 DEF VertexIn, Vertex
<1>4. [k \in 1..n |-> VertexIn(L, Gif!Nth(S, k))] \in Seq(Vertex)
  BY <1>3
<1> QED BY <1>2, <1>4 DEF VerticesOf

LEMMA MadeType ==
  ASSUME NEW p \in Gif!Prim, NEW w \in Seq(Vertex), NEW x \in Vertex
  PROVE  Made(p, w, x) \in Seq(Vertex) /\ MadeOf(p, w, x) \in Seq(Drawing)
<1>1. \A a \in Vertex : Tint(p, a, x) \in Vertex /\ [a EXCEPT !.col = x.col, !.q = x.q] \in Vertex
  BY TintType
<1>2. PICK m \in Nat : m = Len(w)
  OBVIOUS
<1>3. \A i \in 1..m : w[i] \in Vertex
  BY <1>2
<1>4. Made(p, w, x) \in Seq(Vertex)
  <2>0. p.type \in 0..7 /\ <<>> \in Seq(Vertex) /\ <<x>> \in Seq(Vertex)
    BY DEF Gif!Prim
  <2>1. \A a, b \in Vertex : <<a, b>> \in Seq(Vertex)
    OBVIOUS
  <2>2. \A a, b, c \in Vertex : <<a, b, c>> \in Seq(Vertex)
    OBVIOUS
  <2>3. CASE p.type \in {0, 7}
    BY <2>0, <2>3 DEF Made
  <2>4. CASE p.type \in {1, 6}
    <3>1. CASE m % 2 = 1
      <4>1. w[m] \in Vertex
        <5>1. m \in 1..m
          BY <3>1
        <5> QED BY <1>3, <5>1
      <4>2. PICK a \in Vertex : a = IF p.type = 1 THEN Tint(p, w[m], x) ELSE [w[m] EXCEPT !.col = x.col, !.q = x.q]
        BY <1>1, <4>1
      <4>3. Made(p, w, x) = <<a, x>>
        <5>1. CASE p.type = 1
          BY <1>2, <3>1, <4>2, <5>1 DEF Made
        <5>2. CASE p.type = 6
          BY <1>2, <3>1, <4>2, <5>2 DEF Made
        <5> QED BY <2>4, <5>1, <5>2
      <4> QED BY <2>1, <4>3
    <3>2. CASE m % 2 # 1
      BY <1>2, <2>0, <2>4, <3>2 DEF Made
    <3> QED BY <3>1, <3>2
  <2>5. CASE p.type = 2
    <3>1. CASE m # 0
      <4>1. w[m] \in Vertex
        BY <1>3, <3>1
      <4>2. PICK a \in Vertex : a = Tint(p, w[m], x)
        BY <1>1, <4>1
      <4>3. Made(p, w, x) = <<a, x>>
        BY <1>2, <2>5, <3>1, <4>2 DEF Made
      <4> QED BY <2>1, <4>3
    <3>2. CASE m = 0
      BY <1>2, <2>0, <2>5, <3>2 DEF Made
    <3> QED BY <3>1, <3>2
  <2>6. CASE p.type \in {3, 4, 5}
    <3>1. CASE IF p.type = 3 THEN m % 3 = 2 ELSE m > 1
      <4>1. m \in 1..m /\ m - 1 \in 1..m /\ 1 \in 1..m
        BY <3>1
      <4>2. PICK a \in Vertex : a = Tint(p, IF p.type = 5 THEN w[1] ELSE w[m - 1], x)
        BY <1>1, <1>3, <4>1
      <4>3. PICK b \in Vertex : b = Tint(p, w[m], x)
        BY <1>1, <1>3, <4>1
      <4>4. Made(p, w, x) = <<a, b, x>>
        <5>1. CASE p.type = 3
          BY <1>2, <3>1, <4>2, <4>3, <5>1 DEF Made
        <5>2. CASE p.type = 4
          BY <1>2, <3>1, <4>2, <4>3, <5>2 DEF Made
        <5>3. CASE p.type = 5
          BY <1>2, <3>1, <4>2, <4>3, <5>3 DEF Made
        <5> QED BY <2>6, <5>1, <5>2, <5>3
      <4> QED BY <2>2, <4>4
    <3>2. CASE ~(IF p.type = 3 THEN m % 3 = 2 ELSE m > 1)
      <4>1. Made(p, w, x) = <<>>
        <5>1. CASE p.type = 3
          BY <1>2, <3>2, <5>1 DEF Made
        <5>2. CASE p.type = 4
          BY <1>2, <3>2, <5>2 DEF Made
        <5>3. CASE p.type = 5
          BY <1>2, <3>2, <5>3 DEF Made
        <5> QED BY <2>6, <5>1, <5>2, <5>3
      <4> QED BY <2>0, <4>1
    <3> QED BY <3>1, <3>2
  <2> QED BY <2>0, <2>3, <2>4, <2>5, <2>6
<1>5. p.type \in 0..7
  BY DEF Gif!Prim
<1>6. PICK r : r = [type |-> p.type, vs |-> Made(p, w, x)]
  OBVIOUS
<1>7. r \in Drawing
  BY <1>4, <1>5, <1>6 DEF Drawing
<1>8. <<r>> \in Seq(Drawing) /\ <<>> \in Seq(Drawing)
  BY <1>7
<1> QED BY <1>4, <1>6, <1>8 DEF MadeOf

LEMMA ExpectedIs ==
  ASSUME NEW L \in Seq(Entry), NEW n \in 1..Len(L)
  PROVE  /\ ExpectedIn(L, n) =
              IF L[n].what = "xyz"
              THEN MadeOf(PrimIn(L, n), VerticesOf(L, KicksIn(L, n, n - 1)), VertexIn(L, n)) ELSE <<>>
         /\ ExpectedIn(L, n) \in Seq(Drawing)
<1>1. n \in Nat /\ n - 1 \in Nat /\ n > n - 1 /\ n \in 1..(Len(L) + 1) /\ Len(L) \in Nat /\ L[n] \in Entry
  OBVIOUS
<1>2. PICK S : S = KicksIn(L, n, n - 1)
  OBVIOUS
<1>3. S \in SUBSET (1..(n - 1)) /\ S \in SUBSET (1..Len(L))
  <2>1. S \in SUBSET (1..(n - 1))
    BY <1>1, <1>2, KicksType
  <2> QED BY <1>1, <2>1
<1>4. PICK w : w = VerticesOf(L, S)
  OBVIOUS
<1>5. PICK x : x = VertexIn(L, n)
  OBVIOUS
<1>6. w \in Seq(Vertex)
  BY <1>3, <1>4, VerticesType
<1>7. x \in Vertex /\ PrimIn(L, n) \in Gif!Prim
  <2>1. L[n].at \in Nat /\ ColourIn(L, n) \in Nat /\ QIn(L, n) \in Nat \cup {Gif!One} /\ PrimIn(L, n) \in Gif!Prim
    BY <1>1, EntryIs, SaidType
  <2> QED BY <1>5, <2>1 DEF VertexIn, Vertex
<1>8. CASE L[n].what = "xyz"
  <2>1. KicksIn(L, n, n) = S \cup {n}
    <3>1. PICK p : p = LastIn(L, n, {"prim"}) /\ p \in Nat /\ p < n
      BY <1>1, LastType
    <3>2. KicksIn(L, n, n) = {j \in (p + 1)..n : L[j].what \in {"xyz", "xyz3"}}
      BY <3>1 DEF KicksIn
    <3>3. S = {j \in (p + 1)..(n - 1) : L[j].what \in {"xyz", "xyz3"}}
      BY <1>2, <3>1 DEF KicksIn
    <3> QED BY <1>1, <1>8, <3>1, <3>2, <3>3
  <2>2. VerticesOf(L, S \cup {n}) = Append(w, x)
    <3>1. PICK m \in Nat : m = n - 1
      BY <1>1
    <3>2. S \in SUBSET (1..m) /\ n > m /\ n \in Nat
      BY <1>1, <1>3, <3>1
    <3>3. VerticesOf(L, S \cup {n}) = Append(VerticesOf(L, S), VertexIn(L, n))
      BY ONLY <3>1, <3>2, VerticesMore
    <3> QED BY <1>4, <1>5, <3>3
  <2>3. Gif!Formed(PrimIn(L, n), Append(w, x)) = MadeOf(PrimIn(L, n), w, x)
    BY <1>6, <1>7, FormedIs
  <2>4. ExpectedIn(L, n) = MadeOf(PrimIn(L, n), w, x)
    BY <1>8, <2>1, <2>2, <2>3 DEF ExpectedIn
  <2>5. MadeOf(PrimIn(L, n), w, x) \in Seq(Drawing)
    BY <1>6, <1>7, MadeType
  <2> QED BY <1>2, <1>4, <1>5, <1>8, <2>4, <2>5
<1>9. CASE L[n].what # "xyz"
  BY <1>9 DEF ExpectedIn
<1> QED BY <1>8, <1>9

LEMMA DrawnNew ==
  ASSUME NEW L \in Seq(Entry), NEW e \in Entry, NEW M, M = Append(L, e), NEW n, n = Len(L) + 1
  PROVE  FlattenSeq(AllExpected(M)) =
           FlattenSeq(AllExpected(L)) \o
             (IF e.what = "xyz"
              THEN MadeOf(PrimIn(L, n), Waiting(L), [at |-> e.at, col |-> ColourIn(L, n), q |-> QIn(L, n)])
              ELSE <<>>)
<1>1. n \in Nat /\ n # 0 /\ M[n] = e /\ Agree(L, M, n - 1) /\ Len(M) = n /\ Len(L) = n - 1 /\ n - 1 \in Nat
      /\ n \in 1..Len(M) /\ M \in Seq(Entry) /\ n <= (n - 1) + 1 /\ (n - 1) + 1 = n
  <2>1. M \in Seq(Entry) /\ Len(M) = Len(L) + 1 /\ Len(L) \in Nat /\ M[Len(L) + 1] = e
        /\ Agree(L, M, Len(L))
    BY LogMore
  <2>2. n - 1 = Len(L)
    BY <2>1
  <2> QED BY <2>1, <2>2
<1>2. PICK a : a = AllExpected(L)
  OBVIOUS
<1>3. PICK b : b = AllExpected(M)
  OBVIOUS
<1>4. PICK x : x = ExpectedIn(M, n)
  OBVIOUS
<1>5. a \in Seq(Seq(Drawing)) /\ x \in Seq(Drawing)
  <2>1. \A i \in 1..Len(L) : ExpectedIn(L, i) \in Seq(Drawing)
    BY ExpectedIs
  <2>2. Len(L) \in Nat
    OBVIOUS
  <2>3. [i \in 1..Len(L) |-> ExpectedIn(L, i)] \in Seq(Seq(Drawing))
    BY <2>1, <2>2
  <2>4. x \in Seq(Drawing)
    BY ONLY <1>1, <1>4, ExpectedIs
  <2> QED BY <1>2, <2>3, <2>4 DEF AllExpected
<1>6. PICK m \in Nat : m = n - 1
  BY <1>1
<1>7. b = Append(a, x)
  <2>1. a = [i \in 1..m |-> ExpectedIn(L, i)] /\ b = [i \in 1..(m + 1) |-> ExpectedIn(M, i)]
    BY <1>1, <1>2, <1>3, <1>6 DEF AllExpected
  <2>2. \A i \in 1..m : ExpectedIn(M, i) = ExpectedIn(L, i)
    <3>1. Agree(L, M, m)
      BY <1>1, <1>6
    <3> QED BY <3>1, ExpectedSame
  <2>3. \A i \in 1..m : i \in 1..(m + 1)
    OBVIOUS
  <2>4. a = [i \in 1..m |-> a[i]] /\ b = [i \in 1..(m + 1) |-> b[i]]
    BY ONLY <2>1
  <2>5. \A i \in 1..m : b[i] = a[i]
    BY ONLY <2>1, <2>2, <2>3
  <2>6. b = Append(a, b[m + 1])
    BY ONLY <2>4, <2>5, m \in Nat, AppendIs
  <2>7. b[m + 1] = x
    <3>1. m + 1 = n /\ m + 1 \in 1..(m + 1)
      BY <1>1, <1>6
    <3> QED BY <1>4, <2>1, <3>1
  <2> QED BY <2>6, <2>7
<1>8. FlattenSeq(b) = FlattenSeq(a) \o x
  BY <1>5, <1>7, FlattenAppend
<1>9. x = IF e.what = "xyz"
          THEN MadeOf(PrimIn(L, n), Waiting(L), [at |-> e.at, col |-> ColourIn(L, n), q |-> QIn(L, n)]) ELSE <<>>
  <2>1. x = IF e.what = "xyz"
            THEN MadeOf(PrimIn(M, n), VerticesOf(M, KicksIn(M, n, n - 1)), VertexIn(M, n)) ELSE <<>>
    BY <1>1, <1>4, ExpectedIs
  <2>2. VertexIn(M, n) = [at |-> e.at, col |-> ColourIn(L, n), q |-> QIn(L, n)] /\ PrimIn(M, n) = PrimIn(L, n)
    BY <1>1, RegistersSame DEF VertexIn
  <2>3. PICK S : S = KicksIn(L, n, n - 1)
    OBVIOUS
  <2>4. S = KicksIn(M, n, n - 1) /\ S \in SUBSET (1..(n - 1))
    BY <1>1, <2>3, KicksSame, KicksType
  <2>5. VerticesOf(L, S) = VerticesOf(M, S)
    BY <1>1, <2>4, VerticesSame
  <2>6. Waiting(L) = VerticesOf(L, S)
    BY <1>1, <2>3 DEF Waiting
  <2> QED BY <2>1, <2>2, <2>4, <2>5, <2>6
<1> QED BY <1>2, <1>3, <1>8, <1>9
-----------------------------------------------------------------------------
(* The GIF after an entry                                                    *)

(* All of AsLog but the image.                                               *)
AsDrawn(g, L) == Registers(g, L) /\ Assembled(g, Waiting(L)) /\ DrawnIs(g, L)

LEMMA LogHolds ==
  ASSUME NEW g, NEW L
  PROVE  AsLog(g, L) <=> AsDrawn(g, L) /\ ImageIs(g, L)
  BY DEF AsLog, AsDrawn

LEMMA WaitingType ==
  ASSUME NEW L \in Seq(Entry)
  PROVE  Waiting(L) \in Seq(Vertex)
<1>1. Len(L) \in Nat /\ Len(L) + 1 \in Nat
  OBVIOUS
<1>2. KicksIn(L, Len(L) + 1, Len(L)) \in SUBSET (1..Len(L))
  BY <1>1, KicksType
<1> QED BY <1>2, VerticesType DEF Waiting

(* A state that an entry other than a kick or PRIM leaves has the same       *)
(* assembly.                                                                 *)
LEMMA AssembledSame ==
  ASSUME NEW g, NEW h, NEW w, Assembled(g, w), h.prim = g.prim, h.v = g.v, h.count = g.count, h.first = g.first
  PROVE  Assembled(h, w)
  BY DEF Assembled

LEMMA RegistersAre ==
  ASSUME NEW L \in Seq(Entry), NEW e \in Entry, NEW M, M = Append(L, e), NEW g, Registers(g, L),
         NEW h, h.prim = IF e.what = "prim" THEN e.val.prim ELSE g.prim,
         h.col = IF e.what \in {"rgbaq", "packed_rgbaq"} THEN e.at ELSE g.col,
         h.q = IF e.what = "rgbaq" THEN e.at ELSE IF e.what = "packed_rgbaq" THEN g.packedQ ELSE g.q,
         h.packedQ = IF e.what = "tag" THEN Gif!One ELSE IF e.what = "packed_st" THEN e.at ELSE g.packedQ
  PROVE  Registers(h, M)
<1>1. PICK n \in Nat : n = Len(L) + 1
  <2>1. Len(L) + 1 \in Nat
    OBVIOUS
  <2> QED BY <2>1
<1>2. Len(M) = n
  BY <1>1, LogMore
<1>3. SaysNow(L, M, e, n)
  <2>1. n = Len(L) + 1
    BY <1>1
  <2> QED BY ONLY L \in Seq(Entry), e \in Entry, M = Append(L, e), <2>1, RegistersNew
<1>4. g.prim = PrimIn(L, n) /\ g.col = ColourIn(L, n) /\ g.q = QIn(L, n) /\ g.packedQ = PackedQIn(L, n)
  BY <1>1 DEF Registers
<1>5. h.prim = PrimIn(M, n + 1) /\ h.col = ColourIn(M, n + 1)
  BY <1>3, <1>4 DEF SaysNow
<1>6. h.q = QIn(M, n + 1)
  BY <1>3, <1>4 DEF SaysNow
<1>7. h.packedQ = PackedQIn(M, n + 1)
  BY <1>3, <1>4 DEF SaysNow
<1> QED BY <1>2, <1>5, <1>6, <1>7 DEF Registers

(* What an entry e, the last of M, has made of g, the image aside.           *)
DrawsOn(g, M, e, h) ==
  /\ h \in GifState /\ h.pending = g.pending /\ AsDrawn(h, M)
  /\ e.what # "trxreg" => h.trx = g.trx
  /\ e.what # "trxdir" => h.dir = g.dir /\ h.moved = g.moved /\ h.image = g.image

LEMMA EffectDraws ==
  ASSUME NEW g \in GifState, NEW L \in Seq(Entry), AsDrawn(g, L), NEW e \in Entry, NEW M, M = Append(L, e),
         NEW h, h = Effect(g, e)
  PROVE  DrawsOn(g, M, e, h)
<1>1. PICK n \in Nat : n = Len(L) + 1
  <2>1. Len(L) + 1 \in Nat
    OBVIOUS
  <2> QED BY <2>1
<1>2. PICK w : w = Waiting(L)
  OBVIOUS
<1>3. w \in Seq(Vertex) /\ Assembled(g, w) /\ Registers(g, L) /\ g.drawn = FlattenSeq(AllExpected(L))
      /\ e.at \in Nat /\ e.what \in Whats
  BY <1>2, WaitingType, EntryIs DEF AsDrawn, DrawnIs
<1>4. g.prim = PrimIn(L, n) /\ g.col = ColourIn(L, n) /\ g.q = QIn(L, n) /\ g.packedQ = PackedQIn(L, n)
  BY <1>1, <1>3 DEF Registers
<1>5. PICK x : x = [at |-> e.at, col |-> g.col, q |-> g.q]
  OBVIOUS
<1>6. Waiting(M) = IF e.what = "prim" THEN <<>>
                   ELSE IF e.what \in {"xyz", "xyz3"} THEN Append(w, x) ELSE w
  <2>1. n = Len(L) + 1
    BY <1>1
  <2>2. WaitsNow(L, M, e, n)
    BY ONLY L \in Seq(Entry), e \in Entry, M = Append(L, e), <2>1, WaitingNew
  <2> QED BY <1>2, <1>4, <1>5, <2>2 DEF WaitsNow
<1>7. FlattenSeq(AllExpected(M)) = IF e.what = "xyz" THEN g.drawn \o MadeOf(g.prim, w, x) ELSE g.drawn
  <2>1. n = Len(L) + 1
    BY <1>1
  <2>2. FlattenSeq(AllExpected(M)) =
           FlattenSeq(AllExpected(L)) \o
             (IF e.what = "xyz"
              THEN MadeOf(PrimIn(L, n), Waiting(L), [at |-> e.at, col |-> ColourIn(L, n), q |-> QIn(L, n)])
              ELSE <<>>)
    BY ONLY L \in Seq(Entry), e \in Entry, M = Append(L, e), <2>1, DrawnNew
  <2>3. g.drawn \in Seq(Drawing)
    BY DEF GifState
  <2>4. g.drawn \o <<>> = g.drawn
    BY <2>3
  <2> QED BY <1>2, <1>3, <1>4, <1>5, <2>2, <2>4
<1>8. SUFFICES /\ h \in GifState /\ h.pending = g.pending /\ Registers(h, M) /\ Assembled(h, Waiting(M))
               /\ h.drawn = FlattenSeq(AllExpected(M))
               /\ e.what # "trxreg" => h.trx = g.trx
               /\ e.what # "trxdir" => h.dir = g.dir /\ h.moved = g.moved /\ h.image = g.image
  BY DEF AsDrawn, DrawnIs, DrawsOn
<1>9. CASE e.what \in {"xyz", "xyz3"}
  <2>1. PICK draw \in BOOLEAN : draw = (e.what = "xyz")
    OBVIOUS
  <2>2. h = Gif!Emit(g, e.at, draw)
    <3>1. CASE e.what = "xyz"
      BY <2>1, <3>1 DEF Effect
    <3>2. CASE e.what = "xyz3"
      <4>1. draw = FALSE
        BY <2>1, <3>2
      <4> QED BY <3>2, <4>1 DEF Effect
    <3> QED BY <1>9, <3>1, <3>2
  <2>3. /\ x \in Vertex /\ h \in GifState /\ Unmoved(h, g) /\ Assembled(h, Append(w, x))
        /\ h.drawn = With(g, w, x, draw)
    BY <1>3, <1>5, <2>2, EmitIs
  <2>4. Registers(h, M)
    <3>1. h.prim = g.prim /\ h.col = g.col /\ h.q = g.q /\ h.packedQ = g.packedQ
      BY <2>3 DEF Unmoved
    <3> QED BY <1>3, <1>9, <3>1, RegistersAre
  <2>5. h.drawn = FlattenSeq(AllExpected(M))
    <3>1. g.drawn \in Seq(Drawing)
      BY DEF GifState
    <3>2. g.drawn \o <<>> = g.drawn
      BY <3>1
    <3> QED BY <1>7, <1>9, <2>1, <2>3, <3>2 DEF With
  <2> QED BY <1>6, <1>9, <2>3, <2>4, <2>5 DEF Unmoved
<1>10. CASE e.what = "prim"
  <2>0. PICK p \in Gif!Prim : p = e.val.prim
    BY <1>10, EntryIs
  <2>1. h = [g EXCEPT !.prim = p, !.count = 0, !.v = <<>>, !.first = <<>>]
    BY <1>10, <2>0 DEF Effect, Gif!SetPrim
  <2>2. /\ h \in GifState /\ h.prim = p /\ h.count = 0 /\ h.v = <<>> /\ h.first = <<>>
        /\ h.pending = g.pending /\ h.col = g.col /\ h.q = g.q /\ h.packedQ = g.packedQ /\ h.drawn = g.drawn
        /\ h.trx = g.trx /\ h.dir = g.dir /\ h.moved = g.moved /\ h.image = g.image
    <3>2. PICK none : none = <<>>
      OBVIOUS
    <3>4. none \in Seq(Vertex)
      BY <3>2
    <3>5. PICK b : b = [g EXCEPT !.prim = p, !.count = 0]
      OBVIOUS
    <3>6. b \in GifState
      BY <3>5 DEF GifState
    <3>7. h = [b EXCEPT !.v = none, !.first = none]
      BY <2>1, <3>2, <3>5 DEF GifState
    <3>1. h \in GifState
      BY ONLY <3>4, <3>6, <3>7 DEF GifState
    <3> QED BY <2>1, <3>1 DEF GifState
  <2>3. Registers(h, M)
    <3>1. h.prim = IF e.what = "prim" THEN e.val.prim ELSE g.prim
      BY <1>10, <2>0, <2>2
    <3>2. h.col = IF e.what \in {"rgbaq", "packed_rgbaq"} THEN e.at ELSE g.col
      BY <1>10, <2>2
    <3>3. h.q = IF e.what = "rgbaq" THEN e.at ELSE IF e.what = "packed_rgbaq" THEN g.packedQ ELSE g.q
      BY <1>10, <2>2
    <3>4. h.packedQ = IF e.what = "tag" THEN Gif!One ELSE IF e.what = "packed_st" THEN e.at ELSE g.packedQ
      BY <1>10, <2>2
    <3> QED BY <1>3, <3>1, <3>2, <3>3, <3>4, RegistersAre
  <2>4. Assembled(h, <<>>)
    <3>1. PICK none : none = <<>> /\ Len(none) = 0
      OBVIOUS
    <3>2. Kept(h.prim.type, none) = <<>>
      <4>1. h.prim.type \in 0..7
        BY <2>2 DEF GifState, Gif!Prim
      <4>2. 0 % 2 = 0 /\ 0 % 3 = 0
        OBVIOUS
      <4> QED BY <3>1, <4>1, <4>2 DEF Kept
    <3>3. 0 % 2 # 1 /\ Len(<<>>) = 0
      OBVIOUS
    <3> QED BY <2>2, <3>1, <3>2, <3>3 DEF Assembled
  <2> QED BY <1>6, <1>7, <1>10, <2>2, <2>3, <2>4
<1>11. CASE e.what \notin {"prim", "xyz", "xyz3"}
  <2>1. SUFFICES /\ h \in GifState /\ h.pending = g.pending /\ h.prim = g.prim /\ h.v = g.v /\ h.count = g.count
                 /\ h.first = g.first /\ h.drawn = g.drawn
                 /\ h.col = IF e.what \in {"rgbaq", "packed_rgbaq"} THEN e.at ELSE g.col
                 /\ h.q = IF e.what = "rgbaq" THEN e.at ELSE IF e.what = "packed_rgbaq" THEN g.packedQ ELSE g.q
                 /\ h.packedQ = IF e.what = "tag" THEN Gif!One ELSE IF e.what = "packed_st" THEN e.at ELSE g.packedQ
                 /\ e.what # "trxreg" => h.trx = g.trx
                 /\ e.what # "trxdir" => h.dir = g.dir /\ h.moved = g.moved /\ h.image = g.image
    <3>1. Registers(h, M)
      <4>1. h.prim = IF e.what = "prim" THEN e.val.prim ELSE g.prim
        BY <1>11, <2>1
      <4> QED BY <1>3, <2>1, <4>1, RegistersAre
    <3>2. Assembled(h, w)
      BY <1>3, <2>1, AssembledSame
    <3> QED BY <1>6, <1>7, <1>11, <2>1, <3>1, <3>2
  <2>2. CASE e.what = "tag"
    <3>1. h = [g EXCEPT !.packedQ = Gif!One]
      BY <2>2 DEF Effect
    <3> QED BY <2>2, <3>1 DEF GifState
  <2>3. CASE e.what = "rgbaq"
    <3>1. h = [g EXCEPT !.col = e.at, !.q = e.at]
      BY <2>3 DEF Effect
    <3> QED BY <1>3, <2>3, <3>1 DEF GifState
  <2>4. CASE e.what = "packed_rgbaq"
    <3>1. h = [g EXCEPT !.col = e.at, !.q = g.packedQ]
      BY <2>4 DEF Effect
    <3> QED BY <1>3, <2>4, <3>1 DEF GifState
  <2>5. CASE e.what = "packed_st"
    <3>1. h = [g EXCEPT !.packedQ = e.at]
      BY <2>5 DEF Effect
    <3> QED BY <1>3, <2>5, <3>1 DEF GifState
  <2>6. CASE e.what = "trxreg"
    <3>1. PICK t : t = [total |-> e.val.total, size |-> e.val.size]
      OBVIOUS
    <3>2. h = [g EXCEPT !.trx = t]
      BY <2>6, <3>1 DEF Effect
    <3>3. t \in [total : Nat, size : {0, 1, 2}]
      BY <2>6, <3>1, EntryIs DEF Gif!Value
    <3> QED BY <2>6, <3>2, <3>3 DEF GifState
  <2>7. CASE e.what = "trxdir"
    <3>0. PICK dir \in {0, 1} : dir = e.val.dir
      BY <2>7, EntryIs DEF Gif!Value
    <3>1. h = [g EXCEPT !.dir = dir, !.moved = 0, !.image = <<>>]
      BY <2>7, <3>0 DEF Effect
    <3>2. PICK none : none = <<>>
      OBVIOUS
    <3>4. none \in Seq(Pixel)
      BY <3>2
    <3>5. PICK b : b = [g EXCEPT !.dir = dir, !.moved = 0]
      OBVIOUS
    <3>6. b \in GifState
      BY <3>5 DEF GifState
    <3>7. h = [b EXCEPT !.image = none]
      BY <3>1, <3>2, <3>5 DEF GifState
    <3>3. h \in GifState
      BY ONLY <3>4, <3>6, <3>7 DEF GifState
    <3> QED BY <2>7, <3>1, <3>3 DEF GifState
  <2>8. CASE e.what \notin {"tag", "rgbaq", "packed_rgbaq", "packed_st", "trxreg", "trxdir"}
    <3>1. h = g
      BY <1>11, <2>8 DEF Effect
    <3> QED BY <1>11, <2>8, <3>1
  <2> QED BY <2>2, <2>3, <2>4, <2>5, <2>6, <2>7, <2>8
<1> QED BY <1>9, <1>10, <1>11

LEMMA EffectLogged ==
  ASSUME NEW g \in GifState, NEW L \in Seq(Entry), AsLog(g, L), NEW e \in Entry, e.what # "pixels",
         NEW M, M = Append(L, e), NEW h, h = Effect(g, e)
  PROVE  h \in GifState /\ h.pending = g.pending /\ AsLog(h, M)
<1>1. AsDrawn(g, L) /\ ImageIs(g, L)
  BY LogHolds
<1>2. /\ h \in GifState /\ h.pending = g.pending /\ AsDrawn(h, M)
      /\ e.what # "trxreg" => h.trx = g.trx
      /\ e.what # "trxdir" => h.dir = g.dir /\ h.moved = g.moved /\ h.image = g.image
  <2>1. DrawsOn(g, M, e, h)
    BY <1>1, EffectDraws
  <2> QED BY <2>1 DEF DrawsOn
<1>3. CASE e.what = "trxreg"
  <2>1. h = [g EXCEPT !.trx = [total |-> e.val.total, size |-> e.val.size]]
    BY <1>3 DEF Effect
  <2>2. ImageIs(h, M)
    BY <1>1, <1>3, <2>1, ImageSetUp
  <2> QED BY <1>2, <2>2, LogHolds
<1>4. CASE e.what = "trxdir"
  <2>1. h = [g EXCEPT !.dir = e.val.dir, !.moved = 0, !.image = <<>>]
    BY <1>4 DEF Effect
  <2>2. ImageIs(h, M)
    BY <1>1, <1>4, <2>1, ImageSetUp
  <2> QED BY <1>2, <2>2, LogHolds
<1>5. CASE e.what \notin {"trxreg", "trxdir"}
  <2>1. M \in Seq(Entry) /\ Len(M) = Len(L) + 1 /\ Len(L) \in Nat /\ M[Len(L) + 1] = e /\ Agree(L, M, Len(L))
    BY LogMore
  <2>2. ASSUME NEW j \in (Len(L) + 1)..Len(M) PROVE M[j] = e
    <3>1. j = Len(L) + 1
      BY <2>1
    <3> QED BY <2>1, <3>1
  <2>3. Quiet(L, M)
    BY <1>5, <2>1, <2>2 DEF Quiet
  <2>4. \A j \in (Len(L) + 1)..Len(M) : M[j].what # "pixels"
    BY <2>2
  <2>5. ImageIs(h, M)
    BY <1>1, <1>2, <1>5, <2>3, <2>4, ImageStays
  <2> QED BY <1>2, <2>5, LogHolds
<1> QED BY <1>3, <1>4, <1>5
-----------------------------------------------------------------------------
(* The GIF: the entries of a tag, one after the other                        *)

LEMMA UptoNext ==
  ASSUME NEW X, NEW L \in Seq(X), NEW E \in Seq(X), NEW k \in Nat, k < Len(E)
  PROVE  /\ L \o SubSeq(E, 1, k + 1) = Append(L \o SubSeq(E, 1, k), E[k + 1])
         /\ L \o SubSeq(E, 1, k) \in Seq(X) /\ E[k + 1] \in X
<1>1. k + 1 \in 1..Len(E) /\ k \in 0..Len(E) /\ E[k + 1] \in X
  OBVIOUS
<1>2. PICK a : a = SubSeq(E, 1, k)
  OBVIOUS
<1>3. PICK b : b = SubSeq(E, 1, k + 1)
  OBVIOUS
<1>4. a \in Seq(X) /\ Len(a) = k /\ \A i \in 1..k : a[i] = E[i]
  BY <1>1, <1>2
<1>5. b \in Seq(X) /\ Len(b) = k + 1 /\ \A i \in 1..(k + 1) : b[i] = E[i]
  BY <1>1, <1>3
<1>6. PICK e : e = E[k + 1]
  OBVIOUS
<1>7. e \in X /\ b[k + 1] = e
  <2>1. k + 1 \in 1..(k + 1)
    OBVIOUS
  <2> QED BY <1>1, <1>5, <1>6, <2>1
<1>8. b = Append(a, e)
  <2>1. \A i \in 1..(k + 1) : b[i] = Append(a, e)[i]
    <3> SUFFICES ASSUME NEW i \in 1..(k + 1) PROVE b[i] = Append(a, e)[i]
      OBVIOUS
    <3>1. CASE i = k + 1
      BY <1>4, <1>7, <3>1
    <3>2. CASE i \in 1..k
      BY <1>4, <1>5, <1>7, <3>2
    <3>3. i = k + 1 \/ i \in 1..k
      BY ONLY k \in Nat, i \in 1..(k + 1)
    <3> QED BY <3>1, <3>2, <3>3
  <2>2. Append(a, e) \in Seq(X) /\ Len(Append(a, e)) = k + 1
    BY <1>4, <1>7
  <2> QED BY <1>5, <2>1, <2>2, SeqEqual
<1>9. L \o Append(a, e) = Append(L \o a, e)
  BY <1>4, <1>7
<1>10. L \o a \in Seq(X)
  <2>1. a \in Seq(X)
    BY <1>4
  <2> QED BY ONLY L \in Seq(X), <2>1
<1>11. L \o b = Append(L \o a, e)
  BY ONLY <1>8, <1>9
<1> QED BY ONLY <1>2, <1>3, <1>6, <1>7, <1>10, <1>11

LEMMA UptoEnds ==
  ASSUME NEW X, NEW L \in Seq(X), NEW E \in Seq(X)
  PROVE  L \o SubSeq(E, 1, 0) = L /\ SubSeq(E, 1, Len(E)) = E
<1>1. SubSeq(E, 1, 0) = <<>>
  OBVIOUS
<1>2. SubSeq(E, 1, Len(E)) = E
  OBVIOUS
<1> QED BY <1>1, <1>2

LEMMA EntriesLogged ==
  ASSUME NEW g \in GifState, NEW L \in Seq(Entry), AsLog(g, L), NEW E \in Seq(Entry),
         \A i \in 1..Len(E) : E[i].what # "pixels", NEW f, f[0] = g,
         \A i \in 1..Len(E) : f[i] = Effect(f[i - 1], E[i])
  PROVE  LET h == f[Len(E)] IN h \in GifState /\ h.pending = g.pending /\ AsLog(h, L \o E)
<1> DEFINE P(k) == f[k] \in GifState /\ f[k].pending = g.pending /\ AsLog(f[k], L \o SubSeq(E, 1, k))
           T == {k \in Nat : k <= Len(E) => P(k)}
<1>0. Len(E) \in Nat
  OBVIOUS
<1>1. \A k \in Nat : k \in T <=> (k <= Len(E) => P(k))
  OBVIOUS
<1>2. P(0)
  <2>1. L \o SubSeq(E, 1, 0) = L
    BY UptoEnds
  <2> QED BY <2>1
<1>3. ASSUME NEW k \in Nat, k < Len(E), P(k) PROVE P(k + 1)
  <2>1. PICK M : M = L \o SubSeq(E, 1, k)
    OBVIOUS
  <2>2. PICK e : e = E[k + 1]
    OBVIOUS
  <2>3. L \o SubSeq(E, 1, k + 1) = Append(M, e) /\ M \in Seq(Entry) /\ e \in Entry
    BY <1>3, <2>1, <2>2, UptoNext
  <2>4. k + 1 \in 1..Len(E) /\ (k + 1) - 1 = k
    BY <1>3
  <2>5. e.what # "pixels" /\ f[k + 1] = Effect(f[k], e)
    BY <2>2, <2>4
  <2>6. PICK p : p = f[k]
    OBVIOUS
  <2>7. p \in GifState /\ AsLog(p, M) /\ p.pending = g.pending
    BY <1>3, <2>1, <2>6
  <2>8. PICK h : h = Effect(p, e)
    OBVIOUS
  <2>9. PICK N : N = Append(M, e)
    OBVIOUS
  <2>10. h \in GifState /\ h.pending = p.pending /\ AsLog(h, N)
    BY ONLY <2>3, <2>5, <2>7, <2>8, <2>9, EffectLogged
  <2> QED BY <2>3, <2>5, <2>6, <2>7, <2>8, <2>9, <2>10
<1> HIDE DEF T, P
<1>4. 0 \in T
  BY <1>1, <1>2
<1>5. ASSUME NEW k \in Nat, k \in T PROVE k + 1 \in T
  <2>1. k + 1 \in Nat /\ (k + 1 <= Len(E) => k < Len(E) /\ k <= Len(E))
    BY <1>0
  <2> QED BY <1>1, <1>3, <1>5, <2>1
<1>6. Nat \subseteq T
  BY <1>4, <1>5, Induction
<1>7. P(Len(E))
  BY <1>0, <1>1, <1>6
<1>8. SubSeq(E, 1, Len(E)) = E
  BY UptoEnds
<1> QED BY <1>7, <1>8 DEF P

(* Marks of image data leave all but the image.                              *)
LEMMA MarksLogged ==
  ASSUME NEW g \in GifState, NEW L \in Seq(Entry), AsDrawn(g, L), NEW E \in Seq(Entry),
         \A i \in 1..Len(E) : E[i].what = "pixels"
  PROVE  AsDrawn(g, L \o E)
<1> DEFINE P(k) == AsDrawn(g, L \o SubSeq(E, 1, k))
           T == {k \in Nat : k <= Len(E) => P(k)}
<1>0. Len(E) \in Nat
  OBVIOUS
<1>1. \A k \in Nat : k \in T <=> (k <= Len(E) => P(k))
  OBVIOUS
<1>2. P(0)
  <2>1. L \o SubSeq(E, 1, 0) = L
    BY UptoEnds
  <2> QED BY <2>1
<1>3. ASSUME NEW k \in Nat, k < Len(E), P(k) PROVE P(k + 1)
  <2>1. PICK M : M = L \o SubSeq(E, 1, k)
    OBVIOUS
  <2>2. PICK e : e = E[k + 1]
    OBVIOUS
  <2>3. L \o SubSeq(E, 1, k + 1) = Append(M, e) /\ M \in Seq(Entry) /\ e \in Entry
    BY <1>3, <2>1, <2>2, UptoNext
  <2>4. k + 1 \in 1..Len(E)
    BY <1>3
  <2>5. e.what = "pixels"
    BY <2>2, <2>4
  <2>6. g = Effect(g, e)
    BY <2>5 DEF Effect
  <2>7. AsDrawn(g, M)
    BY <1>3, <2>1
  <2>8. PICK N : N = Append(M, e)
    OBVIOUS
  <2>9. DrawsOn(g, N, e, g)
    BY ONLY g \in GifState, <2>3, <2>6, <2>7, <2>8, EffectDraws
  <2> QED BY <2>3, <2>8, <2>9 DEF DrawsOn
<1> HIDE DEF T, P
<1>4. 0 \in T
  BY <1>1, <1>2
<1>5. ASSUME NEW k \in Nat, k \in T PROVE k + 1 \in T
  <2>1. k + 1 \in Nat /\ (k + 1 <= Len(E) => k < Len(E) /\ k <= Len(E))
    BY <1>0
  <2> QED BY <1>1, <1>3, <1>5, <2>1
<1>6. Nat \subseteq T
  BY <1>4, <1>5, Induction
<1>7. P(Len(E))
  BY <1>0, <1>1, <1>6
<1>8. SubSeq(E, 1, Len(E)) = E
  BY UptoEnds
<1> QED BY <1>7, <1>8 DEF P

-----------------------------------------------------------------------------
(* The GIF: what a slot of a tag does is what its entry says                 *)

LEMMA MarkIs ==
  ASSUME NEW x \in Datum, NEW w \in Whats
  PROVE  /\ Gif!Mark(w, x) \in Entry /\ Gif!Mark(w, x).what = w
         /\ Gif!Mark(w, x).at = x.at /\ Gif!Mark(w, x).val = x.val
<1>1. x.at \in Nat /\ x.val \in Gif!Value
  BY DEF Datum
<1>2. Gif!Mark(w, x) = [what |-> w, at |-> x.at, val |-> x.val]
  BY DEF Gif!Mark
<1>3. Gif!Mark(w, x) \in [what : Whats, at : Nat, val : Gif!Value]
  BY <1>1, <1>2
<1> QED BY <1>2, <1>3 DEF Entry

LEMMA RegisterIs ==
  ASSUME NEW g, NEW x \in Datum,
         NEW w \in {"prim", "rgbaq", "st", "xyz", "xyz3", "trxreg", "trxdir", "other", "nop"}
  PROVE  Gif!WriteRegister(g, w, x) = Effect(g, Gif!Mark(w, x))
<1>1. Gif!Mark(w, x).what = w /\ Gif!Mark(w, x).at = x.at /\ Gif!Mark(w, x).val = x.val
  BY DEF Gif!Mark
<1>2. CASE w = "prim"
  BY <1>1, <1>2 DEF Gif!WriteRegister, Effect
<1>3. CASE w = "rgbaq"
  BY <1>1, <1>3 DEF Gif!WriteRegister, Effect
<1>4. CASE w = "xyz"
  BY <1>1, <1>4 DEF Gif!WriteRegister, Effect
<1>5. CASE w = "xyz3"
  BY <1>1, <1>5 DEF Gif!WriteRegister, Effect
<1>6. CASE w = "trxreg"
  BY <1>1, <1>6 DEF Gif!WriteRegister, Effect
<1>7. CASE w = "trxdir"
  BY <1>1, <1>7 DEF Gif!WriteRegister, Effect
<1>8. CASE w \in {"st", "other", "nop"}
  BY <1>1, <1>8 DEF Gif!WriteRegister, Effect
<1> QED BY <1>2, <1>3, <1>4, <1>5, <1>6, <1>7, <1>8

LEMMA SlotIs ==
  ASSUME NEW g, NEW t \in Gif!Tag, t.fmt # "image", NEW slot \in Gif!Slot, NEW x \in Datum
  PROVE  /\ Gif!WriteSlot(t, g, slot, x) = Effect(g, Gif!Means(t, slot, x))
         /\ Gif!Means(t, slot, x) \in Entry /\ Gif!Means(t, slot, x).what # "pixels"
<1>1. t.fmt = "packed" \/ t.fmt = "reglist"
  BY DEF Gif!Tag
<1>2. x.val.ad \in {"prim", "rgbaq", "st", "xyz", "xyz3", "trxreg", "trxdir", "other"} /\ x.val.adc \in BOOLEAN
  BY DEF Datum, Gif!Value
<1>3. \A w \in Whats \ {"pixels"} : Gif!Mark(w, x) \in Entry /\ Gif!Mark(w, x).what # "pixels"
  BY MarkIs
<1>4. CASE t.fmt = "packed"
  <2>1. Gif!WriteSlot(t, g, slot, x) = Gif!Packed(g, slot, x)
    BY <1>4 DEF Gif!WriteSlot
  <2>2. CASE slot = "ad"
    <3>1. Gif!Packed(g, slot, x) = Gif!WriteRegister(g, x.val.ad, x)
      BY <2>2 DEF Gif!Packed
    <3>2. Gif!Means(t, slot, x) = Gif!Mark(x.val.ad, x)
      BY <1>4, <2>2 DEF Gif!Means
    <3>3. x.val.ad \in Whats \ {"pixels"}
      BY <1>2 DEF Whats
    <3> QED BY <1>2, <1>3, <2>1, <3>1, <3>2, <3>3, RegisterIs
  <2>3. CASE slot = "rgbaq"
    <3>1. Gif!Means(t, slot, x) = Gif!Mark("packed_rgbaq", x)
      BY <1>4, <2>3 DEF Gif!Means
    <3>2. Gif!Packed(g, slot, x) = Effect(g, Gif!Mark("packed_rgbaq", x))
      BY <2>3 DEF Gif!Packed, Effect, Gif!Mark
    <3>3. "packed_rgbaq" \in Whats \ {"pixels"}
      BY DEF Whats
    <3> QED BY <1>3, <2>1, <3>1, <3>2, <3>3
  <2>4. CASE slot = "st"
    <3>1. Gif!Means(t, slot, x) = Gif!Mark("packed_st", x)
      BY <1>4, <2>4 DEF Gif!Means
    <3>2. Gif!Packed(g, slot, x) = Effect(g, Gif!Mark("packed_st", x))
      BY <2>4 DEF Gif!Packed, Effect, Gif!Mark
    <3>3. "packed_st" \in Whats \ {"pixels"}
      BY DEF Whats
    <3> QED BY <1>3, <2>1, <3>1, <3>2, <3>3
  <2>5. CASE slot = "xyz"
    <3>1. PICK w : w = IF x.val.adc THEN "xyz3" ELSE "xyz"
      OBVIOUS
    <3>2. Gif!Means(t, slot, x) = Gif!Mark(w, x)
      BY <1>4, <2>5, <3>1 DEF Gif!Means
    <3>3. Gif!Packed(g, slot, x) = Effect(g, Gif!Mark(w, x))
      <4>1. CASE x.val.adc
        <5>1. ~x.val.adc = FALSE
          BY <4>1
        <5> QED BY <2>5, <3>1, <4>1, <5>1 DEF Gif!Packed, Effect, Gif!Mark
      <4>2. CASE ~x.val.adc
        <5>1. ~x.val.adc = TRUE
          BY <4>2
        <5> QED BY <2>5, <3>1, <4>2, <5>1 DEF Gif!Packed, Effect, Gif!Mark
      <4> QED BY <4>1, <4>2
    <3>4. w \in Whats \ {"pixels"}
      BY <3>1 DEF Whats
    <3> QED BY <1>3, <2>1, <3>2, <3>3, <3>4
  <2>6. CASE slot \in {"prim", "xyz3", "nop"}
    <3>1. Gif!Packed(g, slot, x) = Gif!WriteRegister(g, slot, x)
      BY <2>6 DEF Gif!Packed
    <3>2. Gif!Means(t, slot, x) = Gif!Mark(slot, x)
      BY <1>4, <2>6 DEF Gif!Means
    <3>3. slot \in Whats \ {"pixels"}
      BY <2>6 DEF Whats
    <3> QED BY <1>3, <2>1, <2>6, <3>1, <3>2, <3>3, RegisterIs
  <2> QED BY <2>2, <2>3, <2>4, <2>5, <2>6 DEF Gif!Slot
<1>5. CASE t.fmt = "reglist"
  <2>1. Gif!WriteSlot(t, g, slot, x) = Gif!Reglist(g, slot, x)
    BY <1>5 DEF Gif!WriteSlot
  <2>2. CASE slot \in {"ad", "nop", "st"}
    <3>1. Gif!Reglist(g, slot, x) = g
      BY <2>2 DEF Gif!Reglist, Gif!WriteRegister
    <3>2. Gif!Means(t, slot, x) = Gif!Mark("nothing", x)
      BY <1>5, <2>2 DEF Gif!Means
    <3>3. Effect(g, Gif!Mark("nothing", x)) = g
      BY DEF Effect, Gif!Mark
    <3>4. "nothing" \in Whats \ {"pixels"}
      BY DEF Whats
    <3> QED BY <1>3, <2>1, <3>1, <3>2, <3>3, <3>4
  <2>3. CASE slot \in {"prim", "rgbaq", "xyz", "xyz3"}
    <3>1. Gif!Reglist(g, slot, x) = Gif!WriteRegister(g, slot, x)
      BY <2>3 DEF Gif!Reglist
    <3>2. Gif!Means(t, slot, x) = Gif!Mark(slot, x)
      BY <1>5, <2>3 DEF Gif!Means
    <3>3. slot \in Whats \ {"pixels"}
      BY <2>3 DEF Whats
    <3> QED BY <1>3, <2>1, <2>3, <3>1, <3>2, <3>3, RegisterIs
  <2> QED BY <2>2, <2>3 DEF Gif!Slot
<1> QED BY <1>1, <1>4, <1>5
-----------------------------------------------------------------------------
(* The GIF: the payload of a tag                                             *)

LEMMA FlattenLength ==
  ASSUME NEW X, NEW s \in Seq(Seq(X)), NEW two \in BOOLEAN,
         \A i \in 1..Len(s) : Len(s[i]) = IF two THEN 2 ELSE 1
  PROVE  Len(FlattenSeq(s)) = IF two THEN 2 * Len(s) ELSE Len(s)
<1> DEFINE P(k) == Len(FlattenSeq(SubSeq(s, 1, k))) = IF two THEN 2 * k ELSE k
           T == {k \in Nat : k <= Len(s) => P(k)}
<1>0. Len(s) \in Nat
  OBVIOUS
<1>1. \A k \in Nat : k \in T <=> (k <= Len(s) => P(k))
  OBVIOUS
<1>2. P(0)
  <2>1. SubSeq(s, 1, 0) = <<>>
    OBVIOUS
  <2>2. FlattenSeq(SubSeq(s, 1, 0)) = <<>>
    BY <2>1, FlattenEmpty
  <2>3. Len(FlattenSeq(SubSeq(s, 1, 0))) = 0
    BY <2>2
  <2> QED BY <2>3
<1>3. ASSUME NEW k \in Nat, k < Len(s), P(k) PROVE P(k + 1)
  <2>1. PICK none \in Seq(Seq(X)) : none = <<>>
    <3>1. <<>> \in Seq(Seq(X))
      OBVIOUS
    <3> QED BY <3>1
  <2>2. none \o SubSeq(s, 1, k + 1) = Append(none \o SubSeq(s, 1, k), s[k + 1]) /\ s[k + 1] \in Seq(X)
    BY <1>3, <2>1, UptoNext
  <2>3. SubSeq(s, 1, k) \in Seq(Seq(X)) /\ SubSeq(s, 1, k + 1) \in Seq(Seq(X))
    BY <1>0, <1>3
  <2>4. SubSeq(s, 1, k + 1) = Append(SubSeq(s, 1, k), s[k + 1])
    BY <2>1, <2>2, <2>3
  <2>5. PICK a : a = SubSeq(s, 1, k)
    OBVIOUS
  <2>6. PICK e : e = s[k + 1]
    OBVIOUS
  <2>7. a \in Seq(Seq(X)) /\ e \in Seq(X) /\ Len(e) = IF two THEN 2 ELSE 1
    <3>1. k + 1 \in 1..Len(s)
      BY <1>0, <1>3
    <3> QED BY <2>2, <2>3, <2>5, <2>6, <3>1
  <2>8. FlattenSeq(Append(a, e)) = FlattenSeq(a) \o e /\ FlattenSeq(a) \in Seq(X)
    BY <2>7, FlattenAppend, FlattenType
  <2>9. Len(FlattenSeq(a) \o e) = Len(FlattenSeq(a)) + Len(e)
    <3>1. PICK b \in Seq(X) : b = FlattenSeq(a)
      BY <2>8
    <3>2. e \in Seq(X)
      BY <2>7
    <3>3. Len(b \o e) = Len(b) + Len(e)
      BY ONLY b \in Seq(X), <3>2
    <3> QED BY <3>1, <3>3
  <2>10. Len(FlattenSeq(a)) = IF two THEN 2 * k ELSE k
    BY <1>3, <2>5
  <2>11. Len(FlattenSeq(SubSeq(s, 1, k + 1))) = Len(FlattenSeq(a)) + Len(e)
    BY <2>4, <2>5, <2>6, <2>8, <2>9
  <2> QED BY <2>7, <2>10, <2>11
<1> HIDE DEF T, P
<1>4. 0 \in T
  BY <1>1, <1>2
<1>5. ASSUME NEW k \in Nat, k \in T PROVE k + 1 \in T
  <2>1. k + 1 \in Nat /\ (k + 1 <= Len(s) => k < Len(s) /\ k <= Len(s))
    BY <1>0
  <2> QED BY <1>1, <1>3, <1>5, <2>1
<1>6. Nat \subseteq T
  BY <1>4, <1>5, Induction
<1>7. P(Len(s))
  BY <1>0, <1>1, <1>6
<1>8. SubSeq(s, 1, Len(s)) = s
  BY UptoEnds
<1> QED BY <1>7, <1>8 DEF P

LEMMA SlotsType ==
  ASSUME NEW t \in Gif!Tag
  PROVE  /\ Len(Gif!Slots(t)) \in Nat
         /\ t.fmt # "image" => Gif!Slots(t) \in Seq(Gif!Slot)
         /\ t.loops = 0 => Len(Gif!Slots(t)) = 0
<1>1. t.loops \in Nat /\ t.regs \in Seq(Gif!Slot)
  BY DEF Gif!Tag
<1>2. CASE t.fmt = "image"
  BY <1>1, <1>2 DEF Gif!Slots
<1>3. CASE t.fmt # "image"
  <2>1. PICK s : s = [i \in 1..t.loops |-> t.regs]
    OBVIOUS
  <2>2. s \in Seq(Seq(Gif!Slot)) /\ Len(s) = t.loops
    BY <1>1, <2>1
  <2>3. Gif!Slots(t) = FlattenSeq(s)
    BY <1>3, <2>1, GifSequences DEF Gif!Slots
  <2>4. FlattenSeq(s) \in Seq(Gif!Slot)
    BY <2>2, FlattenType
  <2>5. t.loops = 0 => FlattenSeq(s) = <<>>
    <3>1. t.loops = 0 => s = <<>>
      BY <2>2
    <3> QED BY <3>1, FlattenEmpty
  <2> QED BY <1>3, <2>3, <2>4, <2>5
<1> QED BY <1>2, <1>3

LEMMA PayloadIs ==
  ASSUME NEW t \in Gif!Tag
  PROVE  /\ Gif!Payload(t) \in Nat
         /\ Gif!PerQword(t) = IF t.fmt = "reglist" THEN 2 ELSE 1
         /\ (IF t.fmt = "reglist" THEN 2 * Gif!Payload(t) ELSE Gif!Payload(t)) >= Len(Gif!Slots(t))
<1>1. PICK n \in Nat : n = Len(Gif!Slots(t))
  BY SlotsType
<1>2. CASE t.fmt = "reglist"
  <2>1. Gif!Payload(t) = (n + 2 - 1) \div 2 /\ Gif!PerQword(t) = 2
    BY <1>1, <1>2 DEF Gif!Payload, Gif!PerQword
  <2>2. (n + 2 - 1) \div 2 \in Nat /\ 2 * ((n + 2 - 1) \div 2) >= n
    BY ONLY n \in Nat
  <2> QED BY <1>1, <1>2, <2>1, <2>2
<1>3. CASE t.fmt # "reglist"
  <2>1. Gif!Payload(t) = (n + 1 - 1) \div 1 /\ Gif!PerQword(t) = 1
    BY <1>1, <1>3 DEF Gif!Payload, Gif!PerQword
  <2>2. (n + 1 - 1) \div 1 = n
    BY ONLY n \in Nat
  <2> QED BY <1>1, <1>3, <2>1, <2>2
<1> QED BY <1>2, <1>3

LEMMA ValuesType ==
  ASSUME NEW a \in Group, Full(a), FilledUp(a)
  PROVE  Gif!Values(a.tag, a.data) \in Seq(Datum) /\ Len(Gif!Values(a.tag, a.data)) = Len(Gif!Slots(a.tag))
<1>1. a.tag \in Gif!Tag /\ a.data \in Seq(Seq(Datum))
  BY DEF Group
<1>2. PICK s : s = a.data
  OBVIOUS
<1>3. PICK t : t = a.tag
  OBVIOUS
<1>4. PICK two \in BOOLEAN : two = (t.fmt = "reglist")
  OBVIOUS
<1>5. t \in Gif!Tag /\ s \in Seq(Seq(Datum)) /\ Len(s) = Gif!Payload(t)
  BY <1>1, <1>2, <1>3 DEF Full
<1>6. \A i \in 1..Len(s) : Len(s[i]) = IF two THEN 2 ELSE 1
  BY <1>2, <1>3, <1>4, <1>5, PayloadIs DEF FilledUp
<1>7. PICK all : all = FlattenSeq(s)
  OBVIOUS
<1>8. all \in Seq(Datum) /\ Len(all) = IF two THEN 2 * Len(s) ELSE Len(s)
  BY <1>5, <1>6, <1>7, FlattenType, FlattenLength
<1>9. PICK n \in Nat : n = Len(Gif!Slots(t))
  BY <1>5, SlotsType
<1>10. n <= Len(all)
  BY <1>4, <1>5, <1>8, <1>9, PayloadIs
<1>11. SubSeq(all, 1, n) \in Seq(Datum) /\ Len(SubSeq(all, 1, n)) = n
  BY <1>8, <1>10
<1>12. Gif!Values(t, s) = SubSeq(all, 1, n)
  BY <1>7, <1>9, GifSequences DEF Gif!Values
<1> QED BY <1>2, <1>3, <1>9, <1>11, <1>12

-----------------------------------------------------------------------------
(* The GIF: a tag is processed as its log says                               *)

TagMark(what, t) == Gif!Mark(what, [at |-> 0, val |-> [prim |-> t.prim]])
TagHead(t) == (IF t.loops # 0 THEN <<TagMark("tag", t)>> ELSE <<>>)
              \o (IF t.fmt = "packed" /\ t.loops # 0 /\ t.pre THEN <<TagMark("prim", t)>> ELSE <<>>)
TagBody(t, xs) == [i \in DOMAIN xs |-> Gif!Means(t, Gif!Slots(t)[i], xs[i])]

LEMMA TagMarkIs ==
  ASSUME NEW t \in Gif!Tag, NEW w \in {"tag", "prim"}
  PROVE  TagMark(w, t) \in Entry /\ TagMark(w, t).what = w /\ TagMark(w, t).val.prim = t.prim
<1>1. TagMark(w, t) = [what |-> w, at |-> 0, val |-> [prim |-> t.prim]]
  BY DEF TagMark, Gif!Mark
<1>2. t.prim \in Gif!Prim
  BY DEF Gif!Tag
<1>3. TagMark(w, t) \in [what : {"tag", "prim"}, at : Nat, val : [prim : Gif!Prim]]
  BY <1>1, <1>2
<1> QED BY <1>1, <1>3 DEF Entry

LEMMA TagLogged ==
  ASSUME NEW g \in GifState, NEW L \in Seq(Entry), AsLog(g, L), NEW t \in Gif!Tag, NEW h, h = Gif!TagStart(g, t)
  PROVE  h \in GifState /\ h.pending = g.pending /\ AsLog(h, L \o TagHead(t)) /\ TagHead(t) \in Seq(Entry)
<1>1. PICK a : a = TagMark("tag", t)
  OBVIOUS
<1>2. PICK b : b = TagMark("prim", t)
  OBVIOUS
<1>3. a \in Entry /\ b \in Entry /\ a.what = "tag" /\ b.what = "prim" /\ b.val.prim = t.prim
  BY <1>1, <1>2, TagMarkIs
<1>4. PICK pre : pre = (t.fmt = "packed" /\ t.loops # 0 /\ t.pre)
  OBVIOUS
<1>5. CASE t.loops = 0
  <2>1. h = g /\ TagHead(t) = <<>> \o <<>>
    BY <1>5 DEF Gif!TagStart, TagHead
  <2>2. <<>> \o <<>> = <<>> /\ L \o <<>> = L /\ <<>> \in Seq(Entry)
    OBVIOUS
  <2> QED BY <2>1, <2>2
<1>6. CASE t.loops # 0
  <2>1. PICK r : r = [g EXCEPT !.packedQ = Gif!One]
    OBVIOUS
  <2>2. r = Effect(g, a)
    BY <1>3, <2>1 DEF Effect
  <2>3. PICK M : M = Append(L, a)
    OBVIOUS
  <2>4. r \in GifState /\ r.pending = g.pending /\ AsLog(r, M)
    <3>1. a.what # "pixels"
      BY <1>3
    <3> QED BY <1>3, <2>2, <2>3, <3>1, EffectLogged
  <2>5. M \in Seq(Entry) /\ M = L \o <<a>>
    BY <1>3, <2>3
  <2>6. CASE pre
    <3>1. h = Gif!SetPrim(r, t.prim) /\ TagHead(t) = <<a>> \o <<b>>
      BY <1>1, <1>2, <1>4, <1>6, <2>1, <2>6 DEF Gif!TagStart, TagHead
    <3>2. h = Effect(r, b)
      BY <1>3, <3>1 DEF Effect
    <3>3. PICK N : N = Append(M, b)
      OBVIOUS
    <3>4. h \in GifState /\ h.pending = r.pending /\ AsLog(h, N)
      <4>1. b.what # "pixels"
        BY <1>3
      <4>2. r \in GifState /\ AsLog(r, M) /\ M \in Seq(Entry) /\ b \in Entry
        BY <1>3, <2>4, <2>5
      <4> QED BY ONLY <3>2, <3>3, <4>1, <4>2, EffectLogged
    <3>5. N = L \o (<<a>> \o <<b>>) /\ <<a>> \o <<b>> \in Seq(Entry)
      <4>1. PICK p \in Seq(Entry), q \in Seq(Entry) : p = <<a>> /\ q = <<b>>
        <5>1. <<a>> \in Seq(Entry) /\ <<b>> \in Seq(Entry)
          BY <1>3
        <5> QED BY <5>1
      <4>2. (L \o p) \o q = L \o (p \o q) /\ p \o q \in Seq(Entry)
        BY ONLY L \in Seq(Entry), p \in Seq(Entry), q \in Seq(Entry), ConcatAssociative, ConcatProperties
      <4>3. N = M \o <<b>>
        BY <1>3, <2>5, <3>3
      <4> QED BY <2>5, <4>1, <4>2, <4>3
    <3> QED BY <2>4, <3>1, <3>4, <3>5
  <2>7. CASE ~pre
    <3>1. h = r /\ TagHead(t) = <<a>> \o <<>>
      BY <1>1, <1>4, <1>6, <2>1, <2>7 DEF Gif!TagStart, TagHead
    <3>2. <<a>> \o <<>> = <<a>> /\ <<a>> \in Seq(Entry)
      BY <1>3
    <3> QED BY <2>4, <2>5, <3>1, <3>2
  <2>8. pre \in BOOLEAN
    BY <1>4
  <2> QED BY <2>6, <2>7, <2>8
<1> QED BY <1>5, <1>6

-----------------------------------------------------------------------------
(* The GIF: a tag with its payload                                           *)

(* A turn of either recursion: of a tag's slots, or of a packet's tags.      *)
TurnOf(a, i, v) == IF a.slots THEN Gif!WriteSlot(a.tag, v, Gif!Slots(a.tag)[i], a.xs[i]) ELSE Gif!TakeTag(v)
Turns(f, a, g, n) == f = [i \in 0..n |-> IF i = 0 THEN g ELSE TurnOf(a, i, f[i - 1])]

LEMMA TurnsExist ==
  ASSUME NEW a, NEW g, NEW n \in Nat
  PROVE  \E f : Turns(f, a, g, n)
<1> DEFINE T == {k \in Nat : \E f : Turns(f, a, g, k)}
<1>1. \A k \in Nat : k \in T <=> \E f : Turns(f, a, g, k)
  BY Zenon
<1> HIDE DEF T
<1>2. 0 \in T
  <2> DEFINE f == [i \in 0..0 |-> g]
  <2>1. Turns(f, a, g, 0)
    BY DEF Turns
  <2> HIDE DEF f
  <2>2. \E h : Turns(h, a, g, 0)
    BY <2>1, Zenon
  <2> QED BY <1>1, <2>2
<1>3. ASSUME NEW k \in Nat, k \in T PROVE k + 1 \in T
  <2>0. k + 1 \in Nat /\ k + 1 \in 0..(k + 1)
    OBVIOUS
  <2>1. PICK f : Turns(f, a, g, k)
    BY <1>1, <1>3, Zenon
  <2>2. \A i \in 0..k : f[i] = IF i = 0 THEN g ELSE TurnOf(a, i, f[i - 1])
    BY <2>1 DEF Turns
  <2> DEFINE v == TurnOf(a, k + 1, f[k])
             h == [i \in 0..(k + 1) |-> IF i = k + 1 THEN v ELSE f[i]]
  <2>3. h[k + 1] = v /\ (\A i \in 0..k : h[i] = f[i]) /\ h = [i \in 0..(k + 1) |-> h[i]]
    <3> HIDE DEF v
    <3> QED BY <2>0
  <2> HIDE DEF h
  <2>4. \A i \in 0..(k + 1) : h[i] = IF i = 0 THEN g ELSE TurnOf(a, i, h[i - 1])
    <3> SUFFICES ASSUME NEW i \in 0..(k + 1) PROVE h[i] = IF i = 0 THEN g ELSE TurnOf(a, i, h[i - 1])
      OBVIOUS
    <3>1. CASE i = k + 1
      <4>1. i # 0 /\ i - 1 = k /\ k \in 0..k
        BY <3>1
      <4>2. h[i - 1] = f[k]
        BY <2>3, <4>1
      <4>3. h[i] = v
        BY <2>3, <3>1
      <4> QED BY <3>1, <4>1, <4>2, <4>3 DEF v
    <3>2. CASE i # k + 1
      <4>1. i \in 0..k
        BY <3>2
      <4>2. CASE i = 0
        <5>1. h[0] = f[0] /\ f[0] = g
          BY <2>2, <2>3, <4>1, <4>2
        <5> QED BY <4>2, <5>1
      <4>3. CASE i # 0
        <5>1. i - 1 \in 0..k
          BY <4>1, <4>3
        <5>2. h[i] = f[i] /\ h[i - 1] = f[i - 1]
          BY <2>3, <4>1, <5>1
        <5> QED BY <2>2, <4>1, <4>3, <5>2
      <4> QED BY <4>2, <4>3
    <3> QED BY <3>1, <3>2
  <2>5. Turns(h, a, g, k + 1)
    BY <2>3, <2>4 DEF Turns
  <2> QED BY <1>1, <2>0, <2>5, Zenon
<1>4. n \in T
  BY <1>2, <1>3, Induction
<1> QED BY <1>1, <1>4

LEMMA TurnsAre ==
  ASSUME NEW a, NEW g, NEW n \in Nat, NEW f, Turns(f, a, g, n)
  PROVE  f[0] = g /\ \A i \in 1..n : f[i] = TurnOf(a, i, f[i - 1])
  BY DEF Turns

(* The registers that the slots of a tag write.                              *)
LEMMA SlotsLogged ==
  ASSUME NEW g \in GifState, NEW L \in Seq(Entry), AsLog(g, L), NEW t \in Gif!Tag, t.fmt # "image",
         NEW xs \in Seq(Datum), Len(xs) = Len(Gif!Slots(t)), NEW f,
         Turns(f, [slots |-> TRUE, tag |-> t, xs |-> xs], g, Len(xs)),
         NEW E, E = TagBody(t, xs)
  PROVE  /\ E \in Seq(Entry) /\ f[Len(xs)] \in GifState /\ f[Len(xs)].pending = g.pending
         /\ AsLog(f[Len(xs)], L \o E)
<1>1. PICK n \in Nat : n = Len(xs)
  OBVIOUS
<1>2. Gif!Slots(t) \in Seq(Gif!Slot) /\ Len(Gif!Slots(t)) = n
  BY <1>1, SlotsType
<1>3. \A i \in 1..n : xs[i] \in Datum /\ Gif!Slots(t)[i] \in Gif!Slot
  BY <1>1, <1>2
<1>4. DOMAIN xs = 1..n
  BY <1>1
<1>5. E = [i \in 1..n |-> Gif!Means(t, Gif!Slots(t)[i], xs[i])]
  BY <1>4 DEF TagBody
<1>6. \A i \in 1..n : E[i] = Gif!Means(t, Gif!Slots(t)[i], xs[i]) /\ E[i] \in Entry /\ E[i].what # "pixels"
  <2>1. \A i \in 1..n : E[i] = Gif!Means(t, Gif!Slots(t)[i], xs[i])
    BY <1>5
  <2>2. \A i \in 1..n : /\ Gif!Means(t, Gif!Slots(t)[i], xs[i]) \in Entry
                        /\ Gif!Means(t, Gif!Slots(t)[i], xs[i]).what # "pixels"
    BY <1>3, SlotIs
  <2> QED BY <2>1, <2>2
<1>7. E \in Seq(Entry) /\ Len(E) = n
  <2>1. E \in [1..n -> Entry]
    <3>1. E = [i \in 1..n |-> E[i]] /\ \A i \in 1..n : E[i] \in Entry
      BY <1>5, <1>6
    <3> QED BY ONLY <3>1
  <2> QED BY ONLY n \in Nat, <2>1
<1>8. PICK a : a = [slots |-> TRUE, tag |-> t, xs |-> xs]
  OBVIOUS
<1>9. f[0] = g /\ \A i \in 1..n : f[i] = TurnOf(a, i, f[i - 1])
  <2>1. Turns(f, a, g, n)
    BY <1>1, <1>8
  <2> QED BY ONLY n \in Nat, <2>1, TurnsAre
<1>10. \A i \in 1..n : TurnOf(a, i, f[i - 1]) = Gif!WriteSlot(t, f[i - 1], Gif!Slots(t)[i], xs[i])
  BY <1>8 DEF TurnOf
<1>11. \A i \in 1..n : Gif!WriteSlot(t, f[i - 1], Gif!Slots(t)[i], xs[i])
                       = Effect(f[i - 1], Gif!Means(t, Gif!Slots(t)[i], xs[i]))
  BY <1>3, SlotIs
<1>12. \A i \in 1..Len(E) : E[i].what # "pixels" /\ f[i] = Effect(f[i - 1], E[i])
  BY <1>6, <1>7, <1>9, <1>10, <1>11
<1>13. LET h == f[Len(E)] IN h \in GifState /\ h.pending = g.pending /\ AsLog(h, L \o E)
  <2>1. f[0] = g /\ g \in GifState /\ L \in Seq(Entry) /\ AsLog(g, L)
    BY <1>9
  <2>2. E \in Seq(Entry)
    BY <1>7
  <2> QED BY ONLY <2>1, <2>2, <1>12, EntriesLogged
<1> QED BY <1>1, <1>7, <1>13

(* The pixels that the payload of an IMAGE tag moves.                        *)
LEMMA PixelsLogged ==
  ASSUME NEW g \in GifState, NEW L \in Seq(Entry), AsLog(g, L), NEW t \in Gif!Tag, t.fmt = "image",
         NEW xs \in Seq(Datum), NEW h, h = Gif!WriteImage(g, xs), NEW E, E = TagBody(t, xs)
  PROVE  E \in Seq(Entry) /\ h \in GifState /\ h.pending = g.pending /\ AsLog(h, L \o E)
<1>1. PICK n \in Nat : n = Len(xs)
  OBVIOUS
<1>2. DOMAIN xs = 1..n
  BY <1>1
<1>3. \A i \in 1..n : xs[i] \in Datum
  BY <1>1
<1>4. E = [i \in 1..n |-> Gif!Mark("pixels", xs[i])]
  <2>1. \A i \in 1..n : Gif!Means(t, Gif!Slots(t)[i], xs[i]) = Gif!Mark("pixels", xs[i])
    BY DEF Gif!Means
  <2>2. E = [i \in 1..n |-> Gif!Means(t, Gif!Slots(t)[i], xs[i])]
    BY <1>2 DEF TagBody
  <2> QED BY <2>1, <2>2
<1>5. \A i \in 1..n : E[i] = Gif!Mark("pixels", xs[i]) /\ E[i] \in Entry /\ E[i].what = "pixels"
  <2>1. "pixels" \in Whats
    BY DEF Whats
  <2>2. \A i \in 1..n : Gif!Mark("pixels", xs[i]) \in Entry /\ Gif!Mark("pixels", xs[i]).what = "pixels"
    BY <1>3, <2>1, MarkIs
  <2>3. \A i \in 1..n : E[i] = Gif!Mark("pixels", xs[i])
    BY <1>4
  <2> QED BY <2>2, <2>3
<1>6. E \in Seq(Entry) /\ Len(E) = n
  <2>1. E = [i \in 1..n |-> E[i]]
    BY <1>4
  <2> QED BY <1>5, <2>1
<1>7. PICK M : M = L \o E
  OBVIOUS
<1>8. PICK l \in Nat : l = Len(L)
  OBVIOUS
<1>9. /\ M \in Seq(Entry) /\ Len(M) = l + n /\ (\A j \in 1..l : M[j] = L[j])
      /\ \A i \in 1..n : M[l + i] = E[i]
  <2>1. E \in Seq(Entry) /\ Len(E) = n /\ L \in Seq(Entry)
    BY <1>6
  <2>2. L \o E \in Seq(Entry) /\ Len(L \o E) = Len(L) + Len(E)
    BY ONLY <2>1
  <2>3. \A j \in 1..Len(L) : (L \o E)[j] = L[j]
    BY ONLY <2>1
  <2>4. \A i \in 1..Len(E) : (L \o E)[Len(L) + i] = E[i]
    BY ONLY <2>1
  <2> QED BY ONLY <2>1, <2>2, <2>3, <2>4, <1>7, <1>8
<1>10. \A j \in (l + 1)..(l + n) : j - l \in 1..n /\ M[j] = E[j - l]
  <2> SUFFICES ASSUME NEW j \in (l + 1)..(l + n) PROVE j - l \in 1..n /\ M[j] = E[j - l]
    OBVIOUS
  <2>1. PICK i \in 1..n : i = j - l
    <3>1. j - l \in 1..n
      OBVIOUS
    <3> QED BY <3>1
  <2>2. l + i = j
    BY <2>1
  <2> QED BY <1>9, <2>1, <2>2
<1>11. \A j \in (l + 1)..(l + n) : M[j].what = "pixels"
  BY <1>5, <1>10
<1>12. Quiet(L, M)
  <2>1. Agree(L, M, l)
    BY <1>9 DEF Agree
  <2>2. \A j \in (l + 1)..(l + n) : M[j].what \notin {"trxreg", "trxdir"}
    BY <1>11
  <2>3. l <= l + n
    OBVIOUS
  <2> QED BY <1>8, <1>9, <2>1, <2>2, <2>3 DEF Quiet
<1>13. AsDrawn(g, L) /\ ImageIs(g, L)
  BY LogHolds
<1>14. h \in GifState /\ Beside(h, g) /\ ImageIs(h, M)
  <2>1. \A i \in 1..Len(xs) : M[Len(L) + i] = Gif!Mark("pixels", xs[i])
    BY <1>1, <1>5, <1>8, <1>9
  <2>2. Len(M) = Len(L) + Len(xs)
    BY <1>1, <1>8, <1>9
  <2> QED BY <1>12, <1>13, <2>1, <2>2, ImageWrites
<1>15. AsDrawn(g, M)
  <2>1. \A i \in 1..Len(E) : E[i].what = "pixels"
    BY <1>5, <1>6
  <2> QED BY <1>6, <1>7, <1>13, <2>1, MarksLogged
<1>16. AsDrawn(h, M)
  <2>1. Registers(g, M) => Registers(h, M)
    BY <1>14 DEF Registers, Beside
  <2>2. Assembled(g, Waiting(M)) => Assembled(h, Waiting(M))
    BY <1>14, AssembledSame DEF Beside
  <2>3. DrawnIs(g, M) => DrawnIs(h, M)
    BY <1>14 DEF DrawnIs, Beside
  <2> QED BY <1>15, <2>1, <2>2, <2>3 DEF AsDrawn
<1>17. h.pending = g.pending
  BY <1>14 DEF Beside
<1> QED BY <1>6, <1>7, <1>14, <1>16, <1>17, LogHolds

LEMMA LogOfIs ==
  ASSUME NEW t, NEW data
  PROVE  Gif!LogOf(t, data) = TagHead(t) \o TagBody(t, Gif!Values(t, data))
  BY DEF Gif!LogOf, TagHead, TagBody, TagMark

(* The tag of a whole group is processed as its log says.                    *)
LEMMA TagProcessed ==
  ASSUME NEW g \in GifState, NEW L \in Seq(Entry), AsLog(g, L), NEW a \in Group, Full(a), FilledUp(a),
         NEW h, h = Gif!ProcessTag(g, a.tag, a.data)
  PROVE  /\ Gif!LogOf(a.tag, a.data) \in Seq(Entry) /\ h \in GifState /\ h.pending = g.pending
         /\ AsLog(h, L \o Gif!LogOf(a.tag, a.data))
<1>1. PICK t : t = a.tag
  OBVIOUS
<1>2. t \in Gif!Tag
  BY <1>1 DEF Group
<1>3. PICK xs : xs = Gif!Values(t, a.data)
  OBVIOUS
<1>4. xs \in Seq(Datum) /\ Len(xs) = Len(Gif!Slots(t))
  BY <1>1, <1>3, ValuesType
<1>5. PICK s : s = Gif!TagStart(g, t)
  OBVIOUS
<1>6. PICK A : A = TagHead(t)
  OBVIOUS
<1>7. s \in GifState /\ s.pending = g.pending /\ AsLog(s, L \o A) /\ A \in Seq(Entry)
  BY <1>2, <1>5, <1>6, TagLogged
<1>8. PICK M \in Seq(Entry) : M = L \o A
  <2>1. L \o A \in Seq(Entry)
    BY <1>7
  <2> QED BY <2>1
<1>9. PICK E : E = TagBody(t, xs)
  OBVIOUS
<1>10. E \in Seq(Entry) /\ h \in GifState /\ h.pending = s.pending /\ AsLog(h, M \o E)
  <2>1. CASE t.fmt = "image"
    <3>1. h = Gif!WriteImage(s, xs)
      BY <1>1, <1>3, <1>5, <2>1 DEF Gif!ProcessTag
    <3>2. AsLog(s, M)
      BY <1>7, <1>8
    <3> QED BY ONLY <1>2, <1>4, <1>7, M \in Seq(Entry), <3>2, <1>9, <2>1, <3>1, PixelsLogged
  <2>2. CASE t.fmt # "image"
    <3> DEFINE Rec(f) == f = [i \in 0..Len(Gif!Slots(t)) |->
                                IF i = 0 THEN Gif!TagStart(g, t) ELSE Gif!WriteSlot(t, f[i - 1], Gif!Slots(t)[i], xs[i])]
               c == CHOOSE f : Rec(f)
    <3>1. h = c[Len(Gif!Slots(t))]
      BY <1>1, <1>3, <2>2 DEF Gif!ProcessTag
    <3>2. PICK b : b = [slots |-> TRUE, tag |-> t, xs |-> xs]
      OBVIOUS
    <3>3. b.slots = TRUE /\ b.tag = t /\ b.xs = xs
      BY <3>2
    <3>4. \A f : Rec(f) <=> Turns(f, b, s, Len(Gif!Slots(t)))
      BY <1>5, <3>3 DEF Turns, TurnOf
    <3>5. PICK f : Turns(f, b, s, Len(Gif!Slots(t)))
      <4>1. Len(Gif!Slots(t)) \in Nat
        BY <1>2, SlotsType
      <4> QED BY <4>1, TurnsExist
    <3>6. Rec(f)
      BY <3>4, <3>5
    <3>7. Rec(c)
      <4> HIDE DEF Rec
      <4> QED BY <3>6, Zenon
    <3>8. Turns(c, b, s, Len(xs))
      <4> HIDE DEF Rec, c
      <4> QED BY <1>4, <3>4, <3>7
    <3> HIDE DEF Rec, c
    <3>9. PICK d : d = c
      OBVIOUS
    <3>10. Turns(d, [slots |-> TRUE, tag |-> t, xs |-> xs], s, Len(xs))
      BY <3>2, <3>8, <3>9
    <3>11. /\ E \in Seq(Entry) /\ d[Len(xs)] \in GifState /\ d[Len(xs)].pending = s.pending
           /\ AsLog(d[Len(xs)], M \o E)
      <4>1. AsLog(s, M)
        BY <1>7, <1>8
      <4> QED BY ONLY <1>2, <1>4, <1>7, M \in Seq(Entry), <4>1, <1>9, <2>2, <3>10, SlotsLogged
    <3>12. h = d[Len(xs)]
      BY <1>4, <3>1, <3>9
    <3> QED BY <3>11, <3>12
  <2> QED BY <2>1, <2>2
<1>11. Gif!LogOf(a.tag, a.data) = A \o E
  BY <1>1, <1>3, <1>6, <1>9, LogOfIs
<1>12. A \o E \in Seq(Entry) /\ L \o (A \o E) = (L \o A) \o E
  <2>1. PICK x \in Seq(Entry) : x = L
    OBVIOUS
  <2>2. PICK y \in Seq(Entry) : y = A
    BY <1>7
  <2>3. PICK z \in Seq(Entry) : z = E
    BY <1>10
  <2>4. y \o z \in Seq(Entry)
    BY ConcatProperties
  <2>5. (x \o y) \o z = x \o (y \o z)
    BY ONLY x \in Seq(Entry), y \in Seq(Entry), z \in Seq(Entry), ConcatAssociative
  <2> QED BY <2>1, <2>2, <2>3, <2>4, <2>5
<1> QED BY <1>7, <1>8, <1>10, <1>11, <1>12

-----------------------------------------------------------------------------
(* The GIF: a turn of submit's loop                                          *)

LEMMA ConcatParts ==
  ASSUME NEW X, NEW a \in Seq(X), NEW b \in Seq(X)
  PROVE  /\ a \o b \in Seq(X) /\ Len(a \o b) = Len(a) + Len(b) /\ Len(a) \in Nat /\ Len(b) \in Nat
         /\ \A i \in 1..Len(a) : (a \o b)[i] = a[i]
         /\ \A i \in 1..Len(b) : (a \o b)[Len(a) + i] = b[i]
<1>1. a \o b \in Seq(X) /\ Len(a \o b) = Len(a) + Len(b) /\ Len(a) \in Nat /\ Len(b) \in Nat
  OBVIOUS
<1>2. \A i \in 1..Len(a) : (a \o b)[i] = a[i]
  OBVIOUS
<1>3. \A i \in 1..Len(b) : (a \o b)[Len(a) + i] = b[i]
  OBVIOUS
<1> QED BY <1>1, <1>2, <1>3

(* How a qword of a tag's payload is kept.                                   *)
DataQword(t, vals) == [tag |-> t, vals |-> vals]

LEMMA QwordsType ==
  ASSUME NEW a \in Group
  PROVE  /\ QwordsOf(a) \in Seq(Qword) /\ Len(QwordsOf(a)) = 1 + Len(a.data) /\ Len(a.data) \in Nat
         /\ QwordsOf(a)[1] = DataQword(a.tag, <<>>)
         /\ \A i \in 1..Len(a.data) : QwordsOf(a)[i + 1] = DataQword(a.tag, a.data[i])
<1>1. a.tag \in Gif!Tag /\ a.data \in Seq(Seq(Datum))
  BY DEF Group
<1>2. PICK n \in Nat : n = Len(a.data)
  BY <1>1
<1>3. PICK q : q = DataQword(a.tag, <<>>)
  OBVIOUS
<1>4. PICK s : s = [i \in 1..n |-> DataQword(a.tag, a.data[i])]
  OBVIOUS
<1>5. QwordsOf(a) = <<q>> \o s
  BY <1>2, <1>3, <1>4 DEF QwordsOf, DataQword
<1>6. q \in Qword
  <2>1. <<>> \in Seq(Datum)
    OBVIOUS
  <2> QED BY <1>1, <1>3, <2>1 DEF Qword, DataQword
<1>7. \A i \in 1..n : DataQword(a.tag, a.data[i]) \in Qword
  <2>1. \A i \in 1..n : a.data[i] \in Seq(Datum)
    BY <1>1, <1>2
  <2> QED BY <1>1, <2>1 DEF Qword, DataQword
<1>8. s \in Seq(Qword) /\ Len(s) = n
  <2>1. s \in [1..n -> Qword]
    BY <1>4, <1>7
  <2> QED BY ONLY n \in Nat, <2>1
<1>9. PICK p \in Seq(Qword) : p = <<q>>
  <2>1. <<q>> \in Seq(Qword)
    BY <1>6
  <2> QED BY <2>1
<1>10. Len(p) = 1 /\ p[1] = q
  BY <1>9
<1>11. /\ p \o s \in Seq(Qword) /\ Len(p \o s) = 1 + n /\ (p \o s)[1] = q
       /\ \A i \in 1..n : (p \o s)[i + 1] = s[i]
  <2>1. /\ p \o s \in Seq(Qword) /\ Len(p \o s) = Len(p) + Len(s)
        /\ \A i \in 1..Len(p) : (p \o s)[i] = p[i]
        /\ \A i \in 1..Len(s) : (p \o s)[Len(p) + i] = s[i]
    <3>1. s \in Seq(Qword)
      BY <1>8
    <3> QED BY ONLY p \in Seq(Qword), <3>1, ConcatParts
  <2>2. 1 \in 1..1 /\ \A i \in 1..n : i + 1 = 1 + i
    OBVIOUS
  <2>3. (p \o s)[1] = q
    BY <1>10, <2>1, <2>2
  <2>4. \A i \in 1..n : (p \o s)[i + 1] = s[i]
    BY <1>8, <1>10, <2>1, <2>2
  <2> QED BY <1>8, <1>10, <2>1, <2>3, <2>4
<1>12. \A i \in 1..n : s[i] = DataQword(a.tag, a.data[i])
  BY <1>4
<1>13. QwordsOf(a) = p \o s
  BY <1>5, <1>9
<1> QED BY <1>2, <1>3, <1>11, <1>12, <1>13

(* What AsLog says is not of the buffer.                                     *)
LEMMA PendingApart ==
  ASSUME NEW g \in GifState, NEW L, AsLog(g, L), NEW rest \in Seq(Qword), NEW h, h = [g EXCEPT !.pending = rest]
  PROVE  h \in GifState /\ h.pending = rest /\ AsLog(h, L)
<1>1. /\ h \in GifState /\ h.pending = rest /\ h.prim = g.prim /\ h.col = g.col /\ h.q = g.q
      /\ h.packedQ = g.packedQ /\ h.count = g.count /\ h.v = g.v /\ h.first = g.first /\ h.drawn = g.drawn
      /\ h.trx = g.trx /\ h.dir = g.dir /\ h.moved = g.moved /\ h.image = g.image
  BY DEF GifState
<1>2. Registers(h, L)
  BY <1>1 DEF AsLog, Registers
<1>3. Assembled(h, Waiting(L))
  BY <1>1, AssembledSame DEF AsLog
<1>4. DrawnIs(h, L)
  BY <1>1 DEF AsLog, DrawnIs
<1>5. ImageIs(h, L)
  <2>1. ImageIs(g, L)
    BY DEF AsLog
  <2>2. \A all : Moved(g, all) <=> Moved(h, all)
    BY <1>1 DEF Moved
  <2> QED BY <1>1, <2>1, <2>2 DEF ImageIs
<1> QED BY <1>1, <1>2, <1>3, <1>4, <1>5 DEF AsLog

(* A tag whose payload is in the buffer is taken off it ...                  *)
LEMMA TagTaken ==
  ASSUME NEW g \in GifState, NEW L \in Seq(Entry), AsLog(g, L), NEW a \in Group, Full(a), FilledUp(a),
         NEW rest \in Seq(Qword), g.pending = QwordsOf(a) \o rest, NEW h, h = Gif!TakeTag(g)
  PROVE  /\ Gif!LogOf(a.tag, a.data) \in Seq(Entry) /\ h \in GifState /\ h.pending = rest
         /\ AsLog(h, L \o Gif!LogOf(a.tag, a.data))
<1>1. PICK s : s = QwordsOf(a)
  OBVIOUS
<1>2. PICK k \in Nat : k = Len(a.data)
  BY QwordsType
<1>3. PICK m \in Nat : m = Len(rest)
  OBVIOUS
<1>4. /\ s \in Seq(Qword) /\ Len(s) = 1 + k /\ s[1].tag = a.tag
      /\ \A i \in 1..k : s[i + 1].vals = a.data[i]
  <2>1. DataQword(a.tag, <<>>).tag = a.tag /\ \A i \in 1..k : DataQword(a.tag, a.data[i]).vals = a.data[i]
    BY DEF DataQword
  <2> QED BY <1>1, <1>2, <2>1, QwordsType
<1>5. PICK p : p = s \o rest
  OBVIOUS
<1>6. p \in Seq(Qword) /\ Len(p) = 1 + k + m /\ \A i \in 1..(1 + k) : p[i] = s[i]
  <2>1. /\ s \o rest \in Seq(Qword) /\ Len(s \o rest) = Len(s) + Len(rest)
        /\ \A i \in 1..Len(s) : (s \o rest)[i] = s[i]
    BY <1>4, ConcatParts
  <2> QED BY <1>3, <1>4, <1>5, <2>1
<1>7. g.pending = p
  BY <1>1, <1>5
<1>8. p[1].tag = a.tag /\ Gif!Payload(a.tag) = k
  <2>1. 1 \in 1..(1 + k)
    OBVIOUS
  <2>2. Gif!Payload(a.tag) = k
    BY <1>2 DEF Full
  <2> QED BY <1>4, <1>6, <2>1, <2>2
<1>9. Gif!Complete(p)
  <2>1. p # <<>> /\ Len(p) > k
    BY <1>6
  <2> QED BY <1>8, <2>1 DEF Gif!Complete
<1>10. Min({Len(p), 1 + k}) = 1 + k
  <2>1. PICK x \in Nat : x = Len(p)
    BY <1>6
  <2>2. PICK y \in Nat : y = 1 + k
    OBVIOUS
  <2>3. y <= x
    BY <1>6, <2>1, <2>2
  <2>4. Min({x, y}) = y
    <3>1. x <= y => x = y
      BY <2>3
    <3> QED BY <3>1, MinOf
  <2> QED BY <2>1, <2>2, <2>4
<1>11. [i \in 1..((1 + k) - 1) |-> p[i + 1].vals] = a.data
  <2>1. \A i \in 1..k : i + 1 \in 1..(1 + k)
    OBVIOUS
  <2>2. \A i \in 1..k : p[i + 1].vals = a.data[i]
    BY <1>4, <1>6, <2>1
  <2>3. (1 + k) - 1 = k
    OBVIOUS
  <2>4. a.data = [i \in 1..k |-> a.data[i]]
    <3>1. a.data \in Seq(Seq(Datum))
      BY DEF Group
    <3> QED BY <1>2, <3>1
  <2>5. [i \in 1..k |-> p[i + 1].vals] = [i \in 1..k |-> a.data[i]]
    BY <2>2
  <2> QED BY <2>3, <2>4, <2>5
<1>12. SubSeq(p, (1 + k) + 1, Len(p)) = rest
  <2>1. SubSeq(s \o rest, Len(s) + 1, Len(s \o rest)) = rest
    BY ONLY <1>4, rest \in Seq(Qword), k \in Nat
  <2> QED BY <1>4, <1>5, <2>1
<1>13. PICK b : b = Gif!ProcessTag(g, a.tag, a.data)
  OBVIOUS
<1>14. h = [b EXCEPT !.pending = rest]
  <2>1. 1 + Gif!Payload(p[1].tag) = 1 + k
    BY <1>8
  <2>2. Gif!Min({Len(p), 1 + k}) = 1 + k
    BY <1>10, GifSets
  <2> QED BY <1>7, <1>8, <1>9, <1>11, <1>12, <1>13, <2>1, <2>2 DEF Gif!TakeTag
<1>15. /\ Gif!LogOf(a.tag, a.data) \in Seq(Entry) /\ b \in GifState
       /\ AsLog(b, L \o Gif!LogOf(a.tag, a.data))
  BY <1>13, TagProcessed
<1> QED BY <1>14, <1>15, PendingApart

(* ... and one that is not complete is left there.                           *)
Short(tail) == tail = <<>> \/ \E a \in Group : tail = QwordsOf(a) /\ Len(a.data) < Gif!Payload(a.tag)

LEMMA TagLeft ==
  ASSUME NEW g, Short(g.pending)
  PROVE  Gif!TakeTag(g) = g
<1>1. ~Gif!Complete(g.pending)
  <2>1. CASE g.pending = <<>>
    BY <2>1 DEF Gif!Complete
  <2>2. CASE g.pending # <<>>
    <3>1. PICK a \in Group : g.pending = QwordsOf(a) /\ Len(a.data) < Gif!Payload(a.tag)
      BY <2>2 DEF Short
    <3>2. PICK p : p = g.pending
      OBVIOUS
    <3>3. Len(p) = 1 + Len(a.data) /\ Len(a.data) \in Nat /\ p[1].tag = a.tag
      <4>1. DataQword(a.tag, <<>>).tag = a.tag
        BY DEF DataQword
      <4> QED BY <3>1, <3>2, <4>1, QwordsType
    <3>4. Gif!Payload(a.tag) \in Nat
      BY PayloadIs DEF Group
    <3>5. ~(Len(p) > Gif!Payload(p[1].tag))
      BY <3>1, <3>3, <3>4
    <3> QED BY <3>2, <3>5 DEF Gif!Complete
  <2> QED BY <2>1, <2>2
<1> QED BY <1>1 DEF Gif!TakeTag

-----------------------------------------------------------------------------
(* The GIF: a packet                                                         *)

Whole(gs) == \A i \in 1..Len(gs) : Full(gs[i]) /\ FilledUp(gs[i])
GroupLog(a) == Gif!LogOf(a.tag, a.data)
QwordsAll(gs) == FlattenSeq([i \in 1..Len(gs) |-> QwordsOf(gs[i])])
LogAll(gs) == FlattenSeq([i \in 1..Len(gs) |-> GroupLog(gs[i])])

LEMMA LogType ==
  ASSUME NEW a \in Group, Full(a), FilledUp(a)
  PROVE  GroupLog(a) \in Seq(Entry)
<1>1. PICK g : g = Gif!Reset0
  OBVIOUS
<1>2. PICK t : t = a.tag
  OBVIOUS
<1>3. PICK xs : xs = Gif!Values(t, a.data)
  OBVIOUS
<1>4. t \in Gif!Tag /\ xs \in Seq(Datum) /\ Len(xs) = Len(Gif!Slots(t))
  BY <1>2, <1>3, ValuesType DEF Group
<1>5. PICK n \in Nat : n = Len(xs)
  BY <1>4
<1>6. \A i \in 1..n : xs[i] \in Datum
  BY <1>4, <1>5
<1>7. \A i \in 1..n : Gif!Means(t, Gif!Slots(t)[i], xs[i]) \in Entry
  <2>1. CASE t.fmt = "image"
    <3>1. \A i \in 1..n : Gif!Means(t, Gif!Slots(t)[i], xs[i]) = Gif!Mark("pixels", xs[i])
      BY <2>1 DEF Gif!Means
    <3>2. "pixels" \in Whats
      BY DEF Whats
    <3> QED BY <1>6, <3>1, <3>2, MarkIs
  <2>2. CASE t.fmt # "image"
    <3>1. \A i \in 1..n : Gif!Slots(t)[i] \in Gif!Slot
      BY <1>4, <1>5, <2>2, SlotsType
    <3> QED BY <1>4, <1>6, <2>2, <3>1, SlotIs
  <2> QED BY <2>1, <2>2
<1>8. TagBody(t, xs) \in Seq(Entry)
  <2>1. TagBody(t, xs) = [i \in 1..n |-> Gif!Means(t, Gif!Slots(t)[i], xs[i])]
    <3>1. DOMAIN xs = 1..n
      BY <1>4, <1>5
    <3> QED BY <3>1 DEF TagBody
  <2>2. TagBody(t, xs) \in [1..n -> Entry]
    BY <1>7, <2>1
  <2> QED BY ONLY n \in Nat, <2>2
<1>9. TagHead(t) \in Seq(Entry)
  <2>1. TagMark("tag", t) \in Entry /\ TagMark("prim", t) \in Entry
    BY <1>4, TagMarkIs
  <2>2. <<TagMark("tag", t)>> \in Seq(Entry) /\ <<TagMark("prim", t)>> \in Seq(Entry) /\ <<>> \in Seq(Entry)
    BY <2>1
  <2>3. PICK x \in Seq(Entry) : x = IF t.loops # 0 THEN <<TagMark("tag", t)>> ELSE <<>>
    BY <2>2
  <2>4. PICK y \in Seq(Entry) :
          y = IF t.fmt = "packed" /\ t.loops # 0 /\ t.pre THEN <<TagMark("prim", t)>> ELSE <<>>
    BY <2>2
  <2>5. x \o y \in Seq(Entry)
    BY ConcatProperties
  <2> QED BY <2>3, <2>4, <2>5 DEF TagHead
<1>10. TagHead(t) \o TagBody(t, xs) \in Seq(Entry)
  BY <1>8, <1>9, ConcatProperties
<1> QED BY <1>2, <1>3, <1>10, LogOfIs DEF GroupLog

LEMMA FlattenOne ==
  ASSUME NEW X, NEW e \in Seq(X)
  PROVE  FlattenSeq(<<e>>) = e
<1>1. PICK none \in Seq(Seq(X)) : none = <<>>
  <2>1. <<>> \in Seq(Seq(X))
    OBVIOUS
  <2> QED BY <2>1
<1>2. FlattenSeq(Append(none, e)) = FlattenSeq(none) \o e
  BY FlattenAppend
<1>3. FlattenSeq(none) = <<>>
  BY <1>1, FlattenEmpty
<1>4. Append(none, e) = <<e>> /\ <<>> \o e = e
  BY <1>1
<1> QED BY <1>2, <1>3, <1>4

(* The pieces of a sequence whose first or last element is given.            *)
LEMMA PiecesAre ==
  ASSUME NEW X, NEW s \in Seq(Seq(X)), NEW e \in Seq(X), NEW t
  PROVE  /\ t = <<e>> \o s => FlattenSeq(t) = e \o FlattenSeq(s)
         /\ t = Append(s, e) => FlattenSeq(t) = FlattenSeq(s) \o e
<1>1. PICK o \in Seq(Seq(X)) : o = <<e>>
  <2>1. <<e>> \in Seq(Seq(X))
    OBVIOUS
  <2> QED BY <2>1
<1>2. FlattenSeq(o \o s) = FlattenSeq(o) \o FlattenSeq(s)
  BY FlattenConcat
<1>3. FlattenSeq(o) = e
  BY <1>1, FlattenOne
<1>4. FlattenSeq(Append(s, e)) = FlattenSeq(s) \o e
  BY FlattenAppend
<1> QED BY <1>1, <1>2, <1>3, <1>4

LEMMA GroupsType ==
  ASSUME NEW gs \in Seq(Group), Whole(gs)
  PROVE  /\ [i \in 1..Len(gs) |-> QwordsOf(gs[i])] \in Seq(Seq(Qword))
         /\ [i \in 1..Len(gs) |-> GroupLog(gs[i])] \in Seq(Seq(Entry))
         /\ QwordsAll(gs) \in Seq(Qword) /\ LogAll(gs) \in Seq(Entry)
<1>1. PICK n \in Nat : n = Len(gs)
  OBVIOUS
<1>2. \A i \in 1..n : gs[i] \in Group /\ Full(gs[i]) /\ FilledUp(gs[i])
  BY <1>1 DEF Whole
<1>3. PICK q : q = [i \in 1..n |-> QwordsOf(gs[i])]
  OBVIOUS
<1>4. PICK l : l = [i \in 1..n |-> GroupLog(gs[i])]
  OBVIOUS
<1>5. q \in [1..n -> Seq(Qword)]
  <2>1. \A i \in 1..n : QwordsOf(gs[i]) \in Seq(Qword)
    BY <1>2, QwordsType
  <2> QED BY <1>3, <2>1
<1>6. l \in [1..n -> Seq(Entry)]
  <2>1. \A i \in 1..n : GroupLog(gs[i]) \in Seq(Entry)
    BY <1>2, LogType
  <2> QED BY <1>4, <2>1
<1>7. q \in Seq(Seq(Qword)) /\ l \in Seq(Seq(Entry))
  BY ONLY <1>5, <1>6, n \in Nat
<1>8. FlattenSeq(q) \in Seq(Qword) /\ FlattenSeq(l) \in Seq(Entry)
  BY <1>7, FlattenType
<1> QED BY <1>1, <1>3, <1>4, <1>7, <1>8 DEF QwordsAll, LogAll

LEMMA GroupMore ==
  ASSUME NEW gs \in Seq(Group), Whole(gs), NEW a \in Group, Full(a), FilledUp(a), NEW hs, hs = Append(gs, a)
  PROVE  /\ hs \in Seq(Group) /\ Whole(hs) /\ QwordsAll(hs) = QwordsAll(gs) \o QwordsOf(a)
         /\ LogAll(hs) = LogAll(gs) \o GroupLog(a)
<1>1. PICK n \in Nat : n = Len(gs)
  OBVIOUS
<1>2. hs \in Seq(Group) /\ Len(hs) = n + 1 /\ hs[n + 1] = a /\ \A i \in 1..n : hs[i] = gs[i]
  BY <1>1
<1>3. \A i \in 1..(n + 1) : i = n + 1 \/ i \in 1..n
  OBVIOUS
<1>4. Whole(hs)
  BY <1>1, <1>2, <1>3 DEF Whole
<1>5. PICK q : q = [i \in 1..n |-> QwordsOf(gs[i])]
  OBVIOUS
<1>6. PICK l : l = [i \in 1..n |-> GroupLog(gs[i])]
  OBVIOUS
<1>7. q \in Seq(Seq(Qword)) /\ l \in Seq(Seq(Entry)) /\ Len(q) = n /\ Len(l) = n
  <2>1. q \in Seq(Seq(Qword)) /\ l \in Seq(Seq(Entry))
    BY <1>1, <1>5, <1>6, GroupsType
  <2>2. Len(q) = n /\ Len(l) = n
    BY <1>5, <1>6
  <2> QED BY <2>1, <2>2
<1>8. QwordsOf(a) \in Seq(Qword) /\ GroupLog(a) \in Seq(Entry)
  BY QwordsType, LogType
<1>9. [i \in 1..(n + 1) |-> QwordsOf(hs[i])] = Append(q, QwordsOf(a))
  <2>1. PICK s : s = [i \in 1..(n + 1) |-> QwordsOf(hs[i])]
    OBVIOUS
  <2>2. n + 1 \in 1..(n + 1) /\ \A i \in 1..n : i \in 1..(n + 1)
    OBVIOUS
  <2>3. s = [i \in 1..(n + 1) |-> s[i]] /\ s[n + 1] = QwordsOf(a)
    BY <1>2, <2>1, <2>2
  <2>4. \A i \in 1..n : s[i] = q[i]
    BY <1>2, <1>5, <2>1, <2>2
  <2>5. q = [i \in 1..n |-> q[i]]
    BY <1>5
  <2>6. s = [i \in 1..(n + 1) |-> s[i]]
    BY <2>3
  <2>7. s = Append(q, s[n + 1])
    BY ONLY n \in Nat, <2>4, <2>5, <2>6, AppendIs
  <2> QED BY <2>1, <2>3, <2>7
<1>10. [i \in 1..(n + 1) |-> GroupLog(hs[i])] = Append(l, GroupLog(a))
  <2>1. PICK s : s = [i \in 1..(n + 1) |-> GroupLog(hs[i])]
    OBVIOUS
  <2>2. n + 1 \in 1..(n + 1) /\ \A i \in 1..n : i \in 1..(n + 1)
    OBVIOUS
  <2>3. s = [i \in 1..(n + 1) |-> s[i]] /\ s[n + 1] = GroupLog(a)
    BY <1>2, <2>1, <2>2
  <2>4. \A i \in 1..n : s[i] = l[i]
    BY <1>2, <1>6, <2>1, <2>2
  <2>5. l = [i \in 1..n |-> l[i]]
    BY <1>6
  <2>6. s = [i \in 1..(n + 1) |-> s[i]]
    BY <2>3
  <2>7. s = Append(l, s[n + 1])
    BY ONLY n \in Nat, <2>4, <2>5, <2>6, AppendIs
  <2> QED BY <2>1, <2>3, <2>7
<1>11. FlattenSeq(Append(q, QwordsOf(a))) = FlattenSeq(q) \o QwordsOf(a)
  BY <1>7, <1>8, FlattenAppend
<1>12. FlattenSeq(Append(l, GroupLog(a))) = FlattenSeq(l) \o GroupLog(a)
  BY <1>7, <1>8, FlattenAppend
<1> QED BY <1>1, <1>2, <1>4, <1>5, <1>6, <1>9, <1>10, <1>11, <1>12 DEF QwordsAll, LogAll

LEMMA GroupFirst ==
  ASSUME NEW gs \in Seq(Group), Whole(gs), gs # <<>>
  PROVE  \E hs \in Seq(Group) :
           /\ Whole(hs) /\ gs[1] \in Group /\ Full(gs[1]) /\ FilledUp(gs[1])
           /\ QwordsAll(gs) = QwordsOf(gs[1]) \o QwordsAll(hs) /\ LogAll(gs) = GroupLog(gs[1]) \o LogAll(hs)
<1>1. PICK n \in Nat : Len(gs) = n + 1
  <2>1. Len(gs) \in Nat /\ Len(gs) # 0
    OBVIOUS
  <2>2. Len(gs) - 1 \in Nat
    BY <2>1
  <2> QED BY <2>1, <2>2
<1>2. PICK hs : hs = [i \in 1..n |-> gs[i + 1]]
  OBVIOUS
<1>3. 1 \in 1..(n + 1) /\ \A i \in 1..n : i + 1 \in 1..(n + 1)
  OBVIOUS
<1>4. \A i \in 1..(n + 1) : gs[i] \in Group /\ Full(gs[i]) /\ FilledUp(gs[i])
  BY <1>1 DEF Whole
<1>5. hs \in Seq(Group) /\ Len(hs) = n /\ \A i \in 1..n : hs[i] = gs[i + 1]
  <2>1. hs \in [1..n -> Group]
    BY <1>2, <1>3, <1>4
  <2>2. \A i \in 1..n : hs[i] = gs[i + 1]
    BY <1>2
  <2>3. hs \in Seq(Group) /\ Len(hs) = n
    BY ONLY n \in Nat, <2>1
  <2> QED BY <2>2, <2>3
<1>6. Whole(hs)
  BY <1>3, <1>4, <1>5 DEF Whole
<1>7. PICK a : a = gs[1]
  OBVIOUS
<1>8. a \in Group /\ Full(a) /\ FilledUp(a)
  BY <1>3, <1>4, <1>7
<1>9. PICK q : q = [i \in 1..n |-> QwordsOf(hs[i])]
  OBVIOUS
<1>10. PICK l : l = [i \in 1..n |-> GroupLog(hs[i])]
  OBVIOUS
<1>11. q \in Seq(Seq(Qword)) /\ l \in Seq(Seq(Entry)) /\ Len(q) = n /\ Len(l) = n
  <2>1. q \in Seq(Seq(Qword)) /\ l \in Seq(Seq(Entry))
    BY <1>5, <1>6, <1>9, <1>10, GroupsType
  <2>2. Len(q) = n /\ Len(l) = n
    BY <1>9, <1>10
  <2> QED BY <2>1, <2>2
<1>12. PICK x \in Seq(Qword) : x = QwordsOf(a)
  BY <1>8, QwordsType
<1>13. PICK y \in Seq(Entry) : y = GroupLog(a)
  BY <1>8, LogType
<1>14. PICK u \in Seq(Seq(Qword)) : u = <<x>>
  <2>1. <<x>> \in Seq(Seq(Qword))
    OBVIOUS
  <2> QED BY <2>1
<1>15. PICK v \in Seq(Seq(Entry)) : v = <<y>>
  <2>1. <<y>> \in Seq(Seq(Entry))
    OBVIOUS
  <2> QED BY <2>1
<1>16. Len(u) = 1 /\ u[1] = x /\ Len(v) = 1 /\ v[1] = y
  BY <1>14, <1>15
<1>17. \A i \in 2..(n + 1) : i - 1 \in 1..n /\ (i - 1) + 1 = i
  OBVIOUS
<1>18. \A i \in 1..(n + 1) : i = 1 \/ i \in 2..(n + 1)
  OBVIOUS
<1>19. PICK s : s = [i \in 1..(n + 1) |-> QwordsOf(gs[i])]
  OBVIOUS
<1>20. PICK t : t = [i \in 1..(n + 1) |-> GroupLog(gs[i])]
  OBVIOUS
<1>21. s \in Seq(Seq(Qword)) /\ Len(s) = n + 1 /\ t \in Seq(Seq(Entry)) /\ Len(t) = n + 1
  <2>1. s \in Seq(Seq(Qword)) /\ t \in Seq(Seq(Entry))
    BY <1>1, <1>19, <1>20, GroupsType
  <2>2. Len(s) = n + 1 /\ Len(t) = n + 1
    BY <1>19, <1>20
  <2> QED BY <2>1, <2>2
<1>22. s[1] = x /\ t[1] = y
  BY <1>3, <1>7, <1>12, <1>13, <1>19, <1>20
<1>23. \A i \in 2..(n + 1) : s[i] = q[i - 1] /\ t[i] = l[i - 1]
  <2> SUFFICES ASSUME NEW i \in 2..(n + 1) PROVE s[i] = q[i - 1] /\ t[i] = l[i - 1]
    OBVIOUS
  <2>1. PICK j \in 1..n : j = i - 1 /\ j + 1 = i
    BY <1>17
  <2>2. i \in 1..(n + 1)
    OBVIOUS
  <2>3. s[i] = QwordsOf(gs[i]) /\ t[i] = GroupLog(gs[i])
    BY <1>19, <1>20, <2>2
  <2>4. q[j] = QwordsOf(hs[j]) /\ l[j] = GroupLog(hs[j])
    BY <1>9, <1>10
  <2> QED BY <1>5, <2>1, <2>3, <2>4
<1>24. s = u \o q
  <2>1. Len(s) = Len(u) + Len(q)
    BY <1>11, <1>16, <1>21
  <2>2. \A i \in 1..Len(u) : s[i] = u[i]
    <3>1. \A i \in 1..1 : i = 1
      OBVIOUS
    <3> QED BY <1>16, <1>22, <3>1
  <2>3. \A i \in (Len(u) + 1)..(Len(u) + Len(q)) : s[i] = q[i - Len(u)]
    <3>1. Len(u) + 1 = 2 /\ Len(u) + Len(q) = n + 1
      BY <1>11, <1>16
    <3> QED BY <1>16, <1>23, <3>1
  <2>4. u \in Seq(Seq(Qword)) /\ q \in Seq(Seq(Qword)) /\ s \in Seq(Seq(Qword))
    BY <1>11, <1>21
  <2> QED BY ONLY <2>1, <2>2, <2>3, <2>4, ConcatIs
<1>25. t = v \o l
  <2>1. Len(t) = Len(v) + Len(l)
    BY <1>11, <1>16, <1>21
  <2>2. \A i \in 1..Len(v) : t[i] = v[i]
    <3>1. \A i \in 1..1 : i = 1
      OBVIOUS
    <3> QED BY <1>16, <1>22, <3>1
  <2>3. \A i \in (Len(v) + 1)..(Len(v) + Len(l)) : t[i] = l[i - Len(v)]
    <3>1. Len(v) + 1 = 2 /\ Len(v) + Len(l) = n + 1
      BY <1>11, <1>16
    <3> QED BY <1>16, <1>23, <3>1
  <2>4. v \in Seq(Seq(Entry)) /\ l \in Seq(Seq(Entry)) /\ t \in Seq(Seq(Entry))
    BY <1>11, <1>21
  <2> QED BY ONLY <2>1, <2>2, <2>3, <2>4, ConcatIs
<1>26. FlattenSeq(s) = x \o FlattenSeq(q)
  BY <1>11, <1>14, <1>24, PiecesAre
<1>27. FlattenSeq(t) = y \o FlattenSeq(l)
  BY <1>11, <1>15, <1>25, PiecesAre
<1>28. QwordsAll(gs) = FlattenSeq(s) /\ QwordsAll(hs) = FlattenSeq(q)
  BY <1>1, <1>5, <1>9, <1>19 DEF QwordsAll
<1>29. LogAll(gs) = FlattenSeq(t) /\ LogAll(hs) = FlattenSeq(l)
  BY <1>1, <1>5, <1>10, <1>20 DEF LogAll
<1> QED BY <1>5, <1>6, <1>7, <1>8, <1>12, <1>13, <1>26, <1>27, <1>28, <1>29

(* What is in the buffer: whole tags, whose log is the rest of W, and a tag  *)
(* that is not complete.                                                     *)
Holding(g, W, gs, tail, L) ==
  /\ g \in GifState /\ L \in Seq(Entry) /\ AsLog(g, L) /\ gs \in Seq(Group) /\ Whole(gs)
  /\ g.pending = QwordsAll(gs) \o tail /\ W = L \o LogAll(gs)
Held(g, W, gs, tail) == \E L : Holding(g, W, gs, tail, L)

LEMMA NoneLeft == QwordsAll(<<>>) = <<>> /\ LogAll(<<>>) = <<>> /\ Whole(<<>>)
<1>1. PICK none \in Seq(Group) : none = <<>>
  <2>1. <<>> \in Seq(Group)
    OBVIOUS
  <2> QED BY <2>1
<1>2. Len(none) = 0 /\ 1..0 = {}
  BY <1>1
<1>3. [i \in 1..Len(none) |-> QwordsOf(none[i])] = <<>> /\ [i \in 1..Len(none) |-> GroupLog(none[i])] = <<>>
  BY <1>2
<1> QED BY <1>1, <1>2, <1>3, FlattenEmpty DEF QwordsAll, LogAll, Whole

(* A turn takes the first of the whole tags, or nothing.                     *)
LEMMA TurnTakes ==
  ASSUME NEW g, NEW W, NEW gs, NEW tail \in Seq(Qword), Short(tail), Held(g, W, gs, tail), NEW h, h = Gif!TakeTag(g)
  PROVE  \/ gs = <<>> /\ h = g
         \/ \E hs : Held(h, W, hs, tail) /\ Len(h.pending) < Len(g.pending)
<1>1. PICK L : Holding(g, W, gs, tail, L)
  BY DEF Held
<1>2. /\ g \in GifState /\ L \in Seq(Entry) /\ AsLog(g, L) /\ gs \in Seq(Group) /\ Whole(gs)
      /\ g.pending = QwordsAll(gs) \o tail /\ W = L \o LogAll(gs)
  BY <1>1 DEF Holding
<1>3. CASE gs = <<>>
  <2>1. <<>> \o tail = tail
    OBVIOUS
  <2>2. g.pending = tail
    BY <1>2, <1>3, <2>1, NoneLeft
  <2> QED BY <1>3, <2>2, TagLeft
<1>4. CASE gs # <<>>
  <2>1. PICK hs \in Seq(Group) :
          /\ Whole(hs) /\ gs[1] \in Group /\ Full(gs[1]) /\ FilledUp(gs[1])
          /\ QwordsAll(gs) = QwordsOf(gs[1]) \o QwordsAll(hs) /\ LogAll(gs) = GroupLog(gs[1]) \o LogAll(hs)
    BY <1>2, <1>4, GroupFirst
  <2>2. PICK a \in Group : a = gs[1]
    BY <2>1
  <2>3. PICK x \in Seq(Qword) : x = QwordsOf(a)
    BY QwordsType
  <2>4. PICK y \in Seq(Qword) : y = QwordsAll(hs)
    BY <2>1, GroupsType
  <2>5. PICK l \in Seq(Entry) : l = GroupLog(a)
    BY <2>1, <2>2, LogType
  <2>6. PICK m \in Seq(Entry) : m = LogAll(hs)
    BY <2>1, GroupsType
  <2>7. PICK rest \in Seq(Qword) : rest = y \o tail
    <3>1. y \o tail \in Seq(Qword)
      BY ConcatProperties
    <3> QED BY <3>1
  <2>8. g.pending = x \o rest
    <3>1. (x \o y) \o tail = x \o (y \o tail)
      BY ConcatAssociative
    <3> QED BY <1>2, <2>1, <2>2, <2>3, <2>4, <2>7, <3>1
  <2>9. h \in GifState /\ h.pending = rest /\ AsLog(h, L \o l)
    <3>1. Full(a) /\ FilledUp(a) /\ g.pending = QwordsOf(a) \o rest
      BY <2>1, <2>2, <2>3, <2>8
    <3>2. g \in GifState /\ L \in Seq(Entry) /\ AsLog(g, L)
      BY <1>2
    <3>3. h \in GifState /\ h.pending = rest /\ AsLog(h, L \o Gif!LogOf(a.tag, a.data))
      BY ONLY <3>1, <3>2, a \in Group, rest \in Seq(Qword), h = Gif!TakeTag(g), TagTaken
    <3> QED BY <2>5, <3>3 DEF GroupLog
  <2>10. PICK M \in Seq(Entry) : M = L \o l
    <3>1. L \o l \in Seq(Entry)
      BY <1>2, ConcatProperties
    <3> QED BY <3>1
  <2>11. W = M \o m
    <3>1. L \in Seq(Entry)
      BY <1>2
    <3>3. PICK k \in Seq(Entry) : k = L
      BY <3>1
    <3>4. (k \o l) \o m = k \o (l \o m)
      BY ONLY k \in Seq(Entry), l \in Seq(Entry), m \in Seq(Entry), ConcatAssociative
    <3>2. (L \o l) \o m = L \o (l \o m)
      BY <3>3, <3>4
    <3> QED BY <1>2, <2>1, <2>2, <2>5, <2>6, <2>10, <3>2
  <2>12. Holding(h, W, hs, tail, M)
    BY <2>1, <2>4, <2>6, <2>7, <2>9, <2>10, <2>11 DEF Holding
  <2>13. Len(h.pending) < Len(g.pending)
    <3>1. Len(x \o rest) = Len(x) + Len(rest) /\ Len(x) \in Nat /\ Len(rest) \in Nat
      BY ConcatProperties, LenProperties
    <3>2. Len(x) = 1 + Len(a.data) /\ Len(a.data) \in Nat
      BY <2>3, QwordsType
    <3>3. Len(rest) < Len(x \o rest)
      BY <3>1, <3>2
    <3> QED BY <2>8, <2>9, <3>3
  <2>14. Held(h, W, hs, tail)
    BY <2>12 DEF Held
  <2> QED BY <2>13, <2>14
<1> QED BY <1>3, <1>4

(* submit leaves a tag that is not complete, and has done all that is before.*)
LEMMA TurnsTake ==
  ASSUME NEW W, NEW gs, NEW tail \in Seq(Qword), Short(tail), NEW f, NEW n \in Nat,
         Held(f[0], W, gs, tail), Len(f[0].pending) = n, \A i \in 1..n : f[i] = Gif!TakeTag(f[i - 1])
  PROVE  Held(f[n], W, <<>>, tail)
<1> DEFINE P(k) == \E hs : Held(f[k], W, hs, tail) /\ (hs = <<>> \/ Len(f[k].pending) <= n - k)
           T == {k \in Nat : k <= n => P(k)}
<1>1. \A k \in Nat : k \in T <=> (k <= n => P(k))
  BY Zenon
<1>2. P(0)
  <2>1. n <= n - 0
    OBVIOUS
  <2> QED BY <2>1
<1>3. \A g, hs : Held(g, W, hs, tail) => Len(g.pending) \in Nat /\ (hs # <<>> => Len(g.pending) # 0)
  <2> SUFFICES ASSUME NEW g, NEW hs, Held(g, W, hs, tail)
               PROVE  Len(g.pending) \in Nat /\ (hs # <<>> => Len(g.pending) # 0)
    OBVIOUS
  <2>1. PICK L : Holding(g, W, hs, tail, L)
    BY DEF Held
  <2>2. g \in GifState /\ hs \in Seq(Group) /\ Whole(hs) /\ g.pending = QwordsAll(hs) \o tail
    BY <2>1 DEF Holding
  <2>3. Len(g.pending) \in Nat
    BY <2>2 DEF GifState
  <2>4. ASSUME hs # <<>> PROVE Len(g.pending) # 0
    <3>1. \/ hs = <<>> /\ Gif!TakeTag(g) = g
          \/ \E is : Held(Gif!TakeTag(g), W, is, tail) /\ Len(Gif!TakeTag(g).pending) < Len(g.pending)
      BY TurnTakes
    <3>2. PICK is : Held(Gif!TakeTag(g), W, is, tail) /\ Len(Gif!TakeTag(g).pending) < Len(g.pending)
      BY <2>4, <3>1
    <3>3. PICK h : h = Gif!TakeTag(g)
      OBVIOUS
    <3>4. PICK M : Holding(h, W, is, tail, M)
      BY <3>2, <3>3 DEF Held
    <3>5. h.pending \in Seq(Qword)
      BY <3>4 DEF Holding, GifState
    <3>6. Len(h.pending) \in Nat
      BY <3>5
    <3> QED BY <2>3, <3>2, <3>3, <3>6
  <2> QED BY <2>3, <2>4
<1>4. ASSUME NEW k \in Nat, k < n, P(k) PROVE P(k + 1)
  <2>1. PICK hs : Held(f[k], W, hs, tail) /\ (hs = <<>> \/ Len(f[k].pending) <= n - k)
    BY <1>4
  <2>2. k + 1 \in 1..n /\ (k + 1) - 1 = k
    BY <1>4
  <2>3. f[k + 1] = Gif!TakeTag(f[k])
    BY <2>2
  <2>4. \/ hs = <<>> /\ f[k + 1] = f[k]
        \/ \E is : Held(f[k + 1], W, is, tail) /\ Len(f[k + 1].pending) < Len(f[k].pending)
    BY <2>1, <2>3, TurnTakes
  <2>5. CASE hs = <<>> /\ f[k + 1] = f[k]
    BY <2>1, <2>5
  <2>6. CASE hs # <<>> \/ f[k + 1] # f[k]
    <3>1. PICK is : Held(f[k + 1], W, is, tail) /\ Len(f[k + 1].pending) < Len(f[k].pending)
      BY <2>4, <2>6
    <3>2. CASE hs = <<>>
      <4>1. PICK L : Holding(f[k], W, <<>>, tail, L)
        BY <2>1, <3>2 DEF Held
      <4>2. f[k].pending = tail
        <5>1. <<>> \o tail = tail
          OBVIOUS
        <5> QED BY <4>1, <5>1, NoneLeft DEF Holding
      <4>3. Gif!TakeTag(f[k]) = f[k]
        BY <4>2, TagLeft
      <4> QED BY <2>3, <2>6, <3>2, <4>3
    <3>3. CASE hs # <<>>
      <4>1. Len(f[k].pending) <= n - k
        BY <2>1, <3>3
      <4>2. Len(f[k].pending) \in Nat /\ Len(f[k + 1].pending) \in Nat
        BY <1>3, <2>1, <3>1
      <4>3. Len(f[k + 1].pending) <= n - (k + 1)
        BY <3>1, <4>1, <4>2
      <4> QED BY <3>1, <4>3
    <3> QED BY <3>2, <3>3
  <2> QED BY <2>5, <2>6
<1> HIDE DEF T, P
<1>5. 0 \in T
  BY <1>1, <1>2
<1>6. ASSUME NEW k \in Nat, k \in T PROVE k + 1 \in T
  <2>1. k + 1 \in Nat /\ (k + 1 <= n => k < n /\ k <= n)
    OBVIOUS
  <2> QED BY <1>1, <1>4, <1>6, <2>1
<1>7. Nat \subseteq T
  BY <1>5, <1>6, Induction
<1>8. P(n)
  <2>1. n <= n
    OBVIOUS
  <2> QED BY <1>1, <1>7, <2>1
<1>9. PICK hs : Held(f[n], W, hs, tail) /\ (hs = <<>> \/ Len(f[n].pending) <= n - n)
  BY <1>8 DEF P
<1>10. hs = <<>>
  <2>1. n - n = 0
    OBVIOUS
  <2> QED BY <1>3, <1>9, <2>1
<1> QED BY <1>9, <1>10

LEMMA PacketTaken ==
  ASSUME NEW g, NEW packet, NEW W, NEW gs, NEW tail \in Seq(Qword), Short(tail), g.pending \in Seq(Qword),
         packet \in Seq(Qword), Held(Gif!Buffered(g, packet), W, gs, tail), g \in GifState, NEW h, h = Gif!SubmitPacket(g, packet)
  PROVE  Held(h, W, <<>>, tail)
<1>1. PICK n \in Nat : n = Len(g.pending) + Len(packet)
  <2>1. Len(g.pending) + Len(packet) \in Nat
    OBVIOUS
  <2> QED BY <2>1
<1>2. PICK s : s = Gif!Buffered(g, packet)
  OBVIOUS
<1>3. Len(s.pending) = n
  <2>1. s.pending = g.pending \o packet
    BY <1>2 DEF Gif!Buffered, GifState
  <2>2. Len(g.pending \o packet) = Len(g.pending) + Len(packet)
    OBVIOUS
  <2> QED BY <1>1, <2>1, <2>2
<1> DEFINE Rec(f) == f = [i \in 0..n |-> IF i = 0 THEN Gif!Buffered(g, packet) ELSE Gif!TakeTag(f[i - 1])]
           c == CHOOSE f : Rec(f)
<1>4. h = c[n]
  BY <1>1 DEF Gif!SubmitPacket
<1>5. PICK b : b = [slots |-> FALSE, tag |-> 0, xs |-> 0]
  OBVIOUS
<1>6. b.slots = FALSE
  BY <1>5
<1>7. \A f : Rec(f) <=> Turns(f, b, s, n)
  BY <1>2, <1>6 DEF Turns, TurnOf
<1>8. PICK f : Turns(f, b, s, n)
  BY TurnsExist
<1>9. Rec(c)
  <2>1. Rec(f)
    BY <1>7, <1>8
  <2> HIDE DEF Rec
  <2> QED BY <2>1, Zenon
<1>10. Turns(c, b, s, n)
  <2> HIDE DEF Rec, c
  <2> QED BY <1>7, <1>9
<1> HIDE DEF Rec, c
<1>11. PICK d : d = c
  OBVIOUS
<1>12. d[0] = s /\ \A i \in 1..n : d[i] = TurnOf(b, i, d[i - 1])
  <2>1. Turns(d, b, s, n)
    BY <1>10, <1>11
  <2>2. \A i \in 0..n : d[i] = IF i = 0 THEN s ELSE TurnOf(b, i, d[i - 1])
    BY <2>1 DEF Turns
  <2>3. 0 \in 0..n /\ \A i \in 1..n : i \in 0..n /\ i # 0
    OBVIOUS
  <2> QED BY <2>2, <2>3
<1>13. \A i \in 1..n : d[i] = Gif!TakeTag(d[i - 1])
  BY <1>6, <1>12 DEF TurnOf
<1>14. Held(d[0], W, gs, tail) /\ Len(d[0].pending) = n
  BY <1>2, <1>3, <1>12
<1>15. Held(d[n], W, <<>>, tail)
  BY ONLY <1>13, <1>14, n \in Nat, tail \in Seq(Qword), Short(tail), TurnsTake
<1> QED BY <1>4, <1>11, <1>15

-----------------------------------------------------------------------------
(* The GIF: the invariant                                                    *)

WriteState == [open : Seq(Gif!Tag), qwords : Seq(Seq(Datum)), log : Seq(Entry), length : Nat]
Owed(a) == a \in Group /\ FilledUp(a) /\ Len(a.data) < Gif!Payload(a.tag)
OpenGroup(w) == [tag |-> w.open[1], data |-> w.qwords]

(* What the GIF has in its buffer and what the guest has not submitted are   *)
(* whole tags, then the tag being written; the log is what the GIF's state   *)
(* stands for, then what those tags write.                                   *)
GifInv ==
  /\ menu \in Menus /\ writes \in WriteState /\ (writes.open # <<>> => Owed(OpenGroup(writes)))
  /\ unsent \in Seq(Qword) /\ gif \in GifState
  /\ \E gs : /\ Held(Gif!Buffered(gif, unsent), writes.log, gs, OpenQwords(writes))
             /\ unsent = <<>> => gs = <<>>

LEMMA OpenShort ==
  ASSUME NEW w, w.open # <<>> => Owed(OpenGroup(w))
  PROVE  OpenQwords(w) \in Seq(Qword) /\ Short(OpenQwords(w))
<1>1. CASE w.open = <<>>
  <2>1. <<>> \in Seq(Qword)
    OBVIOUS
  <2> QED BY <1>1, <2>1 DEF OpenQwords, Short
<1>2. CASE w.open # <<>>
  <2>1. PICK a : a = OpenGroup(w)
    OBVIOUS
  <2>2. a \in Group /\ Len(a.data) < Gif!Payload(a.tag)
    BY <1>2, <2>1 DEF Owed
  <2>3. OpenQwords(w) = QwordsOf(a)
    BY <1>2, <2>1 DEF OpenQwords, OpenGroup
  <2>4. QwordsOf(a) \in Seq(Qword)
    BY <2>2, QwordsType
  <2>5. Short(OpenQwords(w))
    BY <2>2, <2>3 DEF Short
  <2> QED BY <2>3, <2>4, <2>5
<1> QED BY <1>1, <1>2

LEMMA BufferedIs ==
  ASSUME NEW g \in GifState, NEW u \in Seq(Qword)
  PROVE  /\ Gif!Buffered(g, u) = [g EXCEPT !.pending = g.pending \o u] /\ Gif!Buffered(g, u).pending = g.pending \o u
         /\ g.pending \in Seq(Qword) /\ g.pending \o u \in Seq(Qword)
         /\ Gif!Buffered(g, <<>>) = g
<1>1. g.pending \in Seq(Qword)
  BY DEF GifState
<1>2. PICK p \in Seq(Qword) : p = g.pending
  BY <1>1
<1>3. p \o u \in Seq(Qword) /\ p \o <<>> = p
  BY ConcatProperties, ConcatEmptySeq
<1>4. \A x : [g EXCEPT !.pending = x].pending = x
  BY DEF GifState
<1>5. [g EXCEPT !.pending = p] = g
  BY <1>2 DEF GifState
<1> QED BY <1>2, <1>3, <1>4, <1>5 DEF Gif!Buffered

Longer(t, s, q, L) == t \in GifState /\ t.pending = s.pending \o <<q>> /\ AsLog(t, L)

LEMMA BufferedMore ==
  ASSUME NEW g \in GifState, NEW u \in Seq(Qword), NEW q \in Qword, NEW v, v = Append(u, q),
         NEW s, s = Gif!Buffered(g, u), NEW t, t = Gif!Buffered(g, v), NEW L, AsLog(s, L), s \in GifState
  PROVE  Longer(t, s, q, L)
<1>1. PICK p \in Seq(Qword) : p = g.pending
  BY DEF GifState
<1>2. PICK o \in Seq(Qword) : o = <<q>>
  <2>1. <<q>> \in Seq(Qword)
    OBVIOUS
  <2> QED BY <2>1
<1>3. v = u \o o /\ v \in Seq(Qword)
  BY <1>2
<1>4. p \o (u \o o) = (p \o u) \o o
  BY ConcatAssociative
<1>5. s.pending = p \o u /\ t.pending = p \o v
  BY <1>1, <1>3, BufferedIs
<1>6. PICK rest : rest = p \o v
  OBVIOUS
<1>7. rest \in Seq(Qword) /\ rest = s.pending \o o
  BY <1>3, <1>4, <1>5, <1>6, ConcatProperties
<1>8. s = [g EXCEPT !.pending = p \o u] /\ t = [g EXCEPT !.pending = rest]
  BY <1>1, <1>3, <1>6, BufferedIs
<1>9. t = [s EXCEPT !.pending = rest]
  BY <1>8 DEF GifState
<1>10. t \in GifState /\ t.pending = rest /\ AsLog(t, L)
  BY <1>7, <1>9, PendingApart
<1> QED BY <1>2, <1>7, <1>10 DEF Longer

LEMMA WrittenKeeps ==
  ASSUME NEW w \in WriteState, NEW open, NEW qwords, NEW u, u = [w EXCEPT !.length = @ + 1],
         NEW v, v = [u EXCEPT !.open = open, !.qwords = qwords]
  PROVE  v = [open |-> open, qwords |-> qwords, log |-> w.log, length |-> w.length + 1]
<1>1. u = [open |-> w.open, qwords |-> w.qwords, log |-> w.log, length |-> w.length + 1]
  BY DEF WriteState
<1> QED BY <1>1

(* A qword that begins a tag or goes on with it.                             *)
LEMMA WrittenIs ==
  ASSUME writes \in WriteState, NEW q, NEW a \in Group, NEW v, v = Gif!Written(q),
         a.tag = IF writes.open = <<>> THEN q.tag ELSE writes.open[1],
         a.data = IF writes.open = <<>> THEN <<>> ELSE Append(writes.qwords, q.vals)
  PROVE  v = IF Full(a)
             THEN [open |-> <<>>, qwords |-> <<>>, log |-> writes.log \o GroupLog(a), length |-> writes.length + 1]
             ELSE [open |-> <<a.tag>>, qwords |-> a.data, log |-> writes.log, length |-> writes.length + 1]
<1>1. PICK u : u = [writes EXCEPT !.length = @ + 1]
  OBVIOUS
<1>2. u.open = writes.open /\ u.qwords = writes.qwords /\ u.log = writes.log
  BY <1>1 DEF WriteState
<1>3. PICK none : none = <<>>
  OBVIOUS
<1>4. v = IF Full(a) THEN [u EXCEPT !.open = <<>>, !.qwords = <<>>, !.log = @ \o Gif!LogOf(a.tag, a.data)]
          ELSE [u EXCEPT !.open = <<a.tag>>, !.qwords = a.data]
  BY <1>1, <1>2 DEF Gif!Written, Full
<1>5. CASE Full(a)
  <2>1. PICK log : log = writes.log \o GroupLog(a)
    OBVIOUS
  <2>2. log = u.log \o Gif!LogOf(a.tag, a.data)
    BY <1>2, <2>1 DEF GroupLog
  <2>3. v = [u EXCEPT !.open = none, !.qwords = none, !.log = log]
    BY <1>3, <1>4, <1>5, <2>2
  <2>4. v = [open |-> none, qwords |-> none, log |-> log, length |-> writes.length + 1]
    <3>1. PICK m : m = [u EXCEPT !.open = none, !.qwords = none]
      OBVIOUS
    <3>2. m = [open |-> none, qwords |-> none, log |-> writes.log, length |-> writes.length + 1]
      BY ONLY <1>1, <3>1, writes \in WriteState, WrittenKeeps
    <3>3. u = [open |-> writes.open, qwords |-> writes.qwords, log |-> writes.log, length |-> writes.length + 1]
      BY <1>1 DEF WriteState
    <3>4. v = [m EXCEPT !.log = log]
      BY ONLY <2>3, <3>1, <3>3
    <3> QED BY ONLY <3>2, <3>4
  <2> QED BY <1>3, <1>5, <2>1, <2>4
<1>6. CASE ~Full(a)
  <2>1. v = [u EXCEPT !.open = <<a.tag>>, !.qwords = a.data]
    BY <1>4, <1>6
  <2>2. v = [open |-> <<a.tag>>, qwords |-> a.data, log |-> writes.log, length |-> writes.length + 1]
    BY ONLY <1>1, <2>1, writes \in WriteState, WrittenKeeps
  <2> QED BY <1>6, <2>2
<1> QED BY <1>5, <1>6

LEMMA QwordWritten ==
  ASSUME GifInv, NEW a \in Group, FilledUp(a), Len(a.data) <= Gif!Payload(a.tag), NEW q \in Qword,
         OpenQwords(writes) \o <<q>> = QwordsOf(a),
         a.tag = IF writes.open = <<>> THEN q.tag ELSE writes.open[1],
         a.data = IF writes.open = <<>> THEN <<>> ELSE Append(writes.qwords, q.vals),
         unsent' = Append(unsent, q), writes' = Gif!Written(q), menu' = menu, gif' = gif
  PROVE  GifInv'
<1>1. /\ menu \in Menus /\ writes \in WriteState /\ (writes.open # <<>> => Owed(OpenGroup(writes)))
      /\ unsent \in Seq(Qword) /\ gif \in GifState
  BY DEF GifInv
<1>2. PICK gs : /\ Held(Gif!Buffered(gif, unsent), writes.log, gs, OpenQwords(writes))
                /\ unsent = <<>> => gs = <<>>
  BY DEF GifInv
<1>3. PICK s : s = Gif!Buffered(gif, unsent)
  OBVIOUS
<1>4. PICK L : Holding(s, writes.log, gs, OpenQwords(writes), L)
  BY <1>2, <1>3 DEF Held
<1>5. /\ s \in GifState /\ L \in Seq(Entry) /\ AsLog(s, L) /\ gs \in Seq(Group) /\ Whole(gs)
      /\ s.pending = QwordsAll(gs) \o OpenQwords(writes) /\ writes.log = L \o LogAll(gs)
  BY <1>4 DEF Holding
<1>6. PICK t : t = Gif!Buffered(gif, unsent')
  OBVIOUS
<1>7. t \in GifState /\ t.pending = s.pending \o <<q>> /\ AsLog(t, L) /\ unsent' \in Seq(Qword)
  <2>1. PICK v : v = unsent'
    OBVIOUS
  <2>2. gif \in GifState /\ unsent \in Seq(Qword) /\ s \in GifState /\ AsLog(s, L)
        /\ v = Append(unsent, q) /\ t = Gif!Buffered(gif, v)
    BY <1>1, <1>5, <1>6, <2>1
  <2>3. t \in GifState /\ t.pending = s.pending \o <<q>> /\ AsLog(t, L) /\ v \in Seq(Qword)
    <3>1. PICK g : g = gif
      OBVIOUS
    <3>2. PICK k : k = unsent
      OBVIOUS
    <3>3. g \in GifState /\ k \in Seq(Qword) /\ s \in GifState /\ AsLog(s, L) /\ s = Gif!Buffered(g, k)
          /\ v = Append(k, q) /\ t = Gif!Buffered(g, v)
      BY <1>3, <2>2, <3>1, <3>2
    <3>4. Longer(t, s, q, L)
      BY ONLY <3>3, q \in Qword, BufferedMore
    <3>5. v \in Seq(Qword)
      BY ONLY <3>3, q \in Qword
    <3> QED BY <3>4, <3>5 DEF Longer
  <2> QED BY <2>1, <2>3
<1>8. PICK x \in Seq(Qword) : x = QwordsAll(gs)
  BY <1>5, GroupsType
<1>9. PICK y \in Seq(Qword) : y = OpenQwords(writes)
  BY <1>1, OpenShort
<1>10. t.pending = x \o QwordsOf(a)
  <2>1. PICK o \in Seq(Qword) : o = <<q>>
    <3>1. <<q>> \in Seq(Qword)
      OBVIOUS
    <3> QED BY <3>1
  <2>2. (x \o y) \o o = x \o (y \o o)
    BY ONLY x \in Seq(Qword), y \in Seq(Qword), o \in Seq(Qword), ConcatAssociative
  <2> QED BY <1>5, <1>7, <1>8, <1>9, <2>1, <2>2
<1>11. unsent' # <<>>
  <2>1. unsent \in Seq(Qword)
    BY <1>1
  <2>2. Append(unsent, q) # <<>>
    BY ONLY <2>1, q \in Qword
  <2> QED BY <2>2
<1>12. CASE Full(a)
  <2>1. writes' = [open |-> <<>>, qwords |-> <<>>, log |-> writes.log \o GroupLog(a), length |-> writes.length + 1]
    BY <1>1, <1>12, WrittenIs
  <2>2. PICK l \in Seq(Entry) : l = GroupLog(a)
    BY <1>12, LogType
  <2>3. PICK m \in Seq(Entry) : m = LogAll(gs)
    BY <1>5, GroupsType
  <2>4. PICK hs : hs = Append(gs, a)
    OBVIOUS
  <2>5. /\ hs \in Seq(Group) /\ Whole(hs) /\ QwordsAll(hs) = x \o QwordsOf(a) /\ LogAll(hs) = m \o l
    BY <1>5, <1>8, <1>12, <2>2, <2>3, <2>4, GroupMore
  <2>6. writes'.open = <<>> /\ writes'.log = writes.log \o l
    BY <2>1, <2>2
  <2>7. (L \o m) \o l = L \o (m \o l)
    <3>1. L \in Seq(Entry)
      BY <1>5
    <3> QED BY ONLY <3>1, m \in Seq(Entry), l \in Seq(Entry), ConcatAssociative
  <2>8. OpenQwords(writes') = <<>>
    BY <2>6 DEF OpenQwords
  <2>9. (x \o QwordsOf(a)) \o <<>> = x \o QwordsOf(a)
    <3>1. x \o QwordsOf(a) \in Seq(Qword)
      BY QwordsType, ConcatProperties
    <3> QED BY <3>1
  <2>10. Holding(t, writes'.log, hs, OpenQwords(writes'), L)
    BY <1>5, <1>7, <1>10, <2>3, <2>5, <2>6, <2>7, <2>8, <2>9 DEF Holding
  <2>11. writes' \in WriteState
    <3>1. PICK log \in Seq(Entry) : log = writes.log \o l
      <4>1. writes.log \in Seq(Entry)
        BY <1>1 DEF WriteState
      <4>2. writes.log \o l \in Seq(Entry)
        BY <4>1, ConcatProperties
      <4> QED BY <4>2
    <3>2. PICK k \in Nat : k = writes.length + 1
      <4>1. writes.length + 1 \in Nat
        BY <1>1 DEF WriteState
      <4> QED BY <4>1
    <3>3. <<>> \in Seq(Gif!Tag) /\ <<>> \in Seq(Seq(Datum))
      OBVIOUS
    <3>4. writes' = [open |-> <<>>, qwords |-> <<>>, log |-> log, length |-> k]
      BY <2>1, <2>2, <3>1, <3>2
    <3> QED BY <3>3, <3>4 DEF WriteState
  <2>12. Held(Gif!Buffered(gif, unsent)', writes'.log, hs, OpenQwords(writes)')
    <3>1. Gif!Buffered(gif, unsent)' = t /\ OpenQwords(writes)' = OpenQwords(writes')
      BY <1>6 DEF Gif!Buffered, OpenQwords
    <3> QED BY <2>10, <3>1 DEF Held
  <2> QED BY <1>1, <1>7, <1>11, <2>6, <2>11, <2>12 DEF GifInv
<1>13. CASE ~Full(a)
  <2>1. writes' = [open |-> <<a.tag>>, qwords |-> a.data, log |-> writes.log, length |-> writes.length + 1]
    BY <1>1, <1>13, WrittenIs
  <2>2. writes'.open = <<a.tag>> /\ writes'.qwords = a.data /\ writes'.log = writes.log
    BY <2>1
  <2>3. <<a.tag>> # <<>> /\ <<a.tag>>[1] = a.tag
    OBVIOUS
  <2>4. a.tag \in Gif!Tag /\ a.data \in Seq(Seq(Datum)) /\ a = [tag |-> a.tag, data |-> a.data]
    BY DEF Group
  <2>5. OpenGroup(writes') = a
    BY <2>2, <2>3, <2>4 DEF OpenGroup
  <2>6. OpenQwords(writes') = QwordsOf(a)
    BY <2>2, <2>3, <2>5 DEF OpenQwords, OpenGroup
  <2>7. Owed(OpenGroup(writes)')
    <3>1. OpenGroup(writes)' = a
      BY <2>5 DEF OpenGroup
    <3>2. Len(a.data) < Gif!Payload(a.tag)
      <4>1. Gif!Payload(a.tag) \in Nat /\ Len(a.data) \in Nat
        BY <2>4, PayloadIs
      <4> QED BY <1>13, <4>1 DEF Full
    <3> QED BY <3>1, <3>2 DEF Owed
  <2>8. Holding(t, writes'.log, gs, OpenQwords(writes'), L)
    BY <1>5, <1>7, <1>8, <1>10, <2>2, <2>6 DEF Holding
  <2>9. writes' \in WriteState
    <3>1. writes.log \in Seq(Entry) /\ writes.length + 1 \in Nat
      BY <1>1 DEF WriteState
    <3>2. <<a.tag>> \in Seq(Gif!Tag)
      BY <2>4
    <3> QED BY <2>1, <2>4, <3>1, <3>2 DEF WriteState
  <2>10. Held(Gif!Buffered(gif, unsent)', writes'.log, gs, OpenQwords(writes)')
    <3>1. Gif!Buffered(gif, unsent)' = t /\ OpenQwords(writes)' = OpenQwords(writes')
      BY <1>6 DEF Gif!Buffered, OpenQwords
    <3> QED BY <2>8, <3>1 DEF Held
  <2> QED BY <1>1, <1>7, <1>11, <2>7, <2>9, <2>10 DEF GifInv
<1> QED BY <1>12, <1>13

-----------------------------------------------------------------------------
(* The GIF: the steps                                                        *)

LEMMA ResetLogged == Gif!Reset0 \in GifState /\ Gif!Reset0.pending = <<>> /\ AsLog(Gif!Reset0, <<>>)
<1>1. PICK none : none = <<>>
  OBVIOUS
<1>2. Len(none) = 0 /\ 1..0 = {} /\ none \in Seq(Entry)
  BY <1>1
<1>3. PICK g : g = Gif!Reset0
  OBVIOUS
<1>4. /\ g.pending = none /\ g.prim = [type |-> 0, smooth |-> FALSE] /\ g.col = 0 /\ g.q = Gif!One
      /\ g.packedQ = Gif!One /\ g.count = 0 /\ g.v = none /\ g.first = none /\ g.drawn = none
      /\ g.trx = [total |-> 0, size |-> 0] /\ g.dir = 0 /\ g.moved = 0 /\ g.image = none
  BY <1>1, <1>3 DEF Gif!Reset0
<1>5. g \in GifState
  <2>1. none \in Seq(Qword) /\ none \in Seq(Vertex) /\ none \in Seq(Drawing) /\ none \in Seq(Pixel)
    BY <1>1
  <2>2. [type |-> 0, smooth |-> FALSE] \in Gif!Prim /\ [total |-> 0, size |-> 0] \in [total : Nat, size : {0, 1, 2}]
    BY DEF Gif!Prim
  <2>3. g = [pending |-> none, prim |-> [type |-> 0, smooth |-> FALSE], col |-> 0, q |-> Gif!One,
             packedQ |-> Gif!One, count |-> 0, v |-> none, first |-> none, drawn |-> none,
             trx |-> [total |-> 0, size |-> 0], dir |-> 0, moved |-> 0, image |-> none]
    BY <1>1, <1>3 DEF Gif!Reset0
  <2> QED BY ONLY <2>1, <2>2, <2>3 DEF GifState
<1>6. \A w : LastIn(none, 1, w) = 0
  <2> SUFFICES ASSUME NEW w PROVE LastIn(none, 1, w) = 0
    OBVIOUS
  <2>1. PICK i \in Nat : i = 1
    OBVIOUS
  <2>2. LastIn(none, i, w) \in Nat /\ (i # 0 => LastIn(none, i, w) < i)
    BY LastType
  <2> QED BY <2>1, <2>2
<1>7. Registers(g, none)
  <2>1. PrimIn(none, 1) = [type |-> 0, smooth |-> FALSE]
    BY <1>6 DEF PrimIn
  <2>2. ColourIn(none, 1) = 0 /\ QIn(none, 1) = Gif!One /\ PackedQIn(none, 1) = Gif!One
    BY <1>6 DEF ColourIn, QIn, PackedQIn
  <2>3. Len(none) + 1 = 1
    BY <1>2
  <2> QED BY <1>4, <2>1, <2>2, <2>3 DEF Registers
<1>8. Waiting(none) = none
  <2>1. KicksIn(none, 1, 0) = {}
    <3>1. KicksIn(none, 1, 0) \in SUBSET (1..0)
      BY KicksType
    <3> QED BY <1>2, <3>1
  <2>2. Len(none) + 1 = 1 /\ Cardinality({}) = 0
    BY <1>2, FS_EmptySet
  <2>3. VerticesOf(none, {}) = <<>>
    BY <1>2, <2>2 DEF VerticesOf
  <2> QED BY <1>1, <1>2, <2>1, <2>2, <2>3 DEF Waiting
<1>9. Assembled(g, none)
  <2>1. Kept(0, none) = none
    BY <1>1 DEF Kept
  <2>2. g.prim.type = 0 /\ g.prim.type # 6
    BY <1>4
  <2> QED BY <1>1, <1>2, <1>4, <2>1, <2>2 DEF Assembled
<1>10. DrawnIs(g, none)
  <2>1. AllExpected(none) = <<>>
    BY <1>2 DEF AllExpected
  <2> QED BY <1>1, <1>4, <2>1, FlattenEmpty DEF DrawnIs
<1>11. ImageIs(g, none)
  <2>1. TrxIn(none, 1) = [total |-> 0, size |-> 0] /\ DirIn(none, 1) = 0
    BY <1>6 DEF TrxIn, DirIn
  <2>2. Len(none) + 1 = 1 /\ \A r \in 0..Len(none) : r = 0
    BY <1>2
  <2>3. \A d, r \in 0..Len(none) : ~Transfers(none, d, r)
    BY <2>2 DEF Transfers
  <2> QED BY <1>4, <2>1, <2>2, <2>3 DEF ImageIs
<1> QED BY <1>1, <1>3, <1>4, <1>5, <1>7, <1>8, <1>9, <1>10, <1>11 DEF AsLog

LEMMA StartsKept ==
  ASSUME NEW m \in Menus, NEW g, NEW u, NEW w, g = Gif!Reset0, u = <<>>, w = Gif!Empty
  PROVE  /\ w \in WriteState /\ w.open = <<>> /\ u \in Seq(Qword) /\ g \in GifState
         /\ Held(Gif!Buffered(g, u), w.log, <<>>, OpenQwords(w))
<1>1. PICK none : none = <<>>
  OBVIOUS
<1>2. w = [open |-> none, qwords |-> none, log |-> none, length |-> 0]
  BY <1>1 DEF Gif!Empty
<1>3. /\ none \in Seq(Gif!Tag) /\ none \in Seq(Seq(Datum)) /\ none \in Seq(Entry) /\ none \in Seq(Qword)
      /\ none \in Seq(Group) /\ none \o none = none
  BY <1>1
<1>4. w \in WriteState
  BY ONLY <1>2, <1>3 DEF WriteState
<1>5. w.open = none /\ w.log = none
  BY <1>2
<1>6. g \in GifState /\ g.pending = none /\ AsLog(g, none)
  BY <1>1, ResetLogged
<1>7. Gif!Buffered(g, u) = g
  BY <1>1, <1>3, <1>6, BufferedIs
<1>8. OpenQwords(w) = none
  BY <1>1, <1>5 DEF OpenQwords
<1>9. QwordsAll(none) = none /\ LogAll(none) = none /\ Whole(none)
  BY <1>1, NoneLeft
<1>10. Holding(g, none, none, none, none)
  BY <1>3, <1>6, <1>9 DEF Holding
<1> QED BY <1>1, <1>3, <1>4, <1>5, <1>6, <1>7, <1>8, <1>10 DEF Held

LEMMA StreamStarts ==
  ASSUME Gif!Init
  PROVE  GifInv
<1>1. PICK m \in Menus : menu = m /\ gif = Gif!Reset0 /\ unsent = <<>> /\ writes = Gif!Empty
  BY DEF Gif!Init
<1>2. /\ writes \in WriteState /\ writes.open = <<>> /\ unsent \in Seq(Qword) /\ gif \in GifState
      /\ Held(Gif!Buffered(gif, unsent), writes.log, <<>>, OpenQwords(writes))
  BY <1>1, StartsKept
<1> QED BY <1>1, <1>2 DEF GifInv

LEMMA ResetKept ==
  ASSUME GifInv, Gif!Reset
  PROVE  GifInv'
<1>1. menu \in Menus /\ menu' = menu /\ gif' = Gif!Reset0 /\ unsent' = <<>> /\ writes' = Gif!Empty
  BY DEF GifInv, Gif!Reset
<1>2. PICK g : g = gif'
  OBVIOUS
<1>3. PICK u : u = unsent'
  OBVIOUS
<1>4. PICK w : w = writes'
  OBVIOUS
<1>5. /\ w \in WriteState /\ w.open = <<>> /\ u \in Seq(Qword) /\ g \in GifState
      /\ Held(Gif!Buffered(g, u), w.log, <<>>, OpenQwords(w))
  BY <1>1, <1>2, <1>3, <1>4, StartsKept
<1>6. Gif!Buffered(gif, unsent)' = Gif!Buffered(g, u) /\ OpenQwords(writes)' = OpenQwords(w)
  BY <1>2, <1>3, <1>4 DEF Gif!Buffered, OpenQwords
<1>7. Held(Gif!Buffered(gif, unsent)', writes'.log, <<>>, OpenQwords(writes)')
  BY <1>4, <1>5, <1>6
<1> QED BY <1>1, <1>2, <1>3, <1>4, <1>5, <1>7 DEF GifInv

LEMMA TagWritten ==
  ASSUME Gif!MenuAssumption, GifInv, Gif!WriteTag
  PROVE  GifInv'
<1>1. menu \in Menus /\ writes.open = <<>> /\ menu' = menu /\ gif' = gif
  BY DEF GifInv, Gif!WriteTag
<1>2. PICK t \in menu.tags : /\ unsent' = Append(unsent, DataQword(t, <<>>))
                             /\ writes' = Gif!Written(DataQword(t, <<>>))
  BY DEF Gif!WriteTag, DataQword
<1>3. t \in Gif!Tag
  BY <1>1, <1>2 DEF Gif!MenuAssumption
<1>4. PICK q : q = DataQword(t, <<>>)
  OBVIOUS
<1>5. PICK none : none = <<>>
  OBVIOUS
<1>6. none \in Seq(Datum) /\ none \in Seq(Seq(Datum)) /\ Len(none) = 0 /\ 1..0 = {}
  BY <1>5
<1>7. q = [tag |-> t, vals |-> none]
  BY <1>4, <1>5 DEF DataQword
<1>8. q \in Qword /\ q.tag = t
  BY <1>3, <1>6, <1>7 DEF Qword
<1>9. PICK a : a = [tag |-> t, data |-> none]
  OBVIOUS
<1>10. a \in Group /\ a.tag = t /\ a.data = none
  BY <1>3, <1>6, <1>9 DEF Group
<1>11. FilledUp(a)
  BY <1>6, <1>10 DEF FilledUp
<1>12. Len(a.data) <= Gif!Payload(a.tag)
  <2>1. Gif!Payload(t) \in Nat
    BY <1>3, PayloadIs
  <2> QED BY <1>6, <1>10, <2>1
<1>13. OpenQwords(writes) \o <<q>> = QwordsOf(a)
  <2>1. [i \in 1..Len(a.data) |-> [tag |-> a.tag, vals |-> a.data[i]]] = <<>>
    BY <1>6, <1>10
  <2>2. QwordsOf(a) = <<q>> \o <<>>
    BY <1>5, <1>7, <1>10, <2>1 DEF QwordsOf
  <2>3. <<q>> \o <<>> = <<q>> /\ <<>> \o <<q>> = <<q>>
    BY <1>8
  <2> QED BY <1>1, <2>2, <2>3 DEF OpenQwords
<1>14. /\ a.tag = IF writes.open = <<>> THEN q.tag ELSE writes.open[1]
       /\ a.data = IF writes.open = <<>> THEN <<>> ELSE Append(writes.qwords, q.vals)
  BY <1>1, <1>5, <1>8, <1>10
<1>15. unsent' = Append(unsent, q) /\ writes' = Gif!Written(q)
  BY <1>2, <1>4
<1> QED BY ONLY GifInv, <1>1, <1>8, <1>10, <1>11, <1>12, <1>13, <1>14, <1>15, QwordWritten

LEMMA DataWritten ==
  ASSUME Gif!MenuAssumption, GifInv, Gif!WriteData
  PROVE  GifInv'
<1>1. /\ menu \in Menus /\ writes.open # <<>> /\ menu' = menu /\ gif' = gif /\ writes \in WriteState
      /\ Owed(OpenGroup(writes))
  BY DEF GifInv, Gif!WriteData
<1>2. PICK b : b = OpenGroup(writes)
  OBVIOUS
<1>3. /\ b \in Group /\ FilledUp(b) /\ Len(b.data) < Gif!Payload(b.tag)
      /\ b.tag = writes.open[1] /\ b.data = writes.qwords
  BY <1>1, <1>2 DEF Owed, OpenGroup
<1>4. PICK t : t = b.tag
  OBVIOUS
<1>5. PICK data : data = b.data
  OBVIOUS
<1>6. t \in Gif!Tag /\ data \in Seq(Seq(Datum))
  BY <1>3, <1>4, <1>5 DEF Group
<1>7. PICK x \in menu.values, y \in menu.values :
        LET vals == [i \in 1..Gif!PerQword(t) |-> [at |-> 2 * writes.length + i, val |-> IF i = 1 THEN x ELSE y]]
        IN  unsent' = Append(unsent, DataQword(t, vals)) /\ writes' = Gif!Written(DataQword(t, vals))
  BY <1>3, <1>4 DEF Gif!WriteData, DataQword
<1>8. PICK vals : vals = [i \in 1..Gif!PerQword(t) |-> [at |-> 2 * writes.length + i, val |-> IF i = 1 THEN x ELSE y]]
  OBVIOUS
<1>9. vals \in Seq(Datum) /\ Len(vals) = Gif!PerQword(t)
  <2>1. PICK n \in Nat : n = Gif!PerQword(t)
    BY <1>6, PayloadIs
  <2>2. writes.length \in Nat
    BY <1>1 DEF WriteState
  <2>3. x \in Gif!Value /\ y \in Gif!Value
    BY <1>1, <1>7 DEF Gif!MenuAssumption
  <2>4. \A i \in 1..n : [at |-> 2 * writes.length + i, val |-> IF i = 1 THEN x ELSE y] \in Datum
    BY <2>2, <2>3 DEF Datum
  <2>5. vals \in [1..n -> Datum]
    BY <1>8, <2>1, <2>4
  <2>6. vals \in Seq(Datum) /\ Len(vals) = n
    BY ONLY n \in Nat, <2>5
  <2> QED BY <2>1, <2>6
<1>10. PICK q : q = DataQword(t, vals)
  OBVIOUS
<1>11. q = [tag |-> t, vals |-> vals]
  BY <1>10 DEF DataQword
<1>12. q \in Qword /\ q.vals = vals
  BY <1>6, <1>9, <1>11 DEF Qword
<1>13. PICK longer : longer = Append(data, vals)
  OBVIOUS
<1>14. PICK k \in Nat : k = Len(data)
  BY <1>6
<1>15. /\ longer \in Seq(Seq(Datum)) /\ Len(longer) = k + 1 /\ longer[k + 1] = vals
       /\ \A i \in 1..k : longer[i] = data[i]
  BY <1>6, <1>9, <1>13, <1>14
<1>16. PICK a : a = [tag |-> t, data |-> longer]
  OBVIOUS
<1>17. a \in Group /\ a.tag = t /\ a.data = longer
  BY <1>6, <1>15, <1>16 DEF Group
<1>18. \A i \in 1..(k + 1) : i = k + 1 \/ i \in 1..k
  OBVIOUS
<1>19. FilledUp(a)
  <2>1. \A i \in 1..k : Len(data[i]) = Gif!PerQword(t)
    BY <1>3, <1>4, <1>5, <1>14 DEF FilledUp
  <2>2. \A i \in 1..(k + 1) : Len(longer[i]) = Gif!PerQword(t)
    BY <1>9, <1>15, <1>18, <2>1
  <2> QED BY <1>15, <1>17, <2>2 DEF FilledUp
<1>20. Len(a.data) <= Gif!Payload(a.tag)
  <2>1. Gif!Payload(t) \in Nat
    BY <1>6, PayloadIs
  <2>2. k < Gif!Payload(t)
    BY <1>3, <1>4, <1>5, <1>14
  <2> QED BY <1>15, <1>17, <2>1, <2>2
<1>21. OpenQwords(writes) \o <<q>> = QwordsOf(a)
  <2>1. OpenQwords(writes) = QwordsOf(b)
    BY <1>1, <1>2 DEF OpenQwords, OpenGroup
  <2>2. PICK p : p = QwordsOf(b)
    OBVIOUS
  <2>3. PICK r : r = QwordsOf(a)
    OBVIOUS
  <2>4. /\ p \in Seq(Qword) /\ Len(p) = k + 1 /\ p[1] = DataQword(t, <<>>)
        /\ \A i \in 1..k : p[i + 1] = DataQword(t, data[i])
    BY <1>3, <1>4, <1>5, <1>14, <2>2, QwordsType
  <2>5. /\ r \in Seq(Qword) /\ Len(r) = (k + 1) + 1 /\ r[1] = DataQword(t, <<>>)
        /\ \A i \in 1..(k + 1) : r[i + 1] = DataQword(t, longer[i])
    <3>1. /\ r \in Seq(Qword) /\ Len(r) = 1 + Len(a.data) /\ r[1] = DataQword(a.tag, <<>>)
          /\ \A i \in 1..Len(a.data) : r[i + 1] = DataQword(a.tag, a.data[i])
      BY <1>17, <2>3, QwordsType
    <3>2. Len(a.data) = k + 1 /\ 1 + (k + 1) = (k + 1) + 1 /\ a.data = longer /\ a.tag = t
      BY <1>15, <1>17
    <3> QED BY <3>1, <3>2
  <2>6. \A i \in 1..(k + 1) : r[i] = p[i]
    <3> SUFFICES ASSUME NEW i \in 1..(k + 1) PROVE r[i] = p[i]
      OBVIOUS
    <3>1. CASE i = 1
      BY <2>4, <2>5, <3>1
    <3>2. CASE i # 1
      <4>1. PICK j \in 1..k : j + 1 = i
        <5>1. i - 1 \in 1..k /\ (i - 1) + 1 = i
          BY <3>2
        <5> QED BY <5>1
      <4>2. j \in 1..(k + 1)
        OBVIOUS
      <4>3. p[j + 1] = DataQword(t, data[j]) /\ r[j + 1] = DataQword(t, longer[j])
        BY <2>4, <2>5, <4>2
      <4> QED BY <1>15, <4>1, <4>3
    <3> QED BY <3>1, <3>2
  <2>7. r[(k + 1) + 1] = q
    <3>1. k + 1 \in 1..(k + 1)
      OBVIOUS
    <3> QED BY <1>10, <1>15, <2>5, <3>1
  <2>8. k + 1 \in Nat /\ p = [i \in 1..(k + 1) |-> p[i]] /\ r = [i \in 1..((k + 1) + 1) |-> r[i]]
    <3>1. p = [i \in 1..Len(p) |-> p[i]] /\ r = [i \in 1..Len(r) |-> r[i]]
      BY <2>4, <2>5
    <3> QED BY <2>4, <2>5, <3>1
  <2>9. PICK m \in Nat : m = k + 1
    BY <2>8
  <2>10. r = Append(p, r[m + 1])
    <3>1. p = [i \in 1..m |-> p[i]] /\ r = [i \in 1..(m + 1) |-> r[i]] /\ \A i \in 1..m : r[i] = p[i]
      BY <2>6, <2>8, <2>9
    <3> QED BY ONLY <3>1, m \in Nat, AppendIs
  <2>11. Append(p, q) = p \o <<q>>
    BY <1>12, <2>4
  <2> QED BY <2>1, <2>2, <2>3, <2>7, <2>9, <2>10, <2>11
<1>22. /\ a.tag = IF writes.open = <<>> THEN q.tag ELSE writes.open[1]
       /\ a.data = IF writes.open = <<>> THEN <<>> ELSE Append(writes.qwords, q.vals)
  BY <1>1, <1>3, <1>4, <1>5, <1>12, <1>13, <1>17
<1>23. unsent' = Append(unsent, q) /\ writes' = Gif!Written(q)
  BY <1>7, <1>8, <1>10
<1> QED BY ONLY GifInv, <1>1, <1>12, <1>17, <1>19, <1>20, <1>21, <1>22, <1>23, QwordWritten

LEMMA PacketSubmitted ==
  ASSUME GifInv, Gif!Submit
  PROVE  GifInv'
<1>1. /\ menu \in Menus /\ writes \in WriteState /\ (writes.open # <<>> => Owed(OpenGroup(writes)))
      /\ unsent \in Seq(Qword) /\ gif \in GifState
  BY DEF GifInv
<1>2. PICK gs : Held(Gif!Buffered(gif, unsent), writes.log, gs, OpenQwords(writes))
  BY DEF GifInv
<1>3. gif' = Gif!SubmitPacket(gif, unsent) /\ unsent' = <<>> /\ menu' = menu /\ writes' = writes
  BY DEF Gif!Submit
<1>4. PICK h : h = gif'
  OBVIOUS
<1>5. OpenQwords(writes) \in Seq(Qword) /\ Short(OpenQwords(writes))
  BY <1>1, OpenShort
<1>6. gif.pending \in Seq(Qword)
  BY <1>1, BufferedIs
<1>7. Held(h, writes.log, <<>>, OpenQwords(writes))
  BY <1>1, <1>2, <1>3, <1>4, <1>5, <1>6, PacketTaken
<1>8. h \in GifState
  BY <1>7 DEF Held, Holding
<1>9. Gif!Buffered(h, <<>>) = h /\ <<>> \in Seq(Qword)
  <2>1. <<>> \in Seq(Qword)
    OBVIOUS
  <2> QED BY <1>8, <2>1, BufferedIs
<1>10. Gif!Buffered(gif, unsent)' = h /\ OpenQwords(writes)' = OpenQwords(writes) /\ writes'.log = writes.log
  BY <1>3, <1>4, <1>9 DEF Gif!Buffered, OpenQwords
<1>11. Held(Gif!Buffered(gif, unsent)', writes'.log, <<>>, OpenQwords(writes)')
  BY <1>7, <1>10
<1>12. writes' \in WriteState /\ (writes'.open # <<>> => Owed(OpenGroup(writes)'))
  BY <1>1, <1>3 DEF OpenGroup, Owed
<1> QED BY <1>1, <1>3, <1>4, <1>8, <1>9, <1>11, <1>12 DEF GifInv

LEMMA StreamStays ==
  ASSUME GifInv, UNCHANGED Gif!vars
  PROVE  GifInv'
<1>1. menu' = menu /\ gif' = gif /\ unsent' = unsent /\ writes' = writes
  BY DEF Gif!vars
<1>2. /\ Gif!Buffered(gif, unsent)' = Gif!Buffered(gif, unsent) /\ OpenQwords(writes)' = OpenQwords(writes)
      /\ OpenGroup(writes)' = OpenGroup(writes) /\ writes'.log = writes.log
  BY <1>1 DEF Gif!Buffered, OpenQwords, OpenGroup
<1>3. Owed(OpenGroup(writes)) => Owed(OpenGroup(writes)')
  BY <1>2
<1> QED BY <1>1, <1>2, <1>3 DEF GifInv

-----------------------------------------------------------------------------
(* The GIF: what the invariant says when all is submitted                    *)

LEMMA AllSubmitted ==
  ASSUME GifInv, unsent = <<>>
  PROVE  writes.log \in Seq(Entry) /\ AsLog(gif, writes.log) /\ gif \in GifState
<1>1. PICK L : Holding(Gif!Buffered(gif, unsent), writes.log, <<>>, OpenQwords(writes), L)
  BY DEF GifInv, Held
<1>2. gif \in GifState /\ unsent \in Seq(Qword)
  BY DEF GifInv
<1>3. Gif!Buffered(gif, unsent) = gif
  BY <1>2, BufferedIs
<1>4. L \in Seq(Entry) /\ AsLog(gif, L) /\ writes.log = L \o LogAll(<<>>)
  BY <1>1, <1>3 DEF Holding
<1>5. L \o <<>> = L
  BY <1>4
<1> QED BY <1>2, <1>4, <1>5, NoneLeft

LEMMA SaidSame ==
  /\ \A i, w : Gif!LastOf(i, w) = LastIn(writes.log, i, w)
  /\ \A i : Gif!PrimAt(i) = PrimIn(writes.log, i) /\ Gif!ColourAt(i) = ColourIn(writes.log, i)
  /\ \A i : Gif!QAt(i) = QIn(writes.log, i) /\ Gif!Kicks(i) = KicksIn(writes.log, i, i)
<1>1. \A i, w : Gif!LastOf(i, w) = LastIn(writes.log, i, w)
  <2> SUFFICES ASSUME NEW i, NEW w PROVE Gif!LastOf(i, w) = LastIn(writes.log, i, w)
    OBVIOUS
  <2>1. Gif!Max({j \in 1..(i - 1) : writes.log[j].what \in w})
        = Max({j \in 1..(i - 1) : writes.log[j].what \in w})
    BY GifSets
  <2> QED BY <2>1 DEF Gif!LastOf, LastIn
<1>2. \A i : Gif!PrimAt(i) = PrimIn(writes.log, i) /\ Gif!ColourAt(i) = ColourIn(writes.log, i)
  BY <1>1 DEF Gif!PrimAt, PrimIn, Gif!ColourAt, ColourIn
<1>3. \A i : Gif!QAt(i) = QIn(writes.log, i)
  BY <1>1 DEF Gif!QAt, QIn, PackedQIn
<1>4. \A i : Gif!Kicks(i) = KicksIn(writes.log, i, i)
  BY <1>1 DEF Gif!Kicks, KicksIn
<1> QED BY <1>1, <1>2, <1>3, <1>4

LEMMA DrawnHolds ==
  ASSUME GifInv
  PROVE  Gif!DrawnAsWritten
<1> SUFFICES ASSUME unsent = <<>>
             PROVE  gif.drawn = FlattenSeq([i \in DOMAIN writes.log |-> Gif!Expected(i)])
  <2>1. Gif!FlattenSeq([i \in DOMAIN writes.log |-> Gif!Expected(i)]) =
          FlattenSeq([i \in DOMAIN writes.log |-> Gif!Expected(i)])
    BY GifSequences
  <2> QED BY <2>1 DEF Gif!DrawnAsWritten
<1>1. PICK L : L = writes.log
  OBVIOUS
<1>2. L \in Seq(Entry) /\ AsLog(gif, L)
  BY <1>1, AllSubmitted
<1>3. \A i : Gif!Expected(i) = ExpectedIn(L, i)
  <2> SUFFICES ASSUME NEW i PROVE Gif!Expected(i) = ExpectedIn(L, i)
    OBVIOUS
  <2>1. Gif!Vertices(i) = VerticesOf(L, KicksIn(L, i, i))
    <3>1. \A j : Gif!ColourAt(j) = ColourIn(L, j) /\ Gif!QAt(j) = QIn(L, j)
      BY <1>1, SaidSame
    <3>2. Gif!Kicks(i) = KicksIn(L, i, i)
      BY <1>1, SaidSame
    <3>3. Gif!Cardinality(Gif!Kicks(i)) = Cardinality(KicksIn(L, i, i))
      BY <3>2, GifSets
    <3> QED BY <1>1, <3>1, <3>2, <3>3 DEF Gif!Vertices, VerticesOf, VertexIn
  <2>2. Gif!PrimAt(i) = PrimIn(L, i)
    BY <1>1, SaidSame
  <2> QED BY <1>1, <2>1, <2>2 DEF Gif!Expected, ExpectedIn
<1>4. DOMAIN writes.log = 1..Len(L)
  BY <1>1, <1>2
<1>5. [i \in DOMAIN writes.log |-> Gif!Expected(i)] = AllExpected(L)
  BY <1>3, <1>4 DEF AllExpected
<1> QED BY <1>2, <1>5 DEF AsLog, DrawnIs

LEMMA ImageHolds ==
  ASSUME GifInv
  PROVE  Gif!ImageInOrder
<1> DEFINE n == Len(writes.log)
           d == Gif!LastOf(n + 1, {"trxdir"})
           r == Gif!LastOf(d, {"trxreg"})
           setup == writes.log[r].val
           data(j) == IF writes.log[j].what = "pixels" THEN Gif!Pixels(writes.log[j], setup.size) ELSE <<>>
           all == FlattenSeq([i \in 1..(n - d) |-> data(d + i)])
<1> SUFFICES ASSUME unsent = <<>>, r # 0, Gif!LastOf(n + 1, {"trxreg"}) = r
             PROVE  gif.image = IF writes.log[d].val.dir # 0 THEN <<>>
                                ELSE [i \in 1..Min({Len(all), setup.total}) |-> [pos |-> i - 1, pix |-> all[i]]]
  <2>1. Gif!FlattenSeq([i \in 1..(n - d) |-> data(d + i)]) = all
    BY GifSequences
  <2>2. \A k : Gif!Min({k, setup.total}) = Min({k, setup.total})
    BY GifSets
  <2> QED BY <2>1, <2>2 DEF Gif!ImageInOrder
<1>1. PICK L : L = writes.log
  OBVIOUS
<1>2. L \in Seq(Entry) /\ ImageIs(gif, L)
  BY <1>1, AllSubmitted DEF AsLog
<1>3. PICK m \in Nat : m = Len(L)
  BY <1>2
<1>4. d = LastIn(L, m + 1, {"trxdir"})
  BY <1>1, <1>3, SaidSame
<1>5. r = LastIn(L, d, {"trxreg"}) /\ r = LastIn(L, m + 1, {"trxreg"})
  BY <1>1, <1>3, SaidSame
<1> HIDE DEF d, r
<1>6. d \in Nat /\ d < m + 1 /\ (d # 0 => d \in 1..m)
  <2>1. PICK k \in Nat : k = m + 1
    OBVIOUS
  <2>2. PICK w : w = {"trxdir"}
    OBVIOUS
  <2>3. PICK x : x = LastIn(L, k, w)
    OBVIOUS
  <2>4. x \in Nat /\ (k # 0 => x < k) /\ (x # 0 => x \in 1..(k - 1))
    BY ONLY k \in Nat, <2>3, LastType
  <2> QED BY <1>4, <2>1, <2>2, <2>3, <2>4
<1>7. r \in Nat /\ r < m + 1 /\ (r # 0 => r \in 1..(d - 1))
  <2>1. r \in Nat /\ (r # 0 => r \in 1..(d - 1))
    <3>1. PICK e \in Nat : e = d
      BY <1>6
    <3>2. PICK w : w = {"trxreg"}
      OBVIOUS
    <3>3. PICK x : x = LastIn(L, e, w)
      OBVIOUS
    <3>4. x \in Nat /\ (x # 0 => x \in 1..(e - 1))
      BY ONLY e \in Nat, <3>3, LastType
    <3> QED BY <1>5, <3>1, <3>2, <3>3, <3>4
  <2>2. r < m + 1
    BY <1>3, <1>5, LastType
  <2> QED BY <2>1, <2>2
<1>8. d # 0
  BY <1>6, <1>7
<1>9. Transfers(L, d, r) /\ d \in 0..Len(L) /\ r \in 0..Len(L)
  <2>1. Transfers(L, d, r)
    BY <1>3, <1>4, <1>5 DEF Transfers
  <2> QED BY <1>3, <1>6, <1>7, <2>1
<1>10. gif.trx = [total |-> setup.total, size |-> setup.size] /\ gif.dir = L[d].val.dir
  <2>1. gif.trx = TrxIn(L, m + 1) /\ gif.dir = DirIn(L, m + 1)
    BY <1>2, <1>3 DEF ImageIs
  <2>2. TrxIn(L, m + 1) = [total |-> L[r].val.total, size |-> L[r].val.size]
    BY <1>5 DEF TrxIn
  <2>3. DirIn(L, m + 1) = L[d].val.dir
    BY <1>4, <1>8 DEF DirIn
  <2> QED BY <1>1, <2>1, <2>2, <2>3
<1>11. IF gif.dir # 0 THEN gif.image = <<>> ELSE Moved(gif, FlattenSeq(ImageData(L, d, gif.trx.size)))
  BY <1>2, <1>9 DEF ImageIs
<1>12. all = FlattenSeq(ImageData(L, d, gif.trx.size))
  <2>1. gif.trx.size = setup.size
    BY <1>10
  <2>2. \A j : data(j) = DataIn(L, j, setup.size)
    BY <1>1 DEF DataIn
  <2>3. [i \in 1..(n - d) |-> data(d + i)] = ImageData(L, d, setup.size)
    BY <1>1, <2>2 DEF ImageData
  <2> QED BY <2>1, <2>3
<1> HIDE DEF all
<1>13. gif.trx.total = setup.total
  BY <1>10
<1> HIDE DEF setup
<1> QED BY <1>1, <1>10, <1>11, <1>12, <1>13 DEF Moved, Fitting

LEMMA StreamStep ==
  ASSUME Gif!MenuAssumption, GifInv, [Gif!Next]_Gif!vars
  PROVE  GifInv'
<1>1. CASE Gif!WriteTag
  BY <1>1, TagWritten
<1>2. CASE Gif!WriteData
  BY <1>2, DataWritten
<1>3. CASE Gif!Submit
  BY <1>3, PacketSubmitted
<1>4. CASE Gif!Reset
  BY <1>4, ResetKept
<1>5. CASE UNCHANGED Gif!vars
  BY <1>5, StreamStays
<1> QED BY <1>1, <1>2, <1>3, <1>4, <1>5 DEF Gif!Next

LEMMA StreamKept ==
  ASSUME Constants, part = "gif" => GifInv, [Next]_vars
  PROVE  (part = "gif" => GifInv)'
<1>1. SUFFICES ASSUME part' = "gif" PROVE GifInv'
  OBVIOUS
<1>2. part = "gif" /\ [Gif!Next]_Gif!vars
  BY <1>1 DEF Next, vars, gifVars, Gif!vars
<1>3. Gif!MenuAssumption
  BY DEF Constants
<1> QED BY <1>2, <1>3, StreamStep

(* GifStream: however submit's packets cut what the guest writes, the GIF     *)
(* has drawn the primitives that the complete tags describe, and no others.   *)
THEOREM DrawnTheorem == Spec => []DrawnAsWritten
<1> DEFINE Inv == part = "gif" => GifInv
<1>1. Init => Inv
  BY StreamStarts DEF Init
<1>2. Inv /\ [Next]_vars => Inv'
  BY Constants, StreamKept
<1>3. Inv => DrawnAsWritten
  BY DrawnHolds DEF DrawnAsWritten
<1> QED BY <1>1, <1>2, <1>3, PTL DEF Spec

(* GifStream: a transfer rectangle holds the image data since TRXDIR in       *)
(* order, as much as fits, over any number of tags and packets.               *)
THEOREM ImageTheorem == Spec => []ImageInOrder
<1> DEFINE Inv == part = "gif" => GifInv
<1>1. Init => Inv
  BY StreamStarts DEF Init
<1>2. Inv /\ [Next]_vars => Inv'
  BY Constants, StreamKept
<1>3. Inv => ImageInOrder
  BY ImageHolds DEF ImageInOrder
<1> QED BY <1>1, <1>2, <1>3, PTL DEF Spec
===============================================================================
