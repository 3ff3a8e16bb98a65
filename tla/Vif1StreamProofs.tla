--------------------------- MODULE Vif1StreamProofs ---------------------------
(***************************************************************************)
(* Vif1Stream, in GraphicsPath: for every stream of commands and however it *)
(* is cut into packets, VIF1 hands on what the commands that take effect    *)
(* say, in their order, and a program finds what was uploaded for it.       *)
(*                                                                          *)
(* The argument: between two packets that kept in step there is a command c *)
(* whose units the interpretation has reached (Where), and the state is     *)
(* what the commands taken so far, T, have made of it (Tracked): the        *)
(* registers are those of the last command of T that writes them            *)
(* (Settings), memory at TOPS is what the last upload of T put there        *)
(* (Buffers), each run so far found what it should (Seen), and all output   *)
(* together is that of the commands of T in order (Given), of a DIRECT      *)
(* command only when its last unit is in.                                   *)
(*                                                                          *)
(* A lemma for each kind of command says that taking it keeps this          *)
(* (Interpreted), one for each turn of submit's loop that within a packet   *)
(* every command up to here was taken or one was refused (After), and       *)
(* EffectiveGoing and EffectiveStopped that these are the commands the      *)
(* property's history counts.  That a packet which cut no payload leaves    *)
(* nothing half done (Landed) closes the induction.                         *)
(***************************************************************************)
EXTENDS GraphicsPath, SequencesExt, FiniteSetsExt, FiniteSetTheorems, SequenceTheorems,
        WellFoundedInduction, TLAPS

-----------------------------------------------------------------------------
(* Numbers and sequences                                                     *)

(* A set of natural numbers has a least element.                             *)
LEMMA Least ==
  ASSUME NEW T \in SUBSET Nat, T # {}
  PROVE  \E m \in T : \A n \in T : m <= n
<1> DEFINE R == OpToRel(<, Nat)
<1>1. IsWellFoundedOn(R, Nat)
  BY NatLessThanWellFounded, Zenon
<1>4. \A n, m \in Nat : n < m => <<n, m>> \in R
  BY Zenon DEF OpToRel
<1> HIDE DEF R
<1>2. PICK m \in T : \A n \in T : ~(<<n, m>> \in R)
  BY <1>1, WFMin, Zenon
<1>3. \A n \in T : ~(n < m)
  BY <1>2, <1>4
<1> QED BY <1>3

(* Induction, over a set instead of a predicate.                            *)
LEMMA Induction ==
  ASSUME NEW T, 0 \in T, \A k \in Nat : k \in T => k + 1 \in T
  PROVE  Nat \subseteq T
<1>1. SUFFICES ASSUME ~(Nat \subseteq T) PROVE FALSE
  OBVIOUS
<1>2. PICK m \in Nat \ T : \A n \in Nat \ T : m <= n
  <2>1. Nat \ T \in SUBSET Nat /\ Nat \ T # {}
    BY <1>1
  <2> QED BY <2>1, Least, Zenon
<1>3. m # 0 /\ m - 1 \in Nat
  BY <1>2
<1>4. m - 1 \in T
  BY <1>2, <1>3
<1>5. (m - 1) + 1 \in T
  BY <1>3, <1>4
<1> QED BY <1>2, <1>5

(* A greatest element is what Max chooses.                                   *)
LEMMA MaxIs ==
  ASSUME NEW S \in SUBSET Int, NEW x \in S, \A y \in S : y <= x
  PROVE  Max(S) = x
<1>1. PICK m : m = Max(S)
  OBVIOUS
<1>2. \E y \in S : \A z \in S : y >= z
  <2>1. \A z \in S : x >= z
    OBVIOUS
  <2> QED BY <2>1
<1>3. m = CHOOSE y \in S : \A z \in S : y >= z
  BY <1>1, Zenon DEF Max
<1>4. m \in S /\ \A z \in S : m >= z
  BY ONLY <1>2, <1>3, Zenon
<1>5. x \in Int /\ m \in Int /\ m >= x /\ m <= x
  BY <1>4
<1>6. m = x
  BY ONLY <1>5
<1> QED BY ONLY <1>1, <1>6

(* A bounded set of numbers has a greatest element, and Max is it.           *)
LEMMA BoundedMax ==
  ASSUME NEW S \in SUBSET Nat, S # {}, NEW b \in Nat, \A y \in S : y <= b
  PROVE  Max(S) \in S /\ \A y \in S : y <= Max(S)
<1> DEFINE T == {b - y : y \in S}
<1>1. T \in SUBSET Nat /\ T # {}
  <2>1. \A y \in S : b - y \in Nat
    OBVIOUS
  <2>2. T \in SUBSET Nat
    BY <2>1
  <2>3. PICK y : y \in S
    OBVIOUS
  <2>4. b - y \in T
    BY <2>3
  <2> QED BY <2>2, <2>4
<1>2. PICK m \in T : \A k \in T : m <= k
  BY <1>1, Least, Zenon
<1>3. PICK x \in S : m = b - x
  BY <1>2
<1>4. \A y \in S : y <= x
  <2>1. \A y \in S : b - y \in T
    OBVIOUS
  <2> HIDE DEF T
  <2>2. \A y \in S : b - x <= b - y
    BY ONLY <1>2, <1>3, <2>1
  <2> QED BY <1>3, <2>2
<1>5. Max(S) = x
  BY <1>4, MaxIs
<1> QED BY <1>4, <1>5

(* A least element is what Min chooses.                                      *)
LEMMA MinIs ==
  ASSUME NEW S \in SUBSET Int, NEW x \in S, \A y \in S : x <= y
  PROVE  Min(S) = x
<1>1. PICK m : m = Min(S)
  OBVIOUS
<1>2. \E y \in S : \A z \in S : y <= z
  BY Zenon
<1>3. m = CHOOSE y \in S : \A z \in S : y <= z
  BY <1>1, Zenon DEF Min
<1>4. m \in S /\ \A z \in S : m <= z
  BY ONLY <1>2, <1>3, Zenon
<1>5. x \in Int /\ m \in Int /\ m >= x /\ m <= x
  BY <1>4
<1>6. m = x
  BY ONLY <1>5
<1> QED BY ONLY <1>1, <1>6

(* The sums that FlattenSeq is the last of.                                 *)
Upto(f, s, i) == IF i = 1 THEN s[i] ELSE f[i - 1] \o s[i]
Follows(f, s, n) == \A i \in 1..n : f[i] = Upto(f, s, i)
Alike(s, t, n) == \A i \in 1..n : s[i] = t[i]
Sums(f, s, X, n) == f \in [1..n -> Seq(X)] /\ Follows(f, s, n)

(* The partial sums of the sequences of a sequence exist.                    *)
LEMMA SumsExist ==
  ASSUME NEW X, NEW s \in Seq(Seq(X))
  PROVE  \E f : Sums(f, s, X, Len(s))
<1> DEFINE T == {k \in Nat : k <= Len(s) => \E f : Sums(f, s, X, k)}
<1>0. Len(s) \in Nat /\ \A i \in 1..Len(s) : s[i] \in Seq(X)
  OBVIOUS
<1>1. \A k \in Nat : k \in T <=> (k <= Len(s) => \E f : Sums(f, s, X, k))
  BY Zenon
<1> HIDE DEF T
<1>2. 0 \in T
  <2> DEFINE f == [i \in 1..0 |-> <<>>]
  <2>1. Sums(f, s, X, 0)
    BY DEF Sums, Follows
  <2> HIDE DEF f
  <2>2. \E g : Sums(g, s, X, 0)
    BY <2>1, Zenon
  <2> QED BY <1>1, <2>2
<1>3. ASSUME NEW k \in Nat, k \in T PROVE k + 1 \in T
  <2>0. k + 1 \in Nat
    OBVIOUS
  <2>00. SUFFICES ASSUME k + 1 <= Len(s) PROVE \E f : Sums(f, s, X, k + 1)
    BY <1>1, <2>0, Zenon
  <2>01. k <= Len(s) /\ k + 1 \in 1..Len(s)
    BY <1>0, <2>00
  <2>1. PICK f : Sums(f, s, X, k)
    BY <1>1, <1>3, <2>01, Zenon
  <2> DEFINE v == Upto(f, s, k + 1)
             g == [i \in 1..(k + 1) |-> IF i = k + 1 THEN v ELSE f[i]]
  <2>2. v \in Seq(X)
    <3>1. s[k + 1] \in Seq(X)
      BY <1>0, <2>01
    <3>2. CASE k = 0
      BY <3>1, <3>2 DEF Upto
    <3>3. CASE k # 0
      <4>1. k \in 1..k /\ (k + 1) - 1 = k /\ k + 1 # 1
        BY <3>3
      <4>2. f[k] \in Seq(X)
        BY <2>1, <4>1 DEF Sums
      <4>3. v = f[k] \o s[k + 1]
        BY <4>1 DEF Upto
      <4>4. f[k] \o s[k + 1] \in Seq(X)
        BY <3>1, <4>2
      <4> QED BY <4>3, <4>4, Zenon
    <3> QED BY <3>2, <3>3
  <2>3. \A i \in 1..k : f[i] \in Seq(X) /\ f[i] = Upto(f, s, i)
    BY <2>1 DEF Sums, Follows
  <2> HIDE DEF v
  <2>4. g \in [1..(k + 1) -> Seq(X)]
    BY <2>2, <2>3
  <2>5. ASSUME NEW i \in 1..(k + 1) PROVE g[i] = Upto(g, s, i)
    <3>1. i # 1 => g[i - 1] = f[i - 1]
      BY Z3
    <3> HIDE DEF g
    <3>2. Upto(g, s, i) = Upto(f, s, i)
      BY <3>1 DEF Upto
    <3>3. g[i] = Upto(f, s, i)
      BY <2>3 DEF g, v
    <3> QED BY <3>2, <3>3
  <2>6. Sums(g, s, X, k + 1)
    BY <2>4, <2>5 DEF Sums, Follows
  <2> HIDE DEF g
  <2> QED BY <2>6, Zenon
<1>4. Len(s) \in T
  BY <1>0, <1>2, <1>3, Induction
<1>5. Len(s) <= Len(s)
  BY <1>0
<1> QED BY <1>0, <1>1, <1>4, <1>5, Zenon

(* Sums of sequences that begin alike are alike.                            *)
LEMMA SumsAgree ==
  ASSUME NEW f, NEW g, NEW s, NEW t, NEW k \in Nat,
         Alike(s, t, k), Follows(f, s, k), Follows(g, t, k)
  PROVE  Alike(f, g, k)
<1> SUFFICES ASSUME NEW j \in 1..k, f[j] # g[j] PROVE FALSE
  BY DEF Alike
<1> DEFINE T == {i \in 1..k : f[i] # g[i]}
<1>1. T \in SUBSET Nat /\ T # {}
  OBVIOUS
<1>2. PICK m \in T : \A n \in T : m <= n
  BY <1>1, Least, Zenon
<1>3. m \in 1..k /\ f[m] # g[m] /\ f[m] = Upto(f, s, m) /\ g[m] = Upto(g, t, m) /\ s[m] = t[m]
  BY <1>2 DEF Alike, Follows
<1>4. m # 1
  BY <1>3 DEF Upto
<1>5. m - 1 \in 1..k /\ f[m - 1] = g[m - 1]
  BY <1>2, <1>4
<1>6. Upto(f, s, m) = Upto(g, t, m)
  BY <1>3, <1>4, <1>5 DEF Upto
<1> QED BY <1>3, <1>6

(* What FlattenSeq is: the last of the partial sums.                         *)
LEMMA FlattenIs ==
  ASSUME NEW X, NEW s \in Seq(Seq(X)), NEW f, Sums(f, s, X, Len(s)), Len(s) # 0
  PROVE  FlattenSeq(s) = f[Len(s)]
<1> DEFINE Rec(g) == g = [i \in 1..Len(s) |-> IF i = 1 THEN s[i] ELSE g[i - 1] \o s[i]]
           c == CHOOSE g : Rec(g)
<1>0. Len(s) \in Nat
  OBVIOUS
<1>1. Rec(f)
  <2>1. \A i \in 1..Len(s) : f[i] = IF i = 1 THEN s[i] ELSE f[i - 1] \o s[i]
    BY Zenon DEF Sums, Follows, Upto
  <2>2. f \in [1..Len(s) -> Seq(X)]
    BY DEF Sums, Follows
  <2> QED BY <2>1, <2>2
<1>2. Rec(c)
  <2> HIDE DEF Rec
  <2> QED BY <1>1, Zenon
<1>3. FlattenSeq(s) = c[Len(s)]
  BY Zenon DEF FlattenSeq
<1> HIDE DEF c
<1>4. Follows(c, s, Len(s))
  BY <1>2 DEF Upto, Follows
<1> HIDE DEF Rec
<1>5. Alike(c, f, Len(s))
  <2>1. Follows(f, s, Len(s))
    BY DEF Sums, Follows
  <2>2. Alike(s, s, Len(s))
    BY DEF Alike
  <2> QED BY <1>0, <1>4, <2>1, <2>2, SumsAgree
<1> QED BY <1>0, <1>3, <1>5 DEF Alike

(* Nothing flattens to nothing.                                              *)
LEMMA FlattenEmpty == FlattenSeq(<<>>) = <<>>
  BY DEF FlattenSeq

(* Sequences over X flatten to one over X.                                   *)
LEMMA FlattenType ==
  ASSUME NEW X, NEW s \in Seq(Seq(X))
  PROVE  FlattenSeq(s) \in Seq(X)
<1>0. Len(s) \in Nat
  OBVIOUS
<1>1. PICK f : Sums(f, s, X, Len(s))
  BY SumsExist
<1>2. CASE Len(s) = 0
  <2>1. s = <<>>
    BY <1>2
  <2>2. FlattenSeq(s) = <<>>
    BY <2>1, FlattenEmpty, Zenon
  <2> QED BY <2>2
<1>3. CASE Len(s) # 0
  <2>1. Len(s) \in 1..Len(s)
    BY <1>0, <1>3
  <2>3. f \in [1..Len(s) -> Seq(X)]
    BY <1>1, Zenon DEF Sums
  <2>2. f[Len(s)] \in Seq(X)
    BY <2>1, <2>3
  <2> QED BY <1>1, <1>3, <2>2, FlattenIs
<1> QED BY <1>2, <1>3

(* One sequence more adds itself at the end.                                 *)
LEMMA FlattenAppend ==
  ASSUME NEW X, NEW s \in Seq(Seq(X)), NEW e \in Seq(X)
  PROVE  FlattenSeq(Append(s, e)) = FlattenSeq(s) \o e
<1> DEFINE t == Append(s, e)
           n == Len(s)
<1>1. t \in Seq(Seq(X)) /\ Len(t) = n + 1 /\ n \in Nat /\ t[n + 1] = e
      /\ Alike(s, t, n)
  BY DEF Alike
<1>0. n = 0 => s = <<>>
  OBVIOUS
<1> HIDE DEF t
<1>2. PICK f : Sums(f, s, X, Len(s))
  BY SumsExist
<1>3. PICK g : Sums(g, t, X, Len(t))
  BY <1>1, SumsExist
<1> HIDE DEF n
<1>4. \A i \in 1..(n + 1) : g[i] = Upto(g, t, i)
  BY <1>1, <1>3 DEF Sums, Follows
<1>5. Alike(f, g, n)
  <2>1. Follows(f, s, n)
    BY <1>2 DEF Sums, n
  <2>2. Follows(g, t, n)
    BY <1>1, <1>4 DEF Follows
  <2> QED BY <1>1, <2>1, <2>2, SumsAgree
<1>6. FlattenSeq(t) = g[n + 1] /\ g[n + 1] = Upto(g, t, n + 1)
  <2>1. Len(t) # 0 /\ n + 1 \in 1..(n + 1)
    BY <1>1
  <2> QED BY <1>1, <1>3, <1>4, <2>1, FlattenIs
<1>7. CASE n = 0
  <2>1. FlattenSeq(s) = <<>>
    BY <1>0, <1>7, FlattenEmpty
  <2>2. g[n + 1] = e
    BY <1>1, <1>6, <1>7 DEF Upto
  <2> QED BY <1>6, <2>1, <2>2 DEF t
<1>8. CASE n # 0
  <2>1. FlattenSeq(s) = f[n]
    BY <1>2, <1>8, FlattenIs DEF n
  <2>2. f[n] = g[n]
    BY <1>1, <1>5, <1>8 DEF Alike
  <2>3. g[n + 1] = g[n] \o e
    <3>1. n + 1 # 1 /\ (n + 1) - 1 = n
      BY <1>1, <1>8
    <3> QED BY <1>1, <1>6, <3>1 DEF Upto
  <2> QED BY <1>6, <2>1, <2>2, <2>3 DEF t
<1> QED BY <1>7, <1>8

(* Flattening goes through concatenation.                                    *)
LEMMA FlattenConcat ==
  ASSUME NEW X, NEW s \in Seq(Seq(X)), NEW t \in Seq(Seq(X))
  PROVE  FlattenSeq(s \o t) = FlattenSeq(s) \o FlattenSeq(t)
<1> DEFINE P(k) == FlattenSeq(s \o SubSeq(t, 1, k)) = FlattenSeq(s) \o FlattenSeq(SubSeq(t, 1, k))
           U == {k \in Nat : k <= Len(t) => P(k)}
<1>0. Len(t) \in Nat
  OBVIOUS
<1>01. FlattenSeq(s) \in Seq(X)
  BY FlattenType
<1>1. P(0)
  <2>1. SubSeq(t, 1, 0) = <<>>
    OBVIOUS
  <2>2. s \o <<>> = s
    OBVIOUS
  <2>3. FlattenSeq(s) \o <<>> = FlattenSeq(s)
    BY <1>01
  <2> QED BY <2>1, <2>2, <2>3, FlattenEmpty
<1>2. ASSUME NEW k \in Nat, k + 1 <= Len(t), P(k) PROVE P(k + 1)
  <2> DEFINE p == SubSeq(t, 1, k)
             e == t[k + 1]
  <2>1. p \in Seq(Seq(X)) /\ e \in Seq(X)
    BY <1>0, <1>2
  <2>2. SubSeq(t, 1, k + 1) = Append(p, e)
    BY <1>0, <1>2, <2>1
  <2>3. FlattenSeq(s \o p) = FlattenSeq(s) \o FlattenSeq(p)
    BY <1>2
  <2> HIDE DEF p, e
  <2>4. s \o Append(p, e) = Append(s \o p, e) /\ s \o p \in Seq(Seq(X))
    BY <2>1
  <2>5. FlattenSeq(p) \in Seq(X)
    BY <2>1, FlattenType
  <2>6. FlattenSeq(Append(s \o p, e)) = FlattenSeq(s \o p) \o e
    BY <2>1, <2>4, FlattenAppend
  <2>7. FlattenSeq(Append(p, e)) = FlattenSeq(p) \o e
    BY <2>1, FlattenAppend
  <2>8. (FlattenSeq(s) \o FlattenSeq(p)) \o e = FlattenSeq(s) \o (FlattenSeq(p) \o e)
    BY <1>01, <2>1, <2>5, ConcatAssociative, SMTT(30)
  <2> QED BY <2>2, <2>3, <2>4, <2>6, <2>7, <2>8
<1> HIDE DEF P
<1>3. Len(t) \in U
  <2>1. 0 \in U
    BY <1>1
  <2>2. \A k \in Nat : k \in U => k + 1 \in U
    BY <1>0, <1>2
  <2> HIDE DEF U
  <2> QED BY <1>0, <2>1, <2>2, Induction
<1>4. P(Len(t))
  BY <1>0, <1>3
<1>5. SubSeq(t, 1, Len(t)) = t
  OBVIOUS
<1> QED BY <1>4, <1>5 DEF P

(* A concatenation, known by its elements.                                   *)
LEMMA ConcatIs ==
  ASSUME NEW X, NEW a \in Seq(X), NEW b \in Seq(X), NEW c \in Seq(X), Len(c) = Len(a) + Len(b),
         \A i \in 1..Len(a) : c[i] = a[i],
         \A i \in (Len(a) + 1)..(Len(a) + Len(b)) : c[i] = b[i - Len(a)]
  PROVE  c = a \o b
<1>1. a \o b \in Seq(X) /\ Len(a \o b) = Len(a) + Len(b)
  OBVIOUS
<1>2. \A i \in 1..(Len(a) + Len(b)) : c[i] = (a \o b)[i]
  OBVIOUS
<1> QED BY <1>1, <1>2, SeqEqual

-----------------------------------------------------------------------------
(* Empty sequences add nothing.                                              *)
LEMMA FlattenNone ==
  ASSUME NEW X, NEW s \in Seq(Seq(X)), \A i \in 1..Len(s) : s[i] = <<>>
  PROVE  FlattenSeq(s) = <<>>
<1>1. CASE Len(s) = 0
  <2>1. s = <<>>
    BY <1>1
  <2> QED BY <2>1, FlattenEmpty
<1>2. CASE Len(s) # 0
  <2> DEFINE f == [i \in 1..Len(s) |-> <<>>]
  <2>1. f \in [1..Len(s) -> Seq(X)] /\ Len(s) \in 1..Len(s)
    BY <1>2
  <2>2. \A i \in 1..Len(s) : f[i] = Upto(f, s, i)
    <3> SUFFICES ASSUME NEW i \in 1..Len(s) PROVE f[i] = Upto(f, s, i)
      OBVIOUS
    <3>1. <<>> \o <<>> = <<>> /\ f[i] = <<>> /\ s[i] = <<>>
      OBVIOUS
    <3>2. i # 1 => i - 1 \in 1..Len(s)
      OBVIOUS
    <3>3. i # 1 => f[i - 1] = <<>>
      BY <3>2
    <3> HIDE DEF f
    <3> QED BY <3>1, <3>3 DEF Upto
  <2>3. f[Len(s)] = <<>>
    BY <2>1
  <2> HIDE DEF f
  <2>4. Sums(f, s, X, Len(s))
    BY <2>1, <2>2 DEF Sums, Follows
  <2> QED BY <1>2, <2>3, <2>4, FlattenIs
<1> QED BY <1>1, <1>2

(* A single sequence flattens to itself.                                     *)
LEMMA FlattenOne ==
  ASSUME NEW X, NEW e \in Seq(X)
  PROVE  FlattenSeq(<<e>>) = e
<1>1. PICK none \in Seq(Seq(X)) : none = <<>>
  <2>1. <<>> \in Seq(Seq(X))
    OBVIOUS
  <2> QED BY <2>1
<1>2. FlattenSeq(Append(none, e)) = FlattenSeq(none) \o e
  BY FlattenAppend
<1>3. FlattenSeq(none) = <<>>
  BY <1>1, FlattenEmpty
<1>4. Append(none, e) = <<e>> /\ <<>> \o e = e
  BY <1>1
<1> QED BY <1>2, <1>3, <1>4

(* The libraries as Vif1Stream sees them are those seen from here.           *)
LEMMA VifSets ==
  ASSUME NEW S
  PROVE  Vif!Max(S) = Max(S)
  BY DEF Vif!Max, Max

(* The same for the operators on sequences.                                  *)
LEMMA VifSequences ==
  ASSUME NEW s
  PROVE  Vif!FlattenSeq(s) = FlattenSeq(s) /\ Vif!Range(s) = Range(s)
  BY DEF Vif!FlattenSeq, FlattenSeq, Vif!Range, Range

-----------------------------------------------------------------------------
(* The stream as units                                                       *)

Unit == [at : Nat \X Nat, code : Vif!Command]
Fits == /\ VuSize \in Nat \ {0, 1}
        /\ commands \in Seq(Vif!Command)
        /\ \A i \in 1..Len(commands) :
             commands[i].n # 0 <=> commands[i].op \in {"strow", "mpg", "unpack", "direct"}

(* The units of the i-th command.                                            *)
AsPayload(c) == [c EXCEPT !.op = c.data, !.n = 1]
PieceOf(c, i) ==
  [j \in 1..(c.n + 1) |-> [at |-> <<i, j - 1>>, code |-> IF j = 1 THEN c ELSE AsPayload(c)]]

(* A command's units: its code first, then its payload in order.             *)
LEMMA PieceType ==
  ASSUME NEW c \in Vif!Command, NEW i \in Nat
  PROVE  /\ PieceOf(c, i) \in Seq(Unit) /\ Len(PieceOf(c, i)) = c.n + 1
         /\ PieceOf(c, i)[1] = [at |-> <<i, 0>>, code |-> c]
         /\ \A j \in 1..(c.n + 1) : PieceOf(c, i)[j].at = <<i, j - 1>>
<1>1. c.n \in Nat /\ c.data \in {"nop", "bad", "direct"}
  BY DEF Vif!Command
<1>2. AsPayload(c) \in Vif!Command
  BY <1>1 DEF Vif!Command, AsPayload
<1>3. PICK m \in Nat : m = c.n + 1
  BY <1>1
<1>4. \A j \in 1..m : <<i, j - 1>> \in Nat \X Nat
  BY <1>3
<1> HIDE DEF Vif!Command
<1>5. \A j \in 1..m : [at |-> <<i, j - 1>>, code |-> IF j = 1 THEN c ELSE AsPayload(c)] \in Unit
  BY <1>2, <1>4 DEF Unit
<1>6. PieceOf(c, i) = [j \in 1..m |-> [at |-> <<i, j - 1>>, code |-> IF j = 1 THEN c ELSE AsPayload(c)]]
  BY <1>3 DEF PieceOf
<1>7. PieceOf(c, i) \in [1..m -> Unit]
  BY <1>5, <1>6
<1>8. PieceOf(c, i) \in Seq(Unit) /\ Len(PieceOf(c, i)) = m
  BY <1>7
<1>9. 1 \in 1..m
  BY <1>1, <1>3
<1> QED BY <1>3, <1>6, <1>8, <1>9

Pieces(cs) == [i \in 1..Len(cs) |-> PieceOf(cs[i], i)]

(* A stream's units are those of its commands one after the other.           *)
LEMMA UnitsAre ==
  ASSUME NEW cs \in Seq(Vif!Command)
  PROVE  /\ Pieces(cs) \in Seq(Seq(Unit)) /\ Len(Pieces(cs)) = Len(cs)
         /\ Vif!Units(cs) = FlattenSeq(Pieces(cs)) /\ Vif!Units(cs) \in Seq(Unit)
<1>1. DOMAIN cs = 1..Len(cs) /\ Len(cs) \in Nat
  OBVIOUS
<1>2. Vif!Units(cs) = FlattenSeq(Pieces(cs))
  <2>1. Vif!Units(cs) = Vif!FlattenSeq(Pieces(cs))
    BY <1>1, Zenon DEF Vif!Units, Pieces, PieceOf, AsPayload
  <2> QED BY <2>1, VifSequences, Zenon
<1>3. ASSUME NEW i \in 1..Len(cs) PROVE PieceOf(cs[i], i) \in Seq(Unit)
  <2>1. cs[i] \in Vif!Command /\ i \in Nat
    OBVIOUS
  <2> QED BY <2>1, PieceType
<1>4. Pieces(cs) \in [1..Len(cs) -> Seq(Unit)]
  BY <1>3 DEF Pieces
<1>5. Pieces(cs) \in Seq(Seq(Unit)) /\ Len(Pieces(cs)) = Len(cs)
  BY <1>1, <1>4
<1> QED BY <1>2, <1>5, FlattenType

(* One command more adds its own units.                                      *)
LEMMA UnitsMore ==
  ASSUME NEW cs \in Seq(Vif!Command), NEW k \in Nat, k + 1 \in 1..Len(cs)
  PROVE  Vif!Units(SubSeq(cs, 1, k + 1)) = Vif!Units(SubSeq(cs, 1, k)) \o PieceOf(cs[k + 1], k + 1)
<1>01. Len(cs) \in Nat
  OBVIOUS
<1>02. k + 1 <= Len(cs) /\ k <= Len(cs)
  BY <1>01
<1>03. \A j \in Nat : j <= Len(cs) => SubSeq(cs, 1, j) \in Seq(Vif!Command)
  BY <1>01
<1>1. PICK a \in Seq(Vif!Command) : a = SubSeq(cs, 1, k)
  BY <1>02, <1>03
<1>2. PICK b \in Seq(Vif!Command) : b = SubSeq(cs, 1, k + 1)
  <2>1. k + 1 \in Nat
    OBVIOUS
  <2> QED BY <1>02, <1>03, <2>1, Zenon
<1>3. Len(a) = k /\ Len(b) = k + 1 /\ b[k + 1] = cs[k + 1] /\ \A i \in 1..k : b[i] = a[i]
  BY <1>1, <1>2
<1>4. PICK p \in Seq(Seq(Unit)) : p = Pieces(a)
  BY UnitsAre
<1>5. PICK q \in Seq(Seq(Unit)) : q = Pieces(b)
  BY UnitsAre
<1>6. PICK e \in Seq(Unit) : e = PieceOf(cs[k + 1], k + 1)
  <2>1. cs[k + 1] \in Vif!Command /\ k + 1 \in Nat
    OBVIOUS
  <2> QED BY <2>1, PieceType
<1>7. Len(p) = k /\ Len(q) = k + 1
  BY <1>3, <1>4, <1>5, UnitsAre
<1>8. \A i \in 1..k : q[i] = p[i]
  <2>1. \A i \in 1..k : q[i] = PieceOf(b[i], i) /\ p[i] = PieceOf(a[i], i)
    BY <1>3, <1>4, <1>5 DEF Pieces
  <2> QED BY <1>3, <2>1
<1>9. q[k + 1] = e
  <2>1. k + 1 \in 1..Len(b)
    BY <1>3
  <2>2. q[k + 1] = PieceOf(b[k + 1], k + 1)
    BY <1>5, <2>1 DEF Pieces
  <2> QED BY <1>3, <1>6, <2>2
<1>10. q = Append(p, e)
  BY ONLY <1>7, <1>8, <1>9, p \in Seq(Seq(Unit)), q \in Seq(Seq(Unit)), e \in Seq(Unit), k \in Nat
<1>11. FlattenSeq(q) = FlattenSeq(p) \o e
  BY <1>10, FlattenAppend
<1> QED BY <1>1, <1>2, <1>4, <1>5, <1>6, <1>11, UnitsAre

-----------------------------------------------------------------------------
(* Where a command's units are                                               *)

FirstUnits(k) == Vif!Units(SubSeq(commands, 1, k))

(* A command begins where those before it end and is one and its payload     *)
(* long.                                                                     *)
LEMMA CodeIs ==
  ASSUME Fits, NEW i \in 1..Len(commands)
  PROVE  /\ Vif!CodeAt(i) \in Nat \ {0} /\ Vif!LastAt(i) \in Nat /\ Vif!CodeAt(i) <= Vif!LastAt(i)
         /\ Vif!LastAt(i) = Vif!CodeAt(i) + commands[i].n
         /\ Len(FirstUnits(i - 1)) = Vif!CodeAt(i) - 1 /\ Len(FirstUnits(i)) = Vif!LastAt(i)
         /\ FirstUnits(i) = FirstUnits(i - 1) \o PieceOf(commands[i], i)
         /\ FirstUnits(i - 1) \in Seq(Unit) /\ commands[i] \in Vif!Command /\ commands[i].n \in Nat
<1>0. commands \in Seq(Vif!Command) /\ i \in Nat /\ Len(commands) \in Nat
  BY DEF Fits
<1>1. commands[i] \in Vif!Command
  BY <1>0
<1>2. commands[i].n \in Nat
  BY <1>1 DEF Vif!Command
<1>3. PICK k \in Nat : i = k + 1
  BY <1>0
<1>4. k + 1 \in 1..Len(commands) /\ i - 1 = k
  BY <1>0, <1>3
<1>5. FirstUnits(i) = FirstUnits(k) \o PieceOf(commands[i], i)
  BY <1>0, <1>3, <1>4, UnitsMore DEF FirstUnits
<1>6. PICK a \in Seq(Unit) : a = FirstUnits(k)
  <2>1. SubSeq(commands, 1, k) \in Seq(Vif!Command)
    BY <1>0, <1>4
  <2> QED BY <2>1, UnitsAre DEF FirstUnits
<1>7. PICK e \in Seq(Unit) : e = PieceOf(commands[i], i) /\ Len(e) = commands[i].n + 1
  BY <1>0, <1>1, PieceType
<1>8. Vif!CodeAt(i) = 1 + Len(a)
  BY <1>4, <1>6 DEF Vif!CodeAt, FirstUnits
<1>9. Vif!LastAt(i) = Vif!CodeAt(i) + commands[i].n
  BY DEF Vif!LastAt
<1>10. Len(a \o e) = Len(a) + Len(e) /\ Len(a) \in Nat
  OBVIOUS
<1>11. PICK n \in Nat : n = commands[i].n
  BY <1>2
<1>12. Len(FirstUnits(i - 1)) = Vif!CodeAt(i) - 1 /\ FirstUnits(i - 1) \in Seq(Unit)
       /\ FirstUnits(i) = FirstUnits(i - 1) \o PieceOf(commands[i], i)
  BY <1>4, <1>5, <1>6, <1>8, <1>10
<1>13. Len(FirstUnits(i)) = Vif!LastAt(i)
  <2>1. FirstUnits(i) = a \o e
    BY <1>5, <1>6, <1>7, Zenon
  <2>2. Len(FirstUnits(i)) = Len(a) + Len(e)
    BY <1>10, <2>1
  <2>3. Len(e) = n + 1 /\ Vif!LastAt(i) = Vif!CodeAt(i) + n
    BY ONLY <1>7, <1>9, <1>11, Zenon
  <2> QED BY ONLY <1>8, <1>10, n \in Nat, <2>2, <2>3
<1>14. Vif!CodeAt(i) \in Nat \ {0} /\ Vif!LastAt(i) \in Nat /\ Vif!CodeAt(i) <= Vif!LastAt(i)
  BY <1>8, <1>9, <1>10, <1>11
<1> QED BY <1>1, <1>2, <1>9, <1>12, <1>13, <1>14

(* The first command is at the first unit.                                   *)
LEMMA CodeFirst == Vif!CodeAt(1) = 1
<1>1. SubSeq(commands, 1, 0) = <<>>
  OBVIOUS
<1>2. Vif!Units(<<>>) = FlattenSeq(<<>>)
  <2>1. DOMAIN <<>> = {}
    OBVIOUS
  <2>2. \A g, h : (DOMAIN g = {} /\ DOMAIN h = {} /\ g = [i \in DOMAIN g |-> g[i]]
                     /\ h = [i \in DOMAIN h |-> h[i]]) => g = h
    OBVIOUS
  <2>3. Vif!Units(<<>>) = Vif!FlattenSeq(<<>>)
    BY <2>1 DEF Vif!Units
  <2> QED BY <2>3, VifSequences, Zenon
<1>3. Vif!CodeAt(1) = 1 + Len(Vif!Units(SubSeq(commands, 1, 1 - 1)))
  BY Zenon DEF Vif!CodeAt
<1>4. 1 - 1 = 0
  OBVIOUS
<1>5. Vif!CodeAt(1) = 1 + Len(<<>>)
  BY <1>1, <1>2, <1>3, <1>4, FlattenEmpty
<1> QED BY <1>5

(* The next command follows the last unit of this one.                       *)
LEMMA CodeNext ==
  ASSUME Fits, NEW i \in 1..Len(commands), i + 1 \in 1..Len(commands)
  PROVE  Vif!CodeAt(i + 1) = Vif!LastAt(i) + 1
<1>1. (i + 1) - 1 = i
  OBVIOUS
<1>2. Len(FirstUnits(i)) = Vif!LastAt(i) /\ Vif!LastAt(i) \in Nat
  BY CodeIs
<1>3. Vif!CodeAt(i + 1) \in Nat /\ Len(FirstUnits((i + 1) - 1)) = Vif!CodeAt(i + 1) - 1
  BY CodeIs
<1> QED BY <1>1, <1>2, <1>3

(* The commands' units do not overlap and are in the commands' order.        *)
LEMMA Ordered ==
  ASSUME Fits
  PROVE  \A i, k \in 1..Len(commands) : i < k => Vif!LastAt(i) < Vif!CodeAt(k)
<1> DEFINE T == {k \in Nat : k + 1 \in 1..Len(commands) =>
                              \A i \in 1..k : Vif!LastAt(i) < Vif!CodeAt(k + 1)}
<1>1. 0 \in T
  OBVIOUS
<1>2. ASSUME NEW k \in Nat, k \in T PROVE k + 1 \in T
  <2>1. SUFFICES ASSUME (k + 1) + 1 \in 1..Len(commands), NEW i \in 1..(k + 1)
                 PROVE Vif!LastAt(i) < Vif!CodeAt((k + 1) + 1)
    OBVIOUS
  <2>0. Len(commands) \in Nat
    BY DEF Fits
  <2>2. k + 1 \in 1..Len(commands) /\ i \in 1..Len(commands)
    BY <2>0, <2>1
  <2>3. Vif!CodeAt((k + 1) + 1) = Vif!LastAt(k + 1) + 1
    BY <2>1, <2>2, CodeNext
  <2>4. Vif!LastAt(k + 1) \in Nat /\ Vif!CodeAt(k + 1) \in Nat /\ Vif!CodeAt(k + 1) <= Vif!LastAt(k + 1)
        /\ Vif!LastAt(i) \in Nat
    BY <2>2, CodeIs
  <2>5. i = k + 1 \/ i \in 1..k
    OBVIOUS
  <2>6. i \in 1..k => Vif!LastAt(i) < Vif!CodeAt(k + 1)
    BY <1>2, <2>2
  <2> QED BY <2>3, <2>4, <2>5, <2>6
<1> HIDE DEF T
<1>3. Nat \subseteq T
  BY <1>1, <1>2, Induction
<1> SUFFICES ASSUME NEW i \in 1..Len(commands), NEW k \in 1..Len(commands), i < k
             PROVE Vif!LastAt(i) < Vif!CodeAt(k)
  OBVIOUS
<1>4. k - 1 \in Nat /\ (k - 1) + 1 = k /\ i \in 1..(k - 1)
  OBVIOUS
<1>5. k - 1 \in T
  BY <1>3, <1>4
<1> QED BY <1>4, <1>5 DEF T

(* The c-th command is the one that p units go up to or into.                *)
Where(c, p) == /\ c \in 0..Len(commands) /\ p \in Nat
               /\ IF c = 0 THEN p = 0 ELSE Vif!CodeAt(c) <= p /\ p <= Vif!LastAt(c)

(* The stream ends with the last unit of its last command.                   *)
LEMMA AllUnits ==
  ASSUME Fits
  PROVE  /\ FirstUnits(Len(commands)) = Vif!Units(commands)
         /\ Vif!Units(commands) \in Seq(Unit)
         /\ IF Len(commands) = 0 THEN Len(Vif!Units(commands)) = 0
            ELSE Len(Vif!Units(commands)) = Vif!LastAt(Len(commands))
<1>1. commands \in Seq(Vif!Command) /\ Len(commands) \in Nat
  BY DEF Fits
<1>2. SubSeq(commands, 1, Len(commands)) = commands
  BY <1>1
<1>3. FirstUnits(Len(commands)) = Vif!Units(commands)
  BY <1>2 DEF FirstUnits
<1>4. CASE Len(commands) = 0
  <2>1. Pieces(commands) \in Seq(Seq(Unit)) /\ Len(Pieces(commands)) = 0
        /\ Vif!Units(commands) = FlattenSeq(Pieces(commands))
    BY <1>1, <1>4, UnitsAre
  <2>2. Pieces(commands) = <<>>
    BY <2>1
  <2>3. Vif!Units(commands) = <<>>
    BY <2>1, <2>2, FlattenEmpty, Zenon
  <2> QED BY <1>1, <1>3, <1>4, <2>3, UnitsAre
<1>5. CASE Len(commands) # 0
  <2>1. Len(commands) \in 1..Len(commands)
    BY <1>1, <1>5
  <2> QED BY <1>1, <1>3, <1>5, <2>1, CodeIs, UnitsAre
<1> QED BY <1>4, <1>5

(* What is at each place.                                                    *)
PlacedIn(k) == \A i \in 1..k : \A j \in 0..commands[i].n :
                 FirstUnits(k)[Vif!CodeAt(i) + j] = PieceOf(commands[i], i)[j + 1]

(* The elements of a concatenation.                                          *)
LEMMA ConcatAt ==
  ASSUME NEW X, NEW a \in Seq(X), NEW b \in Seq(X)
  PROVE  /\ \A i \in 1..Len(a) : (a \o b)[i] = a[i]
         /\ \A i \in 1..Len(b) : (a \o b)[Len(a) + i] = b[i]
  OBVIOUS

(* If the first k commands are in their places, so are k + 1.                *)
LEMMA PlacedMore ==
  ASSUME Fits, NEW k \in Nat, k + 1 \in 1..Len(commands), PlacedIn(k)
  PROVE  PlacedIn(k + 1)
<1>0. Len(commands) \in Nat
  BY DEF Fits
<1>1. (k + 1) - 1 = k
  OBVIOUS
<1>2. PICK a \in Seq(Unit) : a = FirstUnits(k)
  BY <1>1, CodeIs
<1>3. PICK e \in Seq(Unit) : e = PieceOf(commands[k + 1], k + 1) /\ Len(e) = commands[k + 1].n + 1
  <2>1. commands[k + 1] \in Vif!Command /\ k + 1 \in Nat
    BY CodeIs
  <2> QED BY <2>1, PieceType
<1>4. FirstUnits(k + 1) = a \o e /\ Len(a) = Vif!CodeAt(k + 1) - 1 /\ Vif!CodeAt(k + 1) \in Nat
      /\ commands[k + 1].n \in Nat
  BY <1>1, <1>2, <1>3, CodeIs
<1>5. ASSUME NEW i \in 1..(k + 1), NEW j \in 0..commands[i].n
      PROVE  FirstUnits(k + 1)[Vif!CodeAt(i) + j] = PieceOf(commands[i], i)[j + 1]
  <2>1. CASE i = k + 1
    <3>0. j \in 0..commands[k + 1].n /\ Vif!CodeAt(i) = Vif!CodeAt(k + 1)
      BY <2>1
    <3>1. j \in Nat /\ j + 1 \in 1..Len(e) /\ Vif!CodeAt(i) + j = Len(a) + (j + 1)
      <4>1. PICK n \in Nat, x \in Nat : n = commands[k + 1].n /\ x = Vif!CodeAt(k + 1)
        BY <1>4
      <4>2. j \in 0..n /\ Len(e) = n + 1 /\ Vif!CodeAt(i) = x /\ Len(a) = x - 1
        BY <1>3, <1>4, <3>0, <4>1
      <4>3. j \in Nat /\ j + 1 \in 1..(n + 1) /\ x + j = (x - 1) + (j + 1)
        BY ONLY n \in Nat, x \in Nat, <4>2
      <4> QED BY <4>2, <4>3
    <3>2. (a \o e)[Len(a) + (j + 1)] = e[j + 1]
      BY <3>1, ConcatAt
    <3> QED BY <1>3, <1>4, <2>1, <3>1, <3>2
  <2>2. CASE i # k + 1
    <3>1. i \in 1..k /\ i \in 1..Len(commands) /\ i < k + 1
      BY <1>0, <2>2
    <3>2. Vif!LastAt(i) < Vif!CodeAt(k + 1) /\ Vif!CodeAt(i) \in Nat \ {0}
            /\ Vif!LastAt(i) = Vif!CodeAt(i) + commands[i].n
          /\ commands[i].n \in Nat
      BY <3>1, Ordered, CodeIs
    <3>3. Vif!CodeAt(i) + j \in 1..Len(a)
      <4>1. PICK n \in Nat, x \in Nat \ {0}, y \in Nat :
              n = commands[i].n /\ x = Vif!CodeAt(i) /\ y = Vif!CodeAt(k + 1)
        BY <1>4, <3>2
      <4>2. j \in 0..n /\ x + n < y /\ Len(a) = y - 1
        BY <1>4, <3>2, <4>1
      <4>3. x + j \in 1..(y - 1)
        BY ONLY n \in Nat, x \in Nat \ {0}, y \in Nat, <4>2
      <4> QED BY <4>1, <4>2, <4>3
    <3>4. (a \o e)[Vif!CodeAt(i) + j] = a[Vif!CodeAt(i) + j]
      BY <3>3, ConcatAt
    <3>5. a[Vif!CodeAt(i) + j] = PieceOf(commands[i], i)[j + 1]
      BY <1>2, <3>1 DEF PlacedIn
    <3> QED BY <1>4, <3>4, <3>5
  <2> QED BY <2>1, <2>2
<1> QED BY <1>5 DEF PlacedIn

(* Every command's units are in their places.                                *)
LEMMA UnitsPlaced ==
  ASSUME Fits
  PROVE  PlacedIn(Len(commands))
<1>0. Len(commands) \in Nat
  BY DEF Fits
<1> DEFINE T == {k \in Nat : k <= Len(commands) => PlacedIn(k)}
<1>1. 0 \in T
  BY DEF PlacedIn
<1>2. ASSUME NEW k \in Nat, k \in T PROVE k + 1 \in T
  <2>1. k + 1 <= Len(commands) => k + 1 \in 1..Len(commands) /\ k <= Len(commands)
    BY <1>0
  <2> QED BY <1>2, <2>1, PlacedMore
<1> HIDE DEF T
<1>3. Len(commands) \in T
  BY <1>0, <1>1, <1>2, Induction
<1> QED BY <1>0, <1>3 DEF T

(* The unit at a place says which command it belongs to and which of its     *)
(* units it is.                                                              *)
LEMMA UnitAt ==
  ASSUME Fits, NEW i \in 1..Len(commands), NEW p \in Nat, Vif!CodeAt(i) <= p, p <= Vif!LastAt(i)
  PROVE  /\ p \in 1..Len(Vif!Units(commands))
         /\ Vif!Units(commands)[p].at = <<i, p - Vif!CodeAt(i)>>
         /\ p = Vif!CodeAt(i) => Vif!Units(commands)[p].code = commands[i]
<1>0. Len(commands) \in Nat /\ Len(commands) # 0 /\ Len(commands) \in 1..Len(commands) /\ i \in Nat
  BY DEF Fits
<1>1. Vif!CodeAt(i) \in Nat \ {0} /\ Vif!LastAt(i) = Vif!CodeAt(i) + commands[i].n /\ commands[i].n \in Nat
      /\ commands[i] \in Vif!Command
  BY CodeIs
<1>2. Vif!LastAt(i) <= Len(Vif!Units(commands)) /\ Len(Vif!Units(commands)) \in Nat
  <2>1. Len(Vif!Units(commands)) = Vif!LastAt(Len(commands))
    BY <1>0, AllUnits
  <2>2. i = Len(commands) \/ i < Len(commands)
    BY <1>0
  <2>3. i < Len(commands) => Vif!LastAt(i) < Vif!CodeAt(Len(commands))
    BY <1>0, Ordered
  <2>4. Vif!CodeAt(Len(commands)) \in Nat /\ Vif!LastAt(Len(commands)) \in Nat
        /\ Vif!CodeAt(Len(commands)) <= Vif!LastAt(Len(commands)) /\ Vif!LastAt(i) \in Nat
    BY <1>0, CodeIs
  <2> QED BY <2>1, <2>2, <2>3, <2>4
<1>3. PICK j \in 0..commands[i].n : p = Vif!CodeAt(i) + j /\ j = p - Vif!CodeAt(i)
  <2>1. p - Vif!CodeAt(i) \in 0..commands[i].n /\ p = Vif!CodeAt(i) + (p - Vif!CodeAt(i))
    BY <1>1
  <2> QED BY <2>1
<1>4. Vif!Units(commands)[p] = PieceOf(commands[i], i)[j + 1]
  <2>1. PlacedIn(Len(commands)) /\ FirstUnits(Len(commands)) = Vif!Units(commands)
    BY UnitsPlaced, AllUnits, Zenon
  <2>2. FirstUnits(Len(commands))[Vif!CodeAt(i) + j] = PieceOf(commands[i], i)[j + 1]
    BY <1>3, <2>1, Zenon DEF PlacedIn
  <2> QED BY <1>3, <2>1, <2>2, Zenon
<1>5. j + 1 \in 1..(commands[i].n + 1) /\ (j + 1) - 1 = j
  BY <1>1
<1>6. PieceOf(commands[i], i)[j + 1].at = <<i, j>>
  <2>1. i \in Nat /\ commands[i] \in Vif!Command
    BY <1>0, <1>1
  <2>2. PieceOf(commands[i], i)[j + 1].at = <<i, (j + 1) - 1>>
    BY ONLY <1>5, <2>1, PieceType, Zenon
  <2> QED BY <1>5, <2>2, Zenon
<1>7. p = Vif!CodeAt(i) => PieceOf(commands[i], i)[j + 1].code = commands[i]
  <2>1. p = Vif!CodeAt(i) => j + 1 = 1
    BY <1>1, <1>3
  <2>2. PieceOf(commands[i], i)[1] = [at |-> <<i, 0>>, code |-> commands[i]]
    BY <1>0, <1>1, PieceType, Zenon
  <2> QED BY <2>1, <2>2
<1>8. p \in 1..Len(Vif!Units(commands))
  BY <1>1, <1>2
<1> QED BY <1>3, <1>4, <1>6, <1>7, <1>8

(* One unit further is in the same command, or the next command's first.     *)
LEMMA WhereNext ==
  ASSUME Fits, NEW c, NEW p, Where(c, p), p + 1 <= Len(Vif!Units(commands))
  PROVE  \/ /\ c \in 1..Len(commands) /\ p < Vif!LastAt(c) /\ Where(c, p + 1)
            /\ Vif!Units(commands)[p + 1].at = <<c, (p + 1) - Vif!CodeAt(c)>>
         \/ /\ c + 1 \in 1..Len(commands) /\ (c # 0 => p = Vif!LastAt(c)) /\ p + 1 = Vif!CodeAt(c + 1)
            /\ Where(c + 1, p + 1) /\ Vif!Units(commands)[p + 1].at = <<c + 1, 0>>
            /\ Vif!Units(commands)[p + 1].code = commands[c + 1]
<1>0. Len(commands) \in Nat /\ c \in Nat /\ c <= Len(commands) /\ p \in Nat /\ p + 1 \in Nat
  BY DEF Where, Fits
<1>1. CASE c # 0 /\ p # Vif!LastAt(c)
  <2>1. c \in 1..Len(commands)
    BY <1>0, <1>1
  <2>2. Vif!CodeAt(c) \in Nat /\ Vif!LastAt(c) \in Nat
    BY <2>1, CodeIs
  <2>3. Vif!CodeAt(c) <= p + 1 /\ p + 1 <= Vif!LastAt(c) /\ p < Vif!LastAt(c)
    BY <1>0, <1>1, <2>2 DEF Where
  <2>4. Where(c, p + 1)
    BY <1>0, <2>1, <2>3 DEF Where
  <2>5. Vif!Units(commands)[p + 1].at = <<c, (p + 1) - Vif!CodeAt(c)>>
    <3>1. PICK q \in Nat : q = p + 1
      BY <1>0
    <3>2. Vif!Units(commands)[q].at = <<c, q - Vif!CodeAt(c)>>
      BY <2>1, <2>3, <3>1, UnitAt
    <3> QED BY <3>1, <3>2, Zenon
  <2> QED BY <2>1, <2>3, <2>4, <2>5
<1>2. CASE c = 0 \/ p = Vif!LastAt(c)
  <2>1. c # Len(commands)
    <3>1. SUFFICES ASSUME c = Len(commands) PROVE FALSE
      OBVIOUS
    <3>2. Len(Vif!Units(commands)) = p
      BY <1>2, <3>1, AllUnits DEF Where
    <3> QED BY <1>0, <3>2
  <2>2. c + 1 \in 1..Len(commands)
    BY <1>0, <2>1
  <2>3. p + 1 = Vif!CodeAt(c + 1)
    <3>1. CASE c = 0
      BY <3>1, CodeFirst DEF Where
    <3>2. CASE c # 0
      BY <1>0, <1>2, <2>2, <3>2, CodeNext
    <3> QED BY <3>1, <3>2
  <2>4. Vif!CodeAt(c + 1) <= Vif!LastAt(c + 1) /\ Vif!CodeAt(c + 1) \in Nat
    BY <2>2, CodeIs
  <2>5. Where(c + 1, p + 1)
    BY <1>0, <2>2, <2>3, <2>4 DEF Where
  <2>6. /\ Vif!Units(commands)[p + 1].at = <<c + 1, (p + 1) - Vif!CodeAt(c + 1)>>
        /\ Vif!Units(commands)[p + 1].code = commands[c + 1]
    BY <1>0, <2>2, <2>3, <2>4, UnitAt
  <2>7. (p + 1) - Vif!CodeAt(c + 1) = 0
    BY <1>0, <2>3
  <2> QED BY <1>0, <1>2, <2>2, <2>3, <2>5, <2>6, <2>7
<1> QED BY <1>1, <1>2

(* The commands up to c have begun, and those before c have ended.           *)
LEMMA WhereBefore ==
  ASSUME Fits, NEW c, NEW p, Where(c, p)
  PROVE  \A i \in 1..Len(commands) : /\ Vif!CodeAt(i) <= p <=> i <= c
                                     /\ i < c => Vif!LastAt(i) <= p
                                     /\ Vif!LastAt(i) <= p => i <= c
<1> SUFFICES ASSUME NEW i \in 1..Len(commands)
             PROVE  /\ Vif!CodeAt(i) <= p <=> i <= c
                    /\ i < c => Vif!LastAt(i) <= p
                    /\ Vif!LastAt(i) <= p => i <= c
  OBVIOUS
<1>0. Len(commands) \in Nat /\ c \in Nat /\ c <= Len(commands) /\ p \in Nat /\ i \in Nat
  BY DEF Where, Fits
<1>1. Vif!CodeAt(i) \in Nat \ {0} /\ Vif!LastAt(i) \in Nat /\ Vif!CodeAt(i) <= Vif!LastAt(i)
  BY CodeIs
<1>2. CASE c = 0
  BY <1>0, <1>1, <1>2 DEF Where
<1>3. CASE c # 0
  <2>1. c \in 1..Len(commands)
    BY <1>0, <1>3
  <2>2. Vif!CodeAt(c) \in Nat /\ Vif!LastAt(c) \in Nat /\ Vif!CodeAt(c) <= p /\ p <= Vif!LastAt(c)
    BY <1>3, <2>1, CodeIs DEF Where
  <2>3. i < c => Vif!LastAt(i) < Vif!CodeAt(c)
    BY <2>1, Ordered
  <2>4. c < i => Vif!LastAt(c) < Vif!CodeAt(i)
    BY <2>1, Ordered
  <2>5. i < c \/ i = c \/ c < i
    BY <1>0
  <2> QED BY <1>0, <1>1, <2>2, <2>3, <2>4, <2>5
<1> QED BY <1>2, <1>3

-----------------------------------------------------------------------------
(* The state and what the commands taken so far have made of it              *)

Packet == Seq(Nat \X Nat) \cup ({"kick"} \X Nat \X Nat)
Slot == 0..(VuSize - 1)
VifState ==
  [direct : Nat, packet : Seq(Nat \X Nat), out : Seq(Packet), path1 : Seq(Packet), differ : Slot,
   base : Slot, offset : Slot, tops : Slot, dbf : BOOLEAN, running : BOOLEAN, unknown : BOOLEAN,
   mem : [Slot -> Nat \X Nat], micro : Nat, runs : Seq([at : Nat, saw : Nat \X Nat]),
   skip : Nat, rejected : BOOLEAN]

(* Output, when p units have been interpreted.                               *)
OutputAt(i, p) ==
  LET c == commands[i]
  IN IF c.op \in Vif!Runs THEN [k \in 1..c.kicks |-> <<"kick", i, k>>]
     ELSE IF c.op = "direct" /\ Vif!LastAt(i) <= p THEN << [j \in 1..c.n |-> <<i, j>>] >>
     ELSE <<>>
Share(T, i, p) == IF i \in T THEN OutputAt(i, p) ELSE <<>>
Shares(T, p) == [i \in 1..Len(commands) |-> Share(T, i, p)]

Unknown(T) == \E j \in Vif!LastOp(T, Vif!Runs) : commands[j].stop = "unknown"
Users == {"unpack", "offset"} \cup Vif!Runs

(* What a program that runs after the commands of T finds at TOP.            *)
Finds(T, saw) ==
  LET B == Vif!LastOp(T, Users)
  IN (B # {} /\ commands[Max(B)].op = "unpack" /\ commands[Max(B)].flg /\ commands[Max(B)].v = 0)
       => saw = <<Max(B), 0>>
Below(T, i) == {j \in T : j < i}

Settings(s, T) == (s.differ = 1 <=> Vif!Differs(T)) /\ (s.unknown <=> Unknown(T))
Buffers(s, T) == Finds(T, s.mem[s.tops])
Seen(s, T) == \A k \in 1..Len(s.runs) : /\ s.runs[k].at \in T
                                        /\ Finds(Below(T, s.runs[k].at), s.runs[k].saw)
Given(g, s, T, p) == g \o s.out \o s.path1 = FlattenSeq(Shares(T, p))

Tracked(g, s, T, p) ==
  s \in VifState /\ Settings(s, T) /\ Buffers(s, T) /\ Seen(s, T) /\ Given(g, s, T, p)

-----------------------------------------------------------------------------
(* What comes out                                                            *)

(* The type of a part.                                                       *)
LEMMA SubSeqIs ==
  ASSUME NEW X, NEW s \in Seq(X), NEW m \in Nat \ {0}, NEW n \in Nat, n <= Len(s)
  PROVE  SubSeq(s, m, n) \in Seq(X)
  OBVIOUS

(* Empty sequences at the end do not count.                                  *)
LEMMA FlattenBlank ==
  ASSUME NEW X, NEW s \in Seq(Seq(X)), NEW k \in Nat, k <= Len(s),
         \A i \in (k + 1)..Len(s) : s[i] = <<>>
  PROVE  FlattenSeq(s) = FlattenSeq(SubSeq(s, 1, k))
<1>0. Len(s) \in Nat
  OBVIOUS
<1>1. PICK a \in Seq(Seq(X)) : a = SubSeq(s, 1, k)
  <2>1. 1 \in Nat \ {0}
    OBVIOUS
  <2>2. SubSeq(s, 1, k) \in Seq(Seq(X))
    BY <2>1, SubSeqIs, Zenon
  <2> QED BY <2>2
<1>2. PICK b \in Seq(Seq(X)) : b = SubSeq(s, k + 1, Len(s))
  <2>1. k + 1 \in Nat \ {0} /\ Len(s) <= Len(s)
    BY <1>0
  <2> QED BY <1>0, <2>1, SubSeqIs
<1>3. Len(a) = k /\ Len(b) = Len(s) - k /\ (\A i \in 1..k : a[i] = s[i])
      /\ \A i \in 1..(Len(s) - k) : b[i] = s[k + i]
  BY <1>0, <1>1, <1>2
<1>4. \A i \in 1..Len(b) : b[i] = <<>>
  BY <1>0, <1>3, SMTT(30)
<1>5. s = a \o b
  <2>1. Len(s) = Len(a) + Len(b)
    BY <1>0, <1>3
  <2>2. \A i \in 1..Len(a) : s[i] = a[i]
    BY <1>3
  <2>3. \A i \in (Len(a) + 1)..(Len(a) + Len(b)) : s[i] = b[i - Len(a)]
    <3> SUFFICES ASSUME NEW i \in (Len(a) + 1)..(Len(a) + Len(b)) PROVE s[i] = b[i - Len(a)]
      OBVIOUS
    <3>1. i - k \in 1..(Len(s) - k) /\ k + (i - k) = i
      BY <1>0, <1>3
    <3> QED BY <1>3, <3>1
  <2> QED BY <2>1, <2>2, <2>3, ConcatIs
<1>6. FlattenSeq(b) = <<>>
  BY <1>4, FlattenNone
<1>7. FlattenSeq(s) = FlattenSeq(a) \o FlattenSeq(b)
  BY <1>5, FlattenConcat
<1>8. PICK d \in Seq(X) : d = FlattenSeq(a)
  BY FlattenType
<1>9. d \o <<>> = d
  OBVIOUS
<1> QED BY <1>1, <1>6, <1>7, <1>8, <1>9

(* One more piece, after all that are there.                                 *)
Puts(t, s, m) ==
  /\ Len(t) = Len(s) /\ m \in 1..Len(s) /\ \A i \in 1..(m - 1) : t[i] = s[i]
  /\ \A i \in m..Len(s) : s[i] = <<>>
  /\ \A i \in (m + 1)..Len(s) : t[i] = <<>>

(* A sequence put in after all that are not empty comes out last.            *)
LEMMA FlattenChange ==
  ASSUME NEW X, NEW s \in Seq(Seq(X)), NEW t \in Seq(Seq(X)), NEW m, Puts(t, s, m)
  PROVE  FlattenSeq(t) = FlattenSeq(s) \o t[m]
<1>00. /\ Len(t) = Len(s) /\ m \in 1..Len(s) /\ \A i \in 1..(m - 1) : t[i] = s[i]
       /\ \A i \in m..Len(s) : s[i] = <<>>
       /\ \A i \in (m + 1)..Len(s) : t[i] = <<>>
  BY Zenon DEF Puts
<1>0. Len(s) \in Nat /\ m \in Nat /\ m - 1 \in Nat /\ m <= Len(s) /\ m # 0
  BY <1>00
<1>1. PICK k \in Nat : m = k + 1
  BY <1>0
<1>01. k <= Len(s) /\ m <= Len(t) /\ 1 \in Nat \ {0}
  BY <1>0, <1>00, <1>1
<1>02. SubSeq(s, 1, k) \in Seq(Seq(X)) /\ SubSeq(t, 1, m) \in Seq(Seq(X))
  BY <1>0, <1>01, SubSeqIs, Zenon
<1>2. PICK a \in Seq(Seq(X)) : a = SubSeq(s, 1, k)
  BY <1>02
<1>3. PICK b \in Seq(Seq(X)) : b = SubSeq(t, 1, m)
  BY <1>02
<1>4. PICK e \in Seq(X) : e = t[m]
  <2>1. t[m] \in Seq(X)
    BY ONLY <1>00, t \in Seq(Seq(X)), SMTT(30)
  <2> QED BY ONLY <2>1, Zenon
<1>5. b = Append(a, e)
  <2>1. Len(a) = k /\ Len(b) = k + 1 /\ b[k + 1] = e /\ \A i \in 1..k : a[i] = s[i] /\ b[i] = t[i]
    BY <1>0, <1>01, <1>1, <1>2, <1>3, <1>4
  <2>2. \A i \in 1..k : a[i] = b[i]
    BY <1>00, <1>1, <2>1
  <2>3. b = Append(a, b[k + 1])
    BY ONLY <2>1, <2>2, k \in Nat, a \in Seq(Seq(X)), b \in Seq(Seq(X))
  <2> QED BY <2>1, <2>3
<1>6. FlattenSeq(s) = FlattenSeq(a)
  <2>1. k <= Len(s) /\ \A i \in (k + 1)..Len(s) : s[i] = <<>>
    BY <1>0, <1>00, <1>1
  <2> QED BY <1>2, <2>1, FlattenBlank
<1>7. FlattenSeq(t) = FlattenSeq(b)
  <2>1. m <= Len(t) /\ \A i \in (m + 1)..Len(t) : t[i] = <<>>
    BY <1>0, <1>00
  <2> QED BY <1>0, <1>3, <2>1, FlattenBlank
<1>8. FlattenSeq(b) = FlattenSeq(a) \o e
  BY <1>5, FlattenAppend
<1> QED BY <1>4, <1>6, <1>7, <1>8

(* What a command gives is a sequence of packets.                            *)
LEMMA OutputType ==
  ASSUME Fits, NEW i \in 1..Len(commands), NEW p
  PROVE  OutputAt(i, p) \in Seq(Packet)
<1>1. commands[i].n \in Nat /\ commands[i].kicks \in Nat /\ i \in Nat
  <2>1. commands[i] \in Vif!Command
    BY DEF Fits
  <2> QED BY <2>1 DEF Vif!Command
<1>2. CASE commands[i].op \in Vif!Runs
  <2>1. PICK n \in Nat : n = commands[i].kicks
    BY <1>1
  <2>2. \A k \in 1..n : <<"kick", i, k>> \in Packet
    BY <1>1 DEF Packet
  <2>3. [k \in 1..n |-> <<"kick", i, k>>] \in Seq(Packet)
    BY <2>2
  <2> QED BY <1>2, <2>1, <2>3 DEF OutputAt
<1>3. CASE commands[i].op = "direct" /\ Vif!LastAt(i) <= p
  <2>1. PICK n \in Nat : n = commands[i].n
    BY <1>1
  <2>2. \A j \in 1..n : <<i, j>> \in Nat \X Nat
    BY <1>1
  <2>3. [j \in 1..n |-> <<i, j>>] \in Seq(Nat \X Nat)
    BY <2>2
  <2>4. PICK x \in Packet : x = [j \in 1..n |-> <<i, j>>]
    BY <2>3 DEF Packet
  <2>5. <<x>> \in Seq(Packet)
    OBVIOUS
  <2>6. OutputAt(i, p) = <<x>>
    BY <1>3, <2>1, <2>4 DEF OutputAt, Vif!Runs
  <2> QED BY <2>5, <2>6
<1>4. CASE ~(commands[i].op \in Vif!Runs) /\ ~(commands[i].op = "direct" /\ Vif!LastAt(i) <= p)
  BY <1>4 DEF OutputAt
<1> QED BY <1>2, <1>3, <1>4

(* The commands' shares of the output, in order.                             *)
LEMMA SharesType ==
  ASSUME Fits, NEW T, NEW p
  PROVE  Shares(T, p) \in Seq(Seq(Packet)) /\ Len(Shares(T, p)) = Len(commands)
         /\ \A i \in 1..Len(commands) : Shares(T, p)[i] = Share(T, i, p)
<1>1. \A i \in 1..Len(commands) : Share(T, i, p) \in Seq(Packet)
  BY OutputType DEF Share
<1>2. Len(commands) \in Nat
  BY DEF Fits
<1> QED BY <1>1, <1>2 DEF Shares

(* A payload is whole before and after, or neither.                          *)
Steady(T, p, q) == \A i \in T : commands[i].op = "direct" => (Vif!LastAt(i) <= p <=> Vif!LastAt(i) <= q)

(* Shares stay while no payload of a command taken becomes whole.            *)
LEMMA SharesStay ==
  ASSUME NEW T, NEW p, NEW q, Steady(T, p, q)
  PROVE  Shares(T, p) = Shares(T, q)
<1>1. \A i \in 1..Len(commands) : Share(T, i, p) = Share(T, i, q)
  BY DEF Share, OutputAt, Steady
<1> QED BY <1>1, Zenon DEF Shares

(* Taking the next command adds what it gives, last.                         *)
LEMMA SharesMore ==
  ASSUME Fits, NEW k \in 1..Len(commands), NEW T \in SUBSET (1..(k - 1)), NEW p, NEW q, Steady(T, p, q)
  PROVE  FlattenSeq(Shares(T \cup {k}, q)) = FlattenSeq(Shares(T, p)) \o OutputAt(k, q)
<1>0. Len(commands) \in Nat /\ k \in Nat
  BY DEF Fits
<1>1. Shares(T, p) = Shares(T, q)
  BY SharesStay
<1>2. PICK s \in Seq(Seq(Packet)) : s = Shares(T, q)
  BY SharesType
<1>3. PICK t \in Seq(Seq(Packet)) : t = Shares(T \cup {k}, q)
  BY SharesType
<1>4. Len(s) = Len(commands) /\ Len(t) = Len(commands)
      /\ \A i \in 1..Len(commands) : s[i] = Share(T, i, q) /\ t[i] = Share(T \cup {k}, i, q)
  BY <1>2, <1>3, SharesType
<1>5. k \notin T /\ (\A i \in (k + 1)..Len(s) : i \notin T /\ i \notin T \cup {k})
  BY <1>0
<1>6. \A i \in 1..(k - 1) : t[i] = s[i]
  <2>1. \A i \in 1..(k - 1) : i \in 1..Len(commands) /\ (i \in T \cup {k} <=> i \in T)
    BY <1>0
  <2>2. \A i \in 1..(k - 1) : Share(T \cup {k}, i, q) = Share(T, i, q)
    BY <2>1, Zenon DEF Share
  <2> QED BY <1>4, <2>1, <2>2
<1>7. \A i \in k..Len(s) : s[i] = <<>>
  BY <1>0, <1>4, <1>5 DEF Share
<1>8. \A i \in (k + 1)..Len(s) : t[i] = <<>>
  BY <1>0, <1>4, <1>5 DEF Share
<1>9. t[k] = OutputAt(k, q)
  BY <1>4 DEF Share
<1>10. FlattenSeq(t) = FlattenSeq(s) \o t[k]
  <2>1. Len(t) = Len(s) /\ k \in 1..Len(s)
    BY <1>4
  <2>2. Puts(t, s, k)
    BY <1>6, <1>7, <1>8, <2>1, Zenon DEF Puts
  <2> QED BY <2>2, FlattenChange
<1> QED BY <1>1, <1>2, <1>3, <1>9, <1>10

(* The last qword of a DIRECT payload.                                       *)
LEMMA SharesWhole ==
  ASSUME Fits, NEW k \in 1..Len(commands), NEW T \in SUBSET (1..k), k \in T, NEW p, NEW q,
         Steady(T \ {k}, p, q), commands[k].op = "direct", ~(Vif!LastAt(k) <= p), Vif!LastAt(k) <= q
  PROVE  FlattenSeq(Shares(T, q)) = FlattenSeq(Shares(T, p)) \o OutputAt(k, q)
<1>0. Len(commands) \in Nat /\ k \in Nat
  BY DEF Fits
<1>1. PICK B \in SUBSET (1..(k - 1)) : B = T \ {k}
  <2>1. ASSUME NEW i \in T \ {k} PROVE i \in 1..(k - 1)
    <3>1. k \in Nat /\ i \in 1..k /\ i # k
      BY <1>0
    <3> QED BY ONLY <3>1
  <2> QED BY <2>1, Zenon
<1>2. B \cup {k} = T
  BY <1>1
<1>3. FlattenSeq(Shares(T, q)) = FlattenSeq(Shares(B, p)) \o OutputAt(k, q)
  <2>1. Steady(B, p, q)
    BY <1>1
  <2>2. FlattenSeq(Shares(B \cup {k}, q)) = FlattenSeq(Shares(B, p)) \o OutputAt(k, q)
    BY <2>1, SharesMore, ZenonT(40)
  <2> QED BY <1>2, <2>2
<1>4. OutputAt(k, p) = <<>>
  BY DEF OutputAt, Vif!Runs
<1>5. Shares(T, p) = Shares(B, p)
  <2>1. \A i \in 1..Len(commands) : Share(T, i, p) = Share(B, i, p)
    BY <1>1, <1>4 DEF Share
  <2> QED BY <2>1, Zenon DEF Shares
<1> QED BY <1>3, <1>5

-----------------------------------------------------------------------------
(* The commands taken                                                        *)

(* Taking a command makes it the last of its kind and leaves the others.     *)
LEMMA LastMore ==
  ASSUME NEW k \in Nat, NEW T \in SUBSET (1..(k - 1)), NEW ops
  PROVE  /\ commands[k].op \notin ops => Vif!LastOp(T \cup {k}, ops) = Vif!LastOp(T, ops)
         /\ commands[k].op \in ops =>
              /\ Vif!LastOp(T \cup {k}, ops) = Vif!LastOp(T, ops) \cup {k}
              /\ Vif!LastOp(T \cup {k}, ops) # {} /\ Max(Vif!LastOp(T \cup {k}, ops)) = k
<1>1. commands[k].op \notin ops => Vif!LastOp(T \cup {k}, ops) = Vif!LastOp(T, ops)
  BY DEF Vif!LastOp
<1>2. ASSUME commands[k].op \in ops
      PROVE  /\ Vif!LastOp(T \cup {k}, ops) = Vif!LastOp(T, ops) \cup {k}
             /\ Vif!LastOp(T \cup {k}, ops) # {} /\ Max(Vif!LastOp(T \cup {k}, ops)) = k
  <2>1. Vif!LastOp(T \cup {k}, ops) = Vif!LastOp(T, ops) \cup {k}
    BY <1>2 DEF Vif!LastOp
  <2>0. \A y \in T \cup {k} : y \in Int /\ y <= k
    OBVIOUS
  <2>2. PICK S \in SUBSET Int : S = Vif!LastOp(T \cup {k}, ops)
    BY <2>0 DEF Vif!LastOp
  <2>3. \A y \in S : y <= k
    BY <2>0, <2>2 DEF Vif!LastOp
  <2>4. k \in S
    BY <2>1, <2>2
  <2>5. Max(S) = k
    BY <2>3, <2>4, MaxIs
  <2> QED BY <2>1, <2>2, <2>4, <2>5
<1> QED BY <1>1, <1>2

(* The commands before an earlier one stay the same.                         *)
LEMMA BelowMore ==
  ASSUME NEW k \in Nat, NEW T \in SUBSET (1..(k - 1))
  PROVE  /\ Below(T \cup {k}, k) = T
         /\ \A i \in T : Below(T \cup {k}, i) = Below(T, i)
<1>1. \A i \in T : i < k /\ ~(k < i) /\ i \in Nat
  OBVIOUS
<1>2. Below(T \cup {k}, k) = T
  <2>1. \A i \in Below(T \cup {k}, k) : i \in T
    BY DEF Below
  <2>2. \A i \in T : i \in Below(T \cup {k}, k)
    BY <1>1 DEF Below
  <2> QED BY <2>1, <2>2
<1> QED BY <1>1, <1>2 DEF Below

(* What the program runs so far have found stays what they should have.      *)
LEMMA SeenMore ==
  ASSUME NEW k \in Nat, NEW T \in SUBSET (1..(k - 1)), NEW s, NEW t, Seen(s, T), t.runs = s.runs
  PROVE  Seen(t, T \cup {k})
<1> SUFFICES ASSUME NEW j \in 1..Len(s.runs)
             PROVE  s.runs[j].at \in T \cup {k} /\ Finds(Below(T \cup {k}, s.runs[j].at), s.runs[j].saw)
  BY DEF Seen
<1>1. s.runs[j].at \in T /\ Finds(Below(T, s.runs[j].at), s.runs[j].saw)
  BY DEF Seen
<1>2. Below(T \cup {k}, s.runs[j].at) = Below(T, s.runs[j].at)
  BY <1>1, BelowMore, ZenonT(40)
<1> QED BY <1>1, <1>2

-----------------------------------------------------------------------------
(* One command                                                               *)

(* The parts of a command.                                                   *)
LEMMA CommandIs ==
  ASSUME Fits, NEW k \in 1..Len(commands)
  PROVE  /\ k \in Nat \ {0}
         /\ commands[k].op \in {"nop", "stcycl", "offset", "base", "strow", "mpg", "unpack", "mscal",
                                "mscnt", "direct", "bad"}
         /\ commands[k].n \in Nat /\ commands[k].v \in Slot /\ commands[k].flg \in BOOLEAN
         /\ commands[k].kicks \in Nat /\ commands[k].stop \in {"ends", "budget", "unknown"}
         /\ commands[k].n # 0 <=> commands[k].op \in {"strow", "mpg", "unpack", "direct"}
<1>1. commands[k] \in Vif!Command
  BY DEF Fits
<1>2. k \in Nat \ {0}
  BY DEF Fits
<1>3. commands[k].n # 0 <=> commands[k].op \in {"strow", "mpg", "unpack", "direct"}
  BY DEF Fits
<1> QED BY <1>1, <1>2, <1>3 DEF Vif!Command, Slot

(* One command, by its kind.                                                 *)
LEMMA InterpretIs ==
  ASSUME NEW s, NEW u, NEW rest
  PROVE  /\ u.code.op = "nop" => Vif!Interpret(s, u, rest) = s
         /\ u.code.op = "stcycl" => Vif!Interpret(s, u, rest) = [s EXCEPT !.differ = u.code.v]
         /\ u.code.op = "offset" => Vif!Interpret(s, u, rest)
              = [s EXCEPT !.offset = u.code.v, !.tops = s.base, !.dbf = FALSE]
         /\ u.code.op = "base" => Vif!Interpret(s, u, rest) = [s EXCEPT !.base = u.code.v]
         /\ u.code.op = "strow" => Vif!Interpret(s, u, rest)
              = IF rest < u.code.n THEN Vif!Reject(s) ELSE [s EXCEPT !.skip = u.code.n]
         /\ u.code.op = "mpg" => Vif!Interpret(s, u, rest)
              = IF rest < u.code.n THEN Vif!Reject(s)
                ELSE [s EXCEPT !.skip = u.code.n, !.micro = u.at[1]]
         /\ u.code.op = "unpack" => Vif!Interpret(s, u, rest) = Vif!Unpack(s, u, rest)
         /\ u.code.op \in Vif!Runs => Vif!Interpret(s, u, rest) = Vif!Run(s, u)
         /\ u.code.op = "direct" => Vif!Interpret(s, u, rest) = Vif!Direct(s, u.code.n)
         /\ u.code.op = "bad" => Vif!Interpret(s, u, rest) = Vif!Reject(s)
  BY DEF Vif!Interpret, Vif!Runs

(* What a command or an upload that is not used leaves.                      *)
Same(t, s) ==
  /\ t \in VifState
  /\ t.out = s.out /\ t.path1 = s.path1 /\ t.differ = s.differ /\ t.unknown = s.unknown
  /\ t.tops = s.tops /\ t.mem = s.mem /\ t.runs = s.runs

(* A refusal drops what was in hand and keeps what is tracked.               *)
LEMMA RejectIs ==
  ASSUME NEW s \in VifState
  PROVE  /\ Same(Vif!Reject(s), s) /\ Vif!Reject(s).rejected = TRUE
         /\ Vif!Reject(s).direct = s.direct /\ Vif!Reject(s).skip = s.skip
<1>1. PICK t : t = Vif!Reject(s)
  OBVIOUS
<1>2. t = [s EXCEPT !.rejected = TRUE]
  BY <1>1 DEF Vif!Reject
<1>3. t \in VifState
  BY <1>2 DEF VifState
<1>4. /\ t.out = s.out /\ t.path1 = s.path1 /\ t.differ = s.differ /\ t.unknown = s.unknown
      /\ t.tops = s.tops /\ t.mem = s.mem /\ t.runs = s.runs
      /\ t.rejected = TRUE /\ t.direct = s.direct /\ t.skip = s.skip
  BY <1>2 DEF VifState
<1> QED BY <1>1, <1>3, <1>4 DEF Same

(* What is tracked does not depend on what is dropped or skipped.            *)
LEMMA KeptStays ==
  ASSUME NEW g, NEW s, NEW t, NEW T, NEW p, NEW q, Tracked(g, s, T, p), Same(t, s), Steady(T, p, q)
  PROVE  Tracked(g, t, T, q)
<1>1. Shares(T, p) = Shares(T, q)
  BY SharesStay
<1>2. Settings(t, T) /\ Buffers(t, T) /\ Seen(t, T) /\ t \in VifState
  BY Zenon DEF Tracked, Same, Settings, Buffers, Seen
<1>3. Given(g, t, T, q)
  BY <1>1, Zenon DEF Tracked, Same, Given
<1> QED BY <1>2, <1>3 DEF Tracked

(* A command that gives nothing leaves the output as it should be.           *)
LEMMA GivenMore ==
  ASSUME Fits, NEW g \in Seq(Packet), NEW k \in 1..Len(commands), NEW T \in SUBSET (1..(k - 1)),
         NEW p, NEW q, NEW s \in VifState, NEW t, Given(g, s, T, p), Steady(T, p, q),
         t.out = s.out, t.path1 = s.path1, OutputAt(k, q) = <<>>
  PROVE  Given(g, t, T \cup {k}, q)
<1>1. PICK a \in Seq(Packet) : a = FlattenSeq(Shares(T, p))
  <2>1. Shares(T, p) \in Seq(Seq(Packet))
    BY SharesType
  <2> QED BY <2>1, FlattenType
<1>2. FlattenSeq(Shares(T \cup {k}, q)) = a \o <<>>
  <2>1. FlattenSeq(Shares(T \cup {k}, q)) = FlattenSeq(Shares(T, p)) \o OutputAt(k, q)
    BY SharesMore, ZenonT(40)
  <2> QED BY <1>1, <2>1
<1>3. a \o <<>> = a
  OBVIOUS
<1> QED BY <1>1, <1>2, <1>3 DEF Given

(* Commands that neither write nor read what is kept track of.               *)
LEMMA KeptQuiet ==
  ASSUME Fits, NEW g \in Seq(Packet), NEW k \in 1..Len(commands), NEW T \in SUBSET (1..(k - 1)),
         NEW p, NEW q, NEW s, NEW t, Tracked(g, s, T, p), Same(t, s), Steady(T, p, q),
         commands[k].op \in {"nop", "base", "strow", "mpg"}
  PROVE  Tracked(g, t, T \cup {k}, q)
<1>0. k \in Nat
  BY CommandIs
<1>1. Vif!LastOp(T \cup {k}, {"stcycl"}) = Vif!LastOp(T, {"stcycl"})
  <2>1. commands[k].op \notin {"stcycl"}
    OBVIOUS
  <2> QED BY <1>0, <2>1, LastMore
<1>2. Vif!LastOp(T \cup {k}, Vif!Runs) = Vif!LastOp(T, Vif!Runs)
  <2>1. commands[k].op \notin Vif!Runs
    BY DEF Vif!Runs
  <2> QED BY <1>0, <2>1, LastMore
<1>3. Vif!LastOp(T \cup {k}, Users) = Vif!LastOp(T, Users)
  <2>1. commands[k].op \notin Users
    BY DEF Vif!Runs, Users
  <2> QED BY <1>0, <2>1, LastMore
<1>4. Settings(t, T \cup {k})
  BY <1>1, <1>2 DEF Tracked, Same, Settings, Vif!Differs, Unknown
<1>5. Buffers(t, T \cup {k})
  BY <1>3 DEF Tracked, Same, Buffers, Finds
<1>6. Seen(t, T \cup {k})
  BY <1>0, SeenMore DEF Tracked, Same
<1>7. OutputAt(k, q) = <<>>
  BY DEF OutputAt, Vif!Runs
<1>8. Given(g, t, T \cup {k}, q)
  BY <1>7, GivenMore DEF Tracked, Same
<1> QED BY <1>4, <1>5, <1>6, <1>8 DEF Tracked, Same

(* STCYCL sets whether CL and WL differ.                                     *)
LEMMA KeptCycle ==
  ASSUME Fits, NEW g \in Seq(Packet), NEW k \in 1..Len(commands), NEW T \in SUBSET (1..(k - 1)),
         NEW p, NEW q, NEW s, Tracked(g, s, T, p), Steady(T, p, q),
         commands[k].op = "stcycl"
  PROVE  Tracked(g, [s EXCEPT !.differ = commands[k].v], T \cup {k}, q)
<1>0. k \in Nat /\ commands[k].v \in Slot
  BY CommandIs
<1>1. PICK t : t = [s EXCEPT !.differ = commands[k].v]
  OBVIOUS
<1>2. t \in VifState /\ t.differ = commands[k].v /\ t.unknown = s.unknown
      /\ t.out = s.out /\ t.path1 = s.path1 /\ t.tops = s.tops /\ t.mem = s.mem /\ t.runs = s.runs
  BY <1>0, <1>1 DEF VifState, Tracked
<1>3. Vif!LastOp(T \cup {k}, {"stcycl"}) # {} /\ Max(Vif!LastOp(T \cup {k}, {"stcycl"})) = k
  <2>1. commands[k].op \in {"stcycl"}
    OBVIOUS
  <2> QED BY <1>0, <2>1, LastMore
<1>4. Vif!LastOp(T \cup {k}, Vif!Runs) = Vif!LastOp(T, Vif!Runs)
  <2>1. commands[k].op \notin Vif!Runs
    BY DEF Vif!Runs
  <2> QED BY <1>0, <2>1, LastMore
<1>5. Vif!LastOp(T \cup {k}, Users) = Vif!LastOp(T, Users)
  <2>1. commands[k].op \notin Users
    BY DEF Vif!Runs, Users
  <2> QED BY <1>0, <2>1, LastMore
<1>6. Settings(t, T \cup {k})
  <2>1. Settings(s, T)
    BY DEF Tracked
  <2>2. Vif!Max(Vif!LastOp(T \cup {k}, {"stcycl"})) = k
    BY <1>3, VifSets
  <2>3. Vif!Differs(T \cup {k}) <=> t.differ = 1
    BY <1>2, <1>3, <2>2 DEF Vif!Differs
  <2>4. Unknown(T \cup {k}) <=> Unknown(T)
    BY <1>4, Zenon DEF Unknown
  <2> QED BY <1>2, <2>1, <2>3, <2>4 DEF Settings
<1>7. Buffers(t, T \cup {k})
  BY <1>2, <1>5 DEF Tracked, Buffers, Finds
<1>8. Seen(t, T \cup {k})
  BY <1>0, <1>2, SeenMore DEF Tracked
<1>9. OutputAt(k, q) = <<>>
  BY DEF OutputAt, Vif!Runs
<1>10. Given(g, t, T \cup {k}, q)
  BY <1>2, <1>9, GivenMore DEF Tracked
<1> QED BY <1>1, <1>2, <1>6, <1>7, <1>8, <1>10 DEF Tracked

(* OFFSET and UNPACK: what a program would find.                             *)
LEMMA KeptUpload ==
  ASSUME Fits, NEW g \in Seq(Packet), NEW k \in 1..Len(commands), NEW T \in SUBSET (1..(k - 1)),
         NEW p, NEW q, NEW s, NEW t \in VifState, Tracked(g, s, T, p), Steady(T, p, q),
         commands[k].op \in {"offset", "unpack"},
         t.differ = s.differ, t.unknown = s.unknown, t.out = s.out, t.path1 = s.path1, t.runs = s.runs,
         (commands[k].op = "unpack" /\ commands[k].flg /\ commands[k].v = 0) => t.mem[t.tops] = <<k, 0>>
  PROVE  Tracked(g, t, T \cup {k}, q)
<1>0. k \in Nat
  BY CommandIs
<1>1. Vif!LastOp(T \cup {k}, {"stcycl"}) = Vif!LastOp(T, {"stcycl"})
  <2>1. commands[k].op \notin {"stcycl"}
    OBVIOUS
  <2> QED BY <1>0, <2>1, LastMore
<1>2. Vif!LastOp(T \cup {k}, Vif!Runs) = Vif!LastOp(T, Vif!Runs)
  <2>1. commands[k].op \notin Vif!Runs
    BY DEF Vif!Runs
  <2> QED BY <1>0, <2>1, LastMore
<1>3. Max(Vif!LastOp(T \cup {k}, Users)) = k
  <2>1. commands[k].op \in Users
    BY DEF Users
  <2> QED BY <1>0, <2>1, LastMore
<1>4. Settings(t, T \cup {k})
  BY <1>1, <1>2 DEF Tracked, Settings, Vif!Differs, Unknown
<1>5. Buffers(t, T \cup {k})
  BY <1>3 DEF Buffers, Finds
<1>6. Seen(t, T \cup {k})
  BY <1>0, SeenMore DEF Tracked
<1>7. OutputAt(k, q) = <<>>
  BY DEF OutputAt, Vif!Runs
<1>8. Given(g, t, T \cup {k}, q)
  BY <1>7, GivenMore DEF Tracked
<1> QED BY <1>4, <1>5, <1>6, <1>8 DEF Tracked

(* The type of a concatenation.                                              *)
LEMMA ConcatType ==
  ASSUME NEW X, NEW a \in Seq(X), NEW b \in Seq(X)
  PROVE  a \o b \in Seq(X)
  OBVIOUS

(* Concatenation of three.                                                   *)
LEMMA ConcatThree ==
  ASSUME NEW a \in Seq(Packet), NEW b \in Seq(Packet), NEW c \in Seq(Packet)
  PROVE  a \o (b \o c) = (a \o b) \o c
  BY ConcatAssociative

(* One element more.                                                         *)
LEMMA Appended ==
  ASSUME NEW X, NEW a \in Seq(X), NEW e \in X
  PROVE  /\ Append(a, e) \in Seq(X) /\ Len(Append(a, e)) = Len(a) + 1
         /\ \A i \in 1..(Len(a) + 1) : Append(a, e)[i] = IF i \in 1..Len(a) THEN a[i] ELSE e
  OBVIOUS

(* OFFSET moves TOPS; nothing is said of the next run until an UNPACK.       *)
LEMMA OffsetTaken ==
  ASSUME Fits, NEW g \in Seq(Packet), NEW k \in 1..Len(commands), NEW T \in SUBSET (1..(k - 1)),
         NEW p, NEW q, NEW s, Tracked(g, s, T, p), Steady(T, p, q),
         commands[k].op = "offset",
         NEW t, t = [s EXCEPT !.offset = commands[k].v, !.tops = s.base, !.dbf = FALSE]
  PROVE  Tracked(g, t, T \cup {k}, q)
<1>0. commands[k].v \in Slot /\ s \in VifState
  BY CommandIs DEF Tracked
<1>2. s.base \in Slot
  BY <1>0 DEF VifState
<1>3. t \in VifState
  BY <1>0, <1>2 DEF VifState
<1>4. t.differ = s.differ /\ t.unknown = s.unknown /\ t.out = s.out /\ t.path1 = s.path1 /\ t.runs = s.runs
  BY <1>0 DEF VifState
<1> QED BY <1>3, <1>4, KeptUpload

(* The k-th command comes after those of T; q units will have been read.     *)
Due(g, s, T, p, k, q) == /\ g \in Seq(Packet) /\ k \in 1..Len(commands) /\ T \in SUBSET (1..(k - 1))
                         /\ Tracked(g, s, T, p) /\ Steady(T, p, q)

(* The unit u is the k-th command's first.                                   *)
Begins(u, k) == u.at = <<k, 0>> /\ u.code = commands[k]

(* An UNPACK whose payload is in the packet.                                 *)
Uploads(s, k, rest) == commands[k].op = "unpack" /\ s.differ # 1 /\ ~(rest < commands[k].n)
Uploaded(g, t, s, T, k, q) == /\ Tracked(g, t, T \cup {k}, q) /\ t.rejected = s.rejected
                              /\ t.direct = s.direct /\ t.skip = commands[k].n

(* UNPACK puts the upload at TOPS, unless the unpacker drops it.             *)
LEMMA UnpackTaken ==
  ASSUME Fits, NEW g, NEW k, NEW T, NEW p, NEW q, NEW s, Due(g, s, T, p, k, q),
         NEW u, Begins(u, k), NEW rest, Uploads(s, k, rest)
  PROVE  Uploaded(g, Vif!Unpack(s, u, rest), s, T, k, q)
<1>u. PICK t : t = Vif!Unpack(s, u, rest)
  OBVIOUS
<1>v. commands[k].op = "unpack" /\ s.differ # 1 /\ ~(rest < commands[k].n)
  BY Zenon DEF Uploads
<1>000. g \in Seq(Packet) /\ k \in 1..Len(commands) /\ T \in SUBSET (1..(k - 1))
        /\ Tracked(g, s, T, p) /\ Steady(T, p, q)
  BY Zenon DEF Due
<1>0. commands[k].v \in Slot /\ commands[k].n \in Nat /\ commands[k].flg \in BOOLEAN /\ k \in Nat
      /\ VuSize \in Nat \ {0, 1} /\ s \in VifState
  BY <1>000, CommandIs DEF Fits, Tracked
<1>1. s.tops \in Slot /\ s.mem \in [Slot -> Nat \X Nat]
  BY <1>0 DEF VifState
<1>2. PICK a : a = (u.code.v + (IF u.code.flg THEN s.tops ELSE 0)) % VuSize
  OBVIOUS
<1>3. u.code.v = commands[k].v /\ u.code.flg = commands[k].flg /\ u.code.n = commands[k].n /\ u.at = <<k, 0>>
  BY Zenon DEF Begins
<1>4. a \in Slot
  <2>1. u.code.v + (IF u.code.flg THEN s.tops ELSE 0) \in Nat
    BY <1>0, <1>1, <1>3 DEF Slot
  <2>2. \A x \in Nat : x % VuSize \in 0..(VuSize - 1)
    BY <1>0
  <2> QED BY <1>2, <2>1, <2>2 DEF Slot
<1>5. commands[k].flg /\ commands[k].v = 0 => a = s.tops
  <2>1. \A x \in 0..(VuSize - 1) : (0 + x) % VuSize = x
    BY <1>0
  <2> QED BY <1>1, <1>2, <1>3, <2>1 DEF Slot
<1>6. PICK m : m = [s.mem EXCEPT ![a] = <<k, 0>>]
  OBVIOUS
<1>7. m \in [Slot -> Nat \X Nat] /\ m[a] = <<k, 0>>
  BY <1>0, <1>1, <1>4, <1>6
<1>9. t = [s EXCEPT !.mem = m, !.skip = commands[k].n]
  <2>1. Vif!Unpack(s, u, rest) = [s EXCEPT !.mem[a] = u.at, !.skip = u.code.n]
    BY <1>v, <1>2, <1>3 DEF Vif!Unpack
  <2>2. [s EXCEPT !.mem[a] = u.at, !.skip = u.code.n] = [s EXCEPT !.mem = m, !.skip = commands[k].n]
    BY <1>0, <1>3, <1>6 DEF VifState
  <2> QED BY <1>u, <2>1, <2>2
<1>10. t \in VifState
  BY <1>0, <1>7, <1>9 DEF VifState
<1>11. t.differ = s.differ /\ t.unknown = s.unknown /\ t.out = s.out /\ t.path1 = s.path1 /\ t.runs = s.runs
       /\ t.tops = s.tops /\ t.mem = m /\ t.rejected = s.rejected /\ t.direct = s.direct
         /\ t.skip = commands[k].n
  BY <1>0, <1>9 DEF VifState
<1>12. (commands[k].op = "unpack" /\ commands[k].flg /\ commands[k].v = 0) => t.mem[t.tops] = <<k, 0>>
  BY <1>5, <1>7, <1>11
<1>13. Tracked(g, t, T \cup {k}, q)
  BY <1>000, <1>v, <1>10, <1>11, <1>12, KeptUpload
<1> QED BY <1>u, <1>11, <1>13 DEF Uploaded

(* The swap before a run changes TOPS and DBF alone.                         *)
LEMMA SwapIs ==
  ASSUME VuSize \in Nat \ {0, 1}, NEW s \in VifState
  PROVE  \E tops \in Slot, dbf \in BOOLEAN : Vif!SwapFirst(s) = [s EXCEPT !.tops = tops, !.dbf = dbf]
<1>1. PICK tops : tops = IF s.dbf THEN s.base ELSE (s.base + s.offset) % VuSize
  OBVIOUS
<1>2. PICK dbf \in BOOLEAN : dbf = ~s.dbf
  OBVIOUS
<1>3. tops \in Slot
  <2>1. s.base \in Slot /\ s.offset \in Slot
    BY DEF VifState
  <2>2. s.base + s.offset \in Nat
    BY <2>1 DEF Slot
  <2>3. \A x \in Nat : x % VuSize \in 0..(VuSize - 1)
    OBVIOUS
  <2> QED BY <1>1, <2>1, <2>2, <2>3 DEF Slot
<1>4. Vif!SwapFirst(s) = [s EXCEPT !.tops = tops, !.dbf = dbf]
  <2>1. Vif!SwapFirst(s) = [s EXCEPT !.tops = tops, !.dbf = ~s.dbf]
    BY <1>1 DEF Vif!SwapFirst, VifState
  <2> QED BY <1>2, <2>1
<1> QED BY <1>3, <1>4

(* A run saw what it should and gave its packets; nothing is said of the     *)
(* next one until an UNPACK.                                                 *)
LEMMA KeptRun ==
  ASSUME Fits, NEW g \in Seq(Packet), NEW k \in 1..Len(commands), NEW T \in SUBSET (1..(k - 1)),
         NEW p, NEW q, NEW s, Tracked(g, s, T, p), Steady(T, p, q), commands[k].op \in Vif!Runs,
         NEW kicks \in Seq(Packet), kicks = OutputAt(k, q),
         NEW rec \in [at : Nat, saw : Nat \X Nat], rec = [at |-> k, saw |-> s.mem[s.tops]],
         NEW t \in VifState, t.differ = s.differ, t.out = s.out, t.path1 = s.path1 \o kicks,
         t.runs = Append(s.runs, rec), t.unknown <=> (s.unknown \/ commands[k].stop = "unknown")
  PROVE  Tracked(g, t, T \cup {k}, q)
<1>0. k \in Nat /\ s \in VifState
  BY CommandIs DEF Tracked
<1>00. k \in Nat /\ T \in SUBSET (1..(k - 1))
  BY <1>0
<1>1. Vif!LastOp(T \cup {k}, Vif!Runs) = Vif!LastOp(T, Vif!Runs) \cup {k}
  BY ONLY <1>00, commands[k].op \in Vif!Runs, LastMore
<1>2. Vif!LastOp(T \cup {k}, {"stcycl"}) = Vif!LastOp(T, {"stcycl"})
  <2>1. commands[k].op \notin {"stcycl"}
    BY DEF Vif!Runs
  <2> QED BY ONLY <1>00, <2>1, LastMore, ZenonT(40)
<1>3. Max(Vif!LastOp(T \cup {k}, Users)) = k
  <2>1. commands[k].op \in Users
    BY DEF Users
  <2> QED BY ONLY <1>00, <2>1, LastMore
<1>4. Below(T \cup {k}, k) = T /\ \A i \in T : Below(T \cup {k}, i) = Below(T, i)
  BY <1>0, BelowMore
<1>5. s.unknown <=> Unknown(T)
  BY Zenon DEF Tracked, Settings
<1>6. t.unknown <=> Unknown(T \cup {k})
  <2>1. Unknown(T \cup {k}) <=> (Unknown(T) \/ commands[k].stop = "unknown")
    BY <1>1 DEF Unknown
  <2> QED BY <1>5, <2>1
<1>7. Settings(t, T \cup {k})
  <2>1. t.differ = 1 <=> Vif!Differs(T \cup {k})
    BY <1>2 DEF Tracked, Settings, Vif!Differs
  <2> QED BY <1>6, <2>1 DEF Settings
<1>8. Buffers(t, T \cup {k})
  <2>1. commands[k].op # "unpack"
    BY DEF Vif!Runs
  <2> QED BY <1>3, <2>1 DEF Buffers, Finds
<1>9. Seen(t, T \cup {k})
  <2>1. s.runs \in Seq([at : Nat, saw : Nat \X Nat]) /\ Len(s.runs) \in Nat
    BY <1>0 DEF VifState
  <2>2. PICK runs : runs = t.runs
    OBVIOUS
  <2>3. Len(runs) = Len(s.runs) + 1 /\ \A i \in 1..(Len(s.runs) + 1) :
           runs[i] = IF i \in 1..Len(s.runs) THEN s.runs[i] ELSE rec
    BY <2>1, <2>2, Appended
  <2>4. ASSUME NEW j \in 1..Len(runs)
        PROVE  runs[j].at \in T \cup {k} /\ Finds(Below(T \cup {k}, runs[j].at), runs[j].saw)
    <3>1. CASE j \in 1..Len(s.runs)
      <4>1. runs[j] = s.runs[j]
        BY <2>3, <3>1
      <4>2. s.runs[j].at \in T /\ Finds(Below(T, s.runs[j].at), s.runs[j].saw)
        BY <3>1 DEF Tracked, Seen
      <4>3. Below(T \cup {k}, s.runs[j].at) = Below(T, s.runs[j].at)
        BY <1>4, <4>2
      <4> QED BY <4>1, <4>2, <4>3
    <3>2. CASE j \notin 1..Len(s.runs)
      <4>1. runs[j] = rec
        BY <2>3, <3>2
      <4>2. rec.at = k /\ rec.saw = s.mem[s.tops]
        OBVIOUS
      <4>3. Finds(T, s.mem[s.tops])
        BY DEF Tracked, Buffers
      <4> QED BY <1>4, <4>1, <4>2, <4>3
    <3> QED BY <3>1, <3>2
  <2> QED BY <2>2, <2>4, Zenon DEF Seen
<1>10. Given(g, t, T \cup {k}, q)
  <2>1. PICK x \in Seq(Packet) : x = g \o s.out
    <3>1. s.out \in Seq(Packet)
      BY <1>0 DEF VifState
    <3>2. g \o s.out \in Seq(Packet)
      BY <3>1, ConcatType, Zenon
    <3> QED BY <3>2, Zenon
  <2>2. PICK y \in Seq(Packet) : y = s.path1
    BY <1>0 DEF VifState
  <2>3. x \o (y \o kicks) = (x \o y) \o kicks
    BY ConcatThree, ZenonT(40)
  <2>4. x \o y = FlattenSeq(Shares(T, p))
    BY <2>1, <2>2 DEF Tracked, Given
  <2>5. FlattenSeq(Shares(T \cup {k}, q)) = FlattenSeq(Shares(T, p)) \o kicks
    BY SharesMore
  <2>6. g \o t.out \o t.path1 = x \o (y \o kicks)
    BY <2>1, <2>2, Zenon
  <2> QED BY <2>3, <2>4, <2>5, <2>6, Zenon DEF Given
<1> QED BY <1>7, <1>8, <1>9, <1>10 DEF Tracked

(* A program has run: the packet is refused unless it came to its end.       *)
RunOf(g, h, s, T, k, q) ==
  /\ Tracked(g, h, T \cup {k}, q) /\ h.direct = s.direct /\ h.skip = s.skip
  /\ h.rejected = (s.rejected \/ (commands[k].stop # "ends" \/ Unknown(T)))

(* MSCAL and MSCNT, whether or not the program comes to its end.             *)
LEMMA RunTaken ==
  ASSUME Fits, NEW g, NEW k, NEW T, NEW p, NEW q, NEW s, Due(g, s, T, p, k, q),
         commands[k].op \in Vif!Runs, NEW u, Begins(u, k)
  PROVE  RunOf(g, Vif!Run(s, u), s, T, k, q)
<1>u. PICK h : h = Vif!Run(s, u)
  OBVIOUS
<1>000. g \in Seq(Packet) /\ k \in 1..Len(commands) /\ T \in SUBSET (1..(k - 1))
        /\ Tracked(g, s, T, p) /\ Steady(T, p, q)
  BY Zenon DEF Due
<1>0. /\ commands[k].kicks \in Nat /\ k \in Nat /\ VuSize \in Nat \ {0, 1} /\ s \in VifState
      /\ commands[k].stop \in {"ends", "budget", "unknown"}
  BY <1>000, CommandIs DEF Fits, Tracked
<1>1. PICK tops \in Slot, dbf \in BOOLEAN : Vif!SwapFirst(s) = [s EXCEPT !.tops = tops, !.dbf = dbf]
  BY <1>0, SwapIs
<1>2. PICK kicks \in Seq(Packet) : kicks = OutputAt(k, q)
  BY <1>000, OutputType
<1>3. PICK running \in BOOLEAN : running = (commands[k].stop = "budget")
  OBVIOUS
<1>4. PICK unknown \in BOOLEAN : unknown = (s.unknown \/ commands[k].stop = "unknown")
  OBVIOUS
<1>5. PICK rec \in [at : Nat, saw : Nat \X Nat] : rec = [at |-> k, saw |-> s.mem[s.tops]]
  <2>1. s.mem[s.tops] \in Nat \X Nat
    BY <1>0 DEF VifState
  <2> QED BY <1>0, <2>1
<1>6. PICK path1 \in Seq(Packet) : path1 = s.path1 \o kicks
  <2>1. s.path1 \in Seq(Packet)
    BY <1>0 DEF VifState
  <2>2. s.path1 \o kicks \in Seq(Packet)
    BY <2>1, ConcatType, Zenon
  <2> QED BY <2>2, Zenon
<1>7. PICK runs \in Seq([at : Nat, saw : Nat \X Nat]) : runs = Append(s.runs, rec)
  <2>1. s.runs \in Seq([at : Nat, saw : Nat \X Nat])
    BY <1>0 DEF VifState
  <2>2. Append(s.runs, rec) \in Seq([at : Nat, saw : Nat \X Nat])
    BY <2>1, Appended, Zenon
  <2> QED BY <2>2, Zenon
<1>8. PICK a : a = [s EXCEPT !.tops = tops, !.dbf = dbf]
  OBVIOUS
<1>9. /\ a \in VifState /\ a.path1 = s.path1 /\ a.runs = s.runs /\ a.rejected = s.rejected
      /\ a.direct = s.direct /\ a.skip = s.skip /\ a.out = s.out /\ a.differ = s.differ
  BY <1>0, <1>8 DEF VifState
<1>10. PICK b : b = [a EXCEPT !.path1 = path1, !.runs = runs]
  OBVIOUS
<1>11. /\ b \in VifState /\ b.path1 = path1 /\ b.runs = runs /\ b.rejected = s.rejected
       /\ b.direct = s.direct /\ b.skip = s.skip /\ b.out = s.out /\ b.differ = s.differ
  BY <1>9, <1>10 DEF VifState
<1>12. PICK t : t = [b EXCEPT !.unknown = unknown, !.running = running]
  OBVIOUS
<1>13. /\ t \in VifState /\ t.path1 = path1 /\ t.runs = runs /\ t.rejected = s.rejected
       /\ t.direct = s.direct /\ t.skip = s.skip /\ t.out = s.out /\ t.differ = s.differ
       /\ t.unknown = unknown
  BY <1>11, <1>12 DEF VifState
<1>14. h = IF running \/ unknown THEN Vif!Reject(t) ELSE t
  <2>1. u.at[1] = k /\ u.code = commands[k]
    <3>1. u.at = <<k, 0>> /\ u.code = commands[k]
      BY Zenon DEF Begins
    <3> QED BY <3>1
  <2>2. kicks = [j \in 1..commands[k].kicks |-> <<"kick", k, j>>]
    BY <1>2, Zenon DEF OutputAt
  <2>3. Append(a.runs, [at |-> k, saw |-> s.mem[Vif!RunTop(s)]]) = runs /\ a.path1 \o kicks = path1
    BY <1>5, <1>6, <1>7, <1>9, Zenon DEF Vif!RunTop
  <2>4. [a EXCEPT !.path1 = @ \o kicks, !.runs = Append(@, [at |-> k, saw |-> s.mem[Vif!RunTop(s)]]),
                  !.unknown = unknown, !.running = running]
          = [a EXCEPT !.path1 = path1, !.runs = runs, !.unknown = unknown, !.running = running]
    <3>1. PICK r : r = Append(a.runs, [at |-> k, saw |-> s.mem[Vif!RunTop(s)]])
      OBVIOUS
    <3>2. r = runs
      BY <2>3, <3>1, Zenon
    <3>3. PICK x : x = a.path1 \o kicks
      OBVIOUS
    <3>4. x = path1
      BY <2>3, <3>3, Zenon
    <3>5. [a EXCEPT !.path1 = a.path1 \o kicks, !.runs = Append(a.runs, [at |-> k, saw |-> s.mem[Vif!RunTop(s)]]),
                  !.unknown = unknown, !.running = running]
          = [a EXCEPT !.path1 = path1, !.runs = runs, !.unknown = unknown, !.running = running]
      BY <3>1, <3>2, <3>3, <3>4, Zenon
    <3>6. a = [f \in DOMAIN a |-> a[f]] /\ "path1" \in DOMAIN a /\ "runs" \in DOMAIN a
      BY <1>9 DEF VifState
    <3> QED BY <3>5, <3>6
  <2>5. [a EXCEPT !.path1 = path1, !.runs = runs, !.unknown = unknown, !.running = running] = t
    BY <1>9, <1>10, <1>12 DEF VifState
  <2>6. h =
          LET x == [a EXCEPT !.path1 = @ \o kicks, !.runs = Append(@, [at |-> k, saw |-> s.mem[Vif!RunTop(s)]]),
                             !.unknown = unknown, !.running = running]
          IN IF running \/ unknown THEN Vif!Reject(x) ELSE x
    BY <1>u, <1>1, <1>3, <1>4, <1>8, <2>1, <2>2 DEF Vif!Run
  <2> QED BY <2>4, <2>5, <2>6, Zenon
<1>15. s.unknown <=> Unknown(T)
  BY <1>000, Zenon DEF Tracked, Settings
<1>21. Tracked(g, t, T \cup {k}, q)
  <2>1. rec = [at |-> k, saw |-> s.mem[s.tops]] /\ kicks = OutputAt(k, q)
    BY <1>2, <1>5
  <2>2. t.differ = s.differ /\ t.out = s.out /\ t.path1 = s.path1 \o kicks /\ t.runs = Append(s.runs, rec)
        /\ (t.unknown <=> (s.unknown \/ commands[k].stop = "unknown")) /\ t \in VifState
    BY <1>4, <1>6, <1>7, <1>13
  <2> QED BY <1>000, <2>1, <2>2, KeptRun
<1>22. Steady(T \cup {k}, q, q)
  BY DEF Steady
<1>23. Tracked(g, Vif!Reject(t), T \cup {k}, q)
  BY <1>13, <1>21, <1>22, RejectIs, KeptStays
<1>24. running \/ unknown <=> commands[k].stop # "ends" \/ Unknown(T)
  BY <1>0, <1>3, <1>4, <1>15
<1>25. s.rejected \in BOOLEAN
  BY <1>0 DEF VifState
<1>26. CASE running \/ unknown
  <2>1. h = Vif!Reject(t)
    BY <1>14, <1>26
  <2>2. Vif!Reject(t).rejected = TRUE /\ Vif!Reject(t).direct = s.direct /\ Vif!Reject(t).skip = s.skip
    BY <1>13, RejectIs
  <2> QED BY <1>u, <1>23, <1>24, <1>26, <2>1, <2>2 DEF RunOf
<1>27. CASE ~(running \/ unknown)
  <2>1. h = t
    BY <1>14, <1>27
  <2> QED BY <1>u, <1>13, <1>21, <1>24, <1>25, <1>27, <2>1 DEF RunOf
<1> QED BY <1>26, <1>27

(* A DIRECT whose payload is still to come.                                  *)
Directs(k, q) == commands[k].op = "direct" /\ ~(Vif!LastAt(k) <= q)
Directed(g, t, s, T, k, q) ==
  /\ Tracked(g, t, T \cup {k}, q) /\ t.rejected = s.rejected /\ t.direct = commands[k].n
  /\ t.skip = s.skip /\ t.packet = <<>> /\ t.path1 = <<>>

(* DIRECT gives nothing yet: its payload is carried over.                    *)
LEMMA DirectTaken ==
  ASSUME Fits, NEW g, NEW k, NEW T, NEW p, NEW q, NEW s, Due(g, s, T, p, k, q), Directs(k, q)
  PROVE  Directed(g, Vif!Direct(s, commands[k].n), s, T, k, q)
<1>u. PICK t : t = Vif!Direct(s, commands[k].n)
  OBVIOUS
<1>v. commands[k].op = "direct" /\ ~(Vif!LastAt(k) <= q)
  BY Zenon DEF Directs
<1>000. g \in Seq(Packet) /\ k \in 1..Len(commands) /\ T \in SUBSET (1..(k - 1))
        /\ Tracked(g, s, T, p) /\ Steady(T, p, q)
  BY Zenon DEF Due
<1>0. commands[k].n \in Nat /\ k \in Nat /\ s \in VifState
  BY <1>000, CommandIs DEF Tracked
<1>00. k \in Nat /\ T \in SUBSET (1..(k - 1))
  BY <1>0, <1>000
<1>1. s.out \in Seq(Packet) /\ s.path1 \in Seq(Packet)
  BY <1>0 DEF VifState
<1>2. PICK out \in Seq(Packet) : out = s.out \o s.path1
  <2>1. s.out \o s.path1 \in Seq(Packet)
    BY <1>1, ConcatType, Zenon
  <2> QED BY <2>1
<1>3. PICK none \in Seq(Packet) : none = <<>>
  <2>1. <<>> \in Seq(Packet)
    OBVIOUS
  <2> QED BY <2>1
<1>4. PICK n \in Nat : n = commands[k].n
  BY <1>0
<1>5. PICK a : a = [s EXCEPT !.out = out, !.path1 = none]
  OBVIOUS
<1>6. /\ a \in VifState /\ a.out = out /\ a.path1 = none /\ a.rejected = s.rejected /\ a.skip = s.skip
      /\ a.differ = s.differ /\ a.unknown = s.unknown /\ a.tops = s.tops /\ a.mem = s.mem /\ a.runs = s.runs
  BY <1>0, <1>5 DEF VifState
<1>7. t = [a EXCEPT !.direct = n, !.packet = <<>>]
  <2>1. [s EXCEPT !.out = @ \o s.path1, !.path1 = <<>>, !.direct = commands[k].n, !.packet = <<>>]
          = [s EXCEPT !.out = out, !.path1 = none, !.direct = n, !.packet = <<>>]
    <3>1. "out" \in DOMAIN s
      BY <1>0 DEF VifState
    <3>2. [s EXCEPT !.out = @ \o s.path1, !.path1 = <<>>, !.direct = commands[k].n, !.packet = <<>>]
            = [s EXCEPT !.out = s.out \o s.path1, !.path1 = <<>>, !.direct = commands[k].n, !.packet = <<>>]
      BY <3>1
    <3> QED BY <1>2, <1>3, <1>4, <3>2, Zenon
  <2>2. [s EXCEPT !.out = out, !.path1 = none, !.direct = n, !.packet = <<>>]
          = [a EXCEPT !.direct = n, !.packet = <<>>]
    BY <1>0, <1>5 DEF VifState
  <2> QED BY <1>u, <2>1, <2>2, Zenon DEF Vif!Direct
<1>8. /\ t \in VifState /\ t.out = out /\ t.path1 = none /\ t.rejected = s.rejected /\ t.skip = s.skip
      /\ t.direct = n /\ t.packet = <<>>
  <2>1. <<>> \in Seq(Nat \X Nat)
    OBVIOUS
  <2> QED BY <1>6, <1>7, <2>1 DEF VifState
<1>9. t.differ = s.differ /\ t.unknown = s.unknown /\ t.tops = s.tops /\ t.mem = s.mem /\ t.runs = s.runs
  BY <1>6, <1>7 DEF VifState
<1>11. Settings(t, T \cup {k})
  <2>1. commands[k].op \notin {"stcycl"} /\ commands[k].op \notin Vif!Runs
    BY <1>v DEF Vif!Runs
  <2>2. Vif!LastOp(T \cup {k}, {"stcycl"}) = Vif!LastOp(T, {"stcycl"})
          /\ Vif!LastOp(T \cup {k}, Vif!Runs) = Vif!LastOp(T, Vif!Runs)
    BY ONLY <1>00, <2>1, LastMore, ZenonT(40)
  <2> QED BY <1>000, <1>9, <2>2 DEF Tracked, Settings, Vif!Differs, Unknown
<1>12. Buffers(t, T \cup {k})
  <2>1. commands[k].op \notin Users
    BY <1>v DEF Vif!Runs, Users
  <2>2. Vif!LastOp(T \cup {k}, Users) = Vif!LastOp(T, Users)
    BY ONLY <1>00, <2>1, LastMore
  <2> QED BY <1>000, <1>9, <2>2 DEF Tracked, Buffers, Finds
<1>13. Seen(t, T \cup {k})
  BY <1>0, <1>000, <1>9, SeenMore DEF Tracked
<1>14. Given(g, t, T \cup {k}, q)
  <2>1. OutputAt(k, q) = none
    BY <1>v, <1>3 DEF OutputAt, Vif!Runs
  <2>2. PICK x \in Seq(Packet) : x = FlattenSeq(Shares(T, p))
    <3>1. Shares(T, p) \in Seq(Seq(Packet))
      BY <1>000, SharesType
    <3> QED BY <3>1, FlattenType
  <2>3. FlattenSeq(Shares(T \cup {k}, q)) = x \o none
    BY <1>000, <2>1, <2>2, SharesMore
  <2>4. PICK y \in Seq(Packet), z \in Seq(Packet) : y = s.out /\ z = s.path1
    BY <1>1
  <2>5. (g \o y) \o z = x
    BY <1>000, <2>2, <2>4 DEF Tracked, Given
  <2>6. g \o (y \o z) = (g \o y) \o z
    <3>1. PICK x1 \in Seq(Packet) : x1 = g
      BY <1>000
    <3> QED BY <3>1, ConcatThree, SMTT(30)
  <2>7. g \o t.out \o t.path1 = x \o none
    BY <1>2, <1>8, <2>4, <2>5, <2>6, Zenon
  <2> QED BY <2>3, <2>7 DEF Given
<1>15. Tracked(g, t, T \cup {k}, q)
  BY <1>8, <1>11, <1>12, <1>13, <1>14 DEF Tracked
<1> QED BY <1>u, <1>3, <1>4, <1>8, <1>15 DEF Directed

(* What the interpretation of the k-th command comes to.                     *)
TakenAs(g, T, k, q, e, t) ==
  IF Vif!Refused(k, T, e)
    THEN /\ t.rejected = TRUE /\ t.direct = 0
         /\ Tracked(g, t, IF commands[k].op \in Vif!Runs THEN T \cup {k} ELSE T, q)
    ELSE /\ t.rejected = FALSE /\ Tracked(g, t, T \cup {k}, q)
         /\ IF commands[k].op = "direct"
              THEN t.direct = commands[k].n /\ t.skip = 0 /\ t.packet = <<>> /\ t.path1 = <<>>
              ELSE t.direct = 0 /\ t.skip = commands[k].n /\ Vif!LastAt(k) <= e

(* Commands that only set what no run and no packet depends on.              *)
LEMMA QuietTaken ==
  ASSUME Fits, NEW g \in Seq(Packet), NEW k \in 1..Len(commands), NEW T \in SUBSET (1..(k - 1)),
         NEW p, NEW q, q = Vif!CodeAt(k), NEW e \in Nat, NEW s, Tracked(g, s, T, p), Steady(T, p, q), q <= e,
         s.rejected = FALSE, s.direct = 0, s.skip = 0, NEW u, Begins(u, k),
         commands[k].op \in {"nop", "base", "strow", "mpg"}
  PROVE  TakenAs(g, T, k, q, e, Vif!Interpret(s, u, e - q))
<1>0. /\ commands[k].n \in Nat /\ k \in Nat /\ s \in VifState /\ commands[k].v \in Slot
      /\ commands[k].n # 0 <=> commands[k].op \in {"strow", "mpg", "unpack", "direct"}
  BY CommandIs DEF Tracked
<1>1. q \in Nat /\ Vif!LastAt(k) = q + commands[k].n
  BY CodeIs
<1>2. PICK rest \in Nat : rest = e - q
  BY <1>1
<1>3. u.code = commands[k] /\ u.at = <<k, 0>>
  BY Zenon DEF Begins
<1>4. PICK n \in Nat : n = commands[k].n
  BY <1>0
<1>5. PICK t : t = Vif!Interpret(s, u, rest)
  OBVIOUS
<1>6. CASE commands[k].op \in {"nop", "base"}
  <2>1. n = 0
    BY <1>0, <1>4, <1>6
  <2>2. ~Vif!Refused(k, T, e)
    BY <1>6 DEF Vif!Refused, Vif!Runs
  <2>3. t = s \/ t = [s EXCEPT !.base = commands[k].v]
    BY ONLY <1>3, <1>5, <1>6 DEF Vif!Interpret, Vif!Runs
  <2>4. Same(t, s) /\ t.rejected = FALSE /\ t.direct = 0 /\ t.skip = 0
    BY <1>0, <2>3, ZenonT(40) DEF Same, VifState
  <2>5. Tracked(g, t, T \cup {k}, q)
    BY <2>4, KeptQuiet
  <2>6. Vif!LastAt(k) <= e /\ commands[k].op # "direct" /\ t.skip = commands[k].n
    BY <1>1, <1>4, <1>6, <2>1, <2>4
  <2> QED BY <1>2, <1>5, <2>2, <2>4, <2>5, <2>6 DEF TakenAs
<1>7. CASE commands[k].op \in {"strow", "mpg"}
  <2>1. Vif!Refused(k, T, e) <=> Vif!LastAt(k) > e
    BY <1>7 DEF Vif!Refused, Vif!Runs
  <2>2. rest < n <=> Vif!LastAt(k) > e
    BY <1>1, <1>2, <1>4
  <2>3. CASE rest < n
    <3>1. t = Vif!Reject(s)
      BY ONLY <1>3, <1>4, <1>5, <1>7, <2>3 DEF Vif!Interpret, Vif!Runs
    <3>2. Same(t, s) /\ t.rejected = TRUE /\ t.direct = 0
      BY <1>0, <3>1, RejectIs
    <3>3. Tracked(g, t, T, q)
      BY <3>2, KeptStays
    <3>4. commands[k].op \notin Vif!Runs
      BY <1>7 DEF Vif!Runs
    <3> QED BY <1>2, <1>5, <2>1, <2>2, <2>3, <3>2, <3>3, <3>4 DEF TakenAs
  <2>4. CASE ~(rest < n)
    <3>1. t = [s EXCEPT !.skip = n] \/ t = [s EXCEPT !.skip = n, !.micro = k]
      <4>1. u.at[1] = k
        BY <1>3
      <4> QED BY ONLY <1>3, <1>4, <1>5, <1>7, <2>4, <4>1 DEF Vif!Interpret, Vif!Runs
    <3>2. Same(t, s) /\ t.rejected = FALSE /\ t.direct = 0 /\ t.skip = n
      BY <1>0, <3>1, ZenonT(40) DEF Same, VifState
    <3>3. Tracked(g, t, T \cup {k}, q)
      BY <3>2, KeptQuiet
    <3>4. Vif!LastAt(k) <= e /\ commands[k].op # "direct"
      BY <1>1, <1>4, <1>7, <2>2, <2>4
    <3> QED BY <1>2, <1>4, <1>5, <2>1, <2>2, <2>4, <3>2, <3>3, <3>4 DEF TakenAs
  <2> QED BY <2>3, <2>4
<1> QED BY <1>6, <1>7

(* Every command, taken or refused, keeps what is tracked.                   *)
LEMMA Interpreted ==
  ASSUME Fits, NEW g \in Seq(Packet), NEW k \in 1..Len(commands), NEW T \in SUBSET (1..(k - 1)),
         NEW p, NEW q, q = Vif!CodeAt(k), NEW e \in Nat, NEW s, Tracked(g, s, T, p), Steady(T, p, q), q <= e,
         s.rejected = FALSE, s.direct = 0, s.skip = 0, NEW u, Begins(u, k)
  PROVE  TakenAs(g, T, k, q, e, Vif!Interpret(s, u, e - q))
<1>0. /\ commands[k].n \in Nat /\ k \in Nat /\ s \in VifState /\ commands[k].v \in Slot
      /\ commands[k].n # 0 <=> commands[k].op \in {"strow", "mpg", "unpack", "direct"}
  BY CommandIs DEF Tracked
<1>1. q \in Nat /\ Vif!LastAt(k) = q + commands[k].n
  BY CodeIs
<1>2. PICK rest \in Nat : rest = e - q
  BY <1>1
<1>3. u.code = commands[k] /\ u.at = <<k, 0>>
  BY Zenon DEF Begins
<1>4. PICK n \in Nat : n = commands[k].n
  BY <1>0
<1>5. PICK t : t = Vif!Interpret(s, u, rest)
  OBVIOUS
<1>50. Due(g, s, T, p, k, q)
  BY Zenon DEF Due
<1>51. u.code.op = commands[k].op
  BY <1>3
<1>6. CASE commands[k].op \in {"nop", "base", "strow", "mpg"}
  BY <1>6, QuietTaken
<1>7. CASE commands[k].op = "bad"
  <2>1. t = Vif!Reject(s)
    BY ONLY <1>3, <1>5, <1>7 DEF Vif!Interpret, Vif!Runs
  <2>2. Same(t, s) /\ t.rejected = TRUE /\ t.direct = 0
    BY <1>0, <2>1, RejectIs
  <2>3. Tracked(g, t, T, q)
    BY <2>2, KeptStays
  <2>4. commands[k].op \notin Vif!Runs /\ Vif!Refused(k, T, e)
    BY <1>7 DEF Vif!Runs, Vif!Refused
  <2> QED BY <1>2, <1>5, <2>2, <2>3, <2>4 DEF TakenAs
<1>8. CASE commands[k].op \in {"stcycl", "offset"}
  <2>1. n = 0
    BY <1>0, <1>4, <1>8
  <2>2. ~Vif!Refused(k, T, e)
    BY <1>8 DEF Vif!Refused, Vif!Runs
  <2>3. \/ /\ commands[k].op = "stcycl"
           /\ t = [s EXCEPT !.differ = commands[k].v]
        \/ /\ commands[k].op = "offset"
           /\ t = [s EXCEPT !.offset = commands[k].v, !.tops = s.base, !.dbf = FALSE]
    <3>1. CASE commands[k].op = "stcycl"
      <4>0. u.code.op = "stcycl"
        BY <1>51, <3>1
      <4>1. t = [s EXCEPT !.differ = u.code.v]
        BY ONLY <1>5, <4>0 DEF Vif!Interpret, Vif!Runs
      <4>2. [s EXCEPT !.differ = u.code.v] = [s EXCEPT !.differ = commands[k].v]
        BY <1>3, Zenon
      <4>3. t = [s EXCEPT !.differ = commands[k].v]
        BY ONLY <4>1, <4>2
      <4> QED BY <3>1, <4>3
    <3>2. CASE commands[k].op = "offset"
      <4>0. u.code.op = "offset"
        BY <1>51, <3>2
      <4>1. t = [s EXCEPT !.offset = u.code.v, !.tops = s.base, !.dbf = FALSE]
        BY ONLY <1>5, <4>0 DEF Vif!Interpret, Vif!Runs
      <4>2. [s EXCEPT !.offset = u.code.v, !.tops = s.base, !.dbf = FALSE]
              = [s EXCEPT !.offset = commands[k].v, !.tops = s.base, !.dbf = FALSE]
        BY <1>3, Zenon
      <4> QED BY <3>2, <4>1, <4>2, Zenon
    <3> QED BY <1>8, <3>1, <3>2
  <2>4. t.rejected = FALSE /\ t.direct = 0 /\ t.skip = 0
    BY <1>0, <2>3, ZenonT(40) DEF VifState
  <2>5. Tracked(g, t, T \cup {k}, q)
    <3>1. CASE commands[k].op = "stcycl"
      BY <2>3, <3>1, KeptCycle
    <3>2. CASE commands[k].op = "offset"
      BY <2>3, <3>2, OffsetTaken
    <3> QED BY <1>8, <3>1, <3>2
  <2>6. Vif!LastAt(k) <= e /\ commands[k].op # "direct" /\ t.skip = commands[k].n
    BY <1>1, <1>4, <1>8, <2>1, <2>4
  <2> QED BY <1>2, <1>5, <2>2, <2>4, <2>5, <2>6 DEF TakenAs
<1>9. CASE commands[k].op = "unpack"
  <2>1. s.differ = 1 <=> Vif!Differs(T)
    BY Zenon DEF Tracked, Settings
  <2>2. Vif!Refused(k, T, e) <=> (Vif!LastAt(k) > e \/ s.differ = 1)
    BY <1>9, <2>1 DEF Vif!Refused, Vif!Runs
  <2>3. rest < n <=> Vif!LastAt(k) > e
    BY <1>1, <1>2, <1>4
  <2>4. t = Vif!Unpack(s, u, rest)
    BY ONLY <1>3, <1>5, <1>9 DEF Vif!Interpret, Vif!Runs
  <2>5. CASE s.differ = 1 \/ rest < n
    <3>1. t = Vif!Reject(s)
      BY <1>3, <1>4, <2>4, <2>5 DEF Vif!Unpack
    <3>2. Same(t, s) /\ t.rejected = TRUE /\ t.direct = 0
      BY <1>0, <3>1, RejectIs
    <3>3. Tracked(g, t, T, q)
      BY <3>2, KeptStays
    <3>4. commands[k].op \notin Vif!Runs
      BY <1>9 DEF Vif!Runs
    <3> QED BY <1>2, <1>5, <2>2, <2>3, <2>5, <3>2, <3>3, <3>4 DEF TakenAs
  <2>6. CASE ~(s.differ = 1 \/ rest < n)
    <3>1. Tracked(g, t, T \cup {k}, q) /\ t.rejected = FALSE /\ t.direct = 0 /\ t.skip = n
      <4>1. Uploads(s, k, rest)
        BY <1>4, <1>9, <2>6 DEF Uploads
      <4>2. Uploaded(g, t, s, T, k, q)
        BY ONLY Fits, Begins(u, k), <1>50, <2>4, <4>1, UnpackTaken, Zenon
      <4> QED BY <1>4, <4>2 DEF Uploaded
    <3>2. Vif!LastAt(k) <= e /\ commands[k].op # "direct"
      BY <1>1, <1>4, <1>9, <2>3, <2>6
    <3> QED BY <1>2, <1>4, <1>5, <2>2, <2>3, <2>6, <3>1, <3>2 DEF TakenAs
  <2> QED BY <2>5, <2>6
<1>10. CASE commands[k].op \in Vif!Runs
  <2>1. t = Vif!Run(s, u)
    BY ONLY <1>3, <1>5, <1>10 DEF Vif!Interpret, Vif!Runs
  <2>2. Vif!Refused(k, T, e) <=> (commands[k].stop # "ends" \/ Unknown(T))
    BY <1>10 DEF Vif!Refused, Vif!Runs, Unknown
  <2>3. Tracked(g, t, T \cup {k}, q) /\ t.direct = 0 /\ t.skip = 0
        /\ t.rejected = (FALSE \/ (commands[k].stop # "ends" \/ Unknown(T)))
    <3>1. RunOf(g, t, s, T, k, q)
      BY ONLY Fits, Begins(u, k), <1>10, <1>50, <2>1, RunTaken, Zenon
    <3> QED BY <3>1 DEF RunOf
  <2>4. n = 0 /\ Vif!LastAt(k) <= e /\ commands[k].op # "direct"
    BY <1>0, <1>1, <1>4, <1>10 DEF Vif!Runs
  <2> QED BY <1>2, <1>4, <1>5, <1>10, <2>2, <2>3, <2>4 DEF TakenAs
<1>11. CASE commands[k].op = "direct"
  <2>1. t = Vif!Direct(s, commands[k].n)
    BY ONLY <1>3, <1>5, <1>11 DEF Vif!Interpret, Vif!Runs
  <2>2. ~Vif!Refused(k, T, e)
    BY <1>11 DEF Vif!Refused, Vif!Runs
  <2>3. ~(Vif!LastAt(k) <= q)
    BY <1>0, <1>1, <1>11
  <2>4. /\ Tracked(g, t, T \cup {k}, q) /\ t.rejected = FALSE /\ t.direct = commands[k].n
        /\ t.skip = 0 /\ t.packet = <<>> /\ t.path1 = <<>>
    <3>1. Directs(k, q)
      BY <1>11, <2>3 DEF Directs
    <3>2. Directed(g, t, s, T, k, q)
      BY ONLY Fits, <1>50, <2>1, <3>1, DirectTaken, Zenon
    <3> QED BY <3>2 DEF Directed
  <2> QED BY <1>2, <1>5, <1>11, <2>2, <2>4 DEF TakenAs
<1>12. commands[k].op \in {"nop", "stcycl", "offset", "base", "strow", "mpg", "unpack", "direct", "bad"}
       \/ commands[k].op \in Vif!Runs
  BY CommandIs DEF Vif!Runs
<1> QED BY <1>6, <1>7, <1>8, <1>9, <1>10, <1>11, <1>12

-----------------------------------------------------------------------------
(* A packet                                                                  *)

(* The state between packets that keep in step, and within one while no      *)
(* command has been refused: no payload is left over, one is skipped that is *)
(* all in the packet, or part of a DIRECT payload is in hand.                *)
Begun(c, m) == [j \in 1..m |-> <<c, j>>]
Carries(s, T, c, p) ==
  /\ c \in T /\ commands[c].op = "direct" /\ p + s.direct = Vif!LastAt(c)
  /\ s.packet = Begun(c, commands[c].n - s.direct) /\ s.path1 = <<>>
Skips(s, c, p, e) ==
  IF c = 0 THEN s.skip = 0
  ELSE /\ p + s.skip = Vif!LastAt(c) /\ Vif!LastAt(c) <= e
       /\ s.skip # 0 => commands[c].op # "direct"
Phase(s, T, c, p, e) ==
  IF s.direct = 0 THEN Skips(s, c, p, e) ELSE s.skip = 0 /\ c # 0 /\ Carries(s, T, c, p)
Amid(g, s, T, c, p, e) ==
  /\ g \in Seq(Packet) /\ T \in SUBSET (1..c) /\ e \in Nat /\ Where(c, p)
  /\ s.rejected = FALSE /\ Tracked(g, s, T, p) /\ Phase(s, T, c, p, e)

(* A payload begun, one qword later.                                         *)
LEMMA BegunMore ==
  ASSUME NEW c \in Nat, NEW m \in Nat
  PROVE  /\ Begun(c, m) \in Seq(Nat \X Nat) /\ Append(Begun(c, m), <<c, m + 1>>) = Begun(c, m + 1)
<1>1. PICK a : a = Begun(c, m)
  OBVIOUS
<1>2. PICK b : b = Begun(c, m + 1)
  OBVIOUS
<1>3. a \in Seq(Nat \X Nat) /\ Len(a) = m /\ \A j \in 1..m : a[j] = <<c, j>>
  BY <1>1 DEF Begun
<1>4. b \in Seq(Nat \X Nat) /\ Len(b) = m + 1 /\ \A j \in 1..(m + 1) : b[j] = <<c, j>>
  BY <1>2 DEF Begun
<1>5. PICK x \in Nat \X Nat : x = <<c, m + 1>>
  <2>1. m + 1 \in Nat
    OBVIOUS
  <2>2. <<c, m + 1>> \in Nat \X Nat
    BY <2>1
  <2> QED BY <2>2
<1>6. PICK d : d = Append(a, x)
  OBVIOUS
<1>7. /\ d \in Seq(Nat \X Nat) /\ Len(d) = m + 1
      /\ \A i \in 1..(m + 1) : d[i] = IF i \in 1..m THEN a[i] ELSE x
  <2>1. /\ d \in Seq(Nat \X Nat) /\ Len(d) = Len(a) + 1
        /\ \A i \in 1..(Len(a) + 1) : d[i] = IF i \in 1..Len(a) THEN a[i] ELSE x
    BY <1>3, <1>6, Appended
  <2> QED BY <1>3, <2>1
<1>8. \A i \in 1..(m + 1) : d[i] = b[i]
  <2> TAKE i \in 1..(m + 1)
  <2>1. CASE i \in 1..m
    BY <1>3, <1>4, <1>7, <2>1
  <2>2. CASE i = m + 1
    <3>1. i \notin 1..m
      BY <2>2
    <3> QED BY <1>4, <1>5, <1>7, <2>2, <3>1
  <2> QED BY <2>1, <2>2
<1>9. d = b
  BY <1>4, <1>7, <1>8
<1> QED BY <1>1, <1>2, <1>3, <1>5, <1>6, <1>9

(* A turn over a payload that was read with its command.                     *)
LEMMA SkipUnit ==
  ASSUME Fits, NEW g, NEW s, NEW T, NEW c, NEW p, NEW e, Amid(g, s, T, c, p, e),
         p + 1 <= Len(Vif!Units(commands)), s.direct = 0, s.skip # 0
  PROVE  Amid(g, [s EXCEPT !.skip = @ - 1], T, c, p + 1, e)
<1>0. /\ g \in Seq(Packet) /\ T \in SUBSET (1..c) /\ e \in Nat /\ Where(c, p)
      /\ s.rejected = FALSE /\ Tracked(g, s, T, p) /\ s \in VifState /\ Skips(s, c, p, e)
  BY DEF Amid, Phase, Tracked
<1>1. c \in 0..Len(commands) /\ p \in Nat
  BY <1>0 DEF Where
<1>2. c # 0
  BY <1>0 DEF Skips
<1>3. /\ p + s.skip = Vif!LastAt(c) /\ Vif!LastAt(c) <= e /\ commands[c].op # "direct"
  BY <1>0, <1>2 DEF Skips
<1>4. s.skip \in Nat \ {0}
  BY <1>0 DEF VifState
<1>5. Vif!LastAt(c) \in Nat /\ p < Vif!LastAt(c)
  BY <1>1, <1>2, <1>3, <1>4, CodeIs
<1>6. Where(c, p + 1)
  BY <1>0, <1>2, <1>5, WhereNext
<1>7. PICK t : t = [s EXCEPT !.skip = @ - 1]
  OBVIOUS
<1>8. t.skip = s.skip - 1 /\ t.rejected = FALSE /\ t.direct = 0 /\ Same(t, s)
  <2>1. PICK k \in Nat : k = s.skip - 1
    BY <1>4
  <2>2. t = [s EXCEPT !.skip = k]
    BY <1>0, <1>7, <2>1 DEF VifState
  <2>3. t \in VifState /\ t.skip = k /\ t.rejected = s.rejected /\ t.direct = s.direct
    BY <1>0, <2>2 DEF VifState
  <2>4. /\ t.out = s.out /\ t.path1 = s.path1 /\ t.differ = s.differ /\ t.unknown = s.unknown
        /\ t.tops = s.tops /\ t.mem = s.mem /\ t.runs = s.runs
    BY <1>0, <2>2 DEF VifState
  <2> QED BY <1>0, <2>1, <2>3, <2>4 DEF Same
<1>9. Steady(T, p, p + 1)
  <2> SUFFICES ASSUME NEW i \in T, commands[i].op = "direct" PROVE Vif!LastAt(i) <= p
    /\ Vif!LastAt(i) <= p + 1
    BY DEF Steady
  <2>1. i \in 1..c /\ i # c
    BY <1>0, <1>3
  <2>2. i \in 1..Len(commands) /\ i < c
    BY <1>1, <2>1
  <2>3. Vif!LastAt(i) <= p /\ Vif!LastAt(i) \in Nat
    BY <1>0, <2>2, WhereBefore, CodeIs
  <2> QED BY <1>1, <2>3
<1>10. Tracked(g, t, T, p + 1)
  BY <1>0, <1>8, <1>9, KeptStays
<1>11. Skips(t, c, p + 1, e)
  <2>1. (p + 1) + (s.skip - 1) = Vif!LastAt(c)
    BY <1>1, <1>3, <1>4
  <2> QED BY <1>2, <1>3, <1>8, <2>1 DEF Skips
<1>12. Amid(g, t, T, c, p + 1, e)
  BY <1>0, <1>6, <1>8, <1>10, <1>11 DEF Amid, Phase
<1> QED BY <1>7, <1>12

(* Where the state is when a DIRECT payload is in hand.                      *)
LEMMA CarryIs ==
  ASSUME Fits, NEW g, NEW s, NEW T, NEW c, NEW p, NEW e, Amid(g, s, T, c, p, e),
         p + 1 <= Len(Vif!Units(commands)), s.direct # 0
  PROVE  /\ c \in 1..Len(commands) /\ p \in Nat /\ Vif!CodeAt(c) \in Nat /\ Vif!CodeAt(c) <= p
         /\ Vif!LastAt(c) \in Nat /\ p < Vif!LastAt(c) /\ commands[c].n \in Nat
         /\ p + s.direct = Vif!LastAt(c) /\ Vif!LastAt(c) = Vif!CodeAt(c) + commands[c].n
           /\ s.direct \in Nat \ {0}
         /\ Where(c, p + 1) /\ Vif!Units(commands)[p + 1].at = <<c, (p + 1) - Vif!CodeAt(c)>>
         /\ \A i \in T \ {c} : i \in 1..Len(commands) /\ Vif!LastAt(i) \in Nat /\ Vif!LastAt(i) <= p
<1>0. /\ T \in SUBSET (1..c) /\ Where(c, p) /\ s \in VifState /\ c # 0 /\ Carries(s, T, c, p)
  BY DEF Amid, Phase, Tracked
<1>1. c \in 1..Len(commands) /\ p \in Nat /\ Vif!CodeAt(c) <= p
  BY <1>0 DEF Where
<1>2. p + s.direct = Vif!LastAt(c) /\ s.direct \in Nat \ {0}
  BY <1>0 DEF Carries, VifState
<1>3. Vif!CodeAt(c) \in Nat /\ Vif!LastAt(c) \in Nat /\ commands[c].n \in Nat
        /\ Vif!LastAt(c) = Vif!CodeAt(c) + commands[c].n
  BY <1>1, CodeIs
<1>4. p < Vif!LastAt(c)
  BY <1>1, <1>2, <1>3
<1>5. Where(c, p + 1) /\ Vif!Units(commands)[p + 1].at = <<c, (p + 1) - Vif!CodeAt(c)>>
  BY <1>0, <1>4, <1>3, <1>1, WhereNext, SMTT(30)
<1>6. ASSUME NEW i \in T \ {c}
      PROVE i \in 1..Len(commands) /\ Vif!LastAt(i) \in Nat /\ Vif!LastAt(i) <= p
  <2>1. i \in 1..Len(commands) /\ i < c
    BY <1>0, <1>1
  <2> QED BY <1>0, <2>1, WhereBefore, CodeIs
<1> QED BY <1>1, <1>2, <1>3, <1>4, <1>5, <1>6

(* A turn that takes a qword of a DIRECT payload; the last one gives the     *)
(* packet.                                                                   *)
LEMMA CarryUnit ==
  ASSUME Fits, NEW g, NEW s, NEW T, NEW c, NEW p, NEW e, Amid(g, s, T, c, p, e),
         p + 1 <= Len(Vif!Units(commands)), s.direct # 0, p + 1 <= e
  PROVE  Amid(g, Vif!DirectUnit(s, Vif!Units(commands)[p + 1]), T, c, p + 1, e)
<1>0. /\ g \in Seq(Packet) /\ T \in SUBSET (1..c) /\ e \in Nat /\ Where(c, p)
      /\ s.rejected = FALSE /\ Tracked(g, s, T, p) /\ s \in VifState /\ s.skip = 0 /\ Carries(s, T, c, p)
  BY DEF Amid, Phase, Tracked
<1>1. /\ c \in 1..Len(commands) /\ p \in Nat /\ Vif!CodeAt(c) \in Nat /\ Vif!CodeAt(c) <= p
      /\ Vif!LastAt(c) \in Nat /\ p < Vif!LastAt(c) /\ commands[c].n \in Nat
      /\ p + s.direct = Vif!LastAt(c) /\ Vif!LastAt(c) = Vif!CodeAt(c) + commands[c].n
        /\ s.direct \in Nat \ {0}
      /\ Where(c, p + 1) /\ Vif!Units(commands)[p + 1].at = <<c, (p + 1) - Vif!CodeAt(c)>>
  BY CarryIs
<1>2. \A i \in T \ {c} : i \in 1..Len(commands) /\ Vif!LastAt(i) \in Nat /\ Vif!LastAt(i) <= p
  BY CarryIs
<1>3. PICK n \in Nat, d \in Nat \ {0}, a \in Nat : n = commands[c].n /\ d = s.direct /\ a = Vif!CodeAt(c)
  BY <1>1
<1>4. PICK m \in Nat : m = n - d
  BY <1>1, <1>3, SMTT(30)
<1>40. p + d = a + n /\ p \in Nat
  BY <1>1, <1>3
<1>5. (p + 1) - a = m + 1
  BY <1>40, <1>4
<1>50. c \in Nat
  BY <1>1
<1>6. s.packet = Begun(c, m) /\ s.path1 = <<>> /\ c \in T /\ commands[c].op = "direct"
  BY <1>0, <1>3, <1>4 DEF Carries
<1>7. PICK pk \in Seq(Nat \X Nat) : pk = Begun(c, m + 1)
  <2>1. Begun(c, m + 1) \in Seq(Nat \X Nat)
    <3>1. m + 1 \in Nat
      OBVIOUS
    <3> QED BY ONLY <1>50, <3>1, BegunMore
  <2> QED BY <2>1
<1>8. Append(s.packet, Vif!Units(commands)[p + 1].at) = pk
  <2>1. Vif!Units(commands)[p + 1].at = <<c, m + 1>>
    BY <1>1, <1>3, <1>5
  <2>2. Append(Begun(c, m), <<c, m + 1>>) = Begun(c, m + 1)
    BY <1>50, BegunMore
  <2> QED BY <1>6, <1>7, <2>1, <2>2
<1>9. PICK u : u = Vif!Units(commands)[p + 1]
  OBVIOUS
<1>10. PICK t : t = Vif!DirectUnit(s, u)
  OBVIOUS
<1>11. CASE d > 1
  <2>1. t = [s EXCEPT !.direct = d - 1, !.packet = pk]
    BY <1>0, <1>3, <1>8, <1>9, <1>10, <1>11 DEF Vif!DirectUnit, VifState
  <2>2. /\ Same(t, s) /\ t.direct = d - 1 /\ t.packet = pk /\ t.rejected = FALSE /\ t.skip = 0
        /\ t.path1 = <<>>
    <3>1. d - 1 \in Nat
      OBVIOUS
    <3>2. t \in VifState
      BY <1>0, <2>1, <3>1 DEF VifState
    <3>3. t.direct = d - 1 /\ t.packet = pk /\ t.rejected = s.rejected /\ t.skip = s.skip
      BY <1>0, <2>1 DEF VifState
    <3>4. /\ t.out = s.out /\ t.path1 = s.path1 /\ t.differ = s.differ /\ t.unknown = s.unknown
          /\ t.tops = s.tops /\ t.mem = s.mem /\ t.runs = s.runs
      BY <1>0, <2>1 DEF VifState
    <3> QED BY <1>0, <1>6, <3>2, <3>3, <3>4 DEF Same
  <2>3. Steady(T, p, p + 1)
    <3> SUFFICES ASSUME NEW i \in T PROVE Vif!LastAt(i) <= p <=> Vif!LastAt(i) <= p + 1
      BY DEF Steady
    <3>1. CASE i = c
      <4>1. p + d = Vif!LastAt(c)
        BY <1>1, <1>3
      <4>2. ~(Vif!LastAt(c) <= p) /\ ~(Vif!LastAt(c) <= p + 1)
        BY <1>1, <1>11, <4>1
      <4> QED BY <3>1, <4>2
    <3>2. CASE i # c
      <4>1. Vif!LastAt(i) <= p /\ Vif!LastAt(i) \in Nat
        BY <1>2, <3>2
      <4> QED BY <1>1, <4>1
    <3> QED BY <3>1, <3>2
  <2>4. Tracked(g, t, T, p + 1)
    BY <1>0, <2>2, <2>3, KeptStays
  <2>5. Carries(t, T, c, p + 1)
    <3>1. (p + 1) + (d - 1) = Vif!LastAt(c) /\ n - (d - 1) = m + 1
      <4>1. p + d = Vif!LastAt(c)
        BY <1>1, <1>3
      <4> QED BY <1>1, <1>4, <4>1
    <3> QED BY <1>3, <1>6, <1>7, <2>2, <3>1 DEF Carries
  <2>6. Amid(g, t, T, c, p + 1, e)
    <3>1. t.direct # 0 /\ c # 0
      BY <1>1, <1>11, <2>2
    <3> QED BY <1>0, <1>1, <2>2, <2>4, <2>5, <3>1 DEF Amid, Phase
  <2> QED BY <1>9, <1>10, <2>6
<1>12. CASE d = 1
  <2>1. m + 1 = n /\ Vif!LastAt(c) = p + 1
    BY <1>1, <1>3, <1>4, <1>12, SMTT(30)
  <2>2. PICK pp \in Packet : pp = pk
    BY DEF Packet
  <2>3. s.out \in Seq(Packet) /\ s.path1 \in Seq(Packet)
    BY <1>0 DEF VifState
  <2>4. PICK out \in Seq(Packet) : out = Append(s.out, pp)
    BY <2>3, Appended
  <2>5. t = [s EXCEPT !.direct = 0, !.packet = <<>>, !.out = out]
    <3>1. ~(s.direct > 1)
      BY <1>3, <1>12
    <3>2. Append(s.packet, u.at) = pp
      BY <1>8, <1>9, <2>2
    <3>3. t = [s EXCEPT !.direct = 0, !.packet = <<>>, !.out = Append(@, pp)]
      BY ONLY <1>10, <3>1, <3>2 DEF Vif!DirectUnit
    <3>4. "out" \in DOMAIN s
      BY <1>0 DEF VifState
    <3> QED BY <2>4, <3>3, <3>4
  <2>6. PICK x : x = [s EXCEPT !.direct = 0, !.packet = <<>>]
    OBVIOUS
  <2>7. x \in VifState /\ x.direct = 0 /\ x.out = s.out /\ x.path1 = <<>> /\ x.rejected = FALSE /\ x.skip = 0
        /\ x.differ = s.differ /\ x.unknown = s.unknown /\ x.tops = s.tops /\ x.mem = s.mem /\ x.runs = s.runs
    <3>1. <<>> \in Seq(Nat \X Nat)
      OBVIOUS
    <3> QED BY <1>0, <1>6, <2>6, <3>1 DEF VifState
  <2>8. t = [x EXCEPT !.out = out]
    BY <1>0, <2>5, <2>6 DEF VifState
  <2>9. /\ t \in VifState /\ t.direct = 0 /\ t.out = out /\ t.path1 = <<>> /\ t.rejected = FALSE /\ t.skip = 0
        /\ t.differ = s.differ /\ t.unknown = s.unknown /\ t.tops = s.tops /\ t.mem = s.mem /\ t.runs = s.runs
    BY <2>7, <2>8 DEF VifState
  <2>10. Given(g, t, T, p + 1)
    <3>1. OutputAt(c, p + 1) = <<pp>>
      <4>1. OutputAt(c, p + 1) = << Begun(c, commands[c].n) >>
        <5>1. Vif!LastAt(c) <= p + 1 /\ commands[c].op \notin Vif!Runs
          BY <1>1, <1>6, <2>1 DEF Vif!Runs
        <5> QED BY ONLY <1>6, <5>1 DEF OutputAt, Begun
      <4> QED BY ONLY <1>3, <1>7, <2>1, <2>2, <4>1
    <3>2. Steady(T \ {c}, p, p + 1)
      <4> SUFFICES ASSUME NEW i \in T \ {c} PROVE Vif!LastAt(i) <= p /\ Vif!LastAt(i) <= p + 1
        BY DEF Steady
      <4> QED BY <1>1, <1>2
    <3>3. FlattenSeq(Shares(T, p + 1)) = FlattenSeq(Shares(T, p)) \o OutputAt(c, p + 1)
      <4>1. ~(Vif!LastAt(c) <= p) /\ Vif!LastAt(c) <= p + 1
        BY <1>1, <2>1, SMTT(30)
      <4>2. PICK q : q = p + 1
        OBVIOUS
      <4>3. T \in SUBSET (1..c) /\ c \in T /\ commands[c].op = "direct" /\ c \in 1..Len(commands)
        BY <1>0, <1>1, <1>6
      <4>4. Steady(T \ {c}, p, q) /\ ~(Vif!LastAt(c) <= p) /\ Vif!LastAt(c) <= q
        BY <3>2, <4>1, <4>2
      <4> QED BY ONLY Fits, <4>2, <4>3, <4>4, SharesWhole, ZenonT(40)
    <3>4. PICK y \in Seq(Packet) : y = s.out
      BY <2>3
    <3>5. PICK z \in Seq(Packet) : z = g
      BY <1>0
    <3>6. (z \o y) \o <<>> = FlattenSeq(Shares(T, p))
      BY <1>0, <1>6, <3>4, <3>5 DEF Tracked, Given
    <3>7. (z \o y) \o <<>> = z \o y
      OBVIOUS
    <3>8. (z \o Append(y, pp)) \o <<>> = (z \o y) \o <<pp>>
      OBVIOUS
    <3>9. g \o t.out \o t.path1 = (z \o Append(y, pp)) \o <<>>
      BY <2>4, <2>9, <3>4, <3>5, Zenon
    <3> QED BY <3>1, <3>3, <3>6, <3>7, <3>8, <3>9, Zenon DEF Given
  <2>11. Tracked(g, t, T, p + 1)
    BY <1>0, <2>9, <2>10 DEF Tracked, Settings, Buffers, Seen
  <2>12. Skips(t, c, p + 1, e)
    BY <1>1, <2>1, <2>9 DEF Skips
  <2>13. Amid(g, t, T, c, p + 1, e)
    BY <1>0, <1>1, <2>9, <2>11, <2>12 DEF Amid, Phase
  <2> QED BY <1>9, <1>10, <2>13
<1> QED BY <1>3, <1>11, <1>12

(* From the c0-th command on, after those of T0.                             *)
Reached(T0, c0, c) == T0 \cup ((c0 + 1)..c)
Accepted(T0, c0, c, e) == \A r \in (c0 + 1)..c : ~Vif!Refused(r, Reached(T0, c0, r - 1), e)
TakenTo(T0, c0, m) == Reached(T0, c0, IF commands[m].op \in Vif!Runs THEN m ELSE m - 1)
StartsAt(T0, c0) == c0 \in 0..Len(commands) /\ T0 \in SUBSET (1..c0)

Going(g, s, T0, c0, c, p, e) ==
  /\ c \in c0..Len(commands) /\ Accepted(T0, c0, c, e) /\ Amid(g, s, Reached(T0, c0, c), c, p, e)
Stopped(g, s, T0, c0, m, p, e) ==
  /\ m \in (c0 + 1)..Len(commands) /\ Vif!CodeAt(m) <= p /\ p \in Nat /\ e \in Nat
  /\ s.rejected = TRUE /\ s.direct = 0 /\ Accepted(T0, c0, m - 1, e)
  /\ Vif!Refused(m, Reached(T0, c0, m - 1), e) /\ Tracked(g, s, TakenTo(T0, c0, m), Vif!CodeAt(m))
After(g, s, T0, c0, p, e) ==
  (\E c : Going(g, s, T0, c0, c, p, e)) \/ (\E m : Stopped(g, s, T0, c0, m, p, e))

(* The commands taken, one command later.                                    *)
LEMMA ReachedMore ==
  ASSUME NEW T0, NEW c0 \in Nat, NEW c \in Nat, c0 <= c
  PROVE  Reached(T0, c0, c + 1) = Reached(T0, c0, c) \cup {c + 1}
<1>1. (c0 + 1)..(c + 1) = ((c0 + 1)..c) \cup {c + 1}
  OBVIOUS
<1> QED BY <1>1 DEF Reached

(* A turn at a command: it is taken, or the packet is refused here.          *)
LEMMA NextCommand ==
  ASSUME Fits, NEW g, NEW s, NEW T0, NEW c0, StartsAt(T0, c0), NEW c, NEW p, NEW e,
         Going(g, s, T0, c0, c, p, e), p + 1 <= e, e <= Len(Vif!Units(commands)), s.direct = 0, s.skip = 0
  PROVE  After(g, Vif!Interpret(s, Vif!Units(commands)[p + 1], e - (p + 1)), T0, c0, p + 1, e)
<1>1. c0 \in Nat /\ c0 <= c /\ c \in 0..Len(commands) /\ Accepted(T0, c0, c, e) /\ Len(commands) \in Nat
  BY DEF StartsAt, Going, Fits
<1>2. PICK T : T = Reached(T0, c0, c)
  OBVIOUS
<1>3. /\ g \in Seq(Packet) /\ T \in SUBSET (1..c) /\ e \in Nat /\ Where(c, p)
      /\ s.rejected = FALSE /\ Tracked(g, s, T, p) /\ Skips(s, c, p, e)
  BY <1>2 DEF Going, Amid, Phase
<1>4. p \in Nat
  BY <1>3 DEF Where
<1>40. Len(Vif!Units(commands)) \in Nat
  <2>1. Vif!Units(commands) \in Seq(Unit)
    BY AllUnits
  <2> QED BY <2>1
<1>41. p + 1 <= Len(Vif!Units(commands))
  BY <1>3, <1>4, <1>40
<1>5. c # 0 => p = Vif!LastAt(c)
  BY <1>3, <1>4 DEF Skips
<1>6. PICK k : k = c + 1
  OBVIOUS
<1>7. PICK q : q = p + 1
  OBVIOUS
<1>8. /\ k \in 1..Len(commands) /\ q = Vif!CodeAt(k) /\ Where(k, q)
      /\ Vif!Units(commands)[q].at = <<k, 0>> /\ Vif!Units(commands)[q].code = commands[k]
  <2>1. ~(c \in 1..Len(commands) /\ p < Vif!LastAt(c))
    BY <1>4, <1>5
  <2> QED BY <1>3, <1>41, <1>6, <1>7, <2>1, WhereNext
<1>9. PICK u : u = Vif!Units(commands)[q]
  OBVIOUS
<1>10. Begins(u, k)
  BY <1>8, <1>9 DEF Begins
<1>11. T \in SUBSET (1..(k - 1))
  <2>1. k - 1 = c
    BY <1>1, <1>6
  <2> QED BY <1>3, <2>1
<1>12. Steady(T, p, q)
  <2> SUFFICES ASSUME NEW i \in T PROVE Vif!LastAt(i) <= p /\ Vif!LastAt(i) <= q
    BY DEF Steady
  <2>1. i \in 1..Len(commands) /\ i <= c /\ c # 0
    BY <1>1, <1>3
  <2>2. Vif!LastAt(i) \in Nat
    BY <2>1, CodeIs
  <2>3. Vif!LastAt(i) <= p
    <3>1. CASE i < c
      BY <1>3, <2>1, <3>1, WhereBefore
    <3>2. CASE i = c
      BY <1>4, <1>5, <2>1, <3>2
    <3> QED BY <1>1, <2>1, <3>1, <3>2
  <2> QED BY <1>4, <1>7, <2>2, <2>3
<1>13. q <= e /\ q \in Nat
  BY <1>4, <1>7
<1>14. PICK t : t = Vif!Interpret(s, u, e - q)
  OBVIOUS
<1>15. TakenAs(g, T, k, q, e, t)
  BY <1>3, <1>8, <1>10, <1>11, <1>12, <1>13, <1>14, Interpreted
<1>16. Reached(T0, c0, k) = T \cup {k} /\ Reached(T0, c0, k - 1) = T /\ k \in Nat /\ k - 1 = c
  <2>1. k - 1 = c /\ c \in Nat /\ k \in Nat
    BY <1>1, <1>6
  <2>2. Reached(T0, c0, c + 1) = Reached(T0, c0, c) \cup {c + 1}
    BY <1>1, <2>1, ReachedMore
  <2> QED BY <1>2, <1>6, <2>1, <2>2
<1>17. CASE Vif!Refused(k, T, e)
  <2>1. t.rejected = TRUE /\ t.direct = 0
    BY <1>15, <1>17 DEF TakenAs
  <2>2. Tracked(g, t, IF commands[k].op \in Vif!Runs THEN T \cup {k} ELSE T, q)
    BY <1>15, <1>17 DEF TakenAs
  <2>3. Tracked(g, t, TakenTo(T0, c0, k), Vif!CodeAt(k))
    <3>1. TakenTo(T0, c0, k) = IF commands[k].op \in Vif!Runs THEN T \cup {k} ELSE T
      BY <1>16 DEF TakenTo
    <3> QED BY <1>8, <2>2, <3>1
  <2>4. k \in (c0 + 1)..Len(commands) /\ Vif!CodeAt(k) <= q
    BY <1>1, <1>6, <1>8, <1>13
  <2>5. Stopped(g, t, T0, c0, k, q, e)
    BY <1>1, <1>3, <1>13, <1>16, <1>17, <2>1, <2>3, <2>4 DEF Stopped
  <2>6. After(g, t, T0, c0, q, e)
    BY ONLY <2>5 DEF After
  <2> QED BY <1>7, <1>9, <1>14, <2>6
<1>18. CASE ~Vif!Refused(k, T, e)
  <2>1. t.rejected = FALSE /\ Tracked(g, t, T \cup {k}, q)
    BY <1>15, <1>18 DEF TakenAs
  <2>2. Accepted(T0, c0, k, e)
    <3> SUFFICES ASSUME NEW r \in (c0 + 1)..k PROVE ~Vif!Refused(r, Reached(T0, c0, r - 1), e)
      BY DEF Accepted
    <3>1. CASE r = k
      BY <1>16, <1>18, <3>1
    <3>2. CASE r # k
      <4>1. r \in (c0 + 1)..c
        BY <1>1, <1>6, <3>2
      <4> QED BY <1>1, <4>1 DEF Accepted
    <3> QED BY <3>1, <3>2
  <2>3. Phase(t, T \cup {k}, k, q, e)
    <3>1. Vif!LastAt(k) = q + commands[k].n /\ commands[k].n \in Nat /\ k # 0
      BY <1>8, CodeIs
    <3>2. CASE commands[k].op = "direct"
      <4>1. t.direct = commands[k].n /\ t.skip = 0 /\ t.packet = <<>> /\ t.path1 = <<>>
        BY <1>15, <1>18, <3>2 DEF TakenAs
      <4>2. commands[k].n # 0
        BY <1>8, <3>2 DEF Fits
      <4>3. Begun(k, commands[k].n - t.direct) = <<>>
        <5>1. commands[k].n - t.direct = 0
          BY <3>1, <4>1
        <5>2. Begun(k, 0) = <<>>
          BY DEF Begun
        <5> QED BY <5>1, <5>2
      <4>4. Carries(t, T \cup {k}, k, q)
        BY <3>1, <3>2, <4>1, <4>3 DEF Carries
      <4> QED BY <3>1, <4>1, <4>2, <4>4 DEF Phase
    <3>3. CASE commands[k].op # "direct"
      <4>1. t.direct = 0 /\ t.skip = commands[k].n /\ Vif!LastAt(k) <= e
        BY <1>15, <1>18, <3>3 DEF TakenAs
      <4>2. Skips(t, k, q, e)
        BY <3>1, <3>3, <4>1 DEF Skips
      <4> QED BY <4>1, <4>2 DEF Phase
    <3> QED BY <3>2, <3>3
  <2>4. T \cup {k} \in SUBSET (1..k)
    BY <1>1, <1>3, <1>6
  <2>5. Amid(g, t, T \cup {k}, k, q, e)
    BY <1>3, <1>8, <2>1, <2>3, <2>4 DEF Amid
  <2>6. k \in c0..Len(commands)
    BY <1>1, <1>6, <1>8
  <2>7. Going(g, t, T0, c0, k, q, e)
    BY <1>16, <2>2, <2>5, <2>6 DEF Going
  <2>8. After(g, t, T0, c0, q, e)
    BY ONLY <2>7 DEF After
  <2> QED BY <1>7, <1>9, <1>14, <2>8
<1> QED BY <1>17, <1>18

(* Any turn of the loop.                                                     *)
LEMMA TurnTaken ==
  ASSUME Fits, NEW g, NEW s, NEW T0, NEW c0, StartsAt(T0, c0), NEW p, NEW e,
         After(g, s, T0, c0, p, e), p + 1 <= e, e <= Len(Vif!Units(commands))
  PROVE  After(g, Vif!Turn(s, Vif!Units(commands)[p + 1], e - (p + 1)), T0, c0, p + 1, e)
<1>1. PICK u : u = Vif!Units(commands)[p + 1]
  OBVIOUS
<1>2. PICK t : t = Vif!Turn(s, u, e - (p + 1))
  OBVIOUS
<1>3. ASSUME NEW m, Stopped(g, s, T0, c0, m, p, e) PROVE After(g, t, T0, c0, p + 1, e)
  <2>1. t = s
    BY <1>2, <1>3 DEF Vif!Turn, Stopped
  <2>2. Vif!CodeAt(m) <= p + 1 /\ p + 1 \in Nat
    <3>1. m \in 1..Len(commands) /\ p \in Nat /\ Vif!CodeAt(m) <= p
      BY <1>3 DEF StartsAt, Stopped
    <3>2. Vif!CodeAt(m) \in Nat
      BY <3>1, CodeIs
    <3> QED BY <3>1, <3>2
  <2>3. Stopped(g, s, T0, c0, m, p + 1, e)
    BY <1>3, <2>2 DEF Stopped
  <2> QED BY <2>1, <2>3 DEF After
<1>4. ASSUME NEW c, Going(g, s, T0, c0, c, p, e) PROVE After(g, t, T0, c0, p + 1, e)
  <2>1. Amid(g, s, Reached(T0, c0, c), c, p, e) /\ s.rejected = FALSE
    BY <1>4 DEF Going, Amid
  <2>2. p + 1 <= Len(Vif!Units(commands)) /\ p \in Nat
    <3>1. p \in Nat /\ e \in Nat
      BY <2>1 DEF Amid, Where
    <3>2. Vif!Units(commands) \in Seq(Unit)
      BY AllUnits
    <3>3. Len(Vif!Units(commands)) \in Nat
      BY <3>2
    <3> QED BY <3>1, <3>3
  <2>3. CASE s.direct = 0 /\ s.skip = 0
    <3>1. t = Vif!Interpret(s, u, e - (p + 1))
      BY <1>2, <2>1, <2>3 DEF Vif!Turn
    <3> QED BY <1>1, <1>4, <2>3, <3>1, NextCommand
  <2>4. CASE s.direct = 0 /\ s.skip # 0
    <3>1. t = [s EXCEPT !.skip = @ - 1]
      BY <1>2, <2>1, <2>4 DEF Vif!Turn
    <3>2. Amid(g, t, Reached(T0, c0, c), c, p + 1, e)
      BY <2>1, <2>2, <2>4, <3>1, SkipUnit
    <3>3. Going(g, t, T0, c0, c, p + 1, e)
      BY <1>4, <3>2 DEF Going
    <3> QED BY ONLY <3>3 DEF After
  <2>5. CASE s.direct # 0
    <3>1. t = Vif!DirectUnit(s, u)
      BY <1>2, <2>1, <2>5 DEF Vif!Turn
    <3>2. Amid(g, t, Reached(T0, c0, c), c, p + 1, e)
      BY <1>1, <2>1, <2>2, <2>5, <3>1, CarryUnit
    <3>3. Going(g, t, T0, c0, c, p + 1, e)
      BY <1>4, <3>2 DEF Going
    <3> QED BY ONLY <3>3 DEF After
  <2> QED BY <2>3, <2>4, <2>5
<1> QED BY <1>1, <1>2, <1>3, <1>4 DEF After

-----------------------------------------------------------------------------
(* A whole packet                                                            *)

Fresh(s) == [s EXCEPT !.rejected = FALSE, !.skip = 0]
ParseTurns(f, s, p, n) ==
  f = [i \in 0..n |-> IF i = 0 THEN Fresh(s) ELSE Vif!Turn(f[i - 1], p[i], Len(p) - i)]

(* The states of the loop exist.                                             *)
LEMMA ParseTurnsExist ==
  ASSUME NEW s, NEW p, NEW n \in Nat
  PROVE  \E f : ParseTurns(f, s, p, n)
<1> DEFINE T == {k \in Nat : \E f : ParseTurns(f, s, p, k)}
<1>1. \A k \in Nat : k \in T <=> \E f : ParseTurns(f, s, p, k)
  BY Zenon
<1> HIDE DEF T
<1>2. 0 \in T
  <2> DEFINE f == [i \in 0..0 |-> Fresh(s)]
  <2>1. ParseTurns(f, s, p, 0)
    BY DEF ParseTurns
  <2> HIDE DEF f
  <2>2. \E h : ParseTurns(h, s, p, 0)
    BY <2>1, Zenon
  <2> QED BY <1>1, <2>2
<1>3. ASSUME NEW k \in Nat, k \in T PROVE k + 1 \in T
  <2>0. k + 1 \in Nat /\ k + 1 \in 0..(k + 1)
    OBVIOUS
  <2>1. PICK f : ParseTurns(f, s, p, k)
    BY <1>1, <1>3, Zenon
  <2>2. \A i \in 0..k : f[i] = IF i = 0 THEN Fresh(s) ELSE Vif!Turn(f[i - 1], p[i], Len(p) - i)
    BY <2>1 DEF ParseTurns
  <2> DEFINE v == Vif!Turn(f[k], p[k + 1], Len(p) - (k + 1))
             h == [i \in 0..(k + 1) |-> IF i = k + 1 THEN v ELSE f[i]]
  <2>3. h[k + 1] = v /\ (\A i \in 0..k : h[i] = f[i]) /\ h = [i \in 0..(k + 1) |-> h[i]]
    <3> HIDE DEF v
    <3> QED BY <2>0
  <2> HIDE DEF h
  <2>4. \A i \in 0..(k + 1) : h[i] = IF i = 0 THEN Fresh(s) ELSE Vif!Turn(h[i - 1], p[i], Len(p) - i)
    <3> SUFFICES ASSUME NEW i \in 0..(k + 1)
                 PROVE h[i] = IF i = 0 THEN Fresh(s) ELSE Vif!Turn(h[i - 1], p[i], Len(p) - i)
      OBVIOUS
    <3>1. CASE i = k + 1
      <4>1. i # 0 /\ i - 1 = k /\ k \in 0..k
        BY <3>1
      <4>2. h[i - 1] = f[k]
        BY <2>3, <4>1
      <4>3. h[i] = v
        BY <2>3, <3>1
      <4> QED BY <3>1, <4>1, <4>2, <4>3 DEF v
    <3>2. CASE i # k + 1
      <4>1. i \in 0..k
        BY <3>2
      <4>2. CASE i = 0
        <5>1. h[0] = f[0] /\ f[0] = Fresh(s)
          BY <2>2, <2>3, <4>1, <4>2
        <5> QED BY <4>2, <5>1
      <4>3. CASE i # 0
        <5>1. i - 1 \in 0..k
          BY <4>1, <4>3
        <5>2. h[i] = f[i] /\ h[i - 1] = f[i - 1]
          BY <2>3, <4>1, <5>1
        <5> QED BY <2>2, <4>1, <4>3, <5>2
      <4> QED BY <4>2, <4>3
    <3> QED BY <3>1, <3>2
  <2>5. ParseTurns(h, s, p, k + 1)
    BY <2>3, <2>4 DEF ParseTurns
  <2> QED BY <1>1, <2>0, <2>5, Zenon
<1>4. n \in T
  BY <1>2, <1>3, Induction
<1> QED BY <1>1, <1>4

(* A packet is parsed turn by turn.                                          *)
LEMMA ParseIs ==
  ASSUME NEW s, NEW p, Len(p) \in Nat
  PROVE  \E f : /\ Vif!Parse(s, p) = f[Len(p)] /\ f[0] = Fresh(s)
                /\ \A i \in 1..Len(p) : f[i] = Vif!Turn(f[i - 1], p[i], Len(p) - i)
<1> DEFINE c == CHOOSE f : ParseTurns(f, s, p, Len(p))
<1>1. Vif!Parse(s, p) = c[Len(p)]
  BY Zenon DEF Vif!Parse, ParseTurns, Fresh
<1>2. ParseTurns(c, s, p, Len(p))
  BY ParseTurnsExist, Zenon
<1> HIDE DEF c
<1>3. c[0] = Fresh(s) /\ \A i \in 1..Len(p) : c[i] = Vif!Turn(c[i - 1], p[i], Len(p) - i)
  BY <1>2 DEF ParseTurns
<1> QED BY <1>1, <1>3, Zenon

(* The state between packets that are in step.                               *)
Settled(s, T, c, p) == IF s.direct = 0 THEN c # 0 => p = Vif!LastAt(c) ELSE c # 0 /\ Carries(s, T, c, p)
Between(g, s, T, c, p) ==
  g \in Seq(Packet) /\ T \in SUBSET (1..c) /\ Where(c, p) /\ Tracked(g, s, T, p) /\ Settled(s, T, c, p)

(* What submit does before its loop keeps in step.                           *)
LEMMA FreshAfter ==
  ASSUME Fits, NEW g, NEW s, NEW T, NEW c, NEW p, Between(g, s, T, c, p), NEW e \in Nat, p <= e
  PROVE  After(g, Fresh(s), T, c, p, e) /\ StartsAt(T, c)
<1>0. g \in Seq(Packet) /\ T \in SUBSET (1..c) /\ Where(c, p) /\ Tracked(g, s, T, p) /\ Settled(s, T, c, p)
      /\ s \in VifState
  BY DEF Between, Tracked
<1>1. c \in 0..Len(commands) /\ p \in Nat /\ Len(commands) \in Nat
  BY <1>0 DEF Where, Fits
<1>2. PICK t : t = Fresh(s)
  OBVIOUS
<1>3. /\ Same(t, s) /\ t.rejected = FALSE /\ t.skip = 0 /\ t.direct = s.direct /\ t.packet = s.packet
      /\ t.path1 = s.path1
  <2>1. t = [s EXCEPT !.rejected = FALSE, !.skip = 0]
    BY <1>2 DEF Fresh
  <2>2. t \in VifState
    BY <1>0, <2>1 DEF VifState
  <2>3. /\ t.out = s.out /\ t.path1 = s.path1 /\ t.differ = s.differ /\ t.unknown = s.unknown
        /\ t.tops = s.tops /\ t.mem = s.mem /\ t.runs = s.runs
        /\ t.rejected = FALSE /\ t.skip = 0 /\ t.direct = s.direct /\ t.packet = s.packet
    BY <1>0, <2>1 DEF VifState
  <2> QED BY <2>2, <2>3 DEF Same
<1>4. Tracked(g, t, T, p)
  <2>1. Steady(T, p, p)
    BY DEF Steady
  <2> QED BY <1>0, <1>3, <2>1, KeptStays
<1>5. Phase(t, T, c, p, e)
  <2>1. CASE s.direct = 0
    <3>1. c # 0 => p + t.skip = Vif!LastAt(c) /\ Vif!LastAt(c) <= e
      BY <1>0, <1>1, <1>3, <2>1 DEF Settled
    <3> QED BY <1>3, <2>1, <3>1 DEF Phase, Skips
  <2>2. CASE s.direct # 0
    BY <1>0, <1>3, <2>2 DEF Phase, Settled, Carries
  <2> QED BY <2>1, <2>2
<1>6. Reached(T, c, c) = T /\ Accepted(T, c, c, e)
  <2>1. (c + 1)..c = {}
    BY <1>1
  <2> QED BY <2>1 DEF Reached, Accepted
<1>7. Amid(g, t, T, c, p, e)
  BY <1>0, <1>3, <1>4, <1>5 DEF Amid
<1>8. Going(g, t, T, c, c, p, e)
  <2>1. c \in c..Len(commands)
    BY <1>1
  <2> QED BY <1>6, <1>7, <2>1 DEF Going
<1>9. After(g, t, T, c, p, e)
  BY ONLY <1>8 DEF After
<1> QED BY <1>0, <1>1, <1>2, <1>9 DEF StartsAt

(* A packet in step: all its commands are taken, or one is refused.          *)
LEMMA PacketParsed ==
  ASSUME Fits, NEW g, NEW s, NEW T, NEW c, NEW b \in Nat, Between(g, s, T, c, b), NEW e \in Nat,
         b < e, e <= Len(Vif!Units(commands))
  PROVE  After(g, Vif!Parse(s, SubSeq(Vif!Units(commands), b + 1, e)), T, c, e, e)
<1>1. Vif!Units(commands) \in Seq(Unit)
  BY AllUnits
<1>2. PICK n \in Nat : n = e - b
  OBVIOUS
<1>3. PICK p : p = SubSeq(Vif!Units(commands), b + 1, e)
  OBVIOUS
<1>4. Len(p) = n /\ \A i \in 1..n : p[i] = Vif!Units(commands)[b + i]
  <2>1. PICK U \in Seq(Unit) : U = Vif!Units(commands)
    BY <1>1
  <2>2. p = SubSeq(U, b + 1, e) /\ e <= Len(U) /\ Len(U) \in Nat
    BY <1>3, <2>1
  <2>3. Len(p) = n
    BY <1>2, <2>2
  <2>4. \A i \in 1..n : p[i] = U[b + i]
    <3> SUFFICES ASSUME NEW i \in 1..n PROVE p[i] = U[b + i]
      OBVIOUS
    <3>1. i \in 1..((e - (b + 1)) + 1)
      BY <1>2
    <3>2. p[i] = U[((b + 1) + i) - 1]
      BY <2>2, <3>1, <1>2
    <3>3. ((b + 1) + i) - 1 = b + i
      OBVIOUS
    <3> QED BY <3>2, <3>3
  <2> QED BY <2>1, <2>3, <2>4
<1>5. PICK f : /\ Vif!Parse(s, p) = f[n] /\ f[0] = Fresh(s)
               /\ \A i \in 1..n : f[i] = Vif!Turn(f[i - 1], p[i], n - i)
  <2>1. Len(p) \in Nat
    BY <1>4
  <2>2. \E f : /\ Vif!Parse(s, p) = f[Len(p)] /\ f[0] = Fresh(s)
               /\ \A i \in 1..Len(p) : f[i] = Vif!Turn(f[i - 1], p[i], Len(p) - i)
    BY ONLY <2>1, ParseIs
  <2>3. Len(p) = n
    BY <1>4
  <2> QED BY ONLY <2>2, <2>3, Zenon
<1>6. StartsAt(T, c)
  BY FreshAfter
<1> DEFINE Good == {k \in Nat : k <= n => After(g, f[k], T, c, b + k, e)}
<1>7. \A k \in Nat : k \in Good <=> (k <= n => After(g, f[k], T, c, b + k, e))
  BY Zenon
<1> HIDE DEF Good
<1>8. 0 \in Good
  <2>1. After(g, Fresh(s), T, c, b, e)
    BY FreshAfter
  <2>2. b + 0 = b
    OBVIOUS
  <2> QED BY <1>5, <1>7, <2>1, <2>2
<1>9. ASSUME NEW k \in Nat, k \in Good PROVE k + 1 \in Good
  <2> SUFFICES ASSUME k + 1 <= n PROVE After(g, f[k + 1], T, c, b + (k + 1), e)
    BY <1>7
  <2>1. After(g, f[k], T, c, b + k, e)
    BY <1>7, <1>9
  <2>2. PICK h : h = f[k]
    OBVIOUS
  <2>3. PICK q : q = b + k
    OBVIOUS
  <2>4. After(g, Vif!Turn(h, Vif!Units(commands)[q + 1], e - (q + 1)), T, c, q + 1, e)
    <3>1. q + 1 <= e
      BY <1>2, <2>3
    <3>2. After(g, h, T, c, q, e)
      BY <2>1, <2>2, <2>3
    <3> QED BY ONLY Fits, e <= Len(Vif!Units(commands)), <1>6, <3>1, <3>2, TurnTaken
  <2>5. f[k + 1] = Vif!Turn(h, Vif!Units(commands)[q + 1], e - (q + 1))
    <3>1. k + 1 \in 1..n /\ (k + 1) - 1 = k /\ b + (k + 1) = q + 1 /\ n - (k + 1) = e - (q + 1)
      BY <1>2, <2>3
    <3>2. p[k + 1] = Vif!Units(commands)[q + 1]
      BY <1>4, <3>1
    <3>3. f[k + 1] = Vif!Turn(f[(k + 1) - 1], p[k + 1], n - (k + 1))
      BY <1>5, <3>1
    <3> QED BY <2>2, <3>1, <3>2, <3>3
  <2>6. b + (k + 1) = q + 1
    BY <2>3
  <2> QED BY <2>4, <2>5, <2>6
<1>10. n \in Good
  BY <1>8, <1>9, Induction
<1>11. After(g, f[n], T, c, b + n, e)
  BY <1>7, <1>10
<1>12. b + n = e
  BY <1>2
<1> QED BY <1>3, <1>5, <1>11, <1>12

-----------------------------------------------------------------------------
(* The commands of a packet that take effect                                 *)

(* Every place is in some command.                                           *)
LEMMA WhereExists ==
  ASSUME Fits, NEW p \in Nat, p <= Len(Vif!Units(commands))
  PROVE  \E c : Where(c, p)
<1>0. Len(Vif!Units(commands)) \in Nat /\ Len(commands) \in Nat
  <2>1. Vif!Units(commands) \in Seq(Unit)
    BY AllUnits
  <2> QED BY <2>1 DEF Fits
<1> DEFINE T == {k \in Nat : k <= Len(Vif!Units(commands)) => \E c : Where(c, k)}
<1>1. \A k \in Nat : k \in T <=> (k <= Len(Vif!Units(commands)) => \E c : Where(c, k))
  BY Zenon
<1> HIDE DEF T
<1>2. 0 \in T
  <2>1. Where(0, 0)
    BY <1>0 DEF Where
  <2> QED BY <1>1, <2>1
<1>3. ASSUME NEW k \in Nat, k \in T PROVE k + 1 \in T
  <2> SUFFICES ASSUME k + 1 <= Len(Vif!Units(commands)) PROVE \E c : Where(c, k + 1)
    BY <1>1
  <2>1. PICK c : Where(c, k)
    BY <1>0, <1>1, <1>3
  <2>2. Where(c, k + 1) \/ Where(c + 1, k + 1)
    BY <2>1, WhereNext
  <2> QED BY <2>2
<1>4. p \in T
  BY <1>2, <1>3, Induction
<1> QED BY <1>1, <1>4

(* Effective, from the packet's last command on.                             *)
Starting(c0, c) == (c0 + 1)..c
RefusedIn(T0, c0, c, e) == {i \in Starting(c0, c) : Vif!Refused(i, Reached(T0, c0, i - 1), e)}

(* The history's commands that take effect, by the refused ones.             *)
LEMMA EffectiveIs ==
  ASSUME Fits, NEW c0, NEW b, Where(c0, b), NEW c, NEW e, Where(c, e), b <= e
  PROVE  Vif!Effective(b, e) =
           history.took \cup {i \in Starting(c0, c) : \A r \in RefusedIn(history.took, c0, c, e) :
                                i < r \/ (i = r /\ commands[i].op \in Vif!Runs)}
<1> DEFINE new == {i \in DOMAIN commands : b < Vif!CodeAt(i) /\ Vif!CodeAt(i) <= e}
           refused == {i \in new : Vif!Refused(i, history.took \cup {j \in new : j < i}, e)}
<1>0. /\ b \in Nat /\ e \in Nat /\ c0 \in 0..Len(commands) /\ c \in 0..Len(commands)
      /\ Len(commands) \in Nat /\ DOMAIN commands = 1..Len(commands)
  BY DEF Where, Fits
<1>1. Vif!Effective(b, e) = history.took \cup
         {i \in new : \A r \in refused : i < r \/ (i = r /\ commands[i].op \in Vif!Runs)}
  BY Zenon DEF Vif!Effective
<1>2. \A i \in 1..Len(commands) : (Vif!CodeAt(i) <= b <=> i <= c0) /\ (Vif!CodeAt(i) <= e <=> i <= c)
  BY WhereBefore
<1>3. new = Starting(c0, c)
  <2>1. \A i \in 1..Len(commands) : Vif!CodeAt(i) \in Nat
    BY CodeIs
  <2>2. \A i \in 1..Len(commands) : i \in new <=> i \in Starting(c0, c)
    BY <1>0, <1>2, <2>1 DEF Starting
  <2>3. new \subseteq 1..Len(commands) /\ Starting(c0, c) \subseteq 1..Len(commands)
    BY <1>0 DEF Starting
  <2> HIDE DEF new
  <2> QED BY <2>2, <2>3
<1> HIDE DEF new
<1>4. refused = RefusedIn(history.took, c0, c, e)
  <2>1. ASSUME NEW i \in new PROVE history.took \cup {j \in new : j < i} = Reached(history.took, c0, i - 1)
    <3>1. {j \in new : j < i} = (c0 + 1)..(i - 1)
      BY <1>0, <1>3, <2>1 DEF Starting
    <3> QED BY <3>1 DEF Reached
  <2>2. \A i \in new : Vif!Refused(i, history.took \cup {j \in new : j < i}, e)
                       <=> Vif!Refused(i, Reached(history.took, c0, i - 1), e)
    BY <2>1, Zenon
  <2> QED BY <1>3, <2>2 DEF RefusedIn
<1> HIDE DEF refused
<1> QED BY <1>1, <1>3, <1>4, Zenon

(* When none is refused they are all that began.                             *)
LEMMA EffectiveGoing ==
  ASSUME Fits, NEW c0, NEW b, Where(c0, b), NEW c, NEW e, Where(c, e), b <= e, c0 <= c,
         Accepted(history.took, c0, c, e)
  PROVE  Vif!Effective(b, e) = Reached(history.took, c0, c)
<1>1. RefusedIn(history.took, c0, c, e) = {}
  BY DEF RefusedIn, Accepted, Starting
<1>2. Vif!Effective(b, e) = history.took \cup Starting(c0, c)
  BY <1>1, EffectiveIs
<1> QED BY <1>2 DEF Reached, Starting

(* When one is, they are those before it, and itself if it ran.              *)
LEMMA EffectiveStopped ==
  ASSUME Fits, NEW c0, NEW b, Where(c0, b), NEW c, NEW e, Where(c, e), b <= e,
         NEW m \in (c0 + 1)..c, Accepted(history.took, c0, m - 1, e),
         Vif!Refused(m, Reached(history.took, c0, m - 1), e)
  PROVE  Vif!Effective(b, e) = TakenTo(history.took, c0, m)
<1>0. c0 \in Nat /\ c \in Nat /\ m \in Nat
  BY DEF Where, Fits
<1> DEFINE R == RefusedIn(history.took, c0, c, e)
           S == {i \in Starting(c0, c) : \A r \in R : i < r \/ (i = r /\ commands[i].op \in Vif!Runs)}
<1>1. Vif!Effective(b, e) = history.took \cup S
  BY EffectiveIs
<1>2. m \in R
  BY DEF RefusedIn, Starting
<1>3. \A r \in R : r \in Nat /\ m <= r
  <2> SUFFICES ASSUME NEW r \in R PROVE r \in Nat /\ m <= r
    OBVIOUS
  <2>1. r \in (c0 + 1)..c /\ Vif!Refused(r, Reached(history.took, c0, r - 1), e)
    BY DEF RefusedIn, Starting
  <2>2. r \notin (c0 + 1)..(m - 1)
    BY <2>1 DEF Accepted
  <2> QED BY <1>0, <2>1, <2>2
<1> HIDE DEF R
<1>4. CASE commands[m].op \in Vif!Runs
  <2>1. S = (c0 + 1)..m
    <3>1. ASSUME NEW i \in S PROVE i \in (c0 + 1)..m
      <4>1. i \in (c0 + 1)..c /\ (i < m \/ i = m)
        BY <1>2, <3>1 DEF Starting
      <4> QED BY <1>0, <4>1
    <3>2. ASSUME NEW i \in (c0 + 1)..m PROVE i \in S
      <4>1. i \in (c0 + 1)..c
        BY <1>0, <3>2
      <4>2. \A r \in R : i < r \/ (i = r /\ commands[i].op \in Vif!Runs)
        <5> SUFFICES ASSUME NEW r \in R PROVE i < r \/ (i = r /\ commands[i].op \in Vif!Runs)
          OBVIOUS
        <5>1. CASE i = m
          BY <1>0, <1>3, <1>4, <5>1
        <5>2. CASE i # m
          <6>1. i < m
            BY <1>0, <3>2, <5>2
          <6> QED BY <1>0, <1>3, <6>1, <3>2
        <5> QED BY <5>1, <5>2
      <4> QED BY <4>1, <4>2 DEF Starting
    <3> HIDE DEF S
    <3> QED BY <3>1, <3>2
  <2> HIDE DEF S
  <2> QED BY <1>1, <1>4, <2>1 DEF TakenTo, Reached
<1>5. CASE commands[m].op \notin Vif!Runs
  <2>1. S = (c0 + 1)..(m - 1)
    <3>1. ASSUME NEW i \in S PROVE i \in (c0 + 1)..(m - 1)
      <4>1. i \in (c0 + 1)..c /\ (i < m \/ (i = m /\ commands[i].op \in Vif!Runs))
        BY <1>2, <3>1 DEF Starting
      <4> QED BY <1>0, <1>5, <4>1
    <3>2. ASSUME NEW i \in (c0 + 1)..(m - 1) PROVE i \in S
      <4>1. i \in (c0 + 1)..c /\ i < m
        BY <1>0, <3>2
      <4>2. \A r \in R : i < r
        BY <1>0, <1>3, <3>2, <4>1
      <4> QED BY <4>1, <4>2 DEF Starting
    <3> HIDE DEF S
    <3> QED BY <3>1, <3>2
  <2> HIDE DEF S
  <2> QED BY <1>1, <1>5, <2>1 DEF TakenTo, Reached
<1> QED BY <1>4, <1>5

(* A packet that leaves the stream in step.                                  *)
LEMMA Landed ==
  ASSUME Fits, NEW g, NEW s, NEW c0, NEW b, Between(g, s, history.took, c0, b), NEW e \in Nat,
         b < e, e <= Len(Vif!Units(commands)), NEW t, t = Vif!Parse(s, SubSeq(Vif!Units(commands), b + 1, e)),
         Vif!InStep(Vif!Effective(b, e), e)
  PROVE  \E c : Between(g, t, Vif!Effective(b, e), c, e)
<1>0. /\ g \in Seq(Packet) /\ Where(c0, b) /\ b \in Nat /\ c0 \in 0..Len(commands) /\ Len(commands) \in Nat
      /\ history.took \in SUBSET (1..c0) /\ b <= e
  BY DEF Between, Where, Fits
<1>1. After(g, t, history.took, c0, e, e)
  BY <1>0, PacketParsed
<1>2. ASSUME NEW c, Going(g, t, history.took, c0, c, e, e)
      PROVE \E d : Between(g, t, Vif!Effective(b, e), d, e)
  <2>1. /\ c \in c0..Len(commands) /\ Accepted(history.took, c0, c, e)
        /\ Amid(g, t, Reached(history.took, c0, c), c, e, e)
    BY <1>2 DEF Going
  <2>2. PICK T : T = Reached(history.took, c0, c)
    OBVIOUS
  <2>3. T \in SUBSET (1..c) /\ Where(c, e) /\ Tracked(g, t, T, e) /\ Phase(t, T, c, e, e) /\ t \in VifState
    BY <2>1, <2>2 DEF Amid, Tracked
  <2>4. Vif!Effective(b, e) = T
    <3>1. c0 <= c
      BY <1>0, <2>1
    <3> QED BY <1>0, <2>1, <2>2, <2>3, <3>1, EffectiveGoing
  <2>5. Settled(t, T, c, e)
    <3>1. CASE t.direct = 0
      <4> SUFFICES ASSUME c # 0 PROVE e = Vif!LastAt(c)
        BY <3>1 DEF Settled
      <4>1. e + t.skip = Vif!LastAt(c) /\ Vif!LastAt(c) <= e /\ t.skip \in Nat
        BY <2>3, <3>1 DEF Phase, Skips, VifState
      <4> QED BY <4>1
    <3>2. CASE t.direct # 0
      BY <2>3, <3>2 DEF Phase, Settled
    <3> QED BY <3>1, <3>2
  <2>6. Between(g, t, T, c, e)
    BY <1>0, <2>3, <2>5 DEF Between
  <2> QED BY <2>4, <2>6
<1>3. ASSUME NEW m, Stopped(g, t, history.took, c0, m, e, e)
      PROVE \E d : Between(g, t, Vif!Effective(b, e), d, e)
  <2>1. /\ m \in (c0 + 1)..Len(commands) /\ Vif!CodeAt(m) <= e /\ t.direct = 0
        /\ Accepted(history.took, c0, m - 1, e) /\ Vif!Refused(m, Reached(history.took, c0, m - 1), e)
        /\ Tracked(g, t, TakenTo(history.took, c0, m), Vif!CodeAt(m))
    BY <1>3 DEF Stopped
  <2>2. PICK T : T = TakenTo(history.took, c0, m)
    OBVIOUS
  <2>3. m \in 1..Len(commands) /\ Vif!CodeAt(m) \in Nat
    BY <1>0, <2>1, CodeIs
  <2>4. PICK d : Where(d, e)
    BY WhereExists
  <2>5. d \in 0..Len(commands) /\ m \in (c0 + 1)..d
    <3>1. m <= d
      BY <2>1, <2>3, <2>4, WhereBefore
    <3>2. d \in 0..Len(commands)
      BY <2>4 DEF Where
    <3> QED BY <1>0, <2>1, <3>1, <3>2
  <2>6. Vif!Effective(b, e) = T
    BY <1>0, <2>1, <2>2, <2>4, <2>5, EffectiveStopped
  <2>7. T \in SUBSET (1..m) /\ (commands[m].op = "direct" => m \notin T)
    <3>1. CASE commands[m].op \in Vif!Runs
      BY <1>0, <2>1, <2>2, <3>1 DEF TakenTo, Reached, Vif!Runs
    <3>2. CASE commands[m].op \notin Vif!Runs
      BY <1>0, <2>1, <2>2, <3>2 DEF TakenTo, Reached
    <3> QED BY <3>1, <3>2
  <2>8. ASSUME NEW i \in T, commands[i].op = "direct" PROVE i \in 1..Len(commands)
          /\ Vif!LastAt(i) < Vif!CodeAt(m) /\ Vif!LastAt(i) \in Nat
    <3>1. i \in 1..Len(commands) /\ i < m
      BY <1>0, <2>3, <2>7, <2>8
    <3> QED BY <2>3, <3>1, Ordered, CodeIs
  <2>9. e = Vif!LastAt(d) /\ d # 0
    <3>1. PICK i \in DOMAIN commands : \/ Vif!LastAt(i) = e
                                       \/ /\ commands[i].op = "direct" /\ i \in T
                                          /\ Vif!CodeAt(i) <= e /\ e <= Vif!LastAt(i)
      BY <2>6 DEF Vif!InStep
    <3>2. i \in 1..Len(commands)
      BY <3>1 DEF Fits
    <3>3. CASE Vif!LastAt(i) = e
      <4>1. i <= d
        BY <2>4, <3>2, <3>3, WhereBefore
      <4>2. d \in 1..Len(commands) /\ Vif!LastAt(d) \in Nat /\ e <= Vif!LastAt(d)
              /\ Vif!CodeAt(d) <= e /\ Vif!CodeAt(d) \in Nat
        <5>1. d \in 1..Len(commands) /\ d # 0
          BY <2>5, <3>2, <4>1
        <5> QED BY <2>4, <5>1, CodeIs DEF Where
      <4>3. CASE i < d
        <5>1. Vif!LastAt(i) < Vif!CodeAt(d)
          BY <3>2, <4>2, <4>3, Ordered
        <5> QED BY <3>3, <4>2, <5>1
      <4>4. CASE i = d
        BY <3>3, <4>2, <4>4
      <4> QED BY <3>2, <4>1, <4>2, <4>3, <4>4
    <3>4. CASE /\ commands[i].op = "direct" /\ i \in T
               /\ Vif!CodeAt(i) <= e /\ e <= Vif!LastAt(i)
      <4>1. Vif!LastAt(i) < Vif!CodeAt(m) /\ Vif!LastAt(i) \in Nat
        BY <2>8, <3>4
      <4> QED BY <2>1, <2>3, <3>4, <4>1
    <3> QED BY <3>1, <3>3, <3>4
  <2>10. Steady(T, Vif!CodeAt(m), e)
    <3> SUFFICES ASSUME NEW i \in T, commands[i].op = "direct" PROVE Vif!LastAt(i) <= Vif!CodeAt(m) /\ Vif!LastAt(i) <= e
      BY DEF Steady
    <3> QED BY <2>1, <2>3, <2>8
  <2>11. Tracked(g, t, T, e)
    <3>1. Same(t, t)
      BY <2>1 DEF Same, Tracked
    <3> QED BY <2>1, <2>2, <2>10, <3>1, KeptStays
  <2>12. T \in SUBSET (1..d)
    BY <1>0, <2>3, <2>5, <2>7
  <2>13. Between(g, t, T, d, e)
    BY <1>0, <2>1, <2>4, <2>9, <2>11, <2>12 DEF Between, Settled
  <2> QED BY <2>6, <2>13
<1> QED BY <1>1, <1>2, <1>3 DEF After

-----------------------------------------------------------------------------
(* The stream stays                                                          *)

(* A step that keeps the stream keeps the places of its commands.            *)
LEMMA CodeStays ==
  ASSUME commands' = commands, NEW i
  PROVE  Vif!CodeAt(i)' = Vif!CodeAt(i) /\ Vif!LastAt(i)' = Vif!LastAt(i)
  BY DEF Vif!CodeAt, Vif!LastAt

(* The last of a kind stays.                                                 *)
LEMMA LastOpStays ==
  ASSUME commands' = commands, NEW T, NEW ops
  PROVE  Vif!LastOp(T, ops)' = Vif!LastOp(T, ops)
  BY DEF Vif!LastOp

(* What a command gives stays.                                               *)
LEMMA OutputStays ==
  ASSUME commands' = commands, NEW i, NEW p
  PROVE  OutputAt(i, p)' = OutputAt(i, p)
<1>1. Vif!LastAt(i)' = Vif!LastAt(i)
  BY CodeStays
<1> QED BY <1>1 DEF OutputAt

(* The shares stay.                                                          *)
LEMMA SharesKept ==
  ASSUME commands' = commands, NEW T, NEW p
  PROVE  Shares(T, p)' = Shares(T, p)
<1>1. \A i : OutputAt(i, p)' = OutputAt(i, p)
  BY OutputStays
<1> QED BY <1>1 DEF Shares, Share

(* What a run should find stays.                                             *)
LEMMA FindsStays ==
  ASSUME commands' = commands, NEW T, NEW saw
  PROVE  Finds(T, saw)' <=> Finds(T, saw)
<1>1. Vif!LastOp(T, Users)' = Vif!LastOp(T, Users)
  BY LastOpStays
<1> QED BY <1>1 DEF Finds

(* What is tracked stays tracked.                                            *)
LEMMA KeptHeld ==
  ASSUME commands' = commands, NEW g, NEW s, NEW T, NEW p, Tracked(g, s, T, p)
  PROVE  Tracked(g, s, T, p)'
<1>1. Settings(s, T)'
  <2>1. Vif!LastOp(T, {"stcycl"})' = Vif!LastOp(T, {"stcycl"})
          /\ Vif!LastOp(T, Vif!Runs)' = Vif!LastOp(T, Vif!Runs)
    BY LastOpStays
  <2>2. Settings(s, T)
    BY DEF Tracked
  <2> QED BY <2>1, <2>2 DEF Settings, Vif!Differs, Unknown
<1>2. Buffers(s, T)'
  BY FindsStays DEF Tracked, Buffers
<1>3. Seen(s, T)'
  BY FindsStays DEF Tracked, Seen, Below
<1>4. Given(g, s, T, p)'
  BY SharesKept DEF Tracked, Given
<1> QED BY <1>1, <1>2, <1>3, <1>4 DEF Tracked

(* In step stays in step.                                                    *)
LEMMA BetweenHeld ==
  ASSUME commands' = commands, NEW g, NEW s, NEW T, NEW c, NEW p, Between(g, s, T, c, p)
  PROVE  Between(g, s, T, c, p)'
<1>1. Tracked(g, s, T, p)'
  BY KeptHeld DEF Between
<1>2. Vif!CodeAt(c)' = Vif!CodeAt(c) /\ Vif!LastAt(c)' = Vif!LastAt(c)
  BY CodeStays
<1>3. Where(c, p)'
  BY <1>2 DEF Between, Where
<1>4. Settled(s, T, c, p)'
  BY <1>2 DEF Between, Settled, Carries
<1> QED BY <1>1, <1>3, <1>4 DEF Between

-----------------------------------------------------------------------------
(* The invariant                                                             *)

VifTyped == commands \in Streams /\ sent \in 0..Len(Vif!Units(commands))
VifInv == VifTyped /\ (history.step => \E c : Between(got, vif, history.took, c, sent))

(* The streams of the assumption have payloads where the formats have them.  *)
LEMMA StreamFits ==
  ASSUME Vif!StreamAssumption, commands \in Streams
  PROVE  Fits
<1>1. commands \in Seq(Vif!Command)
  BY DEF Vif!StreamAssumption
<1>2. DOMAIN commands = 1..Len(commands)
  BY <1>1
<1> QED BY <1>1, <1>2 DEF Vif!StreamAssumption, Fits

(* A reset leaves nothing in hand.                                           *)
LEMMA Starts ==
  ASSUME Fits
  PROVE  Between(<<>>, Vif!Reset0, {}, 0, 0)
<1>1. PICK s : s = Vif!Reset0
  OBVIOUS
<1>2. s = [direct |-> 0, packet |-> <<>>, out |-> <<>>, path1 |-> <<>>, differ |-> 0,
           base |-> 0, offset |-> 0, tops |-> 0, dbf |-> FALSE,
           running |-> FALSE, unknown |-> FALSE, mem |-> [a \in Slot |-> <<0, 0>>],
           micro |-> 0, runs |-> <<>>, skip |-> 0, rejected |-> FALSE]
  BY <1>1 DEF Vif!Reset0, Slot
<1>3. s \in VifState
  <2>1. 0 \in Slot
    BY DEF Fits, Slot
  <2>2. [a \in Slot |-> <<0, 0>>] \in [Slot -> Nat \X Nat]
    OBVIOUS
  <2>3. <<>> \in Seq(Packet) /\ <<>> \in Seq(Nat \X Nat) /\ <<>> \in Seq([at : Nat, saw : Nat \X Nat])
    OBVIOUS
  <2> QED BY <1>2, <2>1, <2>2, <2>3 DEF VifState
<1>4. Vif!LastOp({}, {"stcycl"}) = {} /\ Vif!LastOp({}, Vif!Runs) = {} /\ Vif!LastOp({}, Users) = {}
  BY DEF Vif!LastOp
<1>5. Settings(s, {})
  BY <1>2, <1>4 DEF Settings, Vif!Differs, Unknown
<1>6. Buffers(s, {})
  BY <1>4 DEF Buffers, Finds
<1>7. Seen(s, {})
  BY <1>2 DEF Seen
<1>8. Given(<<>>, s, {}, 0)
  <2>1. FlattenSeq(Shares({}, 0)) = <<>>
    <3>1. Shares({}, 0) \in Seq(Seq(Packet)) /\ Len(Shares({}, 0)) = Len(commands)
          /\ \A i \in 1..Len(commands) : Shares({}, 0)[i] = Share({}, i, 0)
      BY SharesType
    <3>2. \A i \in 1..Len(Shares({}, 0)) : Shares({}, 0)[i] = <<>>
      BY <3>1 DEF Share
    <3> QED BY <3>1, <3>2, FlattenNone
  <2>2. <<>> \o <<>> \o <<>> = <<>>
    OBVIOUS
  <2>3. s.out = <<>> /\ s.path1 = <<>>
    BY <1>2
  <2> QED BY <2>1, <2>2, <2>3 DEF Given
<1>9. Tracked(<<>>, s, {}, 0)
  BY <1>3, <1>5, <1>6, <1>7, <1>8 DEF Tracked
<1>10. Where(0, 0)
  BY DEF Where, Fits
<1>11. Settled(s, {}, 0, 0)
  BY <1>2 DEF Settled
<1>12. <<>> \in Seq(Packet) /\ {} \in SUBSET (1..0)
  OBVIOUS
<1> QED BY <1>1, <1>9, <1>10, <1>11, <1>12 DEF Between

(* What is handed on to the GIF is no longer VIF1's.                         *)
LEMMA Popped ==
  ASSUME Fits, NEW g, NEW s, NEW T, NEW c, NEW p, Between(g, s, T, c, p)
  PROVE  Between(g \o s.out \o s.path1, [s EXCEPT !.out = <<>>, !.path1 = <<>>], T, c, p)
<1>0. g \in Seq(Packet) /\ T \in SUBSET (1..c) /\ Where(c, p) /\ Tracked(g, s, T, p) /\ Settled(s, T, c, p)
      /\ s \in VifState
  BY DEF Between, Tracked
<1>1. PICK none \in Seq(Packet) : none = <<>>
  <2>1. <<>> \in Seq(Packet)
    OBVIOUS
  <2> QED BY <2>1
<1>2. s.out \in Seq(Packet) /\ s.path1 \in Seq(Packet)
  BY <1>0 DEF VifState
<1>3. PICK x \in Seq(Packet) : x = g \o s.out \o s.path1
  <2>1. g \o s.out \in Seq(Packet)
    BY <1>0, <1>2, ConcatType, Zenon
  <2>2. g \o s.out \o s.path1 \in Seq(Packet)
    BY <1>2, <2>1, ConcatType, Zenon
  <2> QED BY <2>2
<1>4. PICK t : t = [s EXCEPT !.out = none, !.path1 = none]
  OBVIOUS
<1>5. t \in VifState
  BY <1>0, <1>4 DEF VifState
<1>6. /\ t.out = none /\ t.path1 = none /\ t.differ = s.differ /\ t.unknown = s.unknown
      /\ t.tops = s.tops /\ t.mem = s.mem /\ t.runs = s.runs
      /\ t.direct = s.direct /\ t.packet = s.packet
  BY <1>0, <1>4 DEF VifState
<1>7. Given(x, t, T, p)
  <2>1. (x \o none) \o none = x
    BY <1>1
  <2>2. x = FlattenSeq(Shares(T, p))
    BY <1>0, <1>3 DEF Tracked, Given
  <2> QED BY <1>6, <2>1, <2>2 DEF Given
<1>8. Tracked(x, t, T, p)
  BY <1>0, <1>5, <1>6, <1>7 DEF Tracked, Settings, Buffers, Seen
<1>9. Settled(t, T, c, p)
  BY <1>0, <1>1, <1>6 DEF Settled, Carries
<1>10. Between(x, t, T, c, p)
  BY <1>0, <1>8, <1>9 DEF Between
<1> QED BY <1>1, <1>3, <1>4, <1>10, Zenon

(* The invariant holds first,                                                *)
LEMMA VifInit ==
  ASSUME Vif!StreamAssumption, Vif!Init
  PROVE  VifInv
<1>1. Fits
  BY StreamFits DEF Vif!Init
<1>2. sent \in 0..Len(Vif!Units(commands))
  <2>1. Len(Vif!Units(commands)) \in Nat
    BY <1>1, AllUnits
  <2> QED BY <2>1 DEF Vif!Init
<1>3. Between(<<>>, Vif!Reset0, {}, 0, 0)
  BY <1>1, Starts
<1>4. Between(got, vif, history.took, 0, sent)
  BY <1>3 DEF Vif!Init
<1> QED BY <1>2, <1>4 DEF Vif!Init, VifInv, VifTyped

(* a packet keeps it,                                                        *)
LEMMA VifSubmit ==
  ASSUME Vif!StreamAssumption, VifInv, Vif!Submit
  PROVE  VifInv'
<1>0. Fits /\ commands \in Streams /\ sent \in 0..Len(Vif!Units(commands))
        /\ commands' = commands /\ got' = got
  BY StreamFits DEF VifInv, VifTyped, Vif!Submit
<1>1. Len(Vif!Units(commands)) \in Nat
  BY <1>0, AllUnits
<1>2. PICK n \in 1..(Len(Vif!Units(commands)) - sent) :
        /\ vif' = Vif!Parse(vif, SubSeq(Vif!Units(commands), sent + 1, sent + n))
        /\ sent' = sent + n
        /\ history' = [took |-> Vif!Effective(sent, sent + n),
                       step |-> history.step /\ Vif!InStep(Vif!Effective(sent, sent + n), sent + n)]
  BY Zenon DEF Vif!Submit
<1>3. PICK e \in Nat : e = sent + n
  BY <1>0, <1>1
<1>4. sent \in Nat /\ sent < e /\ e <= Len(Vif!Units(commands))
  BY <1>0, <1>1, <1>3
<1>5. VifTyped'
  <2>1. commands' \in Streams
    BY <1>0
  <2>2. sent' \in 0..Len(Vif!Units(commands))
    BY <1>1, <1>2, <1>3, <1>4
  <2>3. sent' \in 0..Len(Vif!Units(commands'))
    BY <1>0, <2>2
  <2> QED BY <2>1, <2>3 DEF VifTyped
<1>6. ASSUME history'.step PROVE (\E c : Between(got, vif, history.took, c, sent))'
  <2>1. history.step /\ Vif!InStep(Vif!Effective(sent, e), e) /\ history'.took = Vif!Effective(sent, e)
    BY <1>2, <1>3, <1>6
  <2>2. PICK c : Between(got, vif, history.took, c, sent)
    BY <2>1 DEF VifInv
  <2>3. PICK t : t = Vif!Parse(vif, SubSeq(Vif!Units(commands), sent + 1, e))
    OBVIOUS
  <2>4. \E d : Between(got, t, Vif!Effective(sent, e), d, e)
    BY <1>0, <1>4, <2>1, <2>2, <2>3, Landed
  <2>5. PICK d, g, T : g = got /\ T = Vif!Effective(sent, e) /\ Between(g, t, T, d, e)
    BY <2>4
  <2>6. Between(g, t, T, d, e)'
    BY <1>0, <2>5, BetweenHeld
  <2>7. got' = g /\ vif' = t /\ history'.took = T /\ sent' = e
    BY <1>0, <1>2, <1>3, <2>1, <2>3, <2>5
  <2> QED BY <2>6, <2>7
<1> QED BY <1>5, <1>6 DEF VifInv

(* handing the output on keeps it,                                           *)
LEMMA VifPop ==
  ASSUME Vif!StreamAssumption, VifInv, Vif!PopAll
  PROVE  VifInv'
<1>0. Fits /\ commands \in Streams /\ sent \in 0..Len(Vif!Units(commands)) /\ commands' = commands
      /\ sent' = sent /\ history' = history
  BY StreamFits DEF VifInv, VifTyped, Vif!PopAll
<1>1. PICK g, t : /\ g = got \o vif.out \o vif.path1 /\ t = [vif EXCEPT !.out = <<>>, !.path1 = <<>>]
                  /\ got' = g /\ vif' = t
  BY DEF Vif!PopAll
<1>2. VifTyped'
  BY <1>0 DEF VifTyped
<1>3. ASSUME history'.step PROVE (\E c : Between(got, vif, history.took, c, sent))'
  <2>1. PICK c : Between(got, vif, history.took, c, sent)
    BY <1>0, <1>3 DEF VifInv
  <2>2. PICK T, p : T = history.took /\ p = sent
    OBVIOUS
  <2>3. Between(g, t, T, c, p)
    BY <1>0, <1>1, <2>1, <2>2, Popped
  <2>4. Between(g, t, T, c, p)'
    BY <1>0, <2>3, BetweenHeld
  <2> QED BY <1>0, <1>1, <2>2, <2>4
<1> QED BY <1>2, <1>3 DEF VifInv

(* a reset keeps it,                                                         *)
LEMMA VifReset ==
  ASSUME Vif!StreamAssumption, VifInv, Vif!Reset
  PROVE  VifInv'
<1>0. /\ Fits /\ commands \in Streams /\ commands' = commands
      /\ sent' = 0 /\ vif' = Vif!Reset0 /\ got' = <<>> /\ history' = [took |-> {}, step |-> TRUE]
  BY StreamFits DEF VifInv, VifTyped, Vif!Reset
<1>1. VifTyped'
  <2>1. Len(Vif!Units(commands)) \in Nat
    BY <1>0, AllUnits
  <2>2. sent' \in 0..Len(Vif!Units(commands))
    BY <1>0, <2>1
  <2> QED BY <1>0, <2>2 DEF VifTyped
<1>2. (\E c : Between(got, vif, history.took, c, sent))'
  <2>1. PICK g, s, T, c, p : /\ g = <<>> /\ s = Vif!Reset0 /\ T = {} /\ c = 0 /\ p = 0
                             /\ Between(g, s, T, c, p)
    BY <1>0, Starts
  <2>2. Between(g, s, T, c, p)'
    BY <1>0, <2>1, BetweenHeld
  <2>3. got' = g /\ vif' = s /\ history'.took = T /\ sent' = p
    BY <1>0, <2>1
  <2> QED BY <2>2, <2>3
<1> QED BY <1>1, <1>2 DEF VifInv

(* and so does a step of something else.                                     *)
LEMMA VifStutter ==
  ASSUME VifInv, UNCHANGED Vif!vars
  PROVE  VifInv'
<1>0. commands' = commands /\ vif' = vif /\ got' = got /\ history' = history /\ sent' = sent
  BY DEF Vif!vars
<1>1. ASSUME history'.step PROVE (\E c : Between(got, vif, history.took, c, sent))'
  <2>1. PICK g, s, T, c, p : /\ g = got /\ s = vif /\ T = history.took /\ p = sent
                             /\ Between(g, s, T, c, p)
    BY <1>0, <1>1 DEF VifInv
  <2>2. Between(g, s, T, c, p)'
    BY <1>0, <2>1, BetweenHeld
  <2> QED BY <1>0, <2>1, <2>2
<1> QED BY <1>0, <1>1 DEF VifInv, VifTyped

(* The order of the output follows.                                          *)
LEMMA InOrder ==
  ASSUME Vif!StreamAssumption, VifInv
  PROVE  Vif!OutputInOrder
<1> SUFFICES ASSUME history.step PROVE got \o vif.out \o vif.path1
      = FlattenSeq([i \in DOMAIN commands |-> IF i \in history.took THEN Vif!Output(i) ELSE <<>>])
  BY VifSequences, Zenon DEF Vif!OutputInOrder
<1>1. Fits
  BY StreamFits DEF VifInv, VifTyped
<1>2. got \o vif.out \o vif.path1 = FlattenSeq(Shares(history.took, sent))
  BY DEF VifInv, Between, Tracked, Given
<1>3. DOMAIN commands = 1..Len(commands)
  BY <1>1 DEF Fits
<1>4. \A i : Vif!Output(i) = OutputAt(i, sent)
  BY Zenon DEF Vif!Output, OutputAt
<1>5. Shares(history.took, sent) = [i \in DOMAIN commands |-> IF i \in history.took THEN Vif!Output(i) ELSE <<>>]
  BY <1>3, <1>4 DEF Shares, Share
<1> QED BY <1>2, <1>5

(* What a program finds follows.                                             *)
LEMMA FoundUpload ==
  ASSUME Vif!StreamAssumption, VifInv
  PROVE  Vif!UploadSeen
<1> SUFFICES ASSUME history.step, NEW r \in Vif!Range(vif.runs)
             PROVE LET before == {i \in Vif!LastOp(history.took, {"unpack", "offset"} \cup Vif!Runs) : i < r.at}
                   IN (before # {} /\ commands[Vif!Max(before)].op = "unpack"
                         /\ commands[Vif!Max(before)].flg /\ commands[Vif!Max(before)].v = 0)
                      => r.saw = <<Vif!Max(before), 0>>
  BY Zenon DEF Vif!UploadSeen
<1>1. PICK c : Between(got, vif, history.took, c, sent)
  BY DEF VifInv
<1>2. vif \in VifState /\ Seen(vif, history.took)
  BY <1>1 DEF Between, Tracked
<1>3. PICK k \in 1..Len(vif.runs) : r = vif.runs[k]
  <2>1. DOMAIN vif.runs = 1..Len(vif.runs)
    BY <1>2 DEF VifState
  <2> QED BY <2>1 DEF Vif!Range
<1>4. Finds(Below(history.took, r.at), r.saw)
  BY <1>2, <1>3 DEF Seen
<1>5. Vif!LastOp(Below(history.took, r.at), Users)
        = {i \in Vif!LastOp(history.took, {"unpack", "offset"} \cup Vif!Runs) : i < r.at}
  BY DEF Vif!LastOp, Below, Users
<1> QED BY <1>4, <1>5, VifSets, Zenon DEF Finds

(* The steps of Vif1Stream together.                                         *)
LEMMA VifStep ==
  ASSUME Vif!StreamAssumption, VifInv, [Vif!Next]_Vif!vars
  PROVE  VifInv'
  BY VifSubmit, VifPop, VifReset, VifStutter DEF Vif!Next

(* The steps of GraphicsPath: while the part is "vif1" they are those of     *)
(* Vif1Stream.                                                               *)
LEMMA VifKept ==
  ASSUME Constants, part = "vif1" => VifInv, [Next]_vars
  PROVE  (part = "vif1" => VifInv)'
<1>1. SUFFICES ASSUME part' = "vif1" PROVE VifInv'
  OBVIOUS
<1>2. part = "vif1" /\ [Vif!Next]_Vif!vars
  BY <1>1 DEF Next, vars, vifVars, Vif!vars
<1>3. Vif!StreamAssumption
  BY DEF Constants
<1> QED BY <1>2, <1>3, VifStep

(* Vif1Stream: wherever DMA cuts the stream, as long as no payload that       *)
(* cannot be carried over is cut, the GIF gets the XGKICK packets and the     *)
(* whole DIRECT payloads of the commands that take effect, in their order.    *)
THEOREM OutputTheorem == Spec => []OutputInOrder
<1> DEFINE Inv == part = "vif1" => VifInv
<1>0. Vif!StreamAssumption
  BY Constants DEF Constants
<1>1. Init => Inv
  BY <1>0, VifInit DEF Init
<1>2. Inv /\ [Next]_vars => Inv'
  BY Constants, VifKept
<1>3. Inv => OutputInOrder
  BY <1>0, InOrder DEF OutputInOrder
<1> QED BY <1>1, <1>2, <1>3, PTL DEF Spec

(* Vif1Stream: a program finds at TOP what was last uploaded relative to TOPS *)
(* for it, whichever buffers the programs before it swapped.                  *)
THEOREM UploadTheorem == Spec => []UploadSeen
<1> DEFINE Inv == part = "vif1" => VifInv
<1>0. Vif!StreamAssumption
  BY Constants DEF Constants
<1>1. Init => Inv
  BY <1>0, VifInit DEF Init
<1>2. Inv /\ [Next]_vars => Inv'
  BY Constants, VifKept
<1>3. Inv => UploadSeen
  BY <1>0, FoundUpload DEF UploadSeen
<1> QED BY <1>1, <1>2, <1>3, PTL DEF Spec
===============================================================================
