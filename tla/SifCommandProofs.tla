--------------------------- MODULE SifCommandProofs ----------------------------
(***************************************************************************)
(* For lists of every length, every walk limit and every charge: SIF1 is a  *)
(* FIFO, the IOP is told of whole messages only, nothing is written twice   *)
(* unless a walk failed, and nothing ahead of what was charged for if the   *)
(* charge ended with a message.                                             *)
(*                                                                         *)
(* The argument: a completion walk that finds an end has copied just the    *)
(* slots from TADR to it; a burst was charged up to a slot that is an end   *)
(* under the TIE of that time.                                              *)
(***************************************************************************)
EXTENDS SifCommand, FiniteSetTheorems, TLAPS

(* The slot the running burst was charged up to.                            *)
ChargeOK ==
  left # 0 => /\ charged.last \in tadr..sent
              /\ \/ tags[charged.last].last
                 \/ (tags[charged.last].irq /\ charged.tie)

IInv == TypeOK /\ ExactlyOnce /\ tadr <= sent + 1 /\ ChargeOK

-----------------------------------------------------------------------------
(* A walk has looked at no more tags at a slot than at the slots behind it. *)
LEMMA StepsGrow ==
  ASSUME NEW k, NEW j \in tadr..k, tadr \in Nat, k \in Nat
  PROVE  Steps(j) \in Nat /\ Steps(k) \in Nat /\ Steps(j) <= Steps(k)
<1>1. PICK K : K = {i \in tadr..k : tags[i].jump}
  OBVIOUS
<1>2. PICK J : J = {i \in tadr..j : tags[i].jump}
  OBVIOUS
<1>3. IsFiniteSet(tadr..k)
  BY FS_Interval
<1>4. K \subseteq tadr..k /\ J \subseteq K
  BY <1>1, <1>2
<1>5. IsFiniteSet(K)
  BY <1>3, <1>4, FS_Subset
<1>6. IsFiniteSet(J) /\ Cardinality(J) <= Cardinality(K)
  BY <1>4, <1>5, FS_Subset
<1>7. Cardinality(J) \in Nat /\ Cardinality(K) \in Nat
  BY <1>5, <1>6, FS_CardinalityType
<1>8. Steps(j) = (j - tadr) + 1 + Cardinality(J) /\ Steps(k) = (k - tadr) + 1 + Cardinality(K)
  BY <1>1, <1>2 DEF Steps
<1> QED BY <1>6, <1>7, <1>8

(* A walk that reaches an end has copied just the slots from TADR to it.    *)
LEMMA CopiedIsPrefix ==
  ASSUME TypeOK, NEW k \in Copied, Done(k)
  PROVE  k \in tadr..sent /\ Copied = tadr..k
<1>1. k \in tadr..sent /\ Steps(k) <= MaxWalk /\ tadr \in Nat /\ sent \in Nat
  BY DEF Copied, TypeOK
<1>2. ASSUME NEW j \in tadr..k PROVE j \in Copied
  <2>1. Steps(j) <= MaxWalk
    BY <1>1, <1>2, StepsGrow, CommandAssumption
  <2> QED BY <1>1, <1>2, <2>1 DEF Copied
<1>3. ASSUME NEW j \in Copied PROVE j \in tadr..k
  BY <1>1, <1>3 DEF Copied
<1> QED BY <1>1, <1>2, <1>3

(* Copying keeps the counts' type, counts each slot walked once, and leaves *)
(* the others alone.                                                        *)
LEMMA CopyCounts ==
  ASSUME TypeOK, Copy
  PROVE  /\ copies' \in [Slots -> 0..2]
         /\ \A k \in Slots : k \in Copied => /\ copies'[k] >= 1
                                             /\ copies[k] = 0 => copies'[k] = 1
         /\ \A k \in Slots : k \notin Copied => copies'[k] = copies[k]
         /\ \A k \in Slots : copies'[k] >= copies[k]
  BY DEF TypeOK, Copy

(* Starting a burst charges it up to an end.                                *)
LEMMA StartCharges ==
  ASSUME TypeOK, Start, UNCHANGED <<chain, tie>>
  PROVE  /\ left' \in Nat
         /\ charged' \in [last : Nat, tie : BOOLEAN]
         /\ ChargeOK'
<1>1. PICK k \in Predicted : left' \in Durations /\ charged' = [last |-> k, tie |-> tie]
  BY DEF Start
<1>2. k \in tadr..sent /\ Ends(k) /\ k \in Nat
  BY DEF Predicted, TypeOK
<1>3. charged'.last = k /\ charged'.tie = tie /\ charged' \in [last : Nat, tie : BOOLEAN]
  BY <1>1, <1>2 DEF TypeOK
<1>4. tags[k].last \/ (tags[k].irq /\ tie)
  BY <1>2, Zenon DEF Ends
<1>5. ChargeOK'
  BY <1>2, <1>3, <1>4 DEF ChargeOK, chain
<1> QED BY <1>1, <1>3, <1>5, CommandAssumption

-----------------------------------------------------------------------------
(* Before anything is sent the invariant holds.                             *)
LEMMA InitHolds == Init => IInv
<1> SUFFICES ASSUME Init PROVE IInv
  OBVIOUS
<1>1. TypeOK
  <2>1. tags \in [Slots -> Tag]
    BY DEF Init, Tag, Reach
  <2>2. sent \in 0..Messages /\ tadr \in 1..(Messages + 1) /\ left \in Nat
    BY CommandAssumption DEF Init
  <2>3. copies \in [Slots -> 0..2] /\ charged \in [last : Nat, tie : BOOLEAN]
    BY DEF Init
  <2>4. /\ iop \in BOOLEAN /\ ee \in BOOLEAN /\ tie \in BOOLEAN
        /\ iopIrq \in BOOLEAN /\ eeIrq \in BOOLEAN /\ failed \in BOOLEAN
    BY Zenon DEF Init
  <2> QED BY <2>1, <2>2, <2>3, <2>4 DEF TypeOK
<1>2. ExactlyOnce /\ tadr <= sent + 1 /\ ChargeOK
  BY DEF Init, ExactlyOnce, ChargeOK, Slots
<1> QED BY <1>1, <1>2 DEF IInv

(* The start of a burst keeps the invariant.                                *)
LEMMA BeginKeeps == ASSUME IInv, Begin PROVE IInv'
<1>1. UNCHANGED <<tags, sent, tadr, iop, ee, tie, copies, failed, iopIrq, eeIrq>>
  BY DEF Begin, chain, effects
<1>2. left' \in Nat /\ charged' \in [last : Nat, tie : BOOLEAN] /\ ChargeOK'
  BY StartCharges DEF Begin, IInv
<1>3. TypeOK'
  BY <1>1, <1>2 DEF IInv, TypeOK
<1>4. ExactlyOnce' /\ (tadr <= sent + 1)'
  BY <1>1 DEF IInv, ExactlyOnce
<1> QED BY <1>2, <1>3, <1>4 DEF IInv

(* So does the passing of a cycle.                                          *)
LEMMA ElapseKeeps == ASSUME IInv, Elapse PROVE IInv'
<1>1. UNCHANGED <<tags, sent, tadr, iop, ee, tie, charged, copies, failed, iopIrq, eeIrq>>
  BY DEF Elapse, chain, effects
<1>2. left \in Nat /\ left # 0 /\ left' \in Nat
  BY DEF Elapse, IInv, TypeOK
<1>3. TypeOK'
  BY <1>1, <1>2 DEF IInv, TypeOK
<1>4. ExactlyOnce' /\ (tadr <= sent + 1)'
  BY <1>1 DEF IInv, ExactlyOnce
<1>5. ChargeOK'
  BY <1>1, <1>2 DEF IInv, ChargeOK
<1> QED BY <1>3, <1>4, <1>5 DEF IInv

(* A successful walk moves TADR behind the end it found.                    *)
LEMMA CompleteEnds ==
  ASSUME IInv, Complete
  PROVE  \E k \in tadr..sent : /\ k \in Copied /\ Done(k) /\ tadr' = k + 1
                               /\ Copied = tadr..k
  BY CopiedIsPrefix DEF Complete, NextTadr, IInv

(* It keeps the invariant.                                                  *)
LEMMA CompleteKeeps == ASSUME IInv, Complete PROVE IInv'
<1>1. PICK k \in tadr..sent : /\ k \in Copied /\ Done(k) /\ tadr' = k + 1
                              /\ Copied = tadr..k
  BY CompleteEnds
<1>2. /\ UNCHANGED <<tags, sent, tie, charged, failed>> /\ left' = 0
      /\ ee' = FALSE /\ eeIrq' = TRUE /\ iop' = FALSE /\ iopIrq' = TRUE
  BY DEF Complete
<1>3. tadr \in 1..(Messages + 1) /\ sent \in 0..Messages
  BY DEF IInv, TypeOK
<1>4. /\ copies' \in [Slots -> 0..2]
      /\ \A j \in Slots : j \in Copied => /\ copies'[j] >= 1
                                          /\ copies[j] = 0 => copies'[j] = 1
      /\ \A j \in Slots : j \notin Copied => copies'[j] = copies[j]
      /\ \A j \in Slots : copies'[j] >= copies[j]
  BY CopyCounts DEF Complete, IInv
<1>5. TypeOK'
  <2>1. tadr' \in 1..(Messages + 1)
    BY <1>1, <1>3, CommandAssumption
  <2> QED BY <1>2, <1>4, <2>1 DEF IInv, TypeOK
<1>6. ExactlyOnce'
  <2>1. ASSUME NEW j \in Slots, j < k + 1, j <= sent PROVE copies'[j] >= 1
    <3>1. CASE j < tadr
      <4>1. copies[j] >= 1
        BY <2>1, <3>1 DEF IInv, ExactlyOnce
      <4>2. copies'[j] >= copies[j] /\ copies[j] \in 0..2 /\ copies'[j] \in 0..2
        BY <1>4, <2>1 DEF IInv, TypeOK
      <4> QED BY <4>1, <4>2
    <3>2. CASE j >= tadr
      <4>1. j \in tadr..k
        BY <1>1, <1>3, <2>1, <3>2 DEF Slots
      <4> QED BY <1>1, <1>4, <4>1
    <3> QED BY <1>3, <2>1, <3>1, <3>2 DEF Slots
  <2>2. ASSUME ~failed, NEW j \in Slots
        PROVE  copies'[j] = (IF j < k + 1 THEN 1 ELSE 0)
    <3>1. copies[j] = (IF j < tadr THEN 1 ELSE 0)
      BY <2>2 DEF IInv, ExactlyOnce
    <3>2. CASE j \in tadr..k
      BY <1>1, <1>3, <1>4, <3>1, <3>2
    <3>3. CASE j \notin tadr..k
      BY <1>1, <1>3, <1>4, <3>1, <3>3 DEF Slots
    <3> QED BY <3>2, <3>3
  <2> QED BY <1>1, <1>2, <2>1, <2>2 DEF ExactlyOnce
<1>7. (tadr <= sent + 1)' /\ ChargeOK'
  BY <1>1, <1>2, <1>3 DEF ChargeOK
<1> QED BY <1>5, <1>6, <1>7 DEF IInv

(* A failed walk keeps it, whether or not it starts over.                   *)
LEMMA FailKeeps == ASSUME IInv, Fail PROVE IInv'
<1>1. UNCHANGED <<tags, sent, tadr, iop, ee, tie, iopIrq, eeIrq>> /\ failed' = TRUE
  BY DEF Fail, chain
<1>2. copies' \in [Slots -> 0..2] /\ \A j \in Slots : copies'[j] >= copies[j]
  BY CopyCounts DEF Fail, IInv
<1>3. left' \in Nat /\ charged' \in [last : Nat, tie : BOOLEAN] /\ ChargeOK'
  <2>1. CASE Start
    BY <1>1, <2>1, StartCharges DEF IInv, chain
  <2>2. CASE left' = 0 /\ UNCHANGED charged
    BY <2>2 DEF IInv, TypeOK, ChargeOK
  <2> QED BY <2>1, <2>2 DEF Fail
<1>4. TypeOK'
  BY <1>1, <1>2, <1>3 DEF IInv, TypeOK
<1>5. ExactlyOnce'
  <2>1. ASSUME NEW j \in Slots, j < tadr, j <= sent PROVE copies'[j] >= 1
    <3>1. copies[j] >= 1
      BY <2>1 DEF IInv, ExactlyOnce
    <3>2. copies'[j] >= copies[j] /\ copies[j] \in 0..2 /\ copies'[j] \in 0..2
      BY <1>2, <2>1 DEF IInv, TypeOK
    <3> QED BY <3>1, <3>2
  <2> QED BY <1>1, <2>1 DEF ExactlyOnce
<1> QED BY <1>1, <1>3, <1>4, <1>5 DEF IInv

(* A new list lies ahead of everything the invariant speaks of.             *)
LEMMA SendKeeps == ASSUME IInv, Send PROVE IInv'
<1>1. /\ ee' = TRUE /\ sent' \in (sent + 1)..Messages /\ tadr = sent + 1
      /\ UNCHANGED <<tadr, iop, tie, left, charged, copies, failed, iopIrq, eeIrq>>
  BY DEF Send, effects
<1>2. sent \in 0..Messages /\ tags \in [Slots -> Tag] /\ tadr \in 1..(Messages + 1)
  BY DEF IInv, TypeOK
<1>3. PICK jumps, irqs, ends \in SUBSET ((sent + 1)..sent'), reach \in [(sent + 1)..sent' -> Reach] :
        /\ sent' \in ends /\ \A k \in jumps : k - 1 \in ends
        /\ tags' = [k \in Slots |->
                     IF k \in (sent + 1)..sent'
                     THEN [jump |-> k \in jumps, last |-> k = sent', irq |-> k \in irqs,
                           msgEnd |-> k \in ends, reach |-> reach[k]]
                     ELSE tags[k]]
  BY Zenon DEF Send
<1>4. tags' \in [Slots -> Tag]
  <2>1. ASSUME NEW k \in Slots PROVE tags'[k] \in Tag
    <3>1. CASE k \in (sent + 1)..sent'
      <4>1. tags'[k] = [jump |-> k \in jumps, last |-> k = sent', irq |-> k \in irqs,
                        msgEnd |-> k \in ends, reach |-> reach[k]]
        BY <1>3, <3>1
      <4>2. reach[k] \in Reach
        BY <3>1
      <4> DEFINE new == [jump |-> k \in jumps, last |-> k = sent', irq |-> k \in irqs,
                         msgEnd |-> k \in ends, reach |-> reach[k]]
      <4>3. (k \in jumps) \in BOOLEAN /\ (k = sent') \in BOOLEAN /\ (k \in irqs) \in BOOLEAN
            /\ (k \in ends) \in BOOLEAN
        OBVIOUS
      <4>4. new \in Tag
        BY <4>2, <4>3 DEF Tag
      <4> QED BY <4>1, <4>4
    <3>2. CASE k \notin (sent + 1)..sent'
      <4>1. tags'[k] = tags[k]
        BY <1>3, <3>2, Zenon
      <4> QED BY <1>2, <4>1
    <3> QED BY <3>1, <3>2
  <2> QED BY <1>3, <2>1, Zenon
<1>5. sent' \in 0..Messages
  BY <1>1, <1>2, CommandAssumption
<1>6. TypeOK'
  BY <1>1, <1>4, <1>5 DEF IInv, TypeOK
<1>7. ExactlyOnce'
  <2>1. ASSUME NEW j \in Slots, j < tadr PROVE copies[j] >= 1
    BY <1>1, <1>2, <2>1 DEF IInv, ExactlyOnce, Slots
  <2> QED BY <1>1, <2>1 DEF IInv, ExactlyOnce
<1>8. left = 0
  <2>1. tadr..sent = {}
    BY <1>1, <1>2
  <2> QED BY <2>1 DEF IInv, ChargeOK
<1>9. (tadr <= sent + 1)'
  <2>1. \A n \in (sent + 1)..Messages : tadr <= n + 1
    BY <1>1, <1>2, CommandAssumption
  <2> QED BY <1>1, <2>1
<1>10. ChargeOK'
  BY <1>1, <1>8 DEF ChargeOK
<1> QED BY <1>6, <1>7, <1>9, <1>10 DEF IInv

(* The channel registers, the TLB and the interrupt flags carry nothing of  *)
(* what the invariant says.                                                 *)
LEMMA EeChcrKeeps == ASSUME IInv, EeChcr PROVE IInv'
<1>1. UNCHANGED <<tags, sent, tadr, iop, left, charged, copies, failed, iopIrq, eeIrq>>
  BY DEF EeChcr, chain, effects
<1>2. ee' \in BOOLEAN /\ tie' \in BOOLEAN
  BY DEF EeChcr, IInv, TypeOK
<1>3. TypeOK'
  BY <1>1, <1>2 DEF IInv, TypeOK
<1> QED BY <1>1, <1>3 DEF IInv, ExactlyOnce, ChargeOK

(* So does a change of the EE's mappings.                                   *)
LEMMA EeRemapKeeps == ASSUME IInv, EeRemap PROVE IInv'
<1>1. UNCHANGED <<sent, tadr, iop, ee, tie, left, charged, copies, failed, iopIrq, eeIrq>>
  BY DEF EeRemap, effects
<1>2. /\ tags \in [Slots -> Tag] /\ tadr \in 1..(Messages + 1) /\ sent \in 0..Messages
  BY DEF IInv, TypeOK
<1>3. PICK k \in tadr..sent, x \in Reach : tags' = [tags EXCEPT ![k].reach = x]
  BY Zenon DEF EeRemap
<1>4. k \in Slots
  BY <1>2, CommandAssumption DEF Slots
<1> DEFINE r == [tags[k] EXCEPT !.reach = x]
<1>5. r \in Tag /\ r.last = tags[k].last /\ r.irq = tags[k].irq
  <2>1. tags[k] \in Tag
    BY <1>2, <1>4
  <2> QED BY <2>1, Zenon DEF Tag
<1>6. tags' = [tags EXCEPT ![k] = r]
  BY <1>3, Zenon
<1> HIDE DEF r
<1>7. /\ tags' \in [Slots -> Tag]
      /\ \A j \in Slots : tags'[j].last = tags[j].last /\ tags'[j].irq = tags[j].irq
  BY <1>2, <1>4, <1>5, <1>6
<1>8. TypeOK'
  BY <1>1, <1>7 DEF IInv, TypeOK
<1>9. ExactlyOnce' /\ (tadr <= sent + 1)'
  BY <1>1 DEF IInv, ExactlyOnce
<1>10. tadr..sent \subseteq Slots
  BY <1>2, CommandAssumption DEF Slots
<1>11. ChargeOK'
  BY <1>1, <1>7, <1>10 DEF IInv, ChargeOK
<1> QED BY <1>8, <1>9, <1>11 DEF IInv

(* So does arming the IOP's side.                                           *)
LEMMA IopArmKeeps == ASSUME IInv, IopArm PROVE IInv'
<1>1. /\ iop' = TRUE
      /\ UNCHANGED <<tags, sent, tadr, ee, tie, left, charged, copies, failed, iopIrq, eeIrq>>
  BY DEF IopArm, chain, effects
<1>2. TypeOK'
  BY <1>1 DEF IInv, TypeOK
<1> QED BY <1>1, <1>2 DEF IInv, ExactlyOnce, ChargeOK

(* So does the acknowledgement of an interrupt.                             *)
LEMMA AcknowledgeKeeps == ASSUME IInv, Acknowledge PROVE IInv'
<1>1. UNCHANGED <<tags, sent, tadr, iop, ee, tie, left, charged, copies, failed>>
  BY DEF Acknowledge, chain
<1>2. eeIrq' \in BOOLEAN /\ iopIrq' \in BOOLEAN
  BY Zenon DEF Acknowledge, IInv, TypeOK
<1>3. TypeOK'
  BY <1>1, <1>2 DEF IInv, TypeOK
<1> QED BY <1>1, <1>3 DEF IInv, ExactlyOnce, ChargeOK

(* Every step keeps the invariant.                                          *)
LEMMA Inductive == IInv /\ [Next]_vars => IInv'
<1> SUFFICES ASSUME IInv, [Next]_vars PROVE IInv'
  OBVIOUS
<1>1. CASE Tick
  BY <1>1, BeginKeeps, ElapseKeeps, CompleteKeeps, FailKeeps DEF Tick
<1>2. CASE Send \/ EeChcr \/ EeRemap \/ IopArm \/ Acknowledge
  BY <1>2, SendKeeps, EeChcrKeeps, EeRemapKeeps, IopArmKeeps, AcknowledgeKeeps
<1>3. CASE UNCHANGED vars
  BY <1>3 DEF vars, chain, effects, IInv, TypeOK, ExactlyOnce, ChargeOK
<1> QED BY <1>1, <1>2, <1>3 DEF Next

(* The invariant holds throughout every behaviour of SIF1.                  *)
THEOREM Invariance == Spec => []IInv
<1>1. Init => IInv
  BY InitHolds
<1>2. IInv /\ [Next]_vars => IInv'
  BY Inductive
<1> QED BY <1>1, <1>2, PTL DEF Spec

-----------------------------------------------------------------------------
(* Every variable of the channel keeps its type.                            *)
THEOREM TypeCorrect == Spec => []TypeOK
  BY Invariance, PTL DEF IInv

(* Every slot behind TADR has arrived, and unless a walk failed midway      *)
(* exactly once, with nothing written ahead of TADR.                        *)
THEOREM DeliveredOnce == Spec => []ExactlyOnce
  BY Invariance, PTL DEF IInv

(* Only a completion moves TADR or frees the IOP's channel.                 *)
LEMMA OnlyComplete ==
  ASSUME IInv, Next, (iop /\ ~iop') \/ (tadr' > tadr /\ sent' = sent)
  PROVE  Complete
<1>1. tadr \in Nat
  BY DEF IInv, TypeOK
<1>2. Complete \/ (tadr' = tadr /\ (iop => iop'))
  BY DEF Next, Tick, Begin, Elapse, Fail, Send, EeChcr, EeRemap, IopArm, Acknowledge, chain
<1> QED BY <1>1, <1>2

(* The IOP is told of whole messages, and told with the EE.                 *)
THEOREM MessagesAreWhole == Spec => WholeMessages
<1> DEFINE A == (iop /\ ~iop') \/ (tadr' > tadr /\ sent' = sent) =>
                  /\ tadr' > tadr /\ tags[tadr' - 1].msgEnd /\ Ends(tadr' - 1)
                  /\ ~iop' /\ ~ee' /\ iopIrq' /\ eeIrq'
                  /\ \A k \in tadr..(tadr' - 2) : ~(Ends(k) /\ tags[k].msgEnd)
<1>1. IInv /\ [Next]_vars => [A]_vars
  <2> SUFFICES ASSUME IInv, Next, (iop /\ ~iop') \/ (tadr' > tadr /\ sent' = sent)
               PROVE  A
    BY Zenon
  <2>1. Complete
    BY OnlyComplete
  <2>2. PICK k \in tadr..sent : /\ k \in Copied /\ Done(k) /\ tadr' = k + 1
                                /\ Copied = tadr..k
    BY <2>1, CompleteEnds
  <2>3. k = tadr' - 1 /\ k - 1 = tadr' - 2 /\ tadr' > tadr
    BY <2>2 DEF IInv, TypeOK
  <2>4. \A j \in tadr..(k - 1) : ~(Ends(j) /\ tags[j].msgEnd)
    <3>1. \A j \in tadr..(k - 1) : j \in tadr..k /\ j # k
      BY <2>2 DEF IInv, TypeOK
    <3> QED BY <2>2, <3>1 DEF Copied, Done
  <2>5. ~iop' /\ ~ee' /\ iopIrq' /\ eeIrq' /\ tags[k].msgEnd /\ Ends(k)
    BY <2>1, <2>2 DEF Complete, Done
  <2> QED BY <2>3, <2>4, <2>5
<1> QED BY <1>1, Invariance, PTL DEF Spec, WholeMessages

(* If the charge ended with a message, nothing beyond it is written at the  *)
(* deadline, unless TIE has changed in between.                             *)
THEOREM NothingEarly == Spec => NeverEarly
<1> DEFINE A == \A k \in Slots :
                  copies'[k] # copies[k] /\ tie = charged.tie /\ tags[charged.last].msgEnd
                    => k <= charged.last
<1>1. IInv /\ [Next]_vars => [A]_vars
  <2> SUFFICES ASSUME IInv, Next, NEW k \in Slots, copies'[k] # copies[k],
                      tie = charged.tie, tags[charged.last].msgEnd
               PROVE  k <= charged.last
    BY Zenon
  <2>1. Complete \/ Fail
    BY DEF Next, Tick, Begin, Elapse, Send, EeChcr, EeRemap, IopArm, Acknowledge, effects
  <2>2. Copy /\ left = 1
    BY <2>1 DEF Complete, Fail
  <2>3. k \in Copied
    BY <2>2, CopyCounts DEF IInv
  <2>4. charged.last \in tadr..sent /\ Done(charged.last)
    BY <2>2 DEF IInv, ChargeOK, Done, Ends
  <2>5. \A j \in tadr..k : j # k => ~Done(j)
    BY <2>3 DEF Copied
  <2>6. k \in tadr..sent /\ tadr \in Nat /\ sent \in Nat
    BY <2>3 DEF Copied, IInv, TypeOK
  <2> QED BY <2>4, <2>5, <2>6
<1> QED BY <1>1, Invariance, PTL DEF Spec, NeverEarly

(* The channel implements a FIFO.                                           *)
THEOREM ImplementsLink == Spec => KeepsLink
<1>1. Init => Link!Init
  BY DEF Init, Link!Init
<1>2. IInv /\ [Next]_vars => [Link!Next]_<<sent, tadr - 1, tadr <= sent>>
  <2> SUFFICES ASSUME IInv, [Next]_vars
               PROVE  [Link!Next]_<<sent, tadr - 1, tadr <= sent>>
    OBVIOUS
  <2>1. CASE Send
    <3>1. sent' \in (sent + 1)..Messages /\ tadr' = tadr /\ tadr = sent + 1
      BY <2>1 DEF Send
    <3>2. ~(tadr <= sent) /\ tadr <= sent'
      BY <3>1 DEF IInv, TypeOK
    <3>3. (tadr <= sent)' = TRUE
      BY <3>1, <3>2
    <3> QED BY <3>1, <3>2, <3>3 DEF Link!Next, Link!Send
  <2>2. CASE Complete
    <3>1. PICK k \in tadr..sent : tadr' = k + 1
      BY <2>2, CompleteEnds
    <3>2. sent' = sent /\ sent \in Nat /\ tadr \in Nat
      BY <2>2 DEF Complete, IInv, TypeOK
    <3>3. tadr' - 1 = k /\ k \in ((tadr - 1) + 1)..sent /\ tadr <= sent
      BY <3>1, <3>2
    <3>4. (tadr <= sent)' = (k # sent)
      BY <3>1, <3>2
    <3> QED BY <3>2, <3>3, <3>4 DEF Link!Next, Link!Arrive
  <2>3. CASE UNCHANGED <<sent, tadr>>
    BY <2>3
  <2>4. Begin \/ Elapse \/ Fail \/ EeChcr \/ EeRemap \/ IopArm \/ Acknowledge \/ UNCHANGED vars
          => UNCHANGED <<sent, tadr>>
    BY DEF Begin, Elapse, Fail, EeChcr, EeRemap, IopArm, Acknowledge, chain, vars
  <2> QED BY <2>1, <2>2, <2>3, <2>4 DEF Next, Tick
<1> QED BY <1>1, <1>2, Invariance, PTL DEF Spec, KeepsLink, Link!Spec
===============================================================================
