---------------------------- MODULE SifReplyProofs -----------------------------
(***************************************************************************)
(* For lists of every length, every walk limit and every charge: SIF0 is a  *)
(* FIFO, each side stops at its own end, nothing is written twice unless a  *)
(* walk failed, and nothing ahead of what was charged for.                  *)
(*                                                                         *)
(* The argument: while the IOP's side is started, what is left of its list  *)
(* ends at the last filled slot and nowhere before; a burst was charged up  *)
(* to a slot that ends one of the sides as they were then.                  *)
(***************************************************************************)
EXTENDS SifReply, TLAPS

(* The IOP's list, from TADR on.                                            *)
ListOK ==
  /\ iop => /\ tadr <= sent /\ tags[sent].iopEnd
            /\ \A k \in tadr..(sent - 1) : ~tags[k].iopEnd
  /\ ~iop => tadr = sent + 1

(* The slot the running burst was charged up to.                            *)
ChargeOK ==
  left # 0 => /\ iop /\ charged.last \in tadr..sent
              /\ \/ tags[charged.last].iopEnd
                 \/ (tags[charged.last].irq /\ charged.tie)

IInv == TypeOK /\ ExactlyOnce /\ ListOK /\ ChargeOK

-----------------------------------------------------------------------------
(* A walk that reaches an end has copied just the slots from TADR to it.    *)
LEMMA CopiedIsPrefix ==
  ASSUME TypeOK, NEW k \in Copied, Ends(k)
  PROVE  Copied = tadr..k
<1>1. k \in tadr..sent /\ k < tadr + MaxWalk /\ tadr \in Nat /\ sent \in Nat
  BY DEF Copied, TypeOK
<1>2. ASSUME NEW j \in tadr..k PROVE j \in Copied
  BY <1>1, <1>2, LinkAssumption DEF Copied
<1>3. ASSUME NEW j \in Copied PROVE j \in tadr..k
  BY <1>1, <1>3 DEF Copied
<1> QED BY <1>2, <1>3

(* Copying keeps the counts' type, counts each slot walked once, and leaves *)
(* the others alone.                                                        *)
LEMMA CopyCounts ==
  ASSUME TypeOK, Copy
  PROVE  /\ copies' \in [Slots -> 0..2]
         /\ \A k \in Slots : k \in Copied => /\ copies'[k] >= 1
                                             /\ copies[k] = 0 => copies'[k] = 1
         /\ \A k \in Slots : k \notin Copied => copies'[k] = copies[k]
         /\ \A k \in Slots : copies'[k] >= copies[k]
  BY DEF TypeOK, Copy

(* Starting a burst charges it up to a slot that ends it.                   *)
LEMMA StartCharges ==
  ASSUME TypeOK, Start, UNCHANGED <<link, ee, tie>>
  PROVE  /\ left' \in Nat /\ iop
         /\ charged' \in [last : Nat, tie : BOOLEAN]
         /\ ChargeOK'
<1>1. PICK k \in Predicted : /\ iop /\ left' \in Durations
                             /\ charged' = [last |-> k, tie |-> tie]
  BY DEF Start
<1>2. k \in tadr..sent /\ Ends(k) /\ k \in Nat
  BY DEF Predicted, TypeOK
<1>3. charged'.last = k /\ charged'.tie = tie /\ charged' \in [last : Nat, tie : BOOLEAN]
  BY <1>1, <1>2 DEF TypeOK
<1>4. tags[k].iopEnd \/ (tags[k].irq /\ tie)
  BY <1>2, Zenon DEF Ends, EeEnds
<1>5. ChargeOK'
  BY <1>1, <1>2, <1>3, <1>4 DEF ChargeOK, link
<1> QED BY <1>1, <1>3, <1>5, LinkAssumption

-----------------------------------------------------------------------------
(* Before anything is sent the invariant holds.                             *)
LEMMA InitHolds == Init => IInv
<1> SUFFICES ASSUME Init PROVE IInv
  OBVIOUS
<1>1. TypeOK
  <2>1. tags \in [Slots -> Tag]
    BY DEF Init, Tag
  <2>2. sent \in 0..Messages /\ tadr \in 1..(Messages + 1) /\ left \in Nat
    BY LinkAssumption DEF Init
  <2>3. copies \in [Slots -> 0..2] /\ charged \in [last : Nat, tie : BOOLEAN]
    BY DEF Init
  <2>4. /\ iop \in BOOLEAN /\ ee \in BOOLEAN /\ tie \in BOOLEAN
        /\ iopIrq \in BOOLEAN /\ eeIrq \in BOOLEAN /\ failed \in BOOLEAN
    BY Zenon DEF Init
  <2> QED BY <2>1, <2>2, <2>3, <2>4 DEF TypeOK
<1>2. ExactlyOnce /\ ListOK /\ ChargeOK
  BY DEF Init, ExactlyOnce, ListOK, ChargeOK, Slots
<1> QED BY <1>1, <1>2 DEF IInv

(* The start of a burst keeps the invariant.                                *)
LEMMA BeginKeeps == ASSUME IInv, Begin PROVE IInv'
<1>1. UNCHANGED <<tags, sent, tadr, iop, ee, tie, copies, failed, iopIrq, eeIrq>>
  BY DEF Begin, link, effects
<1>2. /\ left' \in Nat /\ iop
      /\ charged' \in [last : Nat, tie : BOOLEAN] /\ ChargeOK'
  BY StartCharges DEF Begin, IInv
<1>3. TypeOK'
  BY <1>1, <1>2 DEF IInv, TypeOK
<1>4. ExactlyOnce' /\ ListOK'
  BY <1>1 DEF IInv, ExactlyOnce, ListOK
<1> QED BY <1>2, <1>3, <1>4 DEF IInv

(* So does the passing of a cycle.                                          *)
LEMMA ElapseKeeps == ASSUME IInv, Elapse PROVE IInv'
<1>1. UNCHANGED <<tags, sent, tadr, iop, ee, tie, charged, copies, failed, iopIrq, eeIrq>>
  BY DEF Elapse, link, effects
<1>2. left \in Nat /\ left # 0 /\ left' \in Nat /\ left' # 0
  BY DEF Elapse, IInv, TypeOK
<1>3. TypeOK'
  BY <1>1, <1>2 DEF IInv, TypeOK
<1>4. ExactlyOnce' /\ ListOK'
  BY <1>1 DEF IInv, ExactlyOnce, ListOK
<1>5. ChargeOK'
  BY <1>1, <1>2 DEF IInv, ChargeOK
<1> QED BY <1>3, <1>4, <1>5 DEF IInv

(* What a successful walk does, by the slot it ends at: TADR moves behind   *)
(* it, and the IOP's list is done exactly if that slot was its last.        *)
LEMMA CompleteEnds ==
  ASSUME IInv, Complete
  PROVE  \E k \in tadr..sent : /\ k \in Copied /\ Ends(k) /\ Retire(k)
                               /\ tadr' = k + 1 /\ Copied = tadr..k
                               /\ iop /\ iop' = (k # sent)
                               /\ tags[k].iopEnd = (k = sent)
<1>1. PICK k \in Copied : Ends(k) /\ tadr' = k + 1 /\ Retire(k)
  BY DEF Complete, NextTadr
<1>2. k \in tadr..sent /\ Copied = tadr..k
  BY <1>1, CopiedIsPrefix DEF Copied, IInv
<1>3. left = 1 /\ iop
  BY DEF Complete, IInv, ChargeOK
<1>4. tags[k].iopEnd \in BOOLEAN
  <2>1. tags \in [Slots -> Tag] /\ tadr \in 1..(Messages + 1) /\ sent \in 0..Messages
    BY DEF IInv, TypeOK
  <2>2. k \in Slots
    BY <1>2, <2>1, LinkAssumption DEF Slots
  <2>3. tags[k] \in Tag
    BY <2>1, <2>2
  <2> QED BY <2>3 DEF Tag
<1>5. tags[k].iopEnd = (k = sent)
  <2>1. k = sent => tags[k].iopEnd
    BY <1>3 DEF IInv, ListOK
  <2>2. k # sent => k \in tadr..(sent - 1)
    BY <1>2 DEF IInv, TypeOK
  <2>3. k # sent => ~tags[k].iopEnd
    BY <1>3, <2>2 DEF IInv, ListOK
  <2> QED BY <1>4, <2>1, <2>3
<1>6. iop' = (k # sent)
  BY <1>1, <1>3, <1>5 DEF Retire
<1> QED BY <1>1, <1>2, <1>3, <1>5, <1>6

(* A successful walk keeps the invariant.                                   *)
LEMMA CompleteKeeps == ASSUME IInv, Complete PROVE IInv'
<1>1. PICK k \in tadr..sent : /\ k \in Copied /\ Ends(k) /\ Retire(k)
                              /\ tadr' = k + 1 /\ Copied = tadr..k
                              /\ iop /\ iop' = (k # sent)
                              /\ tags[k].iopEnd = (k = sent)
  BY CompleteEnds
<1>2. UNCHANGED <<tags, sent, tie, charged, failed>> /\ left' = 0
  BY DEF Complete
<1>3. /\ tadr \in 1..(Messages + 1) /\ sent \in 0..Messages /\ tags \in [Slots -> Tag]
      /\ iop \in BOOLEAN /\ ee \in BOOLEAN /\ eeIrq \in BOOLEAN /\ iopIrq \in BOOLEAN
  BY DEF IInv, TypeOK
<1>4. /\ copies' \in [Slots -> 0..2]
      /\ \A j \in Slots : j \in Copied => /\ copies'[j] >= 1
                                          /\ copies[j] = 0 => copies'[j] = 1
      /\ \A j \in Slots : j \notin Copied => copies'[j] = copies[j]
      /\ \A j \in Slots : copies'[j] >= copies[j]
  BY CopyCounts DEF Complete, IInv
<1>5. TypeOK'
  <2>1. tadr' \in 1..(Messages + 1)
    BY <1>1, <1>3, LinkAssumption
  <2>2. ee' \in BOOLEAN /\ eeIrq' \in BOOLEAN
    BY <1>1, <1>3, Zenon DEF Retire
  <2>3. iop' \in BOOLEAN /\ iopIrq' \in BOOLEAN
    BY <1>1, <1>3, Zenon DEF Retire
  <2>4. left' \in Nat
    BY <1>2
  <2> QED BY <1>2, <1>4, <2>1, <2>2, <2>3, <2>4 DEF IInv, TypeOK
<1>6. ExactlyOnce'
  <2>1. ASSUME NEW j \in Slots, j < k + 1, j <= sent PROVE copies'[j] >= 1
    <3>1. CASE j < tadr
      <4>1. copies[j] >= 1
        BY <2>1, <3>1 DEF IInv, ExactlyOnce
      <4>2. copies'[j] >= copies[j] /\ copies[j] \in 0..2 /\ copies'[j] \in 0..2
        BY <1>4, <2>1 DEF IInv, TypeOK
      <4> QED BY <4>1, <4>2
    <3>2. CASE j >= tadr
      <4>1. j \in tadr..k
        BY <1>1, <1>3, <2>1, <3>2 DEF Slots
      <4> QED BY <1>1, <1>4, <4>1
    <3> QED BY <1>3, <2>1, <3>1, <3>2 DEF Slots
  <2>2. ASSUME ~failed, NEW j \in Slots
        PROVE  copies'[j] = (IF j < k + 1 THEN 1 ELSE 0)
    <3>1. copies[j] = (IF j < tadr THEN 1 ELSE 0)
      BY <2>2 DEF IInv, ExactlyOnce
    <3>2. CASE j \in tadr..k
      BY <1>1, <1>3, <1>4, <3>1, <3>2
    <3>3. CASE j \notin tadr..k
      BY <1>1, <1>3, <1>4, <3>1, <3>3 DEF Slots
    <3> QED BY <3>2, <3>3
  <2> QED BY <1>1, <1>2, <2>1, <2>2 DEF ExactlyOnce
<1>7. ListOK'
  <2>1. ASSUME iop'
        PROVE  /\ tadr' <= sent /\ tags[sent].iopEnd
               /\ \A j \in tadr'..(sent - 1) : ~tags[j].iopEnd
    <3>1. k # sent
      BY <1>1, <2>1
    <3>2. tags[sent].iopEnd /\ \A j \in tadr..(sent - 1) : ~tags[j].iopEnd
      BY <1>1 DEF IInv, ListOK
    <3>3. tadr' <= sent /\ \A j \in tadr'..(sent - 1) : j \in tadr..(sent - 1)
      BY <1>1, <1>3, <3>1
    <3> QED BY <3>2, <3>3
  <2>2. ASSUME ~iop' PROVE tadr' = sent + 1
    <3>1. k = sent
      BY <1>1, <2>2
    <3> QED BY <1>1, <3>1
  <2> QED BY <1>2, <2>1, <2>2 DEF ListOK
<1>8. ChargeOK'
  BY <1>2 DEF ChargeOK
<1> QED BY <1>5, <1>6, <1>7, <1>8 DEF IInv

(* A failed walk keeps it, whether or not it starts over.                   *)
LEMMA FailKeeps == ASSUME IInv, Fail PROVE IInv'
<1>1. UNCHANGED <<tags, sent, tadr, iop, ee, tie, iopIrq, eeIrq>> /\ failed' = TRUE
  BY DEF Fail, link
<1>2. /\ copies' \in [Slots -> 0..2]
      /\ \A j \in Slots : copies'[j] >= copies[j]
  BY CopyCounts DEF Fail, IInv
<1>3. /\ left' \in Nat
      /\ charged' \in [last : Nat, tie : BOOLEAN] /\ ChargeOK'
  <2>1. CASE Start
    BY <1>1, <2>1, StartCharges DEF IInv, link
  <2>2. CASE left' = 0 /\ UNCHANGED charged
    BY <2>2 DEF IInv, TypeOK, ChargeOK
  <2> QED BY <2>1, <2>2 DEF Fail
<1>4. TypeOK'
  BY <1>1, <1>2, <1>3 DEF IInv, TypeOK
<1>5. ExactlyOnce'
  <2>1. ASSUME NEW j \in Slots, j < tadr, j <= sent PROVE copies'[j] >= 1
    <3>1. copies[j] >= 1
      BY <2>1 DEF IInv, ExactlyOnce
    <3>2. copies'[j] >= copies[j] /\ copies[j] \in 0..2 /\ copies'[j] \in 0..2
      BY <1>2, <2>1 DEF IInv, TypeOK
    <3> QED BY <3>1, <3>2
  <2> QED BY <1>1, <2>1 DEF ExactlyOnce
<1>6. ListOK'
  BY <1>1 DEF IInv, ListOK
<1> QED BY <1>3, <1>4, <1>5, <1>6 DEF IInv

-----------------------------------------------------------------------------
(* A new list keeps the invariant: the old one has been walked to its end.  *)
LEMMA SendKeeps == ASSUME IInv, Send PROVE IInv'
<1>1. /\ ~iop /\ iop' = TRUE /\ sent' \in (sent + 1)..Messages /\ tadr' = sent + 1
      /\ UNCHANGED <<ee, tie, left, charged, copies, failed, iopIrq, eeIrq>>
  BY DEF Send, burst, effects
<1>2. /\ sent \in 0..Messages /\ tadr = sent + 1 /\ left = 0 /\ tags \in [Slots -> Tag]
  BY <1>1 DEF IInv, TypeOK, ListOK, ChargeOK
<1>3. PICK t \in [Slots -> Tag] :
        /\ \A k \in (sent + 1)..sent' : t[k].iopEnd = (k = sent')
        /\ tags' = [k \in Slots |-> IF k \in (sent + 1)..sent' THEN t[k] ELSE tags[k]]
  BY DEF Send
<1>4. tags' \in [Slots -> Tag]
  BY <1>2, <1>3
<1>5. sent' \in 0..Messages /\ tadr' \in 1..(Messages + 1)
  BY <1>1, <1>2, LinkAssumption
<1>6. TypeOK'
  BY <1>1, <1>4, <1>5 DEF IInv, TypeOK
<1>7. ExactlyOnce'
  <2>1. ASSUME NEW j \in Slots, j < sent + 1 PROVE copies[j] >= 1
    BY <1>2, <2>1 DEF IInv, ExactlyOnce, Slots
  <2>2. ASSUME ~failed, NEW j \in Slots
        PROVE  copies[j] = (IF j < sent + 1 THEN 1 ELSE 0)
    BY <1>2, <2>2 DEF IInv, ExactlyOnce
  <2> QED BY <1>1, <2>1, <2>2 DEF ExactlyOnce
<1>8. ListOK'
  <2>1. ASSUME NEW j \in (sent + 1)..sent' PROVE tags'[j].iopEnd = (j = sent')
    <3>1. j \in Slots
      BY <1>1, <1>2, LinkAssumption DEF Slots
    <3> QED BY <1>3, <2>1, <3>1
  <2>2. tags'[sent'].iopEnd /\ \A j \in tadr'..(sent' - 1) : ~tags'[j].iopEnd
    <3>1. sent' \in (sent + 1)..sent'
      BY <1>1, <1>2
    <3>2. \A j \in tadr'..(sent' - 1) : j \in (sent + 1)..sent' /\ j # sent'
      <4>1. sent' \in Nat /\ sent \in Nat /\ tadr' = sent + 1
        BY <1>1, <1>2, LinkAssumption
      <4>2. \A m, n \in Nat : \A j \in (m + 1)..(n - 1) : j \in (m + 1)..n /\ j # n
        OBVIOUS
      <4> QED BY <4>1, <4>2, Zenon
    <3> QED BY <2>1, <3>1, <3>2
  <2>3. tadr' <= sent'
    BY <1>1, <1>2
  <2> QED BY <1>1, <2>2, <2>3 DEF ListOK
<1>9. ChargeOK'
  BY <1>1, <1>2 DEF ChargeOK
<1> QED BY <1>6, <1>7, <1>8, <1>9 DEF IInv

(* The EE's channel register, its TLB and the interrupt flags carry nothing *)
(* of the list.                                                             *)
LEMMA EeChcrKeeps == ASSUME IInv, EeChcr PROVE IInv'
<1>1. UNCHANGED <<tags, sent, tadr, iop, left, charged, copies, failed, iopIrq, eeIrq>>
  BY DEF EeChcr, link, burst, effects
<1>2. ee' \in BOOLEAN /\ tie' \in BOOLEAN
  BY DEF EeChcr
<1>3. TypeOK'
  BY <1>1, <1>2 DEF IInv, TypeOK
<1> QED BY <1>1, <1>3 DEF IInv, ExactlyOnce, ListOK, ChargeOK

(* So does a change of the EE's mappings.                                   *)
LEMMA EeRemapKeeps == ASSUME IInv, EeRemap PROVE IInv'
<1>1. UNCHANGED <<sent, tadr, iop, ee, tie, left, charged, copies, failed, iopIrq, eeIrq>>
  BY DEF EeRemap, burst, effects
<1>2. /\ tags \in [Slots -> Tag] /\ tadr \in 1..(Messages + 1) /\ sent \in 0..Messages
  BY DEF IInv, TypeOK
<1>3. PICK k \in tadr..sent : tags' = [tags EXCEPT ![k].reach = ~tags[k].reach]
  BY Zenon DEF EeRemap
<1>4. k \in Slots
  BY <1>2, LinkAssumption DEF Slots
<1> DEFINE r == [tags[k] EXCEPT !.reach = ~tags[k].reach]
<1>5. r \in Tag /\ r.iopEnd = tags[k].iopEnd /\ r.irq = tags[k].irq
  <2>1. tags[k] \in Tag
    BY <1>2, <1>4
  <2> QED BY <2>1, Zenon DEF Tag
<1>6. tags' = [tags EXCEPT ![k] = r]
  BY <1>3, Zenon
<1> HIDE DEF r
<1>7. /\ tags' \in [Slots -> Tag]
      /\ \A j \in Slots : tags'[j].iopEnd = tags[j].iopEnd /\ tags'[j].irq = tags[j].irq
  BY <1>2, <1>4, <1>5, <1>6
<1>8. TypeOK'
  BY <1>1, <1>7 DEF IInv, TypeOK
<1>9. ExactlyOnce'
  BY <1>1 DEF IInv, ExactlyOnce
<1>10. tadr..sent \subseteq Slots
  BY <1>2, LinkAssumption DEF Slots
<1>11. ListOK'
  <2>1. ASSUME iop
        PROVE  tags'[sent].iopEnd /\ \A j \in tadr..(sent - 1) : ~tags'[j].iopEnd
    <3>1. /\ tadr <= sent /\ tags[sent].iopEnd
          /\ \A j \in tadr..(sent - 1) : ~tags[j].iopEnd
      BY <2>1 DEF IInv, ListOK
    <3>2. sent \in Slots /\ \A j \in tadr..(sent - 1) : j \in Slots
      BY <1>2, <3>1, LinkAssumption DEF Slots
    <3> QED BY <1>7, <3>1, <3>2
  <2> QED BY <1>1, <2>1 DEF IInv, ListOK
<1>12. ChargeOK'
  BY <1>1, <1>7, <1>10 DEF IInv, ChargeOK
<1> QED BY <1>8, <1>9, <1>11, <1>12 DEF IInv

(* So does the acknowledgement of an interrupt.                             *)
LEMMA AcknowledgeKeeps == ASSUME IInv, Acknowledge PROVE IInv'
<1>1. UNCHANGED <<tags, sent, tadr, iop, ee, tie, left, charged, copies, failed>>
  BY DEF Acknowledge, link, burst
<1>2. eeIrq' \in BOOLEAN /\ iopIrq' \in BOOLEAN
  BY Zenon DEF Acknowledge, IInv, TypeOK
<1>3. TypeOK'
  BY <1>1, <1>2 DEF IInv, TypeOK
<1> QED BY <1>1, <1>3 DEF IInv, ExactlyOnce, ListOK, ChargeOK

(* Every step keeps the invariant.                                          *)
LEMMA Inductive == IInv /\ [Next]_vars => IInv'
<1> SUFFICES ASSUME IInv, [Next]_vars PROVE IInv'
  OBVIOUS
<1>1. CASE Tick
  BY <1>1, BeginKeeps, ElapseKeeps, CompleteKeeps, FailKeeps DEF Tick
<1>2. CASE Send
  BY <1>2, SendKeeps
<1>3. CASE EeChcr
  BY <1>3, EeChcrKeeps
<1>4. CASE EeRemap
  BY <1>4, EeRemapKeeps
<1>5. CASE Acknowledge
  BY <1>5, AcknowledgeKeeps
<1>6. CASE UNCHANGED vars
  BY <1>6 DEF vars, link, burst, effects,
              IInv, TypeOK, ExactlyOnce, ListOK, ChargeOK
<1> QED BY <1>1, <1>2, <1>3, <1>4, <1>5, <1>6 DEF Next

(* The invariant holds throughout every behaviour of SIF0.                  *)
THEOREM Invariance == Spec => []IInv
<1>1. Init => IInv
  BY InitHolds
<1>2. IInv /\ [Next]_vars => IInv'
  BY Inductive
<1> QED BY <1>1, <1>2, PTL DEF Spec

-----------------------------------------------------------------------------
(* Every variable of the channel keeps its type.                            *)
THEOREM TypeCorrect == Spec => []TypeOK
  BY Invariance, PTL DEF IInv

(* Every message behind TADR has arrived, and unless a walk failed midway   *)
(* exactly once, with nothing written ahead of TADR.                        *)
THEOREM DeliveredOnce == Spec => []ExactlyOnce
  BY Invariance, PTL DEF IInv

(* Only the side whose end a walk reached retires and interrupts, and no    *)
(* end is walked past.                                                      *)
THEOREM SidesEndIndependently == Spec => EndsIndependently
<1> DEFINE A == tadr' > tadr /\ sent' = sent =>
                  LET last == tadr' - 1
                  IN /\ iop' = ~tags[last].iopEnd /\ (tags[last].iopEnd => iopIrq')
                     /\ ee' = (ee /\ ~EeEnds(last)) /\ eeIrq' = (eeIrq \/ EeEnds(last))
                     /\ \A k \in tadr..(last - 1) : ~Ends(k)
<1>1. IInv /\ [Next]_vars => [A]_vars
  <2> SUFFICES ASSUME IInv, Next, tadr' > tadr, sent' = sent PROVE A
    BY Zenon
  <2>1. Complete
    <3>1. sent \in Nat /\ tadr \in Nat
      BY DEF IInv, TypeOK
    <3>2. ~Send
      BY <3>1 DEF Send, IInv, ListOK
    <3>3. Complete \/ tadr' = tadr
      BY <3>2 DEF Next, Tick, Begin, Elapse, Fail, EeChcr, EeRemap, Acknowledge, link
    <3> QED BY <3>1, <3>3
  <2>2. PICK k \in tadr..sent : /\ k \in Copied /\ Ends(k) /\ Retire(k)
                                /\ tadr' = k + 1 /\ Copied = tadr..k
                                /\ iop /\ iop' = (k # sent)
                                /\ tags[k].iopEnd = (k = sent)
    BY <2>1, CompleteEnds
  <2>3. k = tadr' - 1
    BY <2>2 DEF IInv, TypeOK
  <2>4. \A j \in tadr..(k - 1) : ~Ends(j)
    <3>1. \A j \in tadr..(k - 1) : j \in tadr..k /\ j # k
      BY <2>2 DEF IInv, TypeOK
    <3> QED BY <2>2, <3>1 DEF Copied
  <2>5. /\ iop' = ~tags[k].iopEnd /\ (tags[k].iopEnd => iopIrq')
        /\ ee' = (ee /\ ~EeEnds(k)) /\ eeIrq' = (eeIrq \/ EeEnds(k))
    BY <2>2, Zenon DEF Retire
  <2> QED BY <2>3, <2>4, <2>5
<1> QED BY <1>1, Invariance, PTL DEF Spec, EndsIndependently

(* Nothing beyond the tag a burst was charged up to is written at its       *)
(* deadline, if TIE has not changed in between.                             *)
THEOREM NothingEarly == Spec => NeverEarly
<1> DEFINE A == \A k \in Slots : copies'[k] # copies[k] /\ tie = charged.tie
                                 => k <= charged.last
<1>1. IInv /\ [Next]_vars => [A]_vars
  <2> SUFFICES ASSUME IInv, Next, NEW k \in Slots, copies'[k] # copies[k],
                      tie = charged.tie
               PROVE  k <= charged.last
    BY Zenon
  <2>1. Complete \/ Fail
    BY DEF Next, Tick, Begin, Elapse, Send, EeChcr, EeRemap, Acknowledge, effects
  <2>2. Copy /\ left = 1
    BY <2>1 DEF Complete, Fail
  <2>3. k \in Copied
    BY <2>2, CopyCounts DEF IInv
  <2>4. charged.last \in tadr..sent /\ Ends(charged.last)
    BY <2>2 DEF IInv, ChargeOK, Ends, EeEnds
  <2>5. \A j \in tadr..k : j # k => ~Ends(j)
    BY <2>3 DEF Copied
  <2>6. k \in tadr..sent /\ tadr \in Nat /\ sent \in Nat
    BY <2>3 DEF Copied, IInv, TypeOK
  <2> QED BY <2>4, <2>5, <2>6
<1> QED BY <1>1, Invariance, PTL DEF Spec, NeverEarly

(* The channel implements a FIFO of messages.                               *)
THEOREM ImplementsLink == Spec => KeepsLink
<1>1. Init => Link!Init
  BY DEF Init, Link!Init
<1>2. IInv /\ [Next]_vars => [Link!Next]_<<sent, tadr - 1, iop>>
  <2> SUFFICES ASSUME IInv, [Next]_vars PROVE [Link!Next]_<<sent, tadr - 1, iop>>
    OBVIOUS
  <2>1. CASE Send
    <3>1. tadr' = tadr
      BY <2>1 DEF Send, IInv, ListOK
    <3> QED BY <2>1, <3>1 DEF Send, Link!Next, Link!Send
  <2>2. CASE Complete
    <3>1. PICK k \in tadr..sent : /\ k \in Copied /\ Ends(k) /\ Retire(k)
                                  /\ tadr' = k + 1 /\ Copied = tadr..k
                                  /\ iop /\ iop' = (k # sent)
                                  /\ tags[k].iopEnd = (k = sent)
      BY <2>2, CompleteEnds
    <3>2. tadr' - 1 = k /\ k \in ((tadr - 1) + 1)..sent
      BY <3>1 DEF IInv, TypeOK
    <3>3. sent' = sent
      BY <2>2 DEF Complete
    <3> QED BY <3>1, <3>2, <3>3 DEF Link!Next, Link!Arrive
  <2>3. CASE UNCHANGED <<sent, tadr, iop>>
    BY <2>3
  <2>4. Begin \/ Elapse \/ Fail \/ EeChcr \/ EeRemap \/ Acknowledge \/ UNCHANGED vars
          => UNCHANGED <<sent, tadr, iop>>
    BY DEF Begin, Elapse, Fail, EeChcr, EeRemap, Acknowledge, link, vars
  <2> QED BY <2>1, <2>2, <2>3, <2>4 DEF Next, Tick
<1> QED BY <1>1, <1>2, Invariance, PTL DEF Spec, KeepsLink, Link!Spec
===============================================================================
