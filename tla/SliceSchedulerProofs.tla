------------------------- MODULE SliceSchedulerProofs -------------------------
(***************************************************************************)
(* For every divider, quadword cost, slice size, set of channels and guest: *)
(* run_slice's counters do not wrap, it never hands the CPU an empty        *)
(* budget, and no guest instruction begins while a completed packet waits.  *)
(*                                                                         *)
(* The argument: Plan chooses a budget no longer than the distance to the   *)
(* next deadline (WithinHorizon), and advance() shortens both together.  So *)
(* a countdown can only reach zero in the cycle that exhausts the budget,   *)
(* and EndBatch services the queues before it plans again.                  *)
(***************************************************************************)
EXTENDS SliceScheduler, TLAPS

IInv == TypeOK /\ NoUnderflow /\ NoSpuriousHalt /\ ServicedBeforeGuest /\ WithinHorizon

-----------------------------------------------------------------------------
(* advance() on one channel.                                                *)

(* A countdown stays a natural number.                                      *)
LEMMA ElapseType ==
  ASSUME NEW left \in Nat, NEW n \in Nat PROVE Elapse(left, n) \in Nat
  BY DEF Elapse

(* advance() keeps the type of the GIF channel.                             *)
LEMMA GifNextType ==
  ASSUME NEW g \in GifChannel, NEW n \in Nat
  PROVE  GifRetired(g, n) \in GifChannel /\ GifNext(g, n) \in GifChannel
<1>1. GifRetired(g, n) \in GifChannel
  <2>1. CASE Due(g.left, n)
    <3>1. g.latch.src + g.latch.qwc \in Nat
      BY DEF GifChannel, Latch
    <3>2. GifRetired(g, n) = [str |-> FALSE, mode |-> g.mode, qwc |-> 0,
                              madr |-> g.latch.src + g.latch.qwc, left |-> 0,
                              latch |-> NoLatch]
      BY <2>1 DEF GifRetired, GifOff
    <3>3. NoLatch \in Latch
      BY DEF NoLatch, Latch
    <3>4. g.mode \in {"normal", "other"}
      BY DEF GifChannel
    <3> QED BY <3>1, <3>2, <3>3, <3>4 DEF GifChannel
  <2>2. CASE ~Due(g.left, n)
    BY <2>2, ElapseType DEF GifRetired, GifChannel
  <2> QED BY <2>1, <2>2
<1>2. ASSUME NEW h \in GifChannel PROVE GifStarted(h) \in GifChannel
  <2>1. h.qwc * QwCycles \in Nat
    BY ClockAssumption DEF GifChannel
  <2> QED BY <2>1 DEF GifStarted, GifChannel, Latch
<1> QED BY <1>1, <1>2 DEF GifNext

(* advance() keeps the type of the VIF1 channel: a chain that delivers at   *)
(* completion is one whose end is known.                                    *)
LEMMA VifNextType ==
  ASSUME NEW v \in VifChannel, NEW ch \in Chains \cup {Broken}, NEW n \in Nat,
         NEW now \in Chains \cup {Broken}
  PROVE  VifRetired(v, ch, n) \in VifChannel /\ VifNext(v, ch, now, n) \in VifChannel
<1>0. NoLatch \in Latch
  BY DEF NoLatch, Latch
<1>1. VifRetired(v, ch, n) \in VifChannel
  <2>1. CASE ~Due(v.left, n)
    BY <2>1, ElapseType DEF VifRetired, VifChannel
  <2>2. CASE Due(v.left, n) /\ VifDelivers(v, ch)
    <3> DEFINE to == IF v.normal THEN v.latch.src + v.latch.qwc ELSE ch.end
    <3>1. to \in Nat
      BY <2>2, ClockAssumption DEF VifDelivers, VifChannel, Latch
    <3>2. VifRetired(v, ch, n) = [str |-> FALSE, mode |-> v.mode, qwc |-> 0, madr |-> to,
                                  left |-> 0, latch |-> NoLatch, normal |-> FALSE]
      BY <2>2 DEF VifRetired, VifOff
    <3>3. v.mode \in {"normal", "chain", "other"}
      BY DEF VifChannel
    <3> HIDE DEF to
    <3> QED BY <1>0, <3>1, <3>2, <3>3 DEF VifChannel
  <2>3. CASE Due(v.left, n) /\ ~VifDelivers(v, ch)
    BY <1>0, <2>3 DEF VifRetired, VifChannel
  <2> QED BY <2>1, <2>2, <2>3
<1>2. ASSUME NEW h \in VifChannel PROVE VifStarted(h, now) \in VifChannel
  <2>1. /\ h.qwc * QwCycles \in Nat
        /\ now # Broken => (IF now.qwc = 0 THEN 1 ELSE now.qwc) * QwCycles \in Nat
    BY ClockAssumption DEF VifChannel
  <2> QED BY <2>1 DEF VifStarted, VifChannel, Latch
<1> QED BY <1>1, <1>2 DEF VifNext

(* advance() keeps the type of a SIF channel.                               *)
LEMMA SifNextType ==
  ASSUME NEW s \in SifChannel, NEW n \in Nat, NEW w \in BOOLEAN
  PROVE  SifRetired(s, w, n) \subseteq SifChannel /\ SifNext(s, w, n) \subseteq SifChannel
<1>1. SifRetired(s, w, n) \subseteq SifChannel
  <2>1. s.ee \in BOOLEAN /\ s.iop \in BOOLEAN /\ s.walk \in BOOLEAN /\ s.left \in Nat
    BY DEF SifChannel
  <2>2. ASSUME NEW r \in SifRetired(s, w, n) PROVE r \in SifChannel
    <3>1. r \in [ee : IF Due(s.left, n) THEN {s.ee, FALSE} ELSE {s.ee},
                 iop : IF Due(s.left, n) THEN {s.iop, FALSE} ELSE {s.iop},
                 walk : IF w THEN BOOLEAN ELSE {s.walk}, left : {Elapse(s.left, n)}]
      BY <2>2, Zenon DEF SifRetired
    <3>2. /\ r = [ee |-> r.ee, iop |-> r.iop, walk |-> r.walk, left |-> r.left]
          /\ r.ee \in (IF Due(s.left, n) THEN {s.ee, FALSE} ELSE {s.ee})
          /\ r.iop \in (IF Due(s.left, n) THEN {s.iop, FALSE} ELSE {s.iop})
          /\ r.walk \in (IF w THEN BOOLEAN ELSE {s.walk}) /\ r.left \in {Elapse(s.left, n)}
      BY <3>1
    <3>3. r.ee \in BOOLEAN
      BY ONLY <2>1, <3>2
    <3>4. r.iop \in BOOLEAN
      BY ONLY <2>1, <3>2
    <3>5. r.walk \in BOOLEAN
      BY ONLY <2>1, <3>2
    <3>6. r.left \in Nat
      BY <2>1, <3>2, ElapseType
    <3> QED BY <3>2, <3>3, <3>4, <3>5, <3>6, Zenon DEF SifChannel
  <2> QED BY <2>2
<1>2. ASSUME NEW r \in SifChannel PROVE SifStarted(r) \subseteq SifChannel
  <2>1. \A q \in SifQwcs : q * QwCycles \in Nat
    BY ClockAssumption
  <2> QED BY <2>1 DEF SifStarted, SifChannel
<1> QED BY <1>1, <1>2 DEF SifNext

(* What completes is a well-formed packet.                                  *)
LEMMA PacketsType ==
  ASSUME NEW g \in GifChannel, NEW v \in VifChannel, NEW ch \in Chains \cup {Broken},
         NEW n \in Nat
  PROVE  GifPackets(g, n) \in Seq(Packet) /\ VifPackets(v, ch, n) \in Seq(Packet)
<1>1. GifPackets(g, n) \in Seq(Packet)
  <2>1. [path |-> "gif", data |-> g.latch] \in Packet
    BY DEF Packet, GifChannel
  <2> QED BY <2>1 DEF GifPackets
<1>2. CASE Due(v.left, n) /\ VifDelivers(v, ch)
  <2>1. (IF v.normal THEN v.latch ELSE ch) \in Latch \cup Chains
    BY <1>2 DEF VifDelivers, VifChannel
  <2>2. [path |-> "vif1", data |-> IF v.normal THEN v.latch ELSE ch] \in Packet
    BY <2>1 DEF Packet
  <2> QED BY <1>1, <1>2, <2>2 DEF VifPackets
<1>3. CASE ~(Due(v.left, n) /\ VifDelivers(v, ch))
  BY <1>1, <1>3 DEF VifPackets
<1> QED BY <1>2, <1>3

-----------------------------------------------------------------------------
(* advance() within the horizon.                                            *)

(* A transfer takes at least one IOP cycle, so one that starts during a     *)
(* batch ends after it.                                                     *)
LEMMA TransferOutlastsBatch ==
  ASSUME NEW q \in Nat \ {0}
  PROVE  q * QwCycles \in Nat /\ q * QwCycles >= IopDivider
<1> DEFINE m == q - 1
<1>1. m \in Nat /\ q = m + 1
  OBVIOUS
<1>2. q * QwCycles = m * QwCycles + QwCycles /\ m * QwCycles \in Nat
  BY <1>1, ClockAssumption
<1> QED BY <1>2, ClockAssumption

(* When the whole budget b fits before the end of a GIF transfer, so does   *)
(* what is left of it after n cycles, and a packet completes only in the    *)
(* budget's last cycle.                                                     *)
LEMMA GifHorizon ==
  ASSUME NEW g \in GifChannel, NEW n \in Nat, NEW b \in Nat,
         n <= b, b <= IopDivider, g.left = 0 \/ b <= g.left
  PROVE  /\ GifNext(g, n).left = 0 \/ b - n <= GifNext(g, n).left
         /\ b # n => GifPackets(g, n) = <<>>
<1> DEFINE h == GifRetired(g, n)
<1>1. h.left \in Nat /\ (h.left = 0 \/ b - n <= h.left)
  BY DEF GifRetired, GifOff, Due, Elapse, GifChannel
<1>2. h.qwc \in Nat
  BY DEF GifRetired, GifOff, GifChannel
<1> HIDE DEF h
<1>3. GifStarted(h).left = h.left \/ b - n <= GifStarted(h).left
  <2>1. CASE GifArmed(h) /\ Fits(h.madr, h.qwc)
    <3>1. GifStarted(h).left = h.qwc * QwCycles
      BY <2>1 DEF GifStarted
    <3> QED BY <1>2, <2>1, <3>1, TransferOutlastsBatch, ClockAssumption DEF GifArmed
  <2> QED BY <2>1 DEF GifStarted
<1>4. b # n => GifPackets(g, n) = <<>>
  BY DEF GifPackets, Due, GifChannel
<1> QED BY <1>1, <1>3, <1>4 DEF GifNext, h

(* The same for VIF1, in either mode.                                       *)
LEMMA VifHorizon ==
  ASSUME NEW v \in VifChannel, NEW ch \in Chains \cup {Broken},
         NEW now \in Chains \cup {Broken}, NEW n \in Nat, NEW b \in Nat,
         n <= b, b <= IopDivider, v.left = 0 \/ b <= v.left
  PROVE  /\ VifNext(v, ch, now, n).left = 0 \/ b - n <= VifNext(v, ch, now, n).left
         /\ b # n => VifPackets(v, ch, n) = <<>>
<1> DEFINE h == VifRetired(v, ch, n)
<1>1. h.left \in Nat /\ (h.left = 0 \/ b - n <= h.left)
  BY DEF VifRetired, VifOff, Due, Elapse, VifChannel
<1>2. h.qwc \in Nat
  BY DEF VifRetired, VifOff, VifChannel
<1> HIDE DEF h
<1>3. VifStarted(h, now).left = h.left \/ b - n <= VifStarted(h, now).left
  <2>1. CASE VifArmed(h) /\ h.mode = "chain" /\ now # Broken
    <3> DEFINE q == IF now.qwc = 0 THEN 1 ELSE now.qwc
    <3>1. VifStarted(h, now).left = q * QwCycles
      BY <2>1 DEF VifStarted
    <3>2. q \in Nat \ {0}
      BY <2>1, ClockAssumption
    <3> HIDE DEF q
    <3> QED BY <3>1, <3>2, TransferOutlastsBatch, ClockAssumption
  <2>2. CASE VifArmed(h) /\ h.mode = "normal" /\ Fits(h.madr, h.qwc)
    <3>1. VifStarted(h, now).left = h.qwc * QwCycles
      BY <2>2 DEF VifStarted
    <3> QED BY <1>2, <2>2, <3>1, TransferOutlastsBatch, ClockAssumption DEF VifArmed
  <2> QED BY <2>1, <2>2 DEF VifStarted
<1>4. b # n => VifPackets(v, ch, n) = <<>>
  BY DEF VifPackets, Due, VifChannel
<1> QED BY <1>1, <1>3, <1>4 DEF VifNext, h

-----------------------------------------------------------------------------
(* The steps.                                                               *)

(* Everything of TypeOK but run_slice's own counters.                       *)
DevicesOK ==
  /\ iopPhase \in 0..(IopDivider - 1)
  /\ edge \in [Edges -> Nat] /\ spu \in [Cores -> Nat]
  /\ sif \in [Sifs -> SifChannel] /\ gif \in GifChannel /\ vif \in VifChannel
  /\ chain \in Chains \cup {Broken}
EdgesAhead == \A e \in Edges : edge[e] > 0

(* What Service leaves.                                                     *)
Serviced == gifq = <<>> /\ vifq = <<>> /\ sink \in Seq(Packet)

(* A guest instruction, or a chunk of n of them, inside the budget keeps    *)
(* the invariant, whatever the guest stored.                                *)
LEMMA ExecuteKeepsIInv ==
  ASSUME IInv, NEW n \in Nat \ {0},
         NEW g \in GifChannel, g.left = gif.left,
         NEW v \in VifChannel, v.left = vif.left,
         NEW s \in [Sifs -> SifChannel], NEW ch \in Chains \cup {Broken},
         Execute(n, g, v, s, ch), running' \in {"batch", "stopped"}
  PROVE  IInv'
<1>1. /\ n <= batch /\ batch \in Nat /\ executed \in Nat /\ running = "batch"
      /\ iopPhase \in 0..(IopDivider - 1) /\ iopPhase + batch <= IopDivider
      /\ IopDivider \in Nat \ {0} /\ batch <= IopDivider /\ batch # 0
  BY ClockAssumption DEF IInv, TypeOK, WithinHorizon, Execute
<1>2. /\ batch' = batch - n /\ executed' = executed + n /\ batch' \in Nat /\ executed' \in Nat
      /\ UNCHANGED <<ready, bios, remaining, eeToIop>>
  BY <1>1 DEF Execute
<1>3. /\ iopPhase' \in 0..(IopDivider - 1)
      /\ iopPhase' + batch' <= IopDivider
  <2>1. iopPhase' = (iopPhase + n) % IopDivider
    BY DEF Execute, Advance
  <2>2. CASE iopPhase + n = IopDivider
    BY <1>1, <1>2, <2>1, <2>2
  <2>3. CASE iopPhase + n # IopDivider
    <3>1. iopPhase + n \in 0..(IopDivider - 1)
      BY <1>1, <2>3
    <3>2. (iopPhase + n) % IopDivider = iopPhase + n
      BY <3>1, <1>1
    <3> QED BY <1>1, <1>2, <2>1, <3>1, <3>2
  <2> QED BY <2>2, <2>3
<1>4. edge' \in [Edges -> Nat] /\ \A e \in Edges : edge'[e] > 0
  <2>1. PICK p \in [Edges -> EdgePeriods] :
          edge' = [e \in Edges |-> IF n < edge[e] THEN edge[e] - n ELSE edge[e] + p[e] - n]
    BY DEF Execute, Advance
  <2>2. ASSUME NEW e \in Edges
        PROVE  edge'[e] \in Nat /\ edge'[e] > 0
    <3>1. p[e] \in Nat /\ p[e] >= IopDivider
      BY ClockAssumption
    <3>2. edge[e] \in Nat /\ edge[e] > 0
      BY DEF IInv, TypeOK, WithinHorizon
    <3> QED BY <1>1, <2>1, <3>1, <3>2
  <2> QED BY <2>1, <2>2
<1>5. spu' \in [Cores -> Nat]
  <2>1. \A c \in Cores : Elapse(spu[c], n) \in Nat
    BY ElapseType DEF IInv, TypeOK
  <2> QED BY <2>1 DEF Execute, Advance
<1>6. sif' \in [Sifs -> SifChannel]
  <2>0. PICK w \in BOOLEAN : w = Written(s, n, Sifs)
    BY DEF Written
  <2>1. \A i \in Sifs : SifNext(s[i], w, n) \subseteq SifChannel
    BY SifNextType
  <2>2. /\ sif' \in [Sifs -> UNION {SifNext(s[i], w, n) : i \in Sifs}]
        /\ \A i \in Sifs : sif'[i] \in SifNext(s[i], w, n)
    BY <2>0 DEF Execute, Advance
  <2> QED BY <2>1, <2>2
<1>7. /\ gif' \in GifChannel /\ vif' \in VifChannel /\ chain' \in Chains \cup {Broken}
      /\ vif' = VifNext(v, ch, chain', n)
  <2>1. chain' \in Chains \cup {Broken} /\ gif' = GifNext(g, n) /\ vif' = VifNext(v, ch, chain', n)
    BY DEF Execute, Advance
  <2> QED BY <2>1, GifNextType, VifNextType
<1>8. /\ gif'.left = 0 \/ batch' <= gif'.left
      /\ batch' # 0 => GifPackets(g, n) = <<>>
  <2>1. g.left = 0 \/ batch <= g.left
    BY <1>1 DEF IInv, WithinHorizon
  <2>2. gif' = GifNext(g, n)
    BY DEF Execute, Advance
  <2>3. /\ GifNext(g, n).left = 0 \/ batch - n <= GifNext(g, n).left
        /\ batch # n => GifPackets(g, n) = <<>>
    <3>1. n \in Nat
      OBVIOUS
    <3> QED BY <1>1, <2>1, <3>1, GifHorizon
  <2>4. batch' # 0 => batch # n
    BY <1>1, <1>2
  <2> QED BY <1>2, <2>2, <2>3, <2>4
<1>9. /\ vif'.left = 0 \/ batch' <= vif'.left
      /\ batch' # 0 => VifPackets(v, ch, n) = <<>>
  <2>1. v.left = 0 \/ batch <= v.left
    BY <1>1 DEF IInv, WithinHorizon
  <2>2. PICK now \in Chains \cup {Broken} : now = chain'
    BY <1>7
  <2>3. /\ VifNext(v, ch, now, n).left = 0 \/ batch - n <= VifNext(v, ch, now, n).left
        /\ batch # n => VifPackets(v, ch, n) = <<>>
    <3>1. n \in Nat /\ n <= batch /\ batch \in Nat /\ batch <= IopDivider
      BY <1>1
    <3> QED BY ONLY <2>1, <3>1, VifHorizon, v \in VifChannel, ch \in Chains \cup {Broken},
                    now \in Chains \cup {Broken}
  <2>4. batch' # 0 => batch # n
    BY <1>1, <1>2
  <2> QED BY <1>2, <1>7, <2>2, <2>3, <2>4
<1>10. /\ gifq' \in Seq(Packet) /\ vifq' \in Seq(Packet) /\ sink' \in Seq(Packet)
       /\ batch' # 0 => gifq' = <<>> /\ vifq' = <<>>
  <2>1. gifq' = gifq \o GifPackets(g, n) /\ vifq' = vifq \o VifPackets(v, ch, n) /\ sink' = <<>>
    BY DEF Execute, Advance
  <2>2. GifPackets(g, n) \in Seq(Packet) /\ VifPackets(v, ch, n) \in Seq(Packet)
    BY PacketsType
  <2>3. gifq \in Seq(Packet) /\ vifq \in Seq(Packet)
    BY DEF IInv, TypeOK
  <2>4. gifq = <<>> /\ vifq = <<>>
    BY <1>1 DEF IInv, ServicedBeforeGuest
  <2> QED BY <1>8, <1>9, <2>1, <2>2, <2>3, <2>4
<1>11. TypeOK'
  BY <1>2, <1>3, <1>4, <1>5, <1>6, <1>7, <1>10 DEF TypeOK, IInv
<1>12. NoUnderflow'
  <2>1. executed' + batch' = executed + batch
    BY <1>1, <1>2
  <2> QED BY <1>1, <1>2, <2>1 DEF IInv, NoUnderflow
<1>13. NoSpuriousHalt' /\ ServicedBeforeGuest'
  BY <1>1, <1>2, <1>10 DEF NoSpuriousHalt, ServicedBeforeGuest
<1>14. WithinHorizon'
  BY <1>2, <1>3, <1>4, <1>8, <1>9 DEF WithinHorizon, IInv
<1> QED BY <1>11, <1>12, <1>13, <1>14 DEF IInv

(* What Plan leaves, once run_slice has settled the counters of a batch.     *)
Planned ==
  /\ DevicesOK /\ EdgesAhead /\ Serviced
  /\ remaining \in Nat /\ executed = 0 /\ eeToIop \in Nat /\ eeToIop > 0
  /\ ready \in BOOLEAN /\ bios \in BOOLEAN
  /\ IF remaining = 0 THEN running = "idle" /\ batch = 0
     ELSE running = "batch" /\ IsLeast(batch, Budgets)

(* The budget Plan chooses is positive and ends at or before every deadline. *)
LEMMA PlannedIsIInv == Planned => IInv
<1> SUFFICES ASSUME Planned PROVE IInv
  OBVIOUS
<1>p. /\ DevicesOK /\ EdgesAhead /\ Serviced
      /\ remaining \in Nat /\ executed = 0 /\ eeToIop \in Nat /\ eeToIop > 0
      /\ ready \in BOOLEAN /\ bios \in BOOLEAN
      /\ IF remaining = 0 THEN running = "idle" /\ batch = 0
         ELSE running = "batch" /\ IsLeast(batch, Budgets)
  BY DEF Planned
<1>0. IopDivider \in Nat \ {0} /\ iopPhase \in 0..(IopDivider - 1)
  BY <1>p, ClockAssumption DEF DevicesOK
<1>1. gif.left \in Nat /\ vif.left \in Nat
      /\ \A c \in Cores : spu[c] \in Nat
      /\ \A i \in Sifs : sif[i].left \in Nat
  BY <1>p DEF DevicesOK, GifChannel, VifChannel, SifChannel
<1>2. CASE remaining = 0
  <2>1. running = "idle" /\ batch = 0
    BY <1>p, <1>2
  <2>2. TypeOK
    BY <1>p, <2>1 DEF TypeOK, DevicesOK, Serviced
  <2> QED BY <1>p, <2>1, <2>2 DEF IInv, NoUnderflow, NoSpuriousHalt, ServicedBeforeGuest,
                            WithinHorizon, EdgesAhead
<1>3. CASE remaining # 0
  <2>1. running = "batch" /\ IsLeast(batch, Budgets)
    BY <1>p, <1>3
  <2>2. batch \in Budgets /\ \A m \in Budgets : batch <= m
    BY <2>1 DEF IsLeast
  <2>3. \A m \in Deadlines : m \in Nat /\ m > 0
    <3>1. ASSUME NEW m \in Running PROVE m \in Nat
      <4>1. \/ \E c \in Cores : m = spu[c]
            \/ \E i \in Sifs : m = sif[i].left
            \/ m = gif.left \/ m = vif.left
        BY Zenon DEF Running
      <4>2. CASE \E c \in Cores : m = spu[c]
        BY <1>1, <4>2
      <4>3. CASE \E i \in Sifs : m = sif[i].left
        <5>1. PICK i \in Sifs : m = sif[i].left
          BY <4>3
        <5>2. sif[i] \in SifChannel
          BY <1>p DEF DevicesOK
        <5> QED BY <5>1, <5>2 DEF SifChannel
      <4> QED BY <1>1, <4>1, <4>2, <4>3
    <3>2. \A e \in Edges : edge[e] \in Nat /\ edge[e] > 0
      BY <1>p DEF DevicesOK, EdgesAhead
    <3>3. IopDivider - iopPhase \in Nat /\ IopDivider - iopPhase > 0
      <4>1. iopPhase \in Int /\ iopPhase < IopDivider
        BY <1>0
      <4> QED BY <1>0, <4>1
    <3> QED BY <3>1, <3>2, <3>3 DEF Deadlines
  <2>4. batch \in Nat /\ batch > 0
    BY <1>p, <1>3, <2>2, <2>3 DEF Budgets
  <2>5. batch <= remaining /\ (bios => batch <= eeToIop)
    BY <2>2 DEF Budgets
  <2>6. /\ iopPhase + batch <= IopDivider
        /\ gif.left = 0 \/ batch <= gif.left
        /\ vif.left = 0 \/ batch <= vif.left
    <3>1. CASE Armed
      <4>1. batch <= 1
        BY <2>2, <3>1 DEF Budgets, Deadlines
      <4> QED BY <1>0, <1>1, <2>4, <4>1
    <3>2. CASE ~Armed
      <4>1. IopDivider - iopPhase \in Budgets
        BY <3>2 DEF Budgets, Deadlines
      <4>2. /\ gif.left # 0 => gif.left \in Budgets
            /\ vif.left # 0 => vif.left \in Budgets
        BY <3>2 DEF Budgets, Deadlines, Running
      <4> QED BY <1>0, <1>1, <2>2, <2>4, <4>1, <4>2
    <3> QED BY <3>1, <3>2
  <2>7. TypeOK
    BY <1>p, <2>1, <2>4 DEF TypeOK, DevicesOK, Serviced
  <2>8. NoUnderflow /\ NoSpuriousHalt /\ ServicedBeforeGuest
    <3>1. executed + batch = batch
      BY <1>p, <2>4
    <3> QED BY <1>p, <2>4, <2>5, <3>1 DEF NoUnderflow, NoSpuriousHalt, ServicedBeforeGuest, Serviced
  <2>9. WithinHorizon
    BY <1>p, <2>6 DEF WithinHorizon, EdgesAhead
  <2> QED BY <2>7, <2>8, <2>9 DEF IInv
<1> QED BY <1>2, <1>3

(* Leaving the CPU for the IOP and the graphics units, and planning again.   *)
LEMMA EndBatchKeepsIInv == IInv /\ EndBatch => IInv'
<1> SUFFICES ASSUME IInv, EndBatch PROVE IInv'
  OBVIOUS
<1>1. /\ executed \in Nat /\ batch \in Nat /\ remaining \in Int /\ eeToIop \in Nat
      /\ eeToIop > 0 /\ executed + batch <= remaining
      /\ bios => executed + batch <= eeToIop
  BY DEF IInv, TypeOK, NoUnderflow, WithinHorizon, EndBatch
<1>2. remaining - executed \in Nat /\ (bios => eeToIop - executed \in Nat)
  BY <1>1
<1>3. remaining' \in Nat /\ executed' = 0
  BY <1>2 DEF EndBatch
<1>4. /\ eeToIop' \in Nat /\ eeToIop' > 0
      /\ sif' \in [Sifs -> SifChannel] /\ spu' \in [Cores -> Nat]
  <2>1. sif \in [Sifs -> SifChannel] /\ spu \in [Cores -> Nat]
    BY DEF IInv, TypeOK
  <2>2. CASE bios /\ eeToIop = executed
    <3>1. eeToIop' = IopDivider /\ IopStep
      BY <2>2 DEF EndBatch, ScheduleIop
    <3>2. ASSUME NEW i \in Sifs, NEW b \in BOOLEAN
          PROVE  /\ [sif EXCEPT ![i].iop = b] \in [Sifs -> SifChannel]
                 /\ [sif EXCEPT ![i].walk = b] \in [Sifs -> SifChannel]
      BY <2>1 DEF SifChannel
    <3>3. ASSUME NEW c \in Cores, NEW d \in SpuCycles
          PROVE  [spu EXCEPT ![c] = d] \in [Cores -> Nat]
      BY <2>1, ClockAssumption
    <3>4. sif' \in [Sifs -> SifChannel] /\ spu' \in [Cores -> Nat]
      <4>1. CASE UNCHANGED <<sif, spu>>
        BY <2>1, <4>1
      <4>2. CASE /\ \E i \in Sifs, b \in BOOLEAN :
                      sif' \in {[sif EXCEPT ![i].iop = b], [sif EXCEPT ![i].walk = b]}
                 /\ UNCHANGED spu
        <5>1. PICK i \in Sifs, b \in BOOLEAN :
                sif' = [sif EXCEPT ![i].iop = b] \/ sif' = [sif EXCEPT ![i].walk = b]
          BY <4>2, Zenon
        <5>2. sif' \in [Sifs -> SifChannel]
          <6>1. CASE sif' = [sif EXCEPT ![i].iop = b]
            BY <3>2, <6>1
          <6>2. CASE sif' = [sif EXCEPT ![i].walk = b]
            BY <3>2, <6>2
          <6> QED BY <5>1, <6>1, <6>2
        <5>3. spu' = spu
          BY <4>2
        <5> QED BY <2>1, <5>2, <5>3, Zenon
      <4>3. CASE \E c \in Cores, d \in SpuCycles :
                   spu' = [spu EXCEPT ![c] = d] /\ UNCHANGED sif
        BY <2>1, <3>3, <4>3
      <4> QED BY <3>1, <4>1, <4>2, <4>3 DEF IopStep
    <3> QED BY <3>1, <3>4, ClockAssumption
  <2>3. CASE ~(bios /\ eeToIop = executed)
    <3>1. /\ eeToIop' = IF bios THEN eeToIop - executed ELSE eeToIop
          /\ UNCHANGED <<sif, spu>>
      BY <2>3 DEF EndBatch, ScheduleIop
    <3> QED BY <1>1, <1>2, <2>1, <2>3, <3>1
  <2> QED BY <2>2, <2>3
<1>5. Serviced'
  BY DEF EndBatch, Service, Serviced, IInv, TypeOK
<1>6. DevicesOK' /\ EdgesAhead' /\ ready' \in BOOLEAN /\ bios' \in BOOLEAN
  BY <1>4 DEF EndBatch, DevicesOK, EdgesAhead, IInv, TypeOK, WithinHorizon
<1>7. CASE running = "stopped" \/ executed = 0
  <2>1. running' = "idle" /\ batch' = 0
    BY <1>7 DEF EndBatch
  <2>2. TypeOK'
    BY <1>3, <1>4, <1>5, <1>6, <2>1 DEF TypeOK, DevicesOK, Serviced
  <2> QED BY <1>4, <1>6, <2>1, <2>2
          DEF IInv, NoUnderflow, NoSpuriousHalt, ServicedBeforeGuest, WithinHorizon, EdgesAhead
<1>8. CASE ~(running = "stopped" \/ executed = 0)
  <2>1. Plan
    BY <1>8 DEF EndBatch
  <2>2. Planned'
    BY <1>3, <1>4, <1>5, <1>6, <2>1 DEF Plan, Planned
  <2> QED BY <2>2, PlannedIsIInv, PTL
<1> QED BY <1>7, <1>8

(* The host calls run_slice.                                                *)
LEMMA RunSliceKeepsIInv == IInv /\ RunSlice => IInv'
<1> SUFFICES ASSUME IInv, RunSlice PROVE IInv'
  OBVIOUS
<1>1. remaining' \in Nat /\ executed' = 0 /\ eeToIop' \in Nat /\ eeToIop' > 0
  BY ClockAssumption DEF RunSlice, IInv, TypeOK, WithinHorizon
<1>2. Serviced'
  BY DEF RunSlice, Service, Serviced, IInv, TypeOK
<1>3. DevicesOK' /\ EdgesAhead' /\ ready' \in BOOLEAN /\ bios' \in BOOLEAN
  BY DEF RunSlice, DevicesOK, EdgesAhead, IInv, TypeOK, WithinHorizon, timers
<1>4. Planned'
  BY <1>1, <1>2, <1>3 DEF RunSlice, Plan, Planned
<1> QED BY <1>4, PlannedIsIInv, PTL

(* What no guest store can touch: the countdowns of transfers in flight and  *)
(* what was latched when they started.                                      *)
SameGif(g) == g.left = gif.left /\ g.latch = gif.latch
SameVif(v) == v.left = vif.left /\ v.latch = vif.latch /\ v.normal = vif.normal
SameSifs(s) == \A i \in Sifs : s[i].left = sif[i].left

(* A step of the guest that takes n cycles.                                 *)
GuestStep(n, g, v, s, ch) ==
  /\ SameGif(g) /\ SameVif(v) /\ SameSifs(s)
  /\ Execute(n, g, v, s, ch) /\ running' \in {"batch", "stopped"}

(* A guest store is a legal argument of Execute and leaves the countdowns    *)
(* of the transfers alone.                                                  *)
LEMMA WritesType ==
  ASSUME IInv
  PROVE  /\ \A g \in GifWrites : g \in GifChannel /\ SameGif(g)
         /\ \A v \in VifWrites : v \in VifChannel /\ SameVif(v)
         /\ \A i \in Sifs, b \in BOOLEAN :
              /\ [sif EXCEPT ![i].ee = b] \in [Sifs -> SifChannel]
              /\ [sif EXCEPT ![i].iop = b] \in [Sifs -> SifChannel]
              /\ [sif EXCEPT ![i].walk = b] \in [Sifs -> SifChannel]
              /\ SameSifs([sif EXCEPT ![i].ee = b])
              /\ SameSifs([sif EXCEPT ![i].iop = b])
              /\ SameSifs([sif EXCEPT ![i].walk = b])
<1>1. gif \in GifChannel /\ vif \in VifChannel /\ sif \in [Sifs -> SifChannel]
  BY DEF IInv, TypeOK
<1>2. /\ GifQwcs \subseteq Nat /\ VifQwcs \subseteq Nat /\ Sources \subseteq Nat
      /\ GifModes \subseteq {"normal", "other"}
      /\ VifModes \subseteq {"normal", "chain", "other"}
  BY ClockAssumption
<1>3. ASSUME NEW g \in GifWrites PROVE g \in GifChannel /\ SameGif(g)
  <2>1. \/ \E c \in [str : BOOLEAN, mode : GifModes] :
             g = [gif EXCEPT !.str = c.str, !.mode = c.mode]
        \/ \E q \in GifQwcs : g = [gif EXCEPT !.qwc = q]
        \/ \E a \in Sources : g = [gif EXCEPT !.madr = a]
    BY Zenon DEF GifWrites
  <2> QED BY <1>1, <1>2, <2>1 DEF GifChannel, SameGif
<1>4. ASSUME NEW v \in VifWrites PROVE v \in VifChannel /\ SameVif(v)
  <2>1. \/ \E c \in [str : BOOLEAN, mode : VifModes] :
             v = [vif EXCEPT !.str = c.str, !.mode = c.mode]
        \/ \E q \in VifQwcs : v = [vif EXCEPT !.qwc = q]
        \/ \E a \in Sources : v = [vif EXCEPT !.madr = a]
    BY Zenon DEF VifWrites
  <2>2. v \in VifChannel
    BY <1>1, <1>2, <2>1 DEF VifChannel
  <2>3. v.left = vif.left /\ v.latch = vif.latch
    BY <1>1, <2>1 DEF VifChannel
  <2>4. v.normal = vif.normal
    <3>1. CASE \E c \in [str : BOOLEAN, mode : VifModes] :
                 v = [vif EXCEPT !.str = c.str, !.mode = c.mode]
      BY <1>1, <3>1 DEF VifChannel
    <3>2. CASE \E q \in VifQwcs : v = [vif EXCEPT !.qwc = q]
      BY <1>1, <3>2 DEF VifChannel
    <3>3. CASE \E a \in Sources : v = [vif EXCEPT !.madr = a]
      BY <1>1, <3>3 DEF VifChannel
    <3> QED BY <2>1, <3>1, <3>2, <3>3
  <2> QED BY <2>2, <2>3, <2>4, Zenon DEF SameVif
<1>5. ASSUME NEW i \in Sifs, NEW b \in BOOLEAN
      PROVE  /\ [sif EXCEPT ![i].ee = b] \in [Sifs -> SifChannel]
             /\ [sif EXCEPT ![i].iop = b] \in [Sifs -> SifChannel]
             /\ [sif EXCEPT ![i].walk = b] \in [Sifs -> SifChannel]
             /\ SameSifs([sif EXCEPT ![i].ee = b])
             /\ SameSifs([sif EXCEPT ![i].iop = b])
             /\ SameSifs([sif EXCEPT ![i].walk = b])
  BY <1>1 DEF SifChannel, SameSifs
<1> QED BY <1>3, <1>4, <1>5

(* Every guest action is an Execute within the budget.                      *)
LEMMA GuestSteps ==
  ASSUME IInv, Guest
  PROVE  \E n \in Nat \ {0}, g \in GifChannel, v \in VifChannel, s \in [Sifs -> SifChannel],
            ch \in Chains \cup {Broken} : GuestStep(n, g, v, s, ch)
<1>0. SameGif(gif) /\ SameVif(vif) /\ SameSifs(sif)
  BY DEF SameGif, SameVif, SameSifs
<1>1. /\ gif \in GifChannel /\ vif \in VifChannel /\ sif \in [Sifs -> SifChannel]
      /\ chain \in Chains \cup {Broken}
  BY DEF IInv, TypeOK
<1>2. ASSUME NEW n \in Nat \ {0}, NEW g \in GifChannel, NEW v \in VifChannel,
             NEW s \in [Sifs -> SifChannel], NEW ch \in Chains \cup {Broken},
             SameGif(g), SameVif(v), SameSifs(s),
             Execute(n, g, v, s, ch), running' = running \/ running' = "stopped"
      PROVE  \E m \in Nat \ {0}, h \in GifChannel, w \in VifChannel, t \in [Sifs -> SifChannel],
               c \in Chains \cup {Broken} : GuestStep(m, h, w, t, c)
  BY <1>2 DEF Execute, GuestStep
<1>3. CASE Instruction
  BY <1>0, <1>1, <1>2, <1>3 DEF Instruction
<1>4. CASE StoreGif
  <2>1. PICK g \in GifWrites : Execute(1, g, vif, sif, chain) /\ running' = running
    BY <1>4 DEF StoreGif
  <2>2. g \in GifChannel /\ SameGif(g)
    BY WritesType
  <2> QED BY <1>0, <1>1, <1>2, <2>1, <2>2
<1>5. CASE StoreVif
  <2>1. PICK v \in VifWrites : Execute(1, gif, v, sif, chain) /\ running' = running
    BY <1>5 DEF StoreVif
  <2>2. v \in VifChannel /\ SameVif(v)
    BY WritesType
  <2> QED BY <1>0, <1>1, <1>2, <2>1, <2>2
<1>6. CASE StoreTag
  BY <1>0, <1>1, <1>2, <1>6 DEF StoreTag
<1>7. CASE StoreSif
  <2>1. PICK i \in Sifs, b \in BOOLEAN :
          /\ \E s \in {[sif EXCEPT ![i].ee = b], [sif EXCEPT ![i].iop = b],
                [sif EXCEPT ![i].walk = b]} :
               Execute(1, gif, vif, s, chain)
          /\ running' = running
    BY <1>7, Zenon DEF StoreSif
  <2>2. PICK s \in {[sif EXCEPT ![i].ee = b], [sif EXCEPT ![i].iop = b],
                [sif EXCEPT ![i].walk = b]} :
          Execute(1, gif, vif, s, chain)
    BY <2>1
  <2>3. s \in [Sifs -> SifChannel] /\ SameSifs(s)
    <3>1. CASE s = [sif EXCEPT ![i].ee = b]
      BY <3>1, WritesType
    <3>2. CASE s = [sif EXCEPT ![i].iop = b]
      BY <3>2, WritesType
    <3>3. CASE s = [sif EXCEPT ![i].walk = b]
      BY <3>3, WritesType
    <3> QED BY <2>2, <3>1, <3>2, <3>3
  <2> QED BY <1>0, <1>1, <1>2, <2>1, <2>2, <2>3
<1>8. CASE FastZeroFill
  <2>1. PICK k \in 1..batch, ch \in Chains \cup {chain}, S \in SUBSET Sifs :
          /\ Execute(k * FastCycles, gif, vif,
               [i \in Sifs |-> IF i \in S THEN [sif[i] EXCEPT !.walk = FALSE] ELSE sif[i]], ch)
          /\ running' = running
    BY <1>8, Zenon DEF FastZeroFill
  <2> DEFINE s == [i \in Sifs |-> IF i \in S THEN [sif[i] EXCEPT !.walk = FALSE] ELSE sif[i]]
  <2>2. s \in [Sifs -> SifChannel] /\ SameSifs(s)
    BY <1>1 DEF SifChannel, SameSifs
  <2>3. k * FastCycles \in Nat \ {0}
    BY ClockAssumption DEF IInv, TypeOK
  <2>4. ch \in Chains \cup {Broken}
    BY <1>1
  <2> HIDE DEF s
  <2>5. Execute(k * FastCycles, gif, vif, s, ch) /\ running' = running
    BY <2>1, Zenon DEF s
  <2> QED BY <1>0, <1>1, <1>2, <2>2, <2>3, <2>4, <2>5
<1>9. CASE StopAfter
  BY <1>0, <1>1, <1>2, <1>9 DEF StopAfter
<1> QED BY <1>3, <1>4, <1>5, <1>6, <1>7, <1>8, <1>9 DEF Guest

(* Hence the guest keeps the invariant.                                     *)
LEMMA GuestKeepsIInv == IInv /\ Guest => IInv'
<1> SUFFICES ASSUME IInv, Guest PROVE IInv'
  OBVIOUS
<1>1. PICK n \in Nat \ {0}, g \in GifChannel, v \in VifChannel, s \in [Sifs -> SifChannel],
           ch \in Chains \cup {Broken} : GuestStep(n, g, v, s, ch)
  BY GuestSteps
<1> QED BY <1>1, ExecuteKeepsIInv DEF GuestStep, SameGif, SameVif

(* The frontend's load and reset.                                           *)
LEMMA FrontendKeepsIInv == IInv /\ (Boot \/ Reset \/ StopBefore) => IInv'
<1> SUFFICES ASSUME IInv, Boot \/ Reset \/ StopBefore PROVE IInv'
  OBVIOUS
<1> USE DEF IInv, NoUnderflow, NoSpuriousHalt, ServicedBeforeGuest, WithinHorizon
<1>1. CASE Boot
  <2>1. GifOff \in GifChannel /\ VifOff \in VifChannel /\ SifOff \in SifChannel
    BY DEF GifOff, VifOff, SifOff, NoLatch, GifChannel, VifChannel, SifChannel, Latch
  <2>2. /\ IopDivider \in Nat \ {0} /\ 0 \in 0..(IopDivider - 1) /\ EdgeStart \in Nat
        /\ EdgeStart > 0
    BY ClockAssumption
  <2>3. TypeOK'
    BY <1>1, <2>1, <2>2 DEF Boot, TypeOK
  <2> QED BY <1>1, <2>2, <2>3 DEF Boot
<1>2. CASE Reset
  <2>1. TypeOK'
    BY <1>2, ClockAssumption DEF Reset, TypeOK, timers, dma
  <2> QED BY <1>2, <2>1, ClockAssumption DEF Reset, timers, dma
<1>3. CASE StopBefore
  <2>1. TypeOK'
    BY <1>3 DEF StopBefore, TypeOK, timers, dma
  <2> QED BY <1>3, <2>1 DEF StopBefore, timers, dma
<1> QED BY <1>1, <1>2, <1>3

(* Power-on.                                                                *)
LEMMA InitIsIInv == Init => IInv
<1> SUFFICES ASSUME Init PROVE IInv
  OBVIOUS
<1>1. GifOff \in GifChannel /\ VifOff \in VifChannel /\ SifOff \in SifChannel
  BY DEF GifOff, VifOff, SifOff, NoLatch, GifChannel, VifChannel, SifChannel, Latch
<1>2. /\ IopDivider \in Nat \ {0} /\ 0 \in 0..(IopDivider - 1) /\ EdgeStart \in Nat
      /\ EdgeStart > 0
  BY ClockAssumption
<1>3. TypeOK
  <2>0. ready \in BOOLEAN /\ bios \in BOOLEAN
    BY Zenon DEF Init
  <2>1. /\ running \in {"idle", "batch", "stopped"}
        /\ remaining \in Int /\ batch \in Nat /\ executed \in Nat /\ eeToIop \in Int
        /\ iopPhase \in 0..(IopDivider - 1)
    BY <1>2 DEF Init
  <2>2. /\ edge \in [Edges -> Nat] /\ spu \in [Cores -> Nat]
        /\ sif \in [Sifs -> SifChannel] /\ gif \in GifChannel /\ vif \in VifChannel
    BY <1>1, <1>2 DEF Init
  <2>3. /\ chain \in Chains \cup {Broken}
        /\ gifq \in Seq(Packet) /\ vifq \in Seq(Packet) /\ sink \in Seq(Packet)
    BY DEF Init
  <2> QED BY <2>0, <2>1, <2>2, <2>3 DEF TypeOK
<1> QED BY <1>2, <1>3
        DEF Init, IInv, NoUnderflow, NoSpuriousHalt, ServicedBeforeGuest, WithinHorizon

(* The invariant is inductive.                                              *)
THEOREM Inductive == Spec => []IInv
<1>1. IInv /\ UNCHANGED vars => IInv'
  BY DEF IInv, TypeOK, NoUnderflow, NoSpuriousHalt, ServicedBeforeGuest, WithinHorizon,
         vars, run, timers, dma
<1>2. IInv /\ Next => IInv'
  BY GuestKeepsIInv, FrontendKeepsIInv, EndBatchKeepsIInv, RunSliceKeepsIInv DEF Next
<1> QED BY InitIsIInv, <1>1, <1>2, PTL DEF Spec

(* Every variable keeps its type, for every guest and every constant.       *)
THEOREM TypeCorrect == Spec => []TypeOK
<1>1. IInv => TypeOK
  BY DEF IInv
<1> QED BY <1>1, Inductive, PTL

(* No guest instruction begins while a completed packet waits (the comment  *)
(* in Emulator::run_slice on servicing before EE polling code observes it).  *)
THEOREM ServiceTheorem == Spec => []ServicedBeforeGuest
<1>1. IInv => ServicedBeforeGuest
  BY DEF IInv
<1> QED BY <1>1, Inductive, PTL

(* The batch never crosses a deadline of the IOP, the GIF or VIF1.           *)
THEOREM HorizonTheorem == Spec => []WithinHorizon
<1>1. IInv => WithinHorizon
  BY DEF IInv
<1> QED BY <1>1, Inductive, PTL

(* The budgets of run_slice are sound: its unsigned counters never wrap, and *)
(* the CPU never gets an empty budget, which run_slice takes for a halt.     *)
THEOREM BudgetTheorem == Spec => []BudgetsSound
<1>1. IInv => BudgetsSound
  BY DEF IInv, BudgetsSound
<1> QED BY <1>1, Inductive, PTL

-----------------------------------------------------------------------------
(* No batch crosses any event, and none is longer than a cycle while a      *)
(* channel waits to be started.                                             *)

(* What the refinement needs beyond IInv: the deadlines that the budget does *)
(* not protect from wrapping, and the discovery of armed channels.          *)
NothingCrossed ==
  running = "batch" =>
    /\ \A e \in Edges : batch <= edge[e]
    /\ \A c \in Cores : spu[c] = 0 \/ batch <= spu[c]
    /\ \A i \in Sifs : sif[i].left = 0 \/ batch <= sif[i].left
    /\ Startable # {} => batch <= 1

(* advance() leaves no GIF or VIF1 transfer that it could still start.      *)
LEMMA ChannelsSettled ==
  ASSUME NEW g \in GifChannel, NEW v \in VifChannel, NEW ch \in Chains \cup {Broken},
         NEW now \in Chains \cup {Broken}, NEW n \in Nat
  PROVE  /\ GifStarted(GifNext(g, n)) = GifNext(g, n)
         /\ VifStarted(VifNext(v, ch, now, n), now) = VifNext(v, ch, now, n)
<1>1. ASSUME NEW h \in GifChannel PROVE GifStarted(GifStarted(h)) = GifStarted(h)
  <2>1. CASE GifArmed(h) /\ Fits(h.madr, h.qwc)
    <3>1. GifStarted(h).left = h.qwc * QwCycles /\ h.qwc \in Nat \ {0}
      BY <2>1 DEF GifStarted, GifArmed, GifChannel
    <3>2. GifStarted(h).left # 0
      BY <3>1, TransferOutlastsBatch, ClockAssumption
    <3> QED BY <3>2 DEF GifStarted, GifArmed
  <2> QED BY <2>1 DEF GifStarted
<1>2. ASSUME NEW h \in VifChannel PROVE VifStarted(VifStarted(h, now), now) = VifStarted(h, now)
  <2>1. CASE VifArmed(h) /\ h.mode = "chain" /\ now # Broken
    <3> DEFINE q == IF now.qwc = 0 THEN 1 ELSE now.qwc
    <3>1. VifStarted(h, now).left = q * QwCycles /\ q \in Nat \ {0}
      BY <2>1, ClockAssumption DEF VifStarted, VifChannel
    <3> HIDE DEF q
    <3>2. VifStarted(h, now).left # 0
      BY <3>1, TransferOutlastsBatch, ClockAssumption
    <3> QED BY <3>2 DEF VifStarted, VifArmed
  <2>2. CASE VifArmed(h) /\ h.mode = "normal" /\ Fits(h.madr, h.qwc)
    <3>1. VifStarted(h, now).left = h.qwc * QwCycles /\ h.qwc \in Nat \ {0}
      BY <2>2 DEF VifStarted, VifArmed, VifChannel
    <3>2. VifStarted(h, now).left # 0
      BY <3>1, TransferOutlastsBatch, ClockAssumption
    <3> QED BY <3>2 DEF VifStarted, VifArmed
  <2> QED BY <2>1, <2>2 DEF VifStarted
<1>3. GifRetired(g, n) \in GifChannel /\ VifRetired(v, ch, n) \in VifChannel
  BY GifNextType, VifNextType
<1> QED BY <1>1, <1>2, <1>3 DEF GifNext, VifNext

(* What a SIF channel counts down to before a new burst starts.             *)
LEMMA SifLeft ==
  ASSUME NEW s, NEW n, NEW w, NEW r \in SifRetired(s, w, n)
  PROVE  r.left = Elapse(s.left, n)
<1>1. r \in [ee : IF Due(s.left, n) THEN {s.ee, FALSE} ELSE {s.ee},
             iop : IF Due(s.left, n) THEN {s.iop, FALSE} ELSE {s.iop},
             walk : IF w THEN BOOLEAN ELSE {s.walk}, left : {Elapse(s.left, n)}]
  BY Zenon DEF SifRetired
<1> QED BY <1>1

(* A SIF burst that was not due stays ahead of the budget, one that starts   *)
(* outlasts it, and no channel is left that could start.                    *)
LEMMA SifHorizon ==
  ASSUME NEW s \in SifChannel, NEW n \in Nat, NEW b \in Nat, NEW w \in BOOLEAN,
         NEW r \in SifNext(s, w, n), n <= b, b <= IopDivider, s.left = 0 \/ b <= s.left
  PROVE  /\ r.left = 0 \/ b - n <= r.left
         /\ ~(SifArmed(r) /\ r.walk)
<1>1. PICK h \in SifRetired(s, w, n) : r \in SifStarted(h)
  BY DEF SifNext
<1>2. h.left \in Nat /\ (h.left = 0 \/ b - n <= h.left)
  <2>1. h.left = Elapse(s.left, n) /\ s.left \in Nat
    BY SifLeft, <1>1 DEF SifChannel
  <2> QED BY <2>1 DEF Elapse
<1>3. CASE SifArmed(h) /\ h.walk
  <2>1. PICK q \in SifQwcs : r = [h EXCEPT !.left = q * QwCycles]
    BY <1>1, <1>3 DEF SifStarted
  <2>2. h \in SifChannel
    BY <1>1, SifNextType
  <2>3. r.left = q * QwCycles /\ q \in Nat \ {0}
    BY <2>1, <2>2, ClockAssumption DEF SifChannel
  <2>4. r.left \in Nat /\ r.left >= IopDivider
    BY <2>3, TransferOutlastsBatch
  <2> QED BY <2>4, ClockAssumption DEF SifArmed
<1>4. CASE ~(SifArmed(h) /\ h.walk)
  <2>1. r = h
    BY <1>1, <1>4 DEF SifStarted
  <2> QED BY <1>2, <1>4, <2>1
<1> QED BY <1>3, <1>4

(* The guest never crosses an event, and leaves no channel to be started.   *)
LEMMA ExecuteCrossesNothing ==
  ASSUME IInv, NothingCrossed, NEW n \in Nat \ {0}, NEW g \in GifChannel,
         NEW v \in VifChannel, NEW s \in [Sifs -> SifChannel], NEW ch \in Chains \cup {Broken},
         GuestStep(n, g, v, s, ch)
  PROVE  NothingCrossed'
<1>1. /\ n <= batch /\ batch \in Nat /\ batch <= IopDivider /\ batch' = batch - n
      /\ IopDivider \in Nat \ {0}
  BY ClockAssumption DEF IInv, TypeOK, WithinHorizon, GuestStep, Execute
<1>2. running = "batch"
  BY DEF GuestStep, Execute
<1>3. \A e \in Edges : batch' <= edge'[e]
  <2>1. PICK p \in [Edges -> EdgePeriods] :
          edge' = [e \in Edges |-> IF n < edge[e] THEN edge[e] - n ELSE edge[e] + p[e] - n]
    BY DEF GuestStep, Execute, Advance
  <2>2. ASSUME NEW e \in Edges PROVE batch - n <= edge'[e]
    <3>1. p[e] \in Nat /\ p[e] >= IopDivider
      BY ClockAssumption
    <3>2. edge[e] \in Nat /\ batch <= edge[e]
      BY <1>2 DEF IInv, TypeOK, NothingCrossed
    <3> QED BY <1>1, <2>1, <3>1, <3>2
  <2> QED BY <1>1, <2>2
<1>4. \A c \in Cores : spu'[c] = 0 \/ batch' <= spu'[c]
  <2>1. ASSUME NEW c \in Cores PROVE spu'[c] = 0 \/ batch - n <= spu'[c]
    <3>1. spu'[c] = Elapse(spu[c], n)
      BY DEF GuestStep, Execute, Advance
    <3>2. spu[c] \in Nat /\ (spu[c] = 0 \/ batch <= spu[c])
      BY <1>2 DEF IInv, TypeOK, NothingCrossed
    <3> QED BY <1>1, <3>1, <3>2 DEF Elapse
  <2> QED BY <1>1, <2>1
<1>5. ASSUME NEW i \in Sifs
      PROVE  /\ sif'[i].left = 0 \/ batch' <= sif'[i].left
             /\ ~(SifArmed(sif'[i]) /\ sif'[i].walk)
  <2>0. PICK w \in BOOLEAN : w = Written(s, n, Sifs)
    BY DEF Written
  <2>1. sif'[i] \in SifNext(s[i], w, n)
    BY <2>0 DEF GuestStep, Execute, Advance
  <2>2. s[i].left = 0 \/ batch <= s[i].left
    BY <1>2 DEF NothingCrossed, GuestStep, SameSifs
  <2>3. \A r \in SifNext(s[i], w, n) : /\ r.left = 0 \/ batch - n <= r.left
                                       /\ ~(SifArmed(r) /\ r.walk)
    <3>1. n \in Nat
      OBVIOUS
    <3> QED BY <1>1, <2>2, <3>1, SifHorizon
  <2> QED BY <1>1, <2>1, <2>3
<1>6. Startable' = {}
  <2>1. /\ gif' = GifNext(g, n) /\ vif' = VifNext(v, ch, chain', n)
        /\ chain' \in Chains \cup {Broken}
    BY DEF GuestStep, Execute, Advance
  <2>2. GifStarted(gif') = gif' /\ VifStarted(vif', chain') = vif'
    BY <2>1, ChannelsSettled
  <2> QED BY <1>5, <2>2 DEF Startable
<1> QED BY <1>3, <1>4, <1>5, <1>6 DEF NothingCrossed

(* A channel that can start is an armed one.                                *)
LEMMA StartableIsArmed == Startable # {} => Armed
<1>1. GifStarted(gif) # gif => GifArmed(gif)
  BY DEF GifStarted
<1>2. VifStarted(vif, chain) # vif => VifArmed(vif)
  BY DEF VifStarted
<1> QED BY <1>1, <1>2 DEF Startable, Armed

(* The budget Plan chooses crosses nothing either.                          *)
ChosenBudget == running = "batch" => IsLeast(batch, Budgets)

LEMMA PlannedCrossesNothing == IInv /\ ChosenBudget => NothingCrossed
<1> SUFFICES ASSUME IInv, ChosenBudget PROVE NothingCrossed
  OBVIOUS
<1>0. DevicesOK /\ EdgesAhead /\ batch \in Nat
  BY DEF IInv, TypeOK, DevicesOK, EdgesAhead, WithinHorizon
<1> SUFFICES ASSUME running = "batch" PROVE NothingCrossed
  BY DEF NothingCrossed
<1>1. \A m \in Deadlines : batch <= m
  BY DEF IsLeast, Budgets, ChosenBudget
<1>2. CASE Armed
  <2>1. batch <= 1
    BY <1>1, <1>2 DEF Deadlines
  <2>2. /\ \A e \in Edges : edge[e] \in Nat /\ edge[e] > 0
        /\ \A c \in Cores : spu[c] \in Nat
        /\ \A i \in Sifs : sif[i].left \in Nat
    BY <1>0 DEF DevicesOK, EdgesAhead, SifChannel
  <2> QED BY <1>0, <2>1, <2>2 DEF NothingCrossed
<1>3. CASE ~Armed
  <2>1. \A e \in Edges : edge[e] \in Deadlines
    BY <1>3 DEF Deadlines
  <2>2. \A m \in Running : m # 0 => m \in Deadlines
    BY <1>3 DEF Deadlines
  <2>3. (\A c \in Cores : spu[c] \in Running) /\ (\A i \in Sifs : sif[i].left \in Running)
    BY DEF Running
  <2>4. Startable = {}
    BY <1>3, StartableIsArmed
  <2> QED BY <1>1, <2>1, <2>2, <2>3, <2>4 DEF NothingCrossed
<1> QED BY <1>2, <1>3

(* Every step crosses nothing.                                              *)
LEMMA StepCrossesNothing == IInv /\ IInv' /\ NothingCrossed /\ [Next]_vars => NothingCrossed'
<1> SUFFICES ASSUME IInv, IInv', NothingCrossed, [Next]_vars PROVE NothingCrossed'
  OBVIOUS
<1>1. CASE Guest
  <2>1. PICK n \in Nat \ {0}, g \in GifChannel, v \in VifChannel, s \in [Sifs -> SifChannel],
             ch \in Chains \cup {Broken} : GuestStep(n, g, v, s, ch)
    BY <1>1, GuestSteps
  <2> QED BY <2>1, ExecuteCrossesNothing
<1>2. CASE RunSlice \/ EndBatch
  <2>1. running' = "idle" \/ Plan
    BY <1>2 DEF RunSlice, EndBatch
  <2>2. ChosenBudget'
    BY <2>1 DEF Plan, ChosenBudget
  <2> QED BY <2>2, PlannedCrossesNothing, PTL
<1>3. CASE StopBefore \/ Boot \/ Reset
  <2>1. running' # "batch"
    BY <1>3 DEF StopBefore, Boot, Reset
  <2> QED BY <2>1 DEF NothingCrossed
<1>4. CASE UNCHANGED vars
  BY <1>4 DEF vars, run, timers, dma, NothingCrossed, Startable
<1> QED BY <1>1, <1>2, <1>3, <1>4 DEF Next

-----------------------------------------------------------------------------
(* The refinement of the exact timeline, step by step.                      *)

(* The abstract countdowns, one name at a time.                             *)
CountdownIs ==
  /\ Countdown["iop"] = IopDivider - iopPhase
  /\ Countdown["gif"] = gif.left /\ Countdown["vif1"] = vif.left
  /\ \A e \in Edges : Countdown[e] = edge[e]
  /\ \A c \in Cores : Countdown[c] = spu[c]
  /\ \A i \in Sifs : Countdown[i] = sif[i].left

LEMMA CountdownOf == CountdownIs
<1>1. /\ \A t \in Edges \cup Cores \cup Sifs : t # "iop" /\ t # "gif" /\ t # "vif1"
      /\ \A t \in Cores \cup Sifs : t \notin Edges
      /\ \A t \in Edges \cup Sifs : t \notin Cores
      /\ \A t \in Edges \cup Cores : t \notin Sifs
  BY NameAssumption
<1> QED BY <1>1 DEF CountdownIs, Countdown, Left, Timers

(* A transfer that n cycles do not end runs on by n and keeps what it        *)
(* latched.                                                                 *)
LEMMA InFlight ==
  ASSUME NEW n \in Nat
  PROVE  /\ \A g \in GifChannel : g.left > n =>
              GifNext(g, n).left = g.left - n /\ GifNext(g, n).latch = g.latch
         /\ \A v \in VifChannel : \A ch, now : v.left > n =>
              /\ VifNext(v, ch, now, n).left = v.left - n
              /\ VifNext(v, ch, now, n).latch = v.latch
              /\ VifNext(v, ch, now, n).normal = v.normal
         /\ \A s \in SifChannel : \A w : \A r \in SifNext(s, w, n) :
              s.left > n => r.left = s.left - n
<1>1. ASSUME NEW g \in GifChannel, g.left > n
      PROVE  GifNext(g, n).left = g.left - n /\ GifNext(g, n).latch = g.latch
  <2>1. g.left \in Nat /\ g.left - n # 0 /\ ~Due(g.left, n) /\ Elapse(g.left, n) = g.left - n
    BY <1>1 DEF GifChannel, Due, Elapse
  <2>2. GifRetired(g, n) = [g EXCEPT !.left = g.left - n]
    BY <2>1 DEF GifRetired
  <2>3. GifRetired(g, n).left = g.left - n /\ GifRetired(g, n).latch = g.latch
    BY <2>2 DEF GifChannel
  <2> QED BY <2>1, <2>3 DEF GifNext, GifStarted, GifArmed
<1>2. ASSUME NEW v \in VifChannel, NEW ch, NEW now, v.left > n
      PROVE  /\ VifNext(v, ch, now, n).left = v.left - n
             /\ VifNext(v, ch, now, n).latch = v.latch
             /\ VifNext(v, ch, now, n).normal = v.normal
  <2>1. v.left \in Nat /\ v.left - n # 0 /\ ~Due(v.left, n) /\ Elapse(v.left, n) = v.left - n
    BY <1>2 DEF VifChannel, Due, Elapse
  <2>2. VifRetired(v, ch, n) = [v EXCEPT !.left = v.left - n]
    BY <2>1 DEF VifRetired
  <2>3. VifRetired(v, ch, n).left = v.left - n /\ VifRetired(v, ch, n).latch = v.latch
        /\ VifRetired(v, ch, n).normal = v.normal
    BY <2>2 DEF VifChannel
  <2>4. VifNext(v, ch, now, n) = VifRetired(v, ch, n)
    BY <2>1, <2>3 DEF VifNext, VifStarted, VifArmed
  <2> QED BY <2>3, <2>4
<1>3. ASSUME NEW s \in SifChannel, NEW w, NEW r \in SifNext(s, w, n), s.left > n
      PROVE  r.left = s.left - n
  <2>1. s.left \in Nat /\ s.left - n # 0 /\ ~Due(s.left, n) /\ Elapse(s.left, n) = s.left - n
    BY <1>3 DEF SifChannel, Due, Elapse
  <2>2. PICK h \in SifRetired(s, w, n) : r \in SifStarted(h)
    BY DEF SifNext
  <2>3. h.left = s.left - n
    BY <2>1, <2>2, SifLeft
  <2>4. r = h
    BY <2>1, <2>2, <2>3 DEF SifStarted, SifArmed
  <2> QED BY <2>3, <2>4
<1> QED BY <1>1, <1>2, <1>3

(* The packets of a countdown that n cycles do not cross complete exactly in *)
(* the n-th.                                                                *)
LEMMA DueOnTime ==
  ASSUME NEW left \in Nat, NEW n \in Nat \ {0}, left # 0 => n <= left
  PROVE  Due(left, n) <=> left = n
  BY DEF Due

(* A step of the guest is an Elapse of the exact timeline.                  *)
LEMMA GuestElapses ==
  ASSUME IInv, NothingCrossed, NEW n \in Nat \ {0}, NEW g \in GifChannel,
         NEW v \in VifChannel, NEW s \in [Sifs -> SifChannel], NEW ch \in Chains \cup {Broken},
         GuestStep(n, g, v, s, ch)
  PROVE  n \in 1..IopDivider /\ Timeline!Elapse(n)
<1>1. /\ running = "batch" /\ n <= batch /\ batch \in Nat
      /\ iopPhase \in 0..(IopDivider - 1) /\ iopPhase + batch <= IopDivider
      /\ IopDivider \in Nat \ {0} /\ gifq = <<>> /\ vifq = <<>>
      /\ gif.left \in Nat /\ vif.left \in Nat
      /\ gif.left = 0 \/ batch <= gif.left
      /\ vif.left = 0 \/ batch <= vif.left
  BY ClockAssumption DEF IInv, TypeOK, WithinHorizon, ServicedBeforeGuest, GuestStep, Execute,
                         GifChannel, VifChannel
<1>2. /\ iopPhase' = (iopPhase + n) % IopDivider
      /\ gif' = GifNext(g, n) /\ vif' = VifNext(v, ch, chain', n)
      /\ gifq' = GifPackets(g, n) /\ vifq' = VifPackets(v, ch, n) /\ sink' = <<>>
      /\ g.left = gif.left /\ g.latch = gif.latch
      /\ v.left = vif.left /\ v.latch = vif.latch /\ SameVif(v) /\ SameSifs(s)
  <2>1. GifPackets(g, n) \in Seq(Packet) /\ VifPackets(v, ch, n) \in Seq(Packet)
    <3>1. n \in Nat
      OBVIOUS
    <3> QED BY <3>1, PacketsType
  <2> QED BY <1>1, <2>1 DEF GuestStep, SameGif, SameVif, Execute, Advance
<1>c. CountdownIs /\ CountdownIs'
  BY CountdownOf, PTL
<1>3. ASSUME NEW t \in Timers
      PROVE  /\ Countdown[t] # 0 => n <= Countdown[t]
             /\ Countdown[t] > n => Countdown'[t] = Countdown[t] - n
  <2>1. CASE t = "iop"
    <3>1. Countdown[t] = IopDivider - iopPhase /\ Countdown'[t] = IopDivider - iopPhase'
      BY <1>c, <2>1 DEF CountdownIs
    <3>2. ASSUME IopDivider - iopPhase > n PROVE (iopPhase + n) % IopDivider = iopPhase + n
      <4>1. iopPhase + n \in 0..(IopDivider - 1)
        BY <1>1, <3>2
      <4> QED BY <1>1, <4>1
    <3>3. IopDivider - iopPhase > n => IopDivider - iopPhase' = (IopDivider - iopPhase) - n
      BY <1>1, <1>2, <3>2
    <3>4. IopDivider - iopPhase # 0 => n <= IopDivider - iopPhase
      BY <1>1
    <3> QED BY <3>1, <3>3, <3>4
  <2>2. CASE t = "gif"
    <3>1. Countdown[t] = gif.left /\ Countdown'[t] = gif'.left
      BY <1>c, <2>2 DEF CountdownIs
    <3>2. gif.left > n => GifNext(g, n).left = gif.left - n
      BY <1>1, <1>2, InFlight
    <3> QED BY <1>1, <1>2, <3>1, <3>2
  <2>3. CASE t = "vif1"
    <3>1. Countdown[t] = vif.left /\ Countdown'[t] = vif'.left
      BY <1>c, <2>3 DEF CountdownIs
    <3>0. PICK now : now = chain'
      OBVIOUS
    <3>2. vif.left > n => VifNext(v, ch, now, n).left = vif.left - n
      BY <1>1, <1>2, InFlight
    <3> QED BY <1>1, <1>2, <3>0, <3>1, <3>2
  <2>4. CASE t \in Edges
    <3>1. Countdown[t] = edge[t] /\ Countdown'[t] = edge'[t]
      BY <1>c, <2>4 DEF CountdownIs
    <3>2. edge[t] \in Nat /\ batch <= edge[t]
      BY <1>1, <2>4 DEF IInv, TypeOK, NothingCrossed
    <3>3. edge[t] > n => edge'[t] = edge[t] - n
      BY <2>4 DEF GuestStep, Execute, Advance
    <3> QED BY <1>1, <3>1, <3>2, <3>3
  <2>5. CASE t \in Cores
    <3>1. Countdown[t] = spu[t] /\ Countdown'[t] = spu'[t]
      BY <1>c, <2>5 DEF CountdownIs
    <3>2. spu[t] \in Nat /\ (spu[t] = 0 \/ batch <= spu[t])
      BY <1>1, <2>5 DEF IInv, TypeOK, NothingCrossed
    <3>3. spu[t] > n => spu'[t] = spu[t] - n
      BY <2>5 DEF GuestStep, Execute, Advance, Elapse
    <3> QED BY <1>1, <3>1, <3>2, <3>3
  <2>6. CASE t \in Sifs
    <3>1. Countdown[t] = sif[t].left /\ Countdown'[t] = sif'[t].left
      BY <1>c, <2>6 DEF CountdownIs
    <3>2. sif[t] \in SifChannel /\ (sif[t].left = 0 \/ batch <= sif[t].left)
      BY <1>1, <2>6 DEF IInv, TypeOK, NothingCrossed
    <3>3. sif'[t] \in SifNext(s[t], Written(s, n, Sifs), n) /\ s[t].left = sif[t].left
      BY <1>2, <2>6 DEF GuestStep, Execute, Advance, SameSifs
    <3>4. s[t].left > n => sif'[t].left = s[t].left - n
      BY <2>6, <3>3, InFlight
    <3>5. sif[t].left \in Nat
      BY <3>2 DEF SifChannel
    <3> QED BY <1>1, <3>1, <3>2, <3>3, <3>4, <3>5
  <2> QED BY <2>1, <2>2, <2>3, <2>4, <2>5, <2>6 DEF Timers
<1>4. n \in 1..IopDivider
  BY <1>1
<1>5. Startable # {} => n = 1
  BY <1>1 DEF NothingCrossed
<1>6. /\ gif.left > n => gif'.latch = gif.latch
      /\ vif.left > n => vif'.latch = vif.latch /\ vif'.normal = vif.normal
  <2>1. gif.left > n => GifNext(g, n).latch = g.latch
    BY <1>1, <1>2, InFlight
  <2>0. PICK now : now = chain'
    OBVIOUS
  <2>2. vif.left > n => /\ VifNext(v, ch, now, n).latch = v.latch
                        /\ VifNext(v, ch, now, n).normal = v.normal
    BY <1>1, <1>2, InFlight
  <2> QED BY <1>2, <2>0, <2>1, <2>2, Zenon DEF SameVif
<1> DEFINE load == [t \in {"gif", "vif1"} |->
                      [chained |-> t = "vif1" /\ ~vif.normal,
                       range   |-> IF t = "gif" THEN gif.latch ELSE vif.latch]]
<1>7. \A t \in {"gif", "vif1"} : Countdown[t] > n => load'[t] = load[t]
  <2>1. Countdown["gif"] = gif.left /\ Countdown["vif1"] = vif.left
    BY <1>c DEF CountdownIs
  <2>2. load'["gif"] = [chained |-> FALSE, range |-> gif'.latch]
        /\ load["gif"] = [chained |-> FALSE, range |-> gif.latch]
    OBVIOUS
  <2>3. load'["vif1"] = [chained |-> ~vif'.normal, range |-> vif'.latch]
        /\ load["vif1"] = [chained |-> ~vif.normal, range |-> vif.latch]
    OBVIOUS
  <2> QED BY <1>6, <2>1, <2>2, <2>3
<1>8. GifPackets(g, n) = IF Countdown["gif"] # n THEN <<>>
                         ELSE <<[path |-> "gif", data |-> load["gif"].range]>>
  <2>1. load["gif"].range = gif.latch /\ Countdown["gif"] = gif.left
    BY <1>c DEF CountdownIs
  <2>2. Due(gif.left, n) <=> gif.left = n
    BY <1>1, DueOnTime
  <2> HIDE DEF load
  <2> QED BY <1>2, <2>1, <2>2 DEF GifPackets
<1>9. VifPackets(v, ch, n) =
        IF Countdown["vif1"] # n \/ (load["vif1"].chained /\ ch = Broken) THEN <<>>
        ELSE <<[path |-> "vif1",
                data |-> IF load["vif1"].chained THEN ch ELSE load["vif1"].range]>>
  <2>1. load["vif1"].range = vif.latch /\ Countdown["vif1"] = vif.left
    BY <1>c DEF CountdownIs
  <2>2. load["vif1"].chained <=> ~v.normal
    BY <1>2 DEF SameVif
  <2>3. Due(vif.left, n) <=> vif.left = n
    BY <1>1, DueOnTime
  <2> HIDE DEF load
  <2> QED BY <1>2, <2>1, <2>2, <2>3 DEF VifPackets, VifDelivers
<1>10. sink' \o gifq' \o vifq' = GifPackets(g, n) \o VifPackets(v, ch, n)
  <2>1. GifPackets(g, n) \in Seq(Packet) /\ VifPackets(v, ch, n) \in Seq(Packet)
    <3>1. n \in Nat
      OBVIOUS
    <3> QED BY <3>1, PacketsType
  <2> QED BY <1>2, <2>1
<1>11. chain' = ch \/ \E t \in EeBound : Countdown[t] = n
  <2>1. CASE Written(s, n, EeBound)
    <3>1. PICK t \in EeBound : Due(s[t].left, n)
      BY <2>1 DEF Written
    <3>2. t \in Sifs /\ Countdown[t] = sif[t].left /\ s[t].left = sif[t].left
      BY <1>2, <1>c, <3>1, ClockAssumption DEF CountdownIs, SameSifs
    <3>3. sif[t].left \in Nat /\ (sif[t].left = 0 \/ batch <= sif[t].left)
      BY <1>1, <3>2 DEF IInv, TypeOK, NothingCrossed, SifChannel
    <3> QED BY <1>1, <3>1, <3>2, <3>3, DueOnTime
  <2>2. CASE ~Written(s, n, EeBound)
    BY <2>2 DEF GuestStep, Execute, Advance
  <2> QED BY <2>1, <2>2
<1> QED BY <1>3, <1>4, <1>5, <1>7, <1>8, <1>9, <1>10, <1>11
        DEF Timeline!Elapse, Timeline!GifOut, Timeline!VifOut


(* Between batches the IOP acts and completed packets change hands: no       *)
(* countdown but an SPU2 core's moves.                                      *)
LEMMA EndBatchBetweenCycles == IInv /\ EndBatch => Timeline!OtherProcessors
<1> SUFFICES ASSUME IInv, EndBatch PROVE Timeline!OtherProcessors
  OBVIOUS
<1>c. CountdownIs /\ CountdownIs'
  BY CountdownOf, PTL
<1>1. /\ UNCHANGED <<iopPhase, edge, gif, vif, chain>>
      /\ sink' \o gifq' \o vifq' = sink \o gifq \o vifq
  <2>1. gifq \in Seq(Packet) /\ vifq \in Seq(Packet) /\ sink \in Seq(Packet)
    BY DEF IInv, TypeOK
  <2>2. sink' = sink \o gifq \o vifq /\ gifq' = <<>> /\ vifq' = <<>>
    BY DEF EndBatch, Service
  <2>3. sink \o gifq \o vifq \in Seq(Packet)
    BY <2>1
  <2> QED BY <2>2, <2>3 DEF EndBatch
<1>2. \A i \in Sifs : sif'[i].left = sif[i].left
  <2>1. \/ UNCHANGED sif
        \/ \E i \in Sifs, b \in BOOLEAN :
             sif' \in {[sif EXCEPT ![i].iop = b], [sif EXCEPT ![i].walk = b]}
    BY Zenon DEF EndBatch, ScheduleIop, IopStep
  <2>2. CASE UNCHANGED sif
    BY <2>2
  <2>3. CASE \E i \in Sifs, b \in BOOLEAN :
               sif' \in {[sif EXCEPT ![i].iop = b], [sif EXCEPT ![i].walk = b]}
    <3>1. PICK i \in Sifs, b \in BOOLEAN :
            sif' = [sif EXCEPT ![i].iop = b] \/ sif' = [sif EXCEPT ![i].walk = b]
      BY <2>3, Zenon
    <3>2. SameSifs([sif EXCEPT ![i].iop = b]) /\ SameSifs([sif EXCEPT ![i].walk = b])
      BY WritesType
    <3> QED BY <3>1, <3>2 DEF SameSifs
  <2> QED BY <2>1, <2>2, <2>3
<1>3. ASSUME NEW t \in Timers \ Cores PROVE Countdown'[t] = Countdown[t]
  <2>1. CASE t \in {"iop", "gif", "vif1"} \cup Edges
    BY <1>c, <1>1, <2>1 DEF CountdownIs
  <2>2. CASE t \in Sifs
    BY <1>c, <1>2, <2>2 DEF CountdownIs
  <2> QED BY <2>1, <2>2 DEF Timers
<1> QED BY <1>1, <1>3 DEF Timeline!OtherProcessors

(* Memory::clear puts every countdown where the timeline starts.            *)
PoweredOn ==
  /\ iopPhase = 0 /\ edge = [e \in Edges |-> EdgeStart]
  /\ spu = [c \in Cores |-> 0] /\ sif = [i \in Sifs |-> SifOff]
  /\ gif = GifOff /\ vif = VifOff
  /\ gifq = <<>> /\ vifq = <<>> /\ sink = <<>>

LEMMA PoweredOnIsInit == PoweredOn => Timeline!Init
<1> SUFFICES ASSUME PoweredOn PROVE Timeline!Init
  OBVIOUS
<1>0. IopDivider \in Nat
  BY ClockAssumption
<1>1. Startable = {}
  BY DEF PoweredOn, Startable, GifStarted, VifStarted, GifArmed, VifArmed, SifArmed,
         GifOff, VifOff, SifOff
<1>2. sink \o gifq \o vifq = <<>>
  BY DEF PoweredOn
<1> DEFINE start == [t \in Timers |-> IF t = "iop" THEN IopDivider
                                      ELSE IF t \in Edges THEN EdgeStart ELSE 0]
<1>3. ASSUME NEW t \in Timers PROVE Countdown[t] = start[t]
  <2>1. CASE t = "iop"
    BY <1>0, <2>1, CountdownOf DEF PoweredOn, CountdownIs
  <2>2. CASE t \in {"gif", "vif1"}
    <3>1. t # "iop" /\ t \notin Edges
      BY <2>2, NameAssumption
    <3> QED BY <2>2, <3>1, CountdownOf DEF PoweredOn, CountdownIs, GifOff, VifOff
  <2>3. CASE t \in Edges
    <3>1. t # "iop"
      BY <2>3, NameAssumption
    <3> QED BY <2>3, <3>1, CountdownOf DEF PoweredOn, CountdownIs
  <2>4. CASE t \in Cores \cup Sifs
    <3>1. t # "iop" /\ t \notin Edges
      BY <2>4, NameAssumption
    <3> QED BY <2>4, <3>1, CountdownOf DEF PoweredOn, CountdownIs, SifOff
  <2> QED BY <2>1, <2>2, <2>3, <2>4 DEF Timers
<1>4. Countdown = start
  <2>1. Countdown = [t \in Timers |-> Countdown[t]]
    BY DEF Countdown
  <2> QED BY <1>3, <2>1
<1> QED BY <1>1, <1>2, <1>4 DEF Timeline!Init

(* Every step of the scheduler is a step of the exact timeline or stutters.  *)
LEMMA StepRefines ==
  IInv /\ NothingCrossed /\ [Next]_vars =>
    [Timeline!Next]_<<Countdown, Startable,
                      [t \in {"gif", "vif1"} |->
                         [chained |-> t = "vif1" /\ ~vif.normal,
                          range   |-> IF t = "gif" THEN gif.latch ELSE vif.latch]],
                      chain, sink \o gifq \o vifq>>
<1> DEFINE abstract == <<Countdown, Startable,
                      [t \in {"gif", "vif1"} |->
                         [chained |-> t = "vif1" /\ ~vif.normal,
                          range   |-> IF t = "gif" THEN gif.latch ELSE vif.latch]],
                      chain, sink \o gifq \o vifq>>
<1> SUFFICES ASSUME IInv, NothingCrossed, [Next]_vars
             PROVE  Timeline!Next \/ UNCHANGED abstract
  BY Zenon
<1>1. CASE Guest
  <2>1. PICK n \in Nat \ {0}, g \in GifChannel, v \in VifChannel, s \in [Sifs -> SifChannel],
             ch \in Chains \cup {Broken} : GuestStep(n, g, v, s, ch)
    BY <1>1, GuestSteps
  <2>2. n \in 1..IopDivider /\ Timeline!Elapse(n)
    BY <2>1, GuestElapses
  <2> QED BY <2>2, Zenon DEF Timeline!Next
<1>2. CASE EndBatch
  BY <1>2, EndBatchBetweenCycles, Zenon DEF Timeline!Next
<1>3. CASE Boot
  <2>1. PoweredOn'
    BY <1>3 DEF Boot, PoweredOn
  <2>2. Timeline!Init'
    BY <2>1, PoweredOnIsInit, PTL
  <2>3. Timeline!PowerOn
    BY <2>2 DEF Timeline!Init, Timeline!PowerOn
  <2> QED BY <2>3, Zenon DEF Timeline!Next
<1>4. CASE RunSlice
  <2>1. UNCHANGED <<timers, gif, vif, chain>>
    BY <1>4 DEF RunSlice
  <2>2. gifq \in Seq(Packet) /\ vifq \in Seq(Packet) /\ sink \in Seq(Packet)
    BY DEF IInv, TypeOK
  <2>3. sink' = sink \o gifq \o vifq /\ gifq' = <<>> /\ vifq' = <<>>
    BY <1>4 DEF RunSlice, Service
  <2>4. sink \o gifq \o vifq \in Seq(Packet)
    BY <2>2
  <2>5. sink' \o gifq' \o vifq' = sink \o gifq \o vifq
    BY <2>3, <2>4
  <2> QED BY <2>1, <2>5 DEF Countdown, Left, Startable, timers
<1>5. CASE StopBefore \/ Reset \/ UNCHANGED vars
  <2>1. UNCHANGED <<timers, gif, vif, chain, gifq, vifq, sink>>
    BY <1>5 DEF StopBefore, Reset, vars, dma
  <2>2. sink' \o gifq' \o vifq' = sink \o gifq \o vifq
    BY <2>1
  <2> QED BY <2>1, <2>2 DEF Countdown, Left, Startable, timers
<1> QED BY <1>1, <1>2, <1>3, <1>4, <1>5 DEF Next

(* run_slice implements the exact timeline of docs/EVENT_HORIZON.md: however *)
(* long its batches and zero-fill chunks are, no event is crossed, transfers *)
(* deliver what they were started with, and packets arrive in order.        *)
THEOREM TimelineTheorem == Spec => KeepsTimeline
<1>1. Init => Timeline!Init
  BY PoweredOnIsInit DEF Init, PoweredOn
<1>2. Init => NothingCrossed
  BY DEF Init, NothingCrossed
<1> QED BY <1>1, <1>2, Inductive, StepCrossesNothing, StepRefines, PTL
        DEF Spec, KeepsTimeline, Timeline!Spec

===============================================================================
