------------------------------ MODULE SifCommand -------------------------------
(***************************************************************************)
(* SIF1, the DMA channel from EE to IOP memory, as Memory::advance runs it. *)
(* The EE driver lays out a list of REF tags, the last one REFE.  A message *)
(* starts with a header (IOP address, word count) in the payload of a tag   *)
(* and may continue through the payloads of the tags after it.  When both   *)
(* sides are started, advance walks the tags to the first end (REFE, or an  *)
(* IRQ tag with TIE) and charges for them; at the deadline it walks them    *)
(* again, copying, to the first end that is also the end of a message, and  *)
(* retires both sides.                                                      *)
(*                                                                         *)
(* Abstracted: payloads and headers (each tag says if a message ends in     *)
(* it) and the cycles charged for words.  A slot is a tag together with the *)
(* zero-length NEXT tag that may lead to it from the end of a packet before.*)
(* Slots are not reused.  The EE's driver starts a list only when the last  *)
(* one was sent, and a list ends with a message.  SBUS F240 is left out as  *)
(* in SifReply.                                                             *)
(***************************************************************************)
EXTENDS Integers, FiniteSets

CONSTANTS
  Messages,   \* bound on the tags sent
  MaxWalk,    \* tags one walk looks at (64 in the code)
  Durations   \* cycles a burst may be charged

ASSUME CommandAssumption ==
  Messages \in Nat /\ MaxWalk \in Nat \ {0} /\ Durations \subseteq Nat \ {0}

VARIABLES
  tags,       \* per slot: does a NEXT tag lead to it, is it REFE, does it carry the
              \* IRQ bit, does a message end in it, what can be reached through the
              \* EE's TLB and in IOP RAM
  sent,       \* slots filled so far
  tadr,       \* D6_TADR
  ee, iop,    \* STR of the EE's D6 and of the IOP's channel 10 (SIF1)
  tie,        \* D6_CHCR.TIE
  left,       \* sif1_cycles_remaining_
  eeIrq, iopIrq, \* the channel's bit in D_STAT and in DICR2 (and I_STAT)
  copies,     \* history: how often each slot was written to IOP RAM (at most 2)
  failed,     \* history: some completion walk found no end
  charged     \* history: what the running burst was charged for, [last, tie]

chain   == <<tags, sent, tadr>>
effects == <<copies, failed, eeIrq, iopIrq>>
vars    == <<chain, ee, iop, tie, left, charged, effects>>

Slots == 1..Messages
Reach == {"all", "tag", "none"}   \* everything, the tag but not its payload, nothing
Tag   == [jump : BOOLEAN, last : BOOLEAN, irq : BOOLEAN, msgEnd : BOOLEAN, reach : Reach]

-----------------------------------------------------------------------------
(* Memory::advance                                                          *)

Ends(k) == tags[k].last \/ (tags[k].irq /\ tie)

(* The tags a walk has looked at when it reaches slot k: jumps count.       *)
Steps(k) == (k - tadr) + 1 + Cardinality({j \in tadr..k : tags[j].jump})

(* The walk at the start counts quadwords and ends at the first end.        *)
PredictedOneShort ==
  {k \in tadr..sent : /\ Steps(k) < MaxWalk /\ Ends(k)
                      /\ \A j \in tadr..k : tags[j].reach # "none" /\ (j # k => ~Ends(j))}
Predicted ==
  {k \in tadr..sent : /\ Steps(k) <= MaxWalk /\ Ends(k)
                      /\ \A j \in tadr..k : tags[j].reach # "none" /\ (j # k => ~Ends(j))}

(* The walk at completion goes on while a message is unfinished; mutants:   *)
(* it does not, it knows no TIE.                                            *)
DoneAtEnd(k) == Ends(k)
DoneAtRefe(k) == tags[k].last /\ tags[k].msgEnd
Done(k) == Ends(k) /\ tags[k].msgEnd

Copied ==
  {k \in tadr..sent : /\ Steps(k) <= MaxWalk
                      /\ \A j \in tadr..k : tags[j].reach = "all" /\ (j # k => ~Done(j))}

Copy == copies' = [k \in Slots |-> IF k \in Copied /\ copies[k] < 2
                                   THEN copies[k] + 1 ELSE copies[k]]

Start ==
  \E k \in Predicted : /\ ee /\ iop
                       /\ left' \in Durations
                       /\ charged' = [last |-> k, tie |-> tie]

Begin == left = 0 /\ Start /\ UNCHANGED <<chain, ee, iop, tie, effects>>

Elapse == left > 1 /\ left' = left - 1 /\ UNCHANGED <<chain, ee, iop, tie, charged, effects>>

(* Where TADR goes after tag k; mutants: it stays, it skips a tag.          *)
TadrKept(k) == tadr
TadrSkips(k) == k + 2
NextTadr(k) == k + 1

Complete ==
  /\ left = 1 /\ left' = 0
  /\ \E k \in Copied : Done(k) /\ tadr' = NextTadr(k)
  /\ ee' = FALSE /\ eeIrq' = TRUE /\ iop' = FALSE /\ iopIrq' = TRUE
  /\ Copy
  /\ UNCHANGED <<tags, sent, tie, charged, failed>>

(* No end within reach: what was copied stays, nothing retires, and the     *)
(* same advance starts over if the first walk still finds an end.           *)
Fail ==
  /\ left = 1 /\ \A k \in Copied : ~Done(k)
  /\ failed' = TRUE
  /\ Copy
  /\ IF ee /\ iop /\ Predicted # {} THEN Start ELSE left' = 0 /\ UNCHANGED charged
  /\ UNCHANGED <<chain, ee, iop, tie, eeIrq, iopIrq>>

Tick == Begin \/ Elapse \/ Complete \/ Fail

-----------------------------------------------------------------------------
(* The drivers                                                              *)

(* The EE fills the next slots, sets TADR and starts its channel.  NEXT tags *)
(* join packets that were built separately (memory.cpp:1127).               *)
Send ==
  /\ ~ee /\ tadr = sent + 1 /\ ee' = TRUE
  /\ sent' \in (sent + 1)..Messages
  /\ \E jumps, irqs, ends \in SUBSET ((sent + 1)..sent'), reach \in [(sent + 1)..sent' -> Reach] :
       /\ sent' \in ends /\ \A k \in jumps : k - 1 \in ends
       /\ tags' = [k \in Slots |->
                    IF k \in (sent + 1)..sent'
                    THEN [jump |-> k \in jumps, last |-> k = sent', irq |-> k \in irqs,
                          msgEnd |-> k \in ends, reach |-> reach[k]]
                    ELSE tags[k]]
  /\ UNCHANGED <<tadr, iop, tie, left, charged, effects>>

(* The EE writes D6_CHCR: TIE, or STR to stop or restart a list under way.  *)
EeChcr ==
  /\ tie' \in BOOLEAN
  /\ ee' \in IF tadr <= sent THEN BOOLEAN ELSE {ee}
  /\ UNCHANGED <<chain, iop, left, charged, effects>>

(* The EE rewrites its TLB.                                                 *)
EeRemap ==
  /\ \E k \in tadr..sent, r \in Reach : tags' = [tags EXCEPT ![k].reach = r]
  /\ UNCHANGED <<sent, tadr, ee, iop, tie, left, charged, effects>>

(* The IOP's driver makes room for the next message.                        *)
IopArm == ~iop /\ iop' = TRUE /\ UNCHANGED <<chain, ee, tie, left, charged, effects>>

Acknowledge ==
  /\ eeIrq' \in {eeIrq, FALSE} /\ iopIrq' \in {iopIrq, FALSE}
  /\ UNCHANGED <<chain, ee, iop, tie, left, charged, copies, failed>>

Init ==
  /\ tags = [k \in Slots |-> [jump |-> FALSE, last |-> FALSE, irq |-> FALSE, msgEnd |-> FALSE, reach |-> "none"]]
  /\ sent = 0 /\ tadr = 1 /\ ee = FALSE /\ iop = FALSE /\ tie = FALSE
  /\ left = 0 /\ charged = [last |-> 0, tie |-> FALSE]
  /\ copies = [k \in Slots |-> 0] /\ failed = FALSE
  /\ eeIrq = FALSE /\ iopIrq = FALSE

Next == Tick \/ Send \/ EeChcr \/ EeRemap \/ IopArm \/ Acknowledge

(* Guest time passes: every instruction of the EE calls advance.            *)
Spec == Init /\ [][Next]_vars /\ WF_vars(Tick)

-----------------------------------------------------------------------------
(* Properties                                                               *)

(* Every variable keeps its type.                                           *)
TypeOK ==
  /\ tags \in [Slots -> Tag] /\ sent \in 0..Messages /\ tadr \in 1..(Messages + 1)
  /\ ee \in BOOLEAN /\ iop \in BOOLEAN /\ tie \in BOOLEAN
  /\ left \in Nat /\ charged \in [last : Nat, tie : BOOLEAN]
  /\ eeIrq \in BOOLEAN /\ iopIrq \in BOOLEAN
  /\ copies \in [Slots -> 0..2] /\ failed \in BOOLEAN

(* Every slot behind TADR is in IOP RAM; and as long as no walk failed      *)
(* midway it was written exactly once and nothing ahead of TADR was written.*)
ExactlyOnce ==
  /\ \A k \in Slots : k < tadr /\ k <= sent => copies[k] >= 1
  /\ ~failed => \A k \in Slots : copies[k] = (IF k < tadr THEN 1 ELSE 0)

(* The IOP is told of a transfer only when its messages are complete, and   *)
(* whenever it is told, both channels are free and both processors know:    *)
(* no end (REFE, IRQ tag with TIE) of a complete message is walked past.    *)
WholeMessages ==
  [][(iop /\ ~iop') \/ (tadr' > tadr /\ sent' = sent) =>
       /\ tadr' > tadr /\ tags[tadr' - 1].msgEnd /\ Ends(tadr' - 1)
       /\ ~iop' /\ ~ee' /\ iopIrq' /\ eeIrq'
       /\ \A k \in tadr..(tadr' - 2) : ~(Ends(k) /\ tags[k].msgEnd)]_vars

(* docs/ARCHITECTURE.md: the scheduler "derives a completion deadline from  *)
(* the complete observed REF/REFE source chain, then copies its tagged      *)
(* payload": no tag is copied that the deadline was not computed from, as   *)
(* long as TIE stays what it was.                                           *)
DeadlineCoversPayload ==
  [][\A k \in Slots : copies'[k] # copies[k] /\ tie = charged.tie => k <= charged.last]_vars

(* The part of it that the code keeps: the end the first walk stopped at    *)
(* was the end of a message.                                                *)
NeverEarly ==
  [][\A k \in Slots :
       copies'[k] # copies[k] /\ tie = charged.tie /\ tags[charged.last].msgEnd
         => k <= charged.last]_vars

(* Two started sides whose memory can be reached do not wait forever, if a  *)
(* walk can see the end of the list.                                        *)
Served ==
  ee /\ iop /\ Steps(sent) <= MaxWalk
    ~> (~ee \/ ~iop \/ \E k \in tadr..sent : tags[k].reach # "all")

(* The channel is a FIFO of tags; the list is under way until all are sent. *)
Link == INSTANCE MessageLink WITH arrived <- tadr - 1, sending <- (tadr <= sent)
KeepsLink == Link!Spec
===============================================================================
