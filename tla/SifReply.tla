------------------------------- MODULE SifReply --------------------------------
(***************************************************************************)
(* SIF0, the DMA channel from IOP to EE memory, as Memory::advance runs it. *)
(* The IOP driver lays out a list of tags at TADR; each tag names a message *)
(* in IOP RAM, its place in EE memory, and may end the IOP's list or (with  *)
(* TIE) stop the EE's channel.  When both sides are started, advance walks  *)
(* the tags to the first end, charges for what it saw, and at the deadline  *)
(* walks them again, copies, and retires the sides that ended.              *)
(*                                                                         *)
(* Abstracted: message contents and addresses (a message is the number of   *)
(* its slot, and slots are not reused), and the cycles charged for words.   *)
(* The IOP driver fills a list only while its side is stopped, with CNT     *)
(* tags whose word counts fit; the EE may write its CHCR at any time.  The  *)
(* transfer bits of SBUS F240, set and cleared with a burst, are left out:  *)
(* no code of the emulator reads them, and the IOP's driver toggles them.   *)
(***************************************************************************)
EXTENDS Integers

CONSTANTS
  Messages,   \* bound on the messages sent
  MaxWalk,    \* tags one walk looks at (64 in the code)
  Durations   \* cycles a burst may be charged

ASSUME LinkAssumption ==
  Messages \in Nat /\ MaxWalk \in Nat \ {0} /\ Durations \subseteq Nat \ {0}

VARIABLES
  tags,       \* per slot: does it end the IOP's list, does it carry the EE's IRQ
              \* bit, can its addresses be reached (the EE side goes through the TLB)
  sent,       \* slots filled so far
  tadr,       \* the IOP channel's tag address
  iop, ee,    \* STR of the IOP's channel 10 (SIF0) and of the EE's D5
  tie,        \* D5_CHCR.TIE
  left,       \* sif0_cycles_remaining_
  iopIrq, eeIrq, \* the channel's bit in DICR2 (and I_STAT) and in D_STAT
  copies,     \* history: how often each message was written to EE memory (at most 2)
  failed,     \* history: some completion walk could not reach a tag's addresses
  charged     \* history: what the running burst was charged for, [last, tie]

link    == <<tags, sent, tadr, iop>>
burst   == <<left, charged>>
effects == <<copies, failed, iopIrq, eeIrq>>
vars    == <<link, ee, tie, burst, effects>>

Slots == 1..Messages
Tag   == [iopEnd : BOOLEAN, irq : BOOLEAN, reach : BOOLEAN]

-----------------------------------------------------------------------------
(* Memory::advance                                                          *)

EeEnds(k) == tags[k].irq /\ tie
Ends(k)   == tags[k].iopEnd \/ EeEnds(k)

(* The last tag of the burst the walk at the start sees, if it gets there.  *)
(* Mutants: an IRQ tag ends it whatever TIE says; a walk one tag short.     *)
PredictedWithoutTie ==
  {k \in tadr..sent : /\ k < tadr + MaxWalk /\ (tags[k].iopEnd \/ tags[k].irq)
                      /\ \A j \in tadr..(k - 1) : ~(tags[j].iopEnd \/ tags[j].irq)}
PredictedShort ==
  {k \in tadr..sent : /\ k < tadr + MaxWalk - 1 /\ Ends(k)
                      /\ \A j \in tadr..(k - 1) : ~Ends(j)}
Predicted ==
  {k \in tadr..sent : /\ k < tadr + MaxWalk /\ Ends(k)
                      /\ \A j \in tadr..(k - 1) : ~Ends(j)}

(* The tags the walk at completion copies.                                  *)
Copied ==
  {k \in tadr..sent : /\ k < tadr + MaxWalk
                      /\ \A j \in tadr..k : tags[j].reach /\ (j # k => ~Ends(j))}

Copy == copies' = [k \in Slots |-> IF k \in Copied /\ copies[k] < 2
                                   THEN copies[k] + 1 ELSE copies[k]]

Start ==
  \E k \in Predicted : /\ iop /\ ee
                       /\ left' \in Durations
                       /\ charged' = [last |-> k, tie |-> tie]

Begin == left = 0 /\ Start /\ UNCHANGED <<link, ee, tie, effects>>

Elapse == left > 1 /\ left' = left - 1 /\ UNCHANGED <<link, ee, tie, charged, effects>>

(* Where TADR goes after tag k; mutants: it stays, it skips a tag.          *)
TadrKept(k) == tadr
TadrSkips(k) == k + 2
NextTadr(k) == k + 1

(* Each side retires at its own end; the mutant retires both.               *)
RetireBoth(k) ==
  /\ ee' = FALSE /\ eeIrq' = TRUE /\ iop' = FALSE /\ iopIrq' = TRUE
Retire(k) ==
  /\ ee' = (ee /\ ~EeEnds(k)) /\ eeIrq' = (eeIrq \/ EeEnds(k))
  /\ iop' = (iop /\ ~tags[k].iopEnd) /\ iopIrq' = (iopIrq \/ tags[k].iopEnd)

Complete ==
  /\ left = 1 /\ left' = 0
  /\ \E k \in Copied : Ends(k) /\ tadr' = NextTadr(k) /\ Retire(k)
  /\ Copy
  /\ UNCHANGED <<tags, sent, tie, charged, failed>>

(* A tag whose addresses cannot be reached, or too long a list: what was    *)
(* copied stays, nothing retires, and the same advance starts over.         *)
Fail ==
  /\ left = 1 /\ \A k \in Copied : ~Ends(k)
  /\ failed' = TRUE
  /\ Copy
  /\ IF iop /\ ee /\ Predicted # {} THEN Start
     ELSE left' = 0 /\ UNCHANGED charged
  /\ UNCHANGED <<link, ee, tie, iopIrq, eeIrq>>

Tick == Begin \/ Elapse \/ Complete \/ Fail

-----------------------------------------------------------------------------
(* The drivers                                                              *)

(* The IOP fills the next slots, sets TADR and starts its channel.          *)
Send ==
  /\ ~iop /\ iop' = TRUE
  /\ sent' \in (sent + 1)..Messages
  /\ \E t \in [Slots -> Tag] :
       /\ \A k \in (sent + 1)..sent' : t[k].iopEnd = (k = sent')
       /\ tags' = [k \in Slots |-> IF k \in (sent + 1)..sent' THEN t[k] ELSE tags[k]]
  /\ tadr' = sent + 1
  /\ UNCHANGED <<ee, tie, burst, effects>>

(* The EE writes D5_CHCR, which neither cancels nor restarts a burst.       *)
EeChcr == ee' \in BOOLEAN /\ tie' \in BOOLEAN /\ UNCHANGED <<link, burst, effects>>

(* The EE rewrites its TLB, which valid() and write32 look through.         *)
EeRemap ==
  /\ \E k \in tadr..sent : tags' = [tags EXCEPT ![k].reach = ~@]
  /\ UNCHANGED <<sent, tadr, iop, ee, tie, burst, effects>>

Acknowledge ==
  /\ eeIrq' \in {eeIrq, FALSE} /\ iopIrq' \in {iopIrq, FALSE}
  /\ UNCHANGED <<link, ee, tie, burst, copies, failed>>

Init ==
  /\ tags = [k \in Slots |-> [iopEnd |-> FALSE, irq |-> FALSE, reach |-> FALSE]]
  /\ sent = 0 /\ tadr = 1 /\ iop = FALSE /\ ee = FALSE /\ tie = FALSE
  /\ left = 0 /\ charged = [last |-> 0, tie |-> FALSE]
  /\ copies = [k \in Slots |-> 0] /\ failed = FALSE
  /\ iopIrq = FALSE /\ eeIrq = FALSE

Next == Tick \/ Send \/ EeChcr \/ EeRemap \/ Acknowledge

(* Guest time passes: every instruction of the EE calls advance.            *)
Spec == Init /\ [][Next]_vars /\ WF_vars(Tick)

-----------------------------------------------------------------------------
(* Properties                                                               *)

(* Every variable keeps its type.                                           *)
TypeOK ==
  /\ tags \in [Slots -> Tag] /\ sent \in 0..Messages /\ tadr \in 1..(Messages + 1)
  /\ iop \in BOOLEAN /\ ee \in BOOLEAN /\ tie \in BOOLEAN
  /\ left \in Nat /\ charged \in [last : Nat, tie : BOOLEAN]
  /\ iopIrq \in BOOLEAN /\ eeIrq \in BOOLEAN
  /\ copies \in [Slots -> 0..2] /\ failed \in BOOLEAN

(* Every message behind TADR is in EE memory; and as long as no walk failed *)
(* midway it was written exactly once and nothing ahead of TADR was written,*)
(* although the two sides stop and restart at different tags.               *)
ExactlyOnce ==
  /\ \A k \in Slots : k < tadr /\ k <= sent => copies[k] >= 1
  /\ ~failed => \A k \in Slots : copies[k] = (IF k < tadr THEN 1 ELSE 0)

(* docs/ARCHITECTURE.md: the chains "terminate independently, so only the   *)
(* side whose end condition was reached retires and raises its interrupt";  *)
(* and no tag with an enabled IRQ goes by without stopping the EE's channel.*)
EndsIndependently ==
  [][tadr' > tadr /\ sent' = sent =>
       LET last == tadr' - 1
       IN /\ iop' = ~tags[last].iopEnd /\ (tags[last].iopEnd => iopIrq')
          /\ ee' = (ee /\ ~EeEnds(last)) /\ eeIrq' = (eeIrq \/ EeEnds(last))
          /\ \A k \in tadr..(last - 1) : ~Ends(k)]_vars

(* What becomes visible at a deadline is what the deadline was computed     *)
(* from, if TIE is as it was then.                                          *)
NeverEarly ==
  [][\A k \in Slots : copies'[k] # copies[k] /\ tie = charged.tie => k <= charged.last]_vars

(* Two started sides whose addresses can be reached do not wait forever, if *)
(* a walk can see the end of the list.                                      *)
Served ==
  iop /\ ee /\ sent < tadr + MaxWalk ~> (~iop \/ ~ee \/ \E k \in tadr..sent : ~tags[k].reach)

(* The channel is a FIFO of messages.                                       *)
Link == INSTANCE MessageLink WITH arrived <- tadr - 1, sending <- iop
KeepsLink == Link!Spec
===============================================================================
