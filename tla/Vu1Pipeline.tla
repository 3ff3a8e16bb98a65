------------------------------ MODULE Vu1Pipeline ------------------------------
(***************************************************************************)
(* The VU1 micro-mode interpreter: instruction pairs with their delay pair   *)
(* and E bit, stalls on VF registers, the DIV/Q pipeline, the four-cycle MAC *)
(* pipeline, the branch's view of the integer registers, and XGKICK, which   *)
(* reads VU memory one qword per two cycles while the program goes on.       *)
(*                                                                          *)
(* The microprogram is arbitrary: a fetch returns any pair of the run's      *)
(* menu.  Data is a version: what an instruction writes is the cycle it      *)
(* issued at.  A qword of VU memory also has the shape the transfer gives it *)
(* when it reads it as a GIF tag.  Abstracted: the four lanes of a register  *)
(* (one), arithmetic, and the diagnostic records.                            *)
(***************************************************************************)
EXTENDS Integers, Sequences, FiniteSetsExt

CONSTANTS
  Vf, Vi,     \* the registers the menus use
  PcSize,     \* pairs of micro memory
  QSize,      \* qwords of VU data memory
  Shapes,     \* [n : payload qwords, eop : BOOLEAN] of the tags in memory
  MaxTags,    \* tags of one XGKICK, kick_tag_index_
  Menus       \* [pairs : what microprograms are made of, tags : memory at first,
              \*  cycles, runs : bounds]

None == "none"
NoBranch == -1
Zero == 0                              \* the version every datum starts with

(* A pair: up reads fs and writes fd; low uses register or qword r; e is the *)
(* E bit.  Upper "add" writes flags, "max" does not; "imm" is the I bit, which *)
(* makes the lower word data.  Lower "vi" keeps the old value for branches,   *)
(* "xtop" (XTOP, BAL, ILWR) does not; "load" is LQ or MFIR.                   *)
Pair == [up : {"nop", "add", "max", "imm", "bad"}, fs : Vf \cup {None}, fd : Vf \cup {None},
         low : {"nop", "div", "waitq", "vi", "xtop", "branch", "jump", "load", "store",
                "kick", "fmand", "bad"},
         r : Vf \cup Vi \cup {None}, a : 0..(QSize - 1), e : BOOLEAN]

(* The lower words name a register of the kind they use.                     *)
WellFormed(p) == /\ p.low \in {"div", "load", "store"} => p.r \in Vf
                 /\ p.low \in {"vi", "xtop", "branch", "fmand"} => p.r \in Vi

ASSUME SizeAssumption ==
  /\ PcSize \in Nat \ {0} /\ QSize \in Nat \ {0} /\ MaxTags \in Nat \ {0}
  /\ Shapes \subseteq [n : Nat, eop : BOOLEAN]
  /\ None \notin Vf \cup Vi
  /\ \A m \in Menus : /\ m.pairs \subseteq Pair /\ m.tags \in [0..(QSize - 1) -> Shapes]
                      /\ m.cycles \in Nat /\ m.runs \in Nat
                      /\ \A p \in m.pairs : WellFormed(p)

VARIABLES
  vu,         \* Vu1's state
  inRun,      \* inside Vu1::run
  menu,
  past        \* history: what the properties need to know of earlier cycles

vars == <<vu, inRun, menu, past>>

Idle == [on |-> FALSE, addr |-> 0, due |-> 0, tags |-> 0, left |-> 0, eop |-> FALSE, packet |-> <<>>]

-----------------------------------------------------------------------------
(* Time.  Every cycle pushes the MAC flags into a pipeline of four.          *)

(* Mutant: a stall is not seen by the flags.                                 *)
SpendUnseen(s, n) == [s EXCEPT !.cycles = @ + n,
                               !.pipe = IF n = 1 THEN Append(Tail(@), s.mac) ELSE @]

Spend(s, n) ==
  [s EXCEPT !.cycles = @ + n, !.pipe = [i \in 1..4 |-> IF i + n <= 4 THEN @[i + n] ELSE s.mac]]

WaitUntil(s, t) == Spend(s, IF s.cycles < t THEN t - s.cycles ELSE 0)

(* The VF registers a pair reads and the one each half writes.               *)
Lower(p) == IF p.up = "imm" THEN "imm" ELSE p.low
Reads(p) == (IF p.up \in {"add", "max"} THEN {p.fs} ELSE {})
              \cup (IF Lower(p) \in {"div", "store"} THEN {p.r} ELSE {})
UpperDest(p) == IF p.up \in {"add", "max"} THEN p.fd ELSE None
LowerDest(p) == IF Lower(p) = "load" THEN p.r ELSE None

VfStall(s, p) == WaitUntil(s, Max({s.ready[r] : r \in Reads(p) \ {None}} \cup {s.cycles}))

(* DIV and WAITQ wait for a division in progress; the mutant's DIV does not. *)
WaitqStall(s, p) == IF Lower(p) = "waitq" /\ s.qPending THEN WaitUntil(s, s.qReady) ELSE s
QStall(s, p) ==
  IF Lower(p) \in {"div", "waitq"} /\ s.qPending THEN WaitUntil(s, s.qReady) ELSE s

Quotient(s) == IF s.qPending /\ s.cycles >= s.qReady
                 THEN [s EXCEPT !.q = s.pendingQ, !.qPending = FALSE] ELSE s

-----------------------------------------------------------------------------
(* XGKICK                                                                    *)

(* transfer_path1 moves one qword: a tag when no packet is open, whose size  *)
(* may be more than memory holds, or payload.                                *)
Move(s) ==
  LET v == s.mem[s.kick.addr]
      starts == s.kick.packet = <<>>
      left == IF starts THEN v.n ELSE s.kick.left - 1
      eop == IF starts THEN v.eop ELSE s.kick.eop
      packet == Append(s.kick.packet, [val |-> v, addr |-> s.kick.addr, due |-> s.kick.due])
      moved == [s.kick EXCEPT !.addr = (@ + 1) % QSize, !.due = @ + 2, !.left = left, !.eop = eop]
  IN IF starts /\ (v.n >= QSize \/ s.kick.tags >= MaxTags)
       THEN [s EXCEPT !.kick.on = FALSE, !.rejected = @ + 1]
       ELSE IF left # 0 THEN [s EXCEPT !.kick = [moved EXCEPT !.packet = packet]]
       ELSE [s EXCEPT !.packets = Append(@, packet),
                      !.kick = [moved EXCEPT !.packet = <<>>, !.tags = @ + 1, !.on = ~eop]]

(* Whatever is due by now; a flush waits for all of it.  MaxMoves is more     *)
(* than the qwords of a kick's tags, so that nothing due is left.            *)
MaxMoves == (MaxTags + 1) * QSize
MoveDue(s, flush) ==
  IF ~s.kick.on THEN s
  ELSE IF flush THEN Move(WaitUntil(s, s.kick.due))
  ELSE IF s.cycles >= s.kick.due THEN Move(s) ELSE s
Transfer(s, flush) ==
  LET after[i \in 0..MaxMoves] == IF i = 0 THEN s ELSE MoveDue(after[i - 1], flush)
  IN  after[MaxMoves]

(* The mutant does not wait for the kick before it.                          *)
KickOver(s, a) ==
  [s EXCEPT !.kick = [Idle EXCEPT !.on = TRUE, !.addr = a, !.due = s.cycles + 2]]
Kick(s, a) ==
  LET f == Transfer(s, TRUE)
  IN [f EXCEPT !.kick = [Idle EXCEPT !.on = TRUE, !.addr = a, !.due = f.cycles + 2]]

-----------------------------------------------------------------------------
(* The two halves of a pair                                                  *)

Upper(s, p) ==
  IF p.up \notin {"add", "max"} THEN s
  ELSE [s EXCEPT !.mac = IF p.up = "add" THEN s.cycles ELSE @,
                 !.vf = IF p.fd = None THEN @ ELSE [@ EXCEPT ![p.fd] = s.cycles]]

(* backup_branch_vi: back-to-back writes keep the value before the first;    *)
(* the mutant keeps it after a stall too.                                    *)
BackupAlways(s, r) ==
  [reg |-> r, ready |-> s.cycles + 2, val |-> IF r # s.old.reg THEN s.vi[r] ELSE s.old.val]
Backup(s, r) ==
  [reg |-> r, ready |-> s.cycles + 2,
   val |-> IF r # s.old.reg \/ s.cycles >= s.old.ready THEN s.vi[r] ELSE s.old.val]

BranchVi(s, r) == IF r = s.old.reg /\ s.cycles < s.old.ready THEN s.old.val ELSE s.vi[r]

(* execute_lower; entry holds the VF registers from before the upper half,   *)
(* flags the MAC of four cycles ago.                                         *)
Integer(s, p, flags) ==
  CASE p.low = "vi" -> [s EXCEPT !.old = Backup(s, p.r), !.vi[p.r] = s.cycles]
    [] p.low = "xtop" -> [s EXCEPT !.vi[p.r] = s.cycles]
    [] p.low = "fmand" -> [s EXCEPT !.vi[p.r] = flags]

Memory(s, p, entry, shape) ==
  CASE p.low = "load" -> [s EXCEPT !.vf[p.r] = s.mem[p.a].ver]
    [] p.low = "store" -> [s EXCEPT !.mem[p.a] =
                             [ver |-> entry[p.r], n |-> shape.n, eop |-> shape.eop]]
    [] p.low = "kick" -> Kick(s, p.a)

Execute(s, p, entry, flags, shape, taken) ==
  CASE p.low \in {"nop", "waitq"} -> s
    [] p.low = "div" -> [s EXCEPT !.pendingQ = s.cycles, !.qReady = s.cycles + 7,
                                  !.qPending = TRUE]
    [] p.low \in {"branch", "jump"} -> [s EXCEPT !.branch = taken]
    [] p.low \in {"vi", "xtop", "fmand"} -> Integer(s, p, flags)
    [] p.low \in {"load", "store", "kick"} -> Memory(s, p, entry, shape)

(* When both halves write one VF register the lower half is dropped whole.   *)
LowerHalf(s, p, entry, flags, shape, taken) ==
  IF p.up = "imm" \/ (UpperDest(p) # None /\ UpperDest(p) = LowerDest(p)) THEN s
  ELSE Execute(s, p, entry, flags, shape, taken)

(* The E bit ends the program one pair later, when what is still under way   *)
(* has been waited for; the mutant leaves the transfer running.              *)
FinishEarly(s) ==
  LET d == IF s.qPending THEN WaitUntil(s, s.qReady) ELSE s
  IN [d EXCEPT !.q = IF d.qPending THEN d.pendingQ ELSE @, !.qPending = FALSE,
               !.running = FALSE, !.old.ready = 0]
Finish(s) ==
  LET d == IF s.qPending THEN WaitUntil(s, s.qReady) ELSE s
      f == [d EXCEPT !.q = IF d.qPending THEN d.pendingQ ELSE @, !.qPending = FALSE,
                     !.old.ready = 0]
  IN [Transfer(f, TRUE) EXCEPT !.running = FALSE]

(* The last part of step: results are ready four cycles on, the pair before  *)
(* decides where to go and whether to end; the mutant ends with the E pair.  *)
EndsNow(s, e) == e
EndsAfter(s, e) == s.endp
Retire(s, p, branch, ends) ==
  LET dests == {UpperDest(p), LowerDest(p)} \ {None}
      t == Spend([s EXCEPT !.ready = [r \in Vf |-> IF r \in dests THEN s.cycles + 4 ELSE @[r]],
                           !.pc = IF branch = NoBranch THEN (@ + 1) % PcSize ELSE branch], 1)
  IN IF ends THEN Finish(t) ELSE t

Step(s, p, shape, taken) ==
  LET w == Quotient(Transfer(QStall(VfStall(s, p), p), FALSE))
      u == Upper([w EXCEPT !.branch = NoBranch, !.endp = p.e], p)
      l == LowerHalf(u, p, w.vf, Head(w.pipe), shape, taken)
  IN Retire(l, p, s.branch, EndsAfter(s, p.e))

-----------------------------------------------------------------------------
(* History: MAC writes and divisions by issue cycle, the participating       *)
(* writes of each VI since the start, every store, the last two pairs.       *)

LatestBy(S, t) == Max({c \in S : c <= t})

(* What a set of cycles says of those from t on.                             *)
Since(S, t) == {c \in S : c >= t \/ \A d \in S : d <= c \/ d > t}

Issued(s, p) == QStall(VfStall(s, p), p).cycles

Remember(s, p, shape, taken) ==
  LET c == Issued(s, p)
      dropped == p.up = "imm" \/ (UpperDest(p) # None /\ UpperDest(p) = LowerDest(p))
      low == IF dropped THEN "nop" ELSE p.low
  IN [past EXCEPT
       !.macs = IF p.up = "add" THEN Since(@, c - 4) \cup {c} ELSE @,
       !.divs = IF low = "div" THEN Since(@, c - 7) \cup {c} ELSE @,
       !.vis = IF low = "vi" THEN @ \cup {[cycle |-> c, reg |-> p.r, before |-> s.vi[p.r]]} ELSE @,
       !.stores = IF low = "store"
                    THEN Append(@, [cycle |-> c, addr |-> p.a,
                           val |-> [ver |-> s.vf[p.r], n |-> shape.n, eop |-> shape.eop]]) ELSE @,
       !.kicks = IF low = "kick" THEN @ + 1 ELSE @,
       !.pairs = Append(IF Len(@) = 2 THEN Tail(@) ELSE @,
                        [pc |-> s.pc, taken |-> IF low \in {"branch", "jump"} THEN taken ELSE NoBranch,
                         e |-> p.e])]

-----------------------------------------------------------------------------
Init ==
  \E m \in Menus :
    LET mem == [a \in DOMAIN m.tags |-> [ver |-> Zero, n |-> m.tags[a].n, eop |-> m.tags[a].eop]]
    IN /\ menu = m
       /\ vu = [cycles |-> 1,   \* 0 is Zero, the version of what was there before
                pc |-> 0, running |-> FALSE, branch |-> NoBranch, endp |-> FALSE,
                vf |-> [r \in Vf |-> Zero], ready |-> [r \in Vf |-> 0],
                vi |-> [r \in Vi |-> Zero], old |-> [reg |-> None, val |-> Zero, ready |-> 0],
                q |-> Zero, pendingQ |-> Zero, qReady |-> 0, qPending |-> FALSE,
                mac |-> Zero, pipe |-> [i \in 1..4 |-> Zero], mem |-> mem,
                kick |-> Idle, packets |-> <<>>, rejected |-> 0]
       /\ past = [macs |-> {Zero}, divs |-> {Zero}, vis |-> {}, stores |-> <<>>, pairs |-> <<>>,
                  mem |-> mem, ended |-> FALSE, start |-> 1, mac |-> Zero,
                  runs |-> 0, kicks |-> 0]
       /\ inRun = FALSE

(* MSCAL and MSCNT: start sets the pair to go on at, resume keeps it; the     *)
(* packets of the run before have been popped.                               *)
Begin(pc) ==
  /\ ~inRun /\ past.runs < menu.runs /\ inRun' = TRUE
  /\ vu' = [vu EXCEPT !.pc = pc, !.running = TRUE, !.branch = NoBranch, !.endp = FALSE,
                      !.old.ready = 0, !.pipe = [i \in 1..4 |-> vu.mac], !.packets = <<>>]
  /\ past' = [past EXCEPT !.vis = {}, !.pairs = <<>>, !.ended = FALSE,
                       !.start = vu.cycles, !.mac = vu.mac, !.runs = @ + 1,
                       !.kicks = vu.rejected + (IF vu.kick.on THEN 1 ELSE 0)]
  /\ UNCHANGED menu
Start == \E pc \in 0..(PcSize - 1) : Begin(pc)
Resume == Begin(vu.pc)

(* Vu1::run executes the next pair.                                          *)
RunPair ==
  /\ inRun /\ vu.running /\ vu.cycles < menu.cycles
  /\ \E p \in menu.pairs :
       /\ p.up # "bad" /\ ~(p.up # "imm" /\ p.low = "bad")
       /\ \E shape \in IF p.low = "store" THEN Shapes ELSE {[n |-> 0, eop |-> FALSE]},
             taken \in CASE p.low = "branch" -> (IF BranchVi(VfStall(vu, p), p.r) = Zero
                                                   THEN {NoBranch} ELSE 0..(PcSize - 1))
                         [] p.low = "jump" -> 0..(PcSize - 1)
                         [] OTHER -> {NoBranch} :
            /\ vu' = Step(vu, p, shape, taken)
            /\ past' = [Remember(vu, p, shape, taken) EXCEPT !.ended = ~vu'.running]
  /\ inRun' = vu'.running
  /\ UNCHANGED menu

(* An instruction that is not implemented stops the program where it is, the *)
(* stalls of its pair and, when it is the lower one, the upper half done.    *)
Unsupported ==
  /\ inRun /\ vu.running /\ vu.cycles < menu.cycles
  /\ \E p \in menu.pairs :
       /\ p.up = "bad" \/ (p.up # "imm" /\ p.low = "bad")
       /\ LET w == [Quotient(Transfer(QStall(VfStall(vu, p), p), FALSE))
                      EXCEPT !.branch = NoBranch, !.endp = p.e]
          IN /\ vu' = [(IF p.up = "bad" THEN w ELSE Upper(w, p)) EXCEPT !.running = FALSE]
             /\ past' = IF p.up = "add"
                          THEN [past EXCEPT !.macs = @ \cup {w.cycles}] ELSE past
  /\ inRun' = FALSE
  /\ UNCHANGED menu

(* The pair budget of the run is spent.                                      *)
OutOfBudget ==
  /\ inRun /\ vu.running
  /\ inRun' = FALSE
  /\ UNCHANGED <<vu, menu, past>>

Next == Start \/ Resume \/ RunPair \/ Unsupported \/ OutOfBudget

Spec == Init /\ [][Next]_vars

-----------------------------------------------------------------------------
(* Properties                                                                *)

(* The quotient a pair would use is that of the latest division issued seven *)
(* cycles before or more, whatever stalls, divisions in a row, ends and      *)
(* restarts of the program came between: none is lost and none comes early.  *)
QuotientInTime ==
  Quotient(vu).q = Max({Zero} \cup {d \in past.divs : d + 7 <= vu.cycles})

(* FMAND sees the flags of the last arithmetic issued at least four cycles   *)
(* ago, or since the start; stalls count as cycles.                          *)
FlagsInTime ==
  Head(vu.pipe) = IF vu.cycles - 4 < past.start THEN past.mac
                  ELSE LatestBy(past.macs, vu.cycles - 4)

(* What the pipelines hold back arrives in its cycle.                        *)
ResultsInTime == QuotientInTime /\ FlagsInTime

(* A conditional branch sees a register as it was before the unbroken run of *)
(* writes to it that ends in the cycle just before: not the last value, nor  *)
(* one kept over a stall.                                                    *)
RunOf(r) == {w \in past.vis : w.reg = r /\ \A c \in w.cycle..(vu.cycles - 1) :
                                 \E x \in past.vis : x.reg = r /\ x.cycle = c}
BranchOperand ==
  inRun => \A r \in Vi :
    BranchVi(vu, r) = IF RunOf(r) = {} THEN vu.vi[r]
                      ELSE (CHOOSE w \in RunOf(r) : \A x \in RunOf(r) : w.cycle <= x.cycle).before

(* Memory as it was when the qword was due.                                  *)
StoredBefore(a, t) ==
  LET S == {i \in DOMAIN past.stores : past.stores[i].addr = a /\ past.stores[i].cycle < t}
  IN  IF S = {} THEN past.mem[a] ELSE past.stores[Max(S)].val

(* Every packet XGKICK hands on is whole and consecutive, two cycles per     *)
(* qword, and holds what the program had stored when each qword was due:     *)
(* nothing stored later, nothing older.  Every XGKICK goes on to a tag with  *)
(* EOP or one it rejects, also when another XGKICK comes, a stall or the end. *)
Consecutive(p) ==
  \A j \in 2..Len(p) : p[j].due = p[j - 1].due + 2 /\ p[j].addr = (p[j - 1].addr + 1) % QSize
AsStored(p) == \A j \in 1..Len(p) : p[j].val = StoredBefore(p[j].addr, p[j].due)
Kicked == vu.rejected + (IF vu.kick.on THEN 1 ELSE 0)
            + Cardinality({i \in 1..Len(vu.packets) : vu.packets[i][1].val.eop})
PacketsAsStored ==
  /\ past.kicks = Kicked
  /\ \A i \in 1..Len(vu.packets) :
       LET p == vu.packets[i]
       IN  Len(p) = 1 + p[1].val.n /\ Consecutive(p) /\ AsStored(p)

(* A taken branch goes to its target after exactly one more pair, the E bit  *)
(* ends the program after exactly one more, and a program that ended has     *)
(* nothing under way.                                                        *)
ControlFlow ==
  LET p == past.pairs
      n == Len(p)
      next == IF n >= 2 /\ p[n - 1].taken # NoBranch THEN p[n - 1].taken
              ELSE (p[n].pc + 1) % PcSize
  IN /\ n > 0 => vu.pc = next
     /\ n > 0 => past.ended = (n >= 2 /\ p[n - 1].e)
     /\ past.ended => ~vu.kick.on /\ ~vu.qPending
===============================================================================
