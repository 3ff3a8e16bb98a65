------------------------------- MODULE VifChain -------------------------------
(***************************************************************************)
(* build_vif1_chain: the tags of a DMA chain, walked one by one from VIF1's *)
(* TADR, with the data they transfer, calls two deep, and the registers the *)
(* channel is left with, from which the guest starts it again.              *)
(*                                                                         *)
(* Addresses and sizes count doublewords: a tag is two of them, the second  *)
(* of which TTE transfers too, and a quadword of data two.  An address is   *)
(* in RAM, or in the scratchpad, where it may grow past the bank and wraps  *)
(* when it is used.  The guest leaves the tags alone while the channel runs *)
(* (SliceScheduler is about the other case).                                *)
(***************************************************************************)
EXTENDS Integers, Sequences, SequencesExt, FiniteSetsExt

CONSTANTS
  Ram, Spr,   \* doublewords of RAM and of the scratchpad
  MaxTags,    \* 256
  MaxCalls,   \* 2
  Chains,     \* [tags, start, tte, tie]: tags in RAM or scratchpad by cell, D1_TADR, D1_CHCR
  MaxPath     \* bound of TLC: tags of all transfers together

Cell == ({"ram"} \X (0..(Ram - 1))) \cup ({"spr"} \X (0..(Spr - 1)))
Address == [bank : {"ram", "spr"}, at : Nat]
Tag == [id : {"refe", "cnt", "next", "ref", "refs", "call", "ret", "end"}, qwc : Nat,
        addr : Address, irq : BOOLEAN]

(* What the constants must be.                                              *)
ChainAssumption ==
  /\ Ram \in Nat \ {0} /\ Spr \in Nat \ {0} /\ MaxTags \in Nat /\ MaxCalls \in Nat
  /\ \A c \in Chains : /\ \A a \in DOMAIN c.tags : a \in Cell /\ c.tags[a] \in Tag
                       /\ c.start \in Address /\ c.tte \in BOOLEAN /\ c.tie \in BOOLEAN

VARIABLES
  chain,      \* of this behaviour
  tadr,       \* D1_TADR
  outcome,    \* of the latest transfer: "none", "done", "failed"; "walk" during one
  walk,       \* build_vif1_chain: tadr, stack, count, qwc, packet, spans; the tags so far
  path,       \* history: the tags of all completed transfers, each with its place
  delivered   \* history: the cells they have transferred

vars == <<chain, tadr, outcome, walk, path, delivered>>

-----------------------------------------------------------------------------
Zeros == [id |-> "refe", qwc |-> 0, addr |-> [bank |-> "ram", at |-> 0], irq |-> FALSE]
Plus(a, n) == [a EXCEPT !.at = @ + n]

(* dma_source_valid, dma_source_read8                                       *)
SourceValid(a, n) == a.bank = "spr" \/ a.at + n <= Ram
CellOf(a) == <<a.bank, IF a.bank = "spr" THEN a.at % Spr ELSE a.at>>
TagAt(a) == IF CellOf(a) \in DOMAIN chain.tags THEN chain.tags[CellOf(a)] ELSE Zeros

Inline(t) == t.id \in {"cnt", "next", "call", "ret", "end"}
Source(t, a) == IF Inline(t) THEN Plus(a, 2) ELSE t.addr

(* append: n doublewords from a; the bytes, and the spans of memory they are *)
(* of, which end with the scratchpad.  The mutant's spans do not.           *)
Bytes(a, n) == [i \in 1..n |-> CellOf(Plus(a, i - 1))]
ChunkUnwrapped(a, left) == left
Chunk(a, left) == IF a.bank = "spr" THEN Min({left, Spr - (a.at % Spr)}) ELSE left
Spans(a, n, offset) ==
  LET from[o \in 0..n] ==
        IF o = n THEN <<>>
        ELSE LET size == Chunk(Plus(a, o), n - o)
             IN  <<[cell |-> CellOf(Plus(a, o)), offset |-> offset + o, size |-> size]>>
                 \o from[o + size]
  IN  from[0]

Append2(w, a, n) == [w EXCEPT !.packet = @ \o Bytes(a, n),
                              !.spans  = @ \o Spans(a, n, Len(w.packet))]

(* What a tag adds to the transfer.                                         *)
Taken(t) ==
  LET a == walk.tadr
      w == IF chain.tte THEN Append2(walk, Plus(a, 1), 1) ELSE walk
  IN  [Append2(w, Source(t, a), 2 * t.qwc) EXCEPT
         !.qwc = @ + t.qwc, !.count = @ + 1, !.tags = Append(@, [tag |-> t, at |-> a])]

Ends(t) == t.id \in {"refe", "end"} \/ (t.irq /\ chain.tie)
Behind(t) == Plus(Source(t, walk.tadr), 2 * t.qwc)

Readable == /\ walk.count < MaxTags
            /\ SourceValid(walk.tadr, 2)
            /\ SourceValid(Source(TagAt(walk.tadr), walk.tadr), 2 * TagAt(walk.tadr).qwc)

-----------------------------------------------------------------------------
(* A kick of the channel.                                                   *)
Start ==
  /\ outcome # "walk" /\ outcome' = "walk"
  /\ walk' = [tadr |-> tadr, stack |-> <<>>, count |-> 0, qwc |-> 0, packet |-> <<>>, spans |-> <<>>,
              tags |-> <<>>]
  /\ UNCHANGED <<chain, tadr, path, delivered>>

(* Tags after which the walk goes on.                                       *)
GoesOn(ids) ==
  /\ outcome = "walk" /\ Readable
  /\ TagAt(walk.tadr).id \in ids /\ ~Ends(TagAt(walk.tadr))
  /\ UNCHANGED <<chain, tadr, outcome, path, delivered>>

Sequential ==
  /\ GoesOn({"cnt", "ref", "refs"})
  /\ LET t == TagAt(walk.tadr)
     IN  walk' = [Taken(t) EXCEPT !.tadr = IF t.id = "cnt" THEN Behind(t) ELSE Plus(@, 2)]

NextTag ==
  /\ GoesOn({"next"})
  /\ LET t == TagAt(walk.tadr) IN walk' = [Taken(t) EXCEPT !.tadr = t.addr]

Call ==
  /\ GoesOn({"call"}) /\ Len(walk.stack) < MaxCalls
  /\ LET t == TagAt(walk.tadr)
     IN  walk' = [Taken(t) EXCEPT !.tadr = t.addr, !.stack = Append(@, Behind(t))]

Return ==
  /\ GoesOn({"ret"}) /\ walk.stack # <<>>
  /\ walk' = [Taken(TagAt(walk.tadr)) EXCEPT !.tadr = Last(walk.stack), !.stack = Front(@)]

(* The last tag.  TADR is left behind the data that follow the tag, or      *)
(* behind the tag itself; the mutant leaves it behind the data always.      *)
FinalBehindData(t) == Behind(t)
Final(t) == IF Inline(t) THEN Behind(t) ELSE Plus(walk.tadr, 2)
Complete ==
  /\ outcome = "walk" /\ Readable /\ Ends(TagAt(walk.tadr))
  /\ LET t == TagAt(walk.tadr)
     IN  /\ walk' = Taken(t) /\ tadr' = Final(t)
         /\ path' = path \o walk'.tags /\ delivered' = delivered \o walk'.packet
  /\ Len(path') <= MaxPath
  /\ outcome' = "done"
  /\ UNCHANGED chain

(* Memory that cannot be read, too many tags or calls, or a return from     *)
(* none: nothing is transferred and the channel stays as it is.             *)
Fail ==
  /\ outcome = "walk"
  /\ \/ ~Readable
     \/ /\ ~Ends(TagAt(walk.tadr))
        /\ \/ TagAt(walk.tadr).id = "call" /\ Len(walk.stack) = MaxCalls
           \/ TagAt(walk.tadr).id = "ret" /\ walk.stack = <<>>
  /\ outcome' = "failed"
  /\ UNCHANGED <<chain, tadr, walk, path, delivered>>

Init ==
  /\ chain \in Chains /\ tadr = chain.start /\ outcome = "none"
  /\ walk = [tadr |-> tadr, stack |-> <<>>, count |-> 0, qwc |-> 0, packet |-> <<>>, spans |-> <<>>,
             tags |-> <<>>]
  /\ path = <<>> /\ delivered = <<>>

Next == Start \/ Sequential \/ NextTag \/ Call \/ Return \/ Complete \/ Fail

Spec == Init /\ [][Next]_vars

-----------------------------------------------------------------------------
(* Properties                                                               *)

(* The spans say of every byte of the packet where it was read.             *)
SpansExact ==
  LET s == walk.spans
      cells(i) == [k \in 1..s[i].size |-> <<s[i].cell[1], s[i].cell[2] + k - 1>>]
  IN  /\ FlattenSeq([i \in DOMAIN s |-> cells(i)]) = walk.packet
      /\ \A i \in DOMAIN s : s[i].offset = (IF i = 1 THEN 0 ELSE s[i - 1].offset + s[i - 1].size)
      /\ Len(walk.packet) = 2 * walk.qwc + (IF chain.tte THEN walk.count ELSE 0)

Data(i) == LET t == path[i].tag
               a == Source(t, path[i].at)
           IN  (IF chain.tte THEN Bytes(Plus(path[i].at, 1), 1) ELSE <<>>) \o Bytes(a, 2 * t.qwc)
After(i) == Plus(Source(path[i].tag, path[i].at), 2 * path[i].tag.qwc)

(* The call that a return is from: the latest with as many returns as calls *)
(* since.                                                                   *)
Among(i, j, id) == Cardinality({k \in (i + 1)..(j - 1) : path[k].tag.id = id})
Caller(j) == Max({i \in 1..(j - 1) : path[i].tag.id = "call" /\ Among(i, j, "call") = Among(i, j, "ret")})

(* The place of a tag, by the tag before it, of the same transfer or of the *)
(* one that ended there.                                                    *)
Place(i) ==
  LET id == path[i].tag.id
  IN  CASE id \in {"cnt", "end"} -> After(i)
        [] id \in {"ref", "refs", "refe"} -> Plus(path[i].at, 2)
        [] id \in {"next", "call"} -> path[i].tag.addr
        [] id = "ret" -> After(Caller(i))

(* Transfers, each started where the one before left TADR, are one stream:  *)
(* an END in it is a CNT, a REFE a REF, and an interrupt does not matter,   *)
(* except that a NEXT, CALL or RET that ends a transfer has not been        *)
(* followed.                                                                *)
Continues ==
  /\ \A i \in 1..(Len(path) - 1) :
       path[i + 1].at = Place(i)
       \/ (path[i].tag.id \in {"next", "call", "ret"} /\ Ends(path[i].tag) /\ path[i + 1].at = After(i))
  /\ delivered = FlattenSeq([i \in DOMAIN path |-> Data(i)])

ChainExact == SpansExact /\ Continues
===============================================================================
