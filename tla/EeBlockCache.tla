----------------------------- MODULE EeBlockCache ------------------------------
(***************************************************************************)
(* EeBlockCache, the direct-mapped cache of decoded EE blocks, against the  *)
(* page generations Memory keeps for it.  A block is validated by comparing *)
(* the generation of its page at decode time with the one now.              *)
(*                                                                         *)
(* Abstracted: a page holds one value of Codes, all the decoder can see of  *)
(* it; generations stay below MaxGen and MaxMap (they are 32 bits wide in   *)
(* the code, and wrap).                                                     *)
(***************************************************************************)
EXTENDS Integers

CONSTANTS
  RamPages,   \* 4 KiB pages of EE RAM: 0..RamPages-1
  OtherPages, \* scratchpad and BIOS pages, which no store generation covers
  Nowhere,    \* a translation that reaches no memory
  Pages,      \* virtual pages
  Mapped,     \* those of them the TLB translates
  Reset,      \* their translation with an empty TLB
  Pcs,        \* block addresses
  PageOf, SlotOf, \* their page and slot
  Codes, Zeroed,  \* what a page holds; a cleared page
  Widths,     \* bytes of a store: 1, 2, 4, 8 or 16
  Xor(_, _),  \* the code's ^ on generations
  MaxGen, MaxMap

Frames  == 0..(RamPages - 1)
Backing == Frames \cup OtherPages
Gens    == 0..MaxGen
Maps    == 0..MaxMap

CacheAssumption ==
  /\ RamPages \in Nat /\ MaxGen \in Nat \ {0} /\ MaxMap \in Nat \ {0}
  /\ OtherPages \cap Nat = {} /\ Nowhere \notin Backing
  /\ Mapped \subseteq Pages
  /\ Reset \in [Pages -> Backing \cup {Nowhere}]
  /\ PageOf \in [Pcs -> Pages] /\ DOMAIN SlotOf = Pcs
  /\ Zeroed \in Codes /\ Widths \subseteq Nat \ {0}

(* x ^ m determines x.                                                      *)
XorAssumption ==
  \A a, b \in Gens, m \in Maps : Xor(a, m) = Xor(b, m) => a = b

VARIABLES
  code,     \* what each page holds
  gen,      \* ram_page_generation_
  trans,    \* tlb_, as the translation it makes
  mapGen,   \* mapping_generation_
  cache     \* slots_; history: the page ("from") and mapGen ("under") it was decoded with

memory == <<code, gen, trans, mapGen>>
vars   == <<memory, cache>>

Slots     == {SlotOf[pc] : pc \in Pcs}
EmptySlot == [valid |-> FALSE]
Stamps    == {Xor(p[1], p[2]) : p \in Gens \X Maps} \cup Maps
Block     == [valid : {TRUE}, pc : Pcs, generation : Stamps, code : Codes,
              from : Backing, under : Maps]

(* Memory::page_generation.                                                 *)
PageGeneration(p) == IF trans[p] \in Frames THEN Xor(gen[trans[p]], mapGen) ELSE mapGen

-----------------------------------------------------------------------------
(* Memory                                                                   *)

(* write8 to write128: every byte bumps the generation of a RAM page.  The   *)
(* mutant stores to RAM without a bump.                                     *)
StoreWithoutBump(p, w) ==
  /\ trans[p] \in Backing
  /\ \E c \in Codes : code' = [code EXCEPT ![trans[p]] = c]
  /\ UNCHANGED <<gen, trans, mapGen, cache>>
Store(p, w) ==
  /\ trans[p] \in Backing
  /\ \E c \in Codes : code' = [code EXCEPT ![trans[p]] = c]
  /\ gen' = [f \in Frames |-> IF f = trans[p] THEN gen[f] + w ELSE gen[f]]
  /\ \A f \in Frames : gen'[f] <= MaxGen
  /\ UNCHANGED <<trans, mapGen, cache>>

(* copy_in and zero: a physical range of RAM, which starts and ends         *)
(* anywhere in its first and last page; one bump for each page.  The mutant *)
(* bumps one page too many.                                                 *)
CopyInOneMore(first, last) ==
  /\ first <= last
  /\ \E c \in [first..last -> Codes] :
       code' = [b \in Backing |-> IF b \in first..last THEN c[b] ELSE code[b]]
  /\ gen' = [f \in Frames \cup {last + 1} |->
               (IF f \in Frames THEN gen[f] ELSE 0) + (IF f \in first..(last + 1) THEN 1 ELSE 0)]
  /\ \A f \in Frames : gen'[f] <= MaxGen
  /\ UNCHANGED <<trans, mapGen, cache>>
CopyIn(first, last) ==
  /\ first <= last
  /\ \E c \in [first..last -> Codes] :
       code' = [b \in Backing |-> IF b \in first..last THEN c[b] ELSE code[b]]
  /\ gen' = [f \in Frames |-> IF f \in first..last THEN gen[f] + 1 ELSE gen[f]]
  /\ \A f \in Frames : gen'[f] <= MaxGen
  /\ UNCHANGED <<trans, mapGen, cache>>

(* load_bios and the zeroing of the scratchpad, which have no generation.   *)
LoadOther ==
  /\ \E b \in OtherPages, c \in Codes : code' = [code EXCEPT ![b] = c]
  /\ UNCHANGED <<gen, trans, mapGen, cache>>

(* Memory::clear: RAM is zeroed, the TLB and its generation stay.           *)
Clear ==
  /\ \E c \in [OtherPages -> Codes] :
       code' = [b \in Backing |-> IF b \in Frames THEN Zeroed ELSE c[b]]
  /\ gen' = [f \in Frames |-> gen[f] + 1] /\ \A f \in Frames : gen'[f] <= MaxGen
  /\ UNCHANGED <<trans, mapGen, cache>>

(* write_tlb (TLBWI, TLBWR): an entry covers two pages or more.             *)
WriteTlb ==
  /\ mapGen < MaxMap /\ mapGen' = mapGen + 1
  /\ \E t \in [Mapped -> Backing \cup {Nowhere}] :
       trans' = [p \in Pages |-> IF p \in Mapped THEN t[p] ELSE trans[p]]
  /\ UNCHANGED <<code, gen, cache>>

ClearTlb ==
  /\ mapGen < MaxMap /\ mapGen' = mapGen + 1 /\ trans' = Reset
  /\ UNCHANGED <<code, gen, cache>>

-----------------------------------------------------------------------------
(* The cache                                                                *)

Hit(pc) ==
  LET slot == cache[SlotOf[pc]]
  IN slot.valid /\ slot.pc = pc /\ slot.generation = PageGeneration(PageOf[pc])

Decode(pc) ==
  IF trans[PageOf[pc]] = Nowhere THEN EmptySlot
  ELSE [valid |-> TRUE, pc |-> pc, generation |-> PageGeneration(PageOf[pc]),
        code |-> code[trans[PageOf[pc]]],
        from |-> trans[PageOf[pc]], under |-> mapGen]

Lookup(pc) ==
  /\ ~Hit(pc)
  /\ cache' = [cache EXCEPT ![SlotOf[pc]] = Decode(pc)]
  /\ UNCHANGED memory

ClearCache == cache' = [s \in Slots |-> EmptySlot] /\ UNCHANGED memory

Init ==
  /\ code \in [Backing -> {Zeroed}] /\ gen = [f \in Frames |-> 1]
  /\ trans = Reset /\ mapGen = 1
  /\ cache = [s \in Slots |-> EmptySlot]

Next ==
  \/ \E p \in Pages, w \in Widths : Store(p, w)
  \/ \E first, last \in Frames : CopyIn(first, last)
  \/ LoadOther \/ Clear \/ WriteTlb \/ ClearTlb \/ ClearCache
  \/ \E pc \in Pcs : Lookup(pc)

Spec == Init /\ [][Next]_vars

-----------------------------------------------------------------------------
(* Every variable keeps its type.                                           *)
TypeOK ==
  /\ code \in [Backing -> Codes] /\ gen \in [Frames -> Gens]
  /\ trans \in [Pages -> Backing \cup {Nowhere}] /\ mapGen \in Maps
  /\ cache \in [Slots -> Block \cup {EmptySlot}]

(* The block of a hit is what its page holds now.                           *)
Fresh(pc) == cache[SlotOf[pc]].code = code[trans[PageOf[pc]]]

(* docs/ARCHITECTURE.md: "Stores to executable EE RAM invalidate decoded/   *)
(* JIT blocks by guest page so self-modifying BIOS and game code cannot     *)
(* execute stale translations."                                             *)
StoresInvalidate ==
  \A pc \in Pcs :
    Hit(pc) /\ trans[PageOf[pc]] \in Frames /\ cache[SlotOf[pc]].from = trans[PageOf[pc]]
      => Fresh(pc)

(* The part of it that the code does guarantee: as long as no TLB entry has *)
(* been written since a block was decoded, no store, copy, clear or         *)
(* collision of two blocks in a slot leaves it stale.                       *)
UnmovedHitsAreFresh ==
  \A pc \in Pcs :
    Hit(pc) /\ trans[PageOf[pc]] \in Frames /\ cache[SlotOf[pc]].under = mapGen => Fresh(pc)
===============================================================================
