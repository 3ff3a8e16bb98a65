------------------------------- MODULE ElfImage -------------------------------
(***************************************************************************)
(* load_elf32 and what is around it: Emulator::load_elf clears the memory,   *)
(* the loader copies one PT_LOAD segment after the other through the address *)
(* map of the EE, and only a load that succeeds resets the CPU and with it   *)
(* the TLB.  A guest that ran before may have left translations.             *)
(*                                                                         *)
(* Memory is a row of cells, in pages of Page cells; a segment's contents    *)
(* are pairs of its number and the offset in it.  The header's checks are    *)
(* one flag, and so is whether a segment's bytes are within the file.        *)
(***************************************************************************)
EXTENDS Integers, Sequences, FiniteSetsExt

CONSTANTS
  RamSize,    \* 32 MiB
  Page,       \* 4 KiB
  Kseg,       \* 0x80000000, where physical memory is visible untranslated
  Images,     \* files
  Tlbs        \* translations of virtual pages the guest may set up

Segment == [load : BOOLEAN, inFile : BOOLEAN, filesz : Nat, memsz : Nat, vaddr : Nat]
Unmapped == [p \in 0..(Kseg \div Page) |-> p]

(* What the constants must be.                                              *)
ElfAssumption ==
  /\ RamSize \in Nat /\ Page \in Nat \ {0} /\ Kseg \in Nat /\ RamSize < Kseg
  /\ Images \subseteq [header : BOOLEAN, segments : Seq(Segment), entry : Nat]
  /\ \A t \in Tlbs : t \in [0..(Kseg \div Page) -> 0..(Kseg \div Page)]

VARIABLES
  step,       \* "segment" in load_elf, "done" after it until something else happens, "idle"
  image,      \* the file
  next,       \* i, the program header to process
  loaded,     \* result.segments
  ok,         \* image_.ok
  ready,      \* ready_
  ram,
  tlb,        \* physical page of each virtual page
  left        \* history: the translations the load began with

vars == <<step, image, next, loaded, ok, ready, ram, tlb, left>>

Cells == 0..(RamSize - 1)
Zero == <<0, 0>>
Other == <<0, 1>>   \* what the guest has written
Blank == [c \in Cells |-> Zero]

-----------------------------------------------------------------------------
(* Memory                                                                   *)

Physical(a, map) == IF a >= Kseg THEN a - Kseg ELSE (map[a \div Page] * Page) + (a % Page)

(* valid, copy_in, zero: the translation is that of the first byte.  Other  *)
(* regions are valid too, but copy_in and zero know RAM only.               *)
InRam(p, size) == p <= RamSize /\ size <= RamSize - p
Elsewhere(p, size) == RamSize + Page <= p /\ size <= Page
Valid(a, size) == LET p == Physical(a, tlb) IN InRam(p, size) \/ Elsewhere(p, size)

CopyIn(mem, i, s) ==
  LET p == Physical(s.vaddr, tlb)
  IN  [c \in Cells |-> IF c \in p..(p + s.filesz - 1) THEN <<i, c - p>> ELSE mem[c]]

(* The rest of a segment; the mutant trusts the memory to be clear.         *)
BssSkipped(mem, s) == mem
Bss(mem, s) ==
  LET p == Physical(s.vaddr + s.filesz, tlb)
  IN  [c \in Cells |-> IF c \in p..(p + s.memsz - s.filesz - 1) THEN Zero ELSE mem[c]]

-----------------------------------------------------------------------------
(* Emulator::load_elf                                                       *)

Fail == step' = "done" /\ ok' = FALSE /\ ready' = FALSE

Load ==
  /\ step # "segment"
  /\ image' \in Images
  /\ ram' = Blank /\ next' = 1 /\ loaded' = 0 /\ left' = tlb
  /\ IF image'.header THEN step' = "segment" /\ UNCHANGED <<ok, ready>> ELSE Fail
  /\ UNCHANGED tlb

(* An iteration of the loop.  An error leaves the segments before it.       *)
LoadSegment ==
  LET s == image.segments[next]
      start == Physical(s.vaddr, tlb)
      rest  == Physical(s.vaddr + s.filesz, tlb)
      placed == /\ s.filesz <= s.memsz /\ s.inFile
                /\ Valid(s.vaddr, s.memsz)
                /\ InRam(start, s.filesz)
      mapped == placed /\ InRam(rest, s.memsz - s.filesz)
  IN  /\ step = "segment" /\ next <= Len(image.segments)
      /\ IF ~s.load THEN next' = next + 1 /\ UNCHANGED <<step, loaded, ok, ready, ram>>
         ELSE IF mapped
         THEN /\ ram' = Bss(CopyIn(ram, next, s), s)
              /\ next' = next + 1 /\ loaded' = loaded + 1
              /\ UNCHANGED <<step, ok, ready>>
         ELSE /\ ram' = IF placed THEN CopyIn(ram, next, s) ELSE ram
              /\ Fail
              /\ UNCHANGED <<next, loaded>>
      /\ UNCHANGED <<image, tlb, left>>

FinishLoad ==
  /\ step = "segment" /\ next > Len(image.segments)
  /\ IF loaded # 0 /\ Valid(image.entry, 1)
     THEN step' = "done" /\ ok' = TRUE /\ ready' = TRUE /\ tlb' = Unmapped
     ELSE Fail /\ UNCHANGED tlb
  /\ UNCHANGED <<image, next, loaded, ram, left>>

NoImage == [header |-> FALSE, segments |-> <<>>, entry |-> 0]

(* Emulator::boot_bios                                                      *)
BootBios ==
  /\ step # "segment" /\ step' = "idle"
  /\ ok' = FALSE /\ ready' = TRUE
  /\ ram' = Blank /\ tlb' = Unmapped
  /\ UNCHANGED <<image, next, loaded, left>>

(* The guest writes memory and TLB.                                         *)
Run ==
  /\ step # "segment" /\ ready /\ step' = "idle"
  /\ ram' = [c \in Cells |-> Other] /\ tlb' \in Tlbs
  /\ UNCHANGED <<image, next, loaded, ok, ready, left>>

Init ==
  /\ step = "idle" /\ image = NoImage /\ next = 1 /\ loaded = 0
  /\ ok = FALSE /\ ready = FALSE
  /\ ram = Blank /\ tlb = Unmapped /\ left = Unmapped

Next == Load \/ LoadSegment \/ FinishLoad \/ BootBios \/ Run

Spec == Init /\ [][Next]_vars

-----------------------------------------------------------------------------
(* Properties                                                               *)

Loads == {i \in DOMAIN image.segments : image.segments[i].load}
First(s) == IF s.vaddr >= Kseg THEN s.vaddr - Kseg ELSE s.vaddr
Placed == /\ image.header /\ Loads # {}
          /\ \A i \in Loads : LET s == image.segments[i]
                              IN  s.inFile /\ s.filesz <= s.memsz /\ First(s) + s.memsz <= RamSize
Fits == /\ Placed
        /\ image.entry < RamSize \/ image.entry - Kseg \in Cells

(* A cell is the last segment's that covers it.                             *)
Covers(i, c) == c - First(image.segments[i]) \in 0..(image.segments[i].memsz - 1)
Expected(c) ==
  LET covering == {i \in Loads : Covers(i, c)}
      i == Max(covering)
      offset == c - First(image.segments[i])
  IN  IF covering # {} /\ offset < image.segments[i].filesz THEN <<i, offset>> ELSE Zero

Exact == ok /\ ready /\ \A c \in Cells : ram[c] = Expected(c)

(* On a machine without translations a load is all or nothing: a file whose *)
(* segments fit is in memory segment by segment, zeros behind each one's    *)
(* bytes and wherever no segment is, whatever ran before; any other file    *)
(* leaves nothing that can be run.                                          *)
LoadExact ==
  step = "done" =>
            /\ left = Unmapped /\ Fits => Exact
            /\ ok <=> ready
            /\ left = Unmapped /\ ok => Placed

(* README: the loader accepts files whose PT_LOAD segments fit in EE RAM.   *)
(* It does, unless the guest that ran before has left translations.         *)
FittingFilesLoad == step = "done" /\ Fits => Exact
===============================================================================
