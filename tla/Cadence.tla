------------------------------- MODULE Cadence -------------------------------
(***************************************************************************)
(* The edges of the video clock, HBlank or the render and blank phases of a *)
(* field: an edge's distance is a rational number of EE cycles, so that the *)
(* countdown takes whole cycles and carries the rest to the next edge.  The *)
(* guest switches between NTSC and PAL at any time.                         *)
(***************************************************************************)
EXTENDS Integers

CONSTANTS
  Modes,      \* "ntsc", "pal"
  Cycles,     \* [Modes -> <<whole cycles of a render phase, of a blank phase>>]
  Rest,       \* [Modes -> <<numerators of the rests>>]
  Divisor,    \* [Modes -> denominator of the rests]
  MaxAdvance, \* cycles of one advance
  Horizon     \* bound of TLC: cycles since the mode was selected

(* What the constants must be.                                              *)
CadenceAssumption ==
  /\ MaxAdvance \in Nat \ {0}
  /\ Cycles \in [Modes -> Nat \X Nat] /\ Rest \in [Modes -> Nat \X Nat]
  /\ Divisor \in [Modes -> Nat \ {0}]
  /\ \A m \in Modes, p \in 1..2 : Cycles[m][p] >= MaxAdvance /\ Rest[m][p] < Divisor[m]

VARIABLES
  mode,       \* video_pal_interlaced_
  phase,      \* 2 in vertical blank
  remaining,  \* video_cycles_remaining_ or hblank_cycles_remaining_
  carry,      \* video_field_remainder_ or hblank_cycle_remainder_
  elapsed,    \* history: cycles since the mode was selected
  ideal       \* history: when the next edge should be, in cycles / Divisor[mode]

vars == <<mode, phase, remaining, carry, elapsed, ideal>>

(* next_video_phase_cycles, next_hblank_cycles; the mutant forgets the rest  *)
(* of an edge that takes the extra cycle.                                   *)
NextCarryDropped(m, p, c) == IF c + Rest[m][p] >= Divisor[m] THEN 0 ELSE c + Rest[m][p]
NextCarry(m, p, c) == IF c + Rest[m][p] >= Divisor[m] THEN c + Rest[m][p] - Divisor[m]
                                                      ELSE c + Rest[m][p]
Duration(m, p, c) == Cycles[m][p] + (IF c + Rest[m][p] >= Divisor[m] THEN 1 ELSE 0)

(* advance: n cycles reach an edge or do not.                               *)
Wait(n) ==
  /\ n < remaining
  /\ remaining' = remaining - n /\ elapsed' = elapsed + n
  /\ UNCHANGED <<mode, phase, carry, ideal>>

Edge(n) ==
  /\ n >= remaining
  /\ phase' = 3 - phase
  /\ remaining' = Duration(mode, phase', carry) - (n - remaining)
  /\ carry' = NextCarry(mode, phase', carry)
  /\ elapsed' = elapsed + n
  /\ ideal' = ideal + Divisor[mode] * Cycles[mode][phase'] + Rest[mode][phase']
  /\ UNCHANGED mode

(* update_video_timing_selection: the pending edge stays where it is.       *)
Select(m) ==
  /\ m # mode /\ mode' = m
  /\ carry' = 0
  /\ elapsed' = 0 /\ ideal' = Divisor[m] * remaining
  /\ UNCHANGED <<phase, remaining>>

Init ==
  /\ mode \in Modes /\ phase = 1 /\ remaining = Cycles[mode][1] /\ carry = 0
  /\ elapsed = 0 /\ ideal = Divisor[mode] * remaining

Next == \/ elapsed < Horizon /\ \E n \in 1..MaxAdvance : Wait(n) \/ Edge(n)
        \/ \E m \in Modes : Select(m)

Spec == Init /\ [][Next]_vars

(* The type of the state.                                                   *)
TypeOK ==
  /\ mode \in Modes /\ phase \in 1..2
  /\ remaining \in Nat \ {0} /\ carry \in Nat /\ carry < Divisor[mode]
  /\ elapsed \in Nat /\ ideal \in Nat

(* Edges do not drift: after any number of them, and however time was cut   *)
(* into calls of advance, the next edge is at the last whole cycle not      *)
(* after the rational time it should be at.                                 *)
NoDrift ==
  LET due == elapsed + remaining
  IN  Divisor[mode] * due <= ideal /\ ideal < Divisor[mode] * (due + 1)
===============================================================================
