-------------------------------- MODULE Timers --------------------------------
(***************************************************************************)
(* The two timers of the boot path.  EE Timer 3 counts HBlanks; IOP Timer 5 *)
(* counts IOP cycles behind a prescaler, from calls of advance that may be  *)
(* several EE cycles long.  Each has a latch, "the target is behind the     *)
(* count", that decides whether reaching the target counts.                 *)
(*                                                                         *)
(* Registers are written as words, Timer 5's mode also as a halfword: other *)
(* widths leave the latches as they are.  A counter's width is its modulus; *)
(* mode bits without effect are left out.                                   *)
(***************************************************************************)
EXTENDS Integers

CONSTANTS
  Modulus,    \* 2^16 for Timer 3, 2^32 for Timer 5
  PerIop,     \* EE cycles of an IOP cycle: 8
  EeModes,    \* [counts, zero, compare, overflow : BOOLEAN]
  IopModes    \* [gate, zero, compare, overflow, repeat, toggle : BOOLEAN, rate : Nat]

Count == 0..(Modulus - 1)

(* What the constants must be.                                              *)
TimerAssumption ==
  /\ Modulus \in Nat \ {0, 1} /\ PerIop \in Nat \ {0}
  /\ EeModes \subseteq [counts : BOOLEAN, zero : BOOLEAN, compare : BOOLEAN, overflow : BOOLEAN]
  /\ IopModes \subseteq [gate : BOOLEAN, zero : BOOLEAN, compare : BOOLEAN, overflow : BOOLEAN,
                         repeat : BOOLEAN, toggle : BOOLEAN, rate : Nat \ {0}]

VARIABLES
  ee,         \* Timer 3: count, target, mode, flags (subset of {"target", "overflow"}),
              \* future (timer3_target_future_), irq (INTC bit 12)
  iop         \* Timer 5: the same, armed (mode bit 10), phase (iop_cycle_remainder_),
              \* pre (timer5_prescale_remainder_), irq (I_STAT bit 16)

vars == <<ee, iop>>

-----------------------------------------------------------------------------
(* Timer 3                                                                  *)

EeRaise(t, enabled, flag) ==
  IF enabled /\ flag \notin t.flags THEN [t EXCEPT !.flags = @ \cup {flag}, !.irq = TRUE] ELSE t

EePassed(t, reached) ==
  IF ~reached THEN [t EXCEPT !.count = (@ + 1) % Modulus]
  ELSE LET f == EeRaise(t, t.mode.compare, "target")
       IN  IF t.mode.zero /\ t.target # 0 THEN [f EXCEPT !.count = 0]
                                          ELSE [f EXCEPT !.count = @ + 1, !.future = TRUE]

(* An HBlank in advance.                                                    *)
HBlank(t) ==
  IF ~t.mode.counts THEN t
  ELSE LET o == IF t.count = Modulus - 1
                THEN [EeRaise(t, t.mode.overflow, "overflow") EXCEPT !.future = FALSE] ELSE t
       IN  EePassed(o, ~o.future /\ t.count < t.target /\ t.count + 1 >= t.target)

(* write32 on target, count and mode, whose flags are cleared by ones.      *)
EeTarget(t, v) == [t EXCEPT !.target = v, !.future = v <= t.count]
EeCount(t, v) == [t EXCEPT !.count = v, !.future = v >= t.target]
EeMode(t, m, cleared) == [t EXCEPT !.mode = m, !.flags = @ \ cleared]

-----------------------------------------------------------------------------
(* Timer 5                                                                  *)

(* fire_interrupt: nothing unless armed; once per flag unless repeating.    *)
Fire(t, enabled, flag) ==
  IF enabled /\ t.armed
  THEN [t EXCEPT !.irq = @ \/ t.mode.repeat \/ flag \notin t.flags,
                 !.armed = ~(t.mode.repeat \/ t.mode.toggle),
                 !.flags = @ \cup {flag}]
  ELSE [t EXCEPT !.flags = @ \cup {flag}]

Reach(t, expanded) ==
  LET f == Fire(t, t.mode.compare, "target")
  IN  IF t.mode.zero /\ t.target # 0 THEN [f EXCEPT !.count = expanded % t.target]
                                     ELSE [f EXCEPT !.count = expanded % Modulus, !.future = TRUE]

(* The counter wraps; the mutant leaves the latch.                          *)
WrapKeepsLatch(t) == Fire(t, t.mode.overflow, "overflow")
Wrap(t) == [Fire(t, t.mode.overflow, "overflow") EXCEPT !.future = FALSE]

(* The counter takes some ticks at once.                                    *)
Ticks(t, ticks) ==
  LET expanded == t.count + ticks
      reached  == ~t.future /\ t.count < t.target /\ expanded >= t.target
      r == IF reached THEN Reach(t, expanded) ELSE [t EXCEPT !.count = expanded % Modulus]
  IN  IF expanded >= Modulus THEN Wrap(r) ELSE r

(* advance: n EE cycles.                                                    *)
Advance(t, n) ==
  LET cycles == (t.phase + n) \div PerIop
      p == [t EXCEPT !.phase = (t.phase + n) % PerIop]
      a == [p EXCEPT !.armed = @ \/ (t.mode.repeat /\ ~t.mode.toggle)]
      prescaled == t.pre + cycles
      ticks == prescaled \div t.mode.rate
      pre == prescaled % t.mode.rate
  IN  IF cycles = 0 \/ t.mode.gate THEN p   \* gated, the pulse's re-arming is not stored either
      ELSE IF ticks = 0 THEN [p EXCEPT !.pre = pre]
      ELSE Ticks([a EXCEPT !.pre = pre], ticks)

(* iop_write32 and iop_write16 on the mode: the count restarts, flags that  *)
(* are of no interrupt go and arm it again.                                 *)
IopMode(t, m) ==
  LET event == t.flags # {} /\ (t.mode.compare \/ t.mode.overflow)
  IN  [t EXCEPT !.mode = m, !.count = 0, !.pre = 0, !.future = FALSE,
                !.flags = IF event THEN @ ELSE {}, !.armed = IF event THEN @ ELSE TRUE]

IopModeRead(t) == [t EXCEPT !.flags = {}, !.armed = TRUE]
IopCount(t, v) == [t EXCEPT !.count = v, !.future = v > t.target]
IopTarget(t, v) == [t EXCEPT !.target = v, !.future = v <= t.count]

-----------------------------------------------------------------------------
EeReset == [count |-> 0, target |-> 0, flags |-> {}, future |-> FALSE, irq |-> FALSE,
            mode |-> [counts |-> FALSE, zero |-> FALSE, compare |-> FALSE, overflow |-> FALSE]]
IopReset == [count |-> 0, target |-> 0, flags |-> {}, future |-> FALSE, irq |-> FALSE,
             armed |-> FALSE, phase |-> 0, pre |-> 0,
             mode |-> [gate |-> FALSE, zero |-> FALSE, compare |-> FALSE, overflow |-> FALSE,
                       repeat |-> FALSE, toggle |-> FALSE, rate |-> 1]]

Init == ee = EeReset /\ iop = IopReset

EeNext ==
  /\ \/ ee' = HBlank(ee)
     \/ \E v \in Count : ee' \in {EeCount(ee, v), EeTarget(ee, v)}
     \/ \E m \in EeModes, cleared \in SUBSET {"target", "overflow"} : ee' = EeMode(ee, m, cleared)
     \/ ee' = [ee EXCEPT !.irq = FALSE]
  /\ UNCHANGED iop

IopNext ==
  /\ \/ \E n \in 1..PerIop : iop' = Advance(iop, n)
     \/ \E v \in Count : iop' \in {IopCount(iop, v), IopTarget(iop, v)}
     \/ \E m \in IopModes : iop' = IopMode(iop, m)
     \/ iop' = IopModeRead(iop)
     \/ iop' = [iop EXCEPT !.irq = FALSE]
  /\ UNCHANGED ee

Spec == Init /\ [][EeNext \/ IopNext]_vars

-----------------------------------------------------------------------------
(* Properties                                                               *)

NextCount(t) == IF t.target = t.count + 1 /\ t.mode.zero THEN 0 ELSE (t.count + 1) % Modulus
Reached(t) == {f \in {"target", "overflow"} : IF f = "target" THEN t.target = t.count + 1
                                                              ELSE t.count = Modulus - 1}
Enabled(t) == {f \in {"target", "overflow"} : IF f = "target" THEN t.mode.compare ELSE t.mode.overflow}

(* Timer 3 needs no latch to be understood: an HBlank that brings the count  *)
(* to the target, or around, sets the enabled flag and interrupts if it was *)
(* clear.                                                                   *)
EeExact ==
  LET after == HBlank(ee)
      events == Reached(ee) \cap Enabled(ee)
  IN  ee.mode.counts =>
        /\ after.count = NextCount(ee)
        /\ after.flags = ee.flags \cup events
        /\ after.irq = (ee.irq \/ ~(events \subseteq ee.flags))

(* EE cycles to Timer 5's next tick.                                        *)
Due(t) == (t.mode.rate - t.pre) * PerIop - t.phase

(* Timer 5 ticks exactly every rate IOP cycles from the mode's write on,     *)
(* however time is cut into advances; a tick to the target, or around, sets *)
(* the flag and interrupts when enabled: in pulse mode always, else if      *)
(* armed, and without repeat once per flag.                                 *)
IopExact ==
  \A n \in 1..PerIop :
    LET after == Advance(iop, n)
        events == Reached(iop)
        pulse == iop.mode.repeat /\ ~iop.mode.toggle
        fires == \E f \in events \cap Enabled(iop) :
                   pulse \/ (iop.armed /\ (iop.mode.repeat \/ f \notin iop.flags))
    IN  ~iop.mode.gate =>
          IF n < Due(iop)
          THEN /\ Due(after) = Due(iop) - n
               /\ after.count = iop.count /\ after.flags = iop.flags /\ after.irq = iop.irq
          ELSE /\ Due(after) = Due(iop) - n + iop.mode.rate * PerIop
               /\ after.count = NextCount(iop)
               /\ after.flags = iop.flags \cup events
               /\ after.irq = (iop.irq \/ fires)
===============================================================================
