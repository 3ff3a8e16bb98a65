------------------------------ MODULE FrameLoop ------------------------------
(***************************************************************************)
(* The frontend's main loop: a frame polls the buttons, acts on each one    *)
(* that was pressed in the order of the code, and if the guest is running   *)
(* gives it slices until run_execution_budget stops: soft wall time, with a *)
(* clock that may stall, go back or wrap.                                   *)
(*                                                                         *)
(* Abstracted: the emulator (ready or not; a slice ends for any reason and  *)
(* after any cycles), files (a load succeeds or not), the screen, messages. *)
(***************************************************************************)
EXTENDS Integers, Sequences

CONSTANTS
  Clock,      \* 2^64: times are 0..Clock-1
  Budgets,    \* <<microseconds, max_quanta>>: kFrameExecution is one
  Interval,   \* kProgressInterval
  MaxCycles,  \* 2^64 - 1
  CycleCap    \* bound of TLC: the guest's cycles stay there

(* What the constants must be.                                              *)
FrameAssumption ==
  /\ Clock \in Nat \ {0} /\ Budgets \subseteq Nat \X Nat
  /\ Interval \in Nat \ {0} /\ MaxCycles \in Nat /\ CycleCap \in 0..MaxCycles

Times == 0..(Clock - 1)

VARIABLES
  budget,     \* of this behaviour
  step,       \* the next thing the frame does
  ready,      \* emulator.ready()
  running, showGs, showTarget,
  cycles,     \* of the guest
  nextDue, lastDue, \* next_progress_cycle, last_progress_cycle
  loop,       \* run_execution_budget: start, previous, quanta, elapsed, stop
  reason,     \* of the latest slice: "limit" (StepLimit), "fault" (any other) or "none"
  reported    \* history: a fault report was written since the slice that ended for it

vars == <<budget, step, ready, running, showGs, showTarget, cycles, nextDue, lastDue, loop, reason, reported>>

NoLoop == [start |-> 0, previous |-> 0, quanta |-> 0, elapsed |-> 0, stop |-> "none"]

Microseconds == budget[1]
MaxQuanta == budget[2]

progress == <<nextDue, lastDue>>
view     == <<showGs, showTarget>>

-----------------------------------------------------------------------------
(* Buttons, in the order of the code; a frame may have any of them pressed. *)

Go(from, to) == step = from /\ step' = to
Skip(from, to) ==
  /\ Go(from, to)
  /\ UNCHANGED <<budget, ready, running, view, cycles, progress, loop, reason, reported>>

(* reset_progress                                                           *)
ResetProgress == nextDue' = Interval /\ lastDue' = 0

Views ==
  /\ Go("views", "triangle")
  /\ showGs' \in BOOLEAN
  /\ showTarget' \in {showTarget} \cup (IF showGs' THEN {~showTarget} ELSE {})
  /\ UNCHANGED <<budget, ready, running, cycles, progress, loop, reason, reported>>

(* TRIANGLE: the image may not be a good ELF, which leaves nothing to run.  *)
LoadElf ==
  /\ Go("triangle", "circle")
  /\ running' = FALSE /\ ready' \in BOOLEAN
  /\ cycles' = IF ready' THEN 0 ELSE cycles
  /\ ResetProgress
  /\ UNCHANGED <<budget, view, loop, reason, reported>>

(* CIRCLE: no file or not a BIOS, or boot_bios.                             *)
BootBios ==
  /\ Go("circle", "cross")
  /\ running' = FALSE
  /\ \/ UNCHANGED <<ready, cycles, progress>>
     \/ ready' = TRUE /\ cycles' = 0 /\ ResetProgress
  /\ UNCHANGED <<budget, view, loop, reason, reported>>

(* CROSS; the mutant does not ask whether there is anything to run.         *)
RunPauseAnytime ==
  /\ Go("cross", "start")
  /\ running' = ~running
  /\ UNCHANGED <<budget, ready, view, cycles, progress, loop, reason, reported>>
RunPause ==
  /\ Go("cross", "start")
  /\ ready /\ running' = ~running
  /\ UNCHANGED <<budget, ready, view, cycles, progress, loop, reason, reported>>

Reset ==
  /\ Go("start", "square")
  /\ ready /\ running' = FALSE /\ cycles' = 0 /\ ResetProgress
  /\ UNCHANGED <<budget, ready, view, loop, reason, reported>>

(* A slice of the guest, after which reason says why it ended.              *)
Slice ==
  /\ \E n \in 1..2 : cycles' = IF cycles + n > CycleCap THEN CycleCap ELSE cycles + n
  /\ reason' \in {"limit", "fault"}

(* SQUARE: one instruction, and the report if it stopped the guest.         *)
SingleStep ==
  /\ Go("square", "run")
  /\ ready /\ running' = FALSE
  /\ Slice
  /\ reported' = (reason' # "limit")
  /\ UNCHANGED <<budget, ready, view, progress, loop>>

-----------------------------------------------------------------------------
(* run_execution_budget                                                     *)

Begin ==
  /\ Go("run", "quantum")
  /\ running /\ Microseconds # 0 /\ MaxQuanta # 0
  /\ \E t \in Times : loop' = [NoLoop EXCEPT !.start = t, !.previous = t]
  /\ UNCHANGED <<budget, ready, running, view, cycles, progress, reason, reported>>

(* A budget of nothing calls neither the clock nor the guest.               *)
Invalid ==
  /\ Go("run", "after")
  /\ running /\ (Microseconds = 0 \/ MaxQuanta = 0)
  /\ loop' = [NoLoop EXCEPT !.stop = "invalid"] /\ reason' = "limit"
  /\ UNCHANGED <<budget, ready, running, view, cycles, progress, reported>>

(* Why the loop stops after a slice, the first that applies; the mutant     *)
(* looks at the clock before the guest.                                     *)
ClockFirst(kept, now, elapsed, quanta) ==
  IF now < loop.previous          THEN "backwards"
  ELSE IF now = loop.previous     THEN "stalled"
  ELSE IF ~kept                   THEN "callback"
  ELSE IF elapsed >= Microseconds THEN "elapsed"
  ELSE IF quanta = MaxQuanta      THEN "quanta"
  ELSE "none"
StopReason(kept, now, elapsed, quanta) ==
  IF ~kept                        THEN "callback"
  ELSE IF now < loop.previous     THEN "backwards"
  ELSE IF now = loop.previous     THEN "stalled"
  ELSE IF elapsed >= Microseconds THEN "elapsed"
  ELSE IF quanta = MaxQuanta      THEN "quanta"
  ELSE "none"

Quantum ==
  /\ step = "quantum"
  /\ Slice
  /\ \E now \in Times :
       LET elapsed == IF now >= loop.previous THEN now - loop.start ELSE loop.elapsed
           quanta  == loop.quanta + 1
           stop    == StopReason(reason' = "limit", now, elapsed, quanta)
       IN  /\ loop' = [loop EXCEPT !.quanta = quanta, !.elapsed = elapsed, !.stop = stop,
                                   !.previous = IF stop = "none" THEN now ELSE @]
           /\ step' = IF stop = "none" THEN "quantum" ELSE "after"
  /\ reported' = FALSE
  /\ UNCHANGED <<budget, ready, running, view, progress>>

(* execution_progress_due and next_execution_progress, which saturates.     *)
NextProgress(completed) == IF Interval > MaxCycles - completed THEN MaxCycles ELSE completed + Interval
Due == cycles >= nextDue /\ cycles # lastDue

AfterBudget ==
  /\ Go("after", "draw")
  /\ IF Due THEN lastDue' = cycles /\ nextDue' = NextProgress(cycles) ELSE UNCHANGED progress
  /\ running' = (running /\ reason = "limit")
  /\ reported' = (reported \/ reason # "limit")
  /\ UNCHANGED <<budget, ready, view, cycles, loop, reason>>

Draw ==
  /\ Go("draw", "views") /\ loop' = NoLoop
  /\ UNCHANGED <<budget, ready, running, view, cycles, progress, reason, reported>>

NotPressed ==
  \/ Skip("views", "triangle") \/ Skip("triangle", "circle") \/ Skip("circle", "cross")
  \/ Skip("cross", "start") \/ Skip("start", "square") \/ Skip("square", "run")
  \/ ~running /\ Skip("run", "draw")

(* The built-in ELF is loaded; a BIOS file boots and runs at once.          *)
Init ==
  /\ budget \in Budgets /\ step = "views" /\ ready \in BOOLEAN
  /\ running \in {FALSE, ready} /\ showGs = FALSE /\ showTarget = FALSE
  /\ cycles = 0 /\ nextDue = Interval /\ lastDue = 0
  /\ loop = NoLoop /\ reason = "none" /\ reported = FALSE

Next == \/ Views \/ LoadElf \/ BootBios \/ RunPause \/ Reset \/ SingleStep
        \/ Begin \/ Invalid \/ Quantum \/ AfterBudget \/ Draw \/ NotPressed

Spec == Init /\ [][Next]_vars

-----------------------------------------------------------------------------
(* Properties                                                               *)

(* The budget's result is true: a guest that stopped is said to have        *)
(* stopped whatever the clock did at the same time; elapsed time is that of *)
(* the last sample that did not go back, so never wraps; the loop goes on   *)
(* only while the budget lasts.                                             *)
BudgetKept ==
  /\ loop.quanta <= MaxQuanta
  /\ loop.elapsed \in Times
  /\ step = "after" => (loop.stop = "callback" <=> reason = "fault")
  /\ loop.stop = "elapsed" => loop.elapsed >= Microseconds
  /\ loop.stop = "none" /\ loop.quanta > 0 => /\ loop.elapsed < Microseconds
                                              /\ loop.quanta < MaxQuanta
                                              /\ loop.elapsed = loop.previous - loop.start

(* Whatever buttons a frame has, the guest runs only when one is loaded,    *)
(* and a guest that has stopped does not run on: the frame that saw it      *)
(* stop ends paused, with the report written.                               *)
StopsReported ==
  /\ step \in {"quantum", "after"} => running /\ ready
  /\ running => ready
  /\ step = "draw" /\ reason = "fault" => reported /\ ~running

(* A progress report is never written twice for the same cycle, not even    *)
(* where the threshold saturates.                                           *)
ProgressAdvances == lastDue <= cycles /\ (nextDue > lastDue \/ lastDue = MaxCycles)

(* The three parts of what a frame guarantees.                              *)
FramesKept == BudgetKept /\ StopsReported /\ ProgressAdvances
===============================================================================
