---------------------------- MODULE ExactTimeline -----------------------------
(***************************************************************************)
(* What the batching scheduler promises (docs/EVENT_HORIZON.md): guest time *)
(* may advance by several cycles at once only up to the next deadline, so   *)
(* that every device event happens in its own cycle, no cycle is skipped    *)
(* while a channel is armed and can start, and whatever completes is in the *)
(* hands of the graphics units, in order of completion, before guest time   *)
(* moves on.                                                                *)
(***************************************************************************)
EXTENDS Integers, Sequences

CONSTANTS
  Timers,     \* everything that counts down; "gif" and "vif1" carry packets
  FreeTimers, \* those that processors other than the EE may start at any time
  PowerOnDue, \* the countdowns after power-on
  Writers,    \* those whose event writes the memory VIF1's chain lies in
  Tags,       \* chains
  Broken      \* a chain that cannot be walked

VARIABLES
  due,    \* cycles to each timer's next event, 0 when it is not running
  armed,  \* channels whose transfer can start in the next cycle
  load,   \* [chained, range]: the RAM range latched at the start, or the chain
  tags,   \* the chain VIF1 walks, as it is now
  out     \* what reached the graphics units in the latest cycle

(* The packets of the transfers due in n cycles; PATH3 goes first.  A chain *)
(* is what it holds when VIF1 walks it: as the guest left it, before what a *)
(* writer due in the same cycle puts there.                                 *)
GifOut(n) ==
  IF due["gif"] # n THEN <<>> ELSE <<[path |-> "gif", data |-> load["gif"].range]>>
VifOut(n, walked) ==
  IF due["vif1"] # n \/ (load["vif1"].chained /\ walked = Broken) THEN <<>>
  ELSE <<[path |-> "vif1",
          data |-> IF load["vif1"].chained THEN walked ELSE load["vif1"].range]>>

Elapse(n) ==
  /\ \A t \in Timers : due[t] # 0 => n <= due[t]
  /\ armed # {} => n = 1
  /\ \A t \in Timers : due[t] > n => due'[t] = due[t] - n
  /\ \A t \in {"gif", "vif1"} : due[t] > n => load'[t] = load[t]
  /\ \E walked \in Tags : /\ tags' = walked \/ \E t \in Writers : due[t] = n
                          /\ out' = GifOut(n) \o VifOut(n, walked)

(* Between guest cycles only the other processors act.                      *)
OtherProcessors ==
  /\ \A t \in Timers \ FreeTimers : due'[t] = due[t]
  /\ UNCHANGED <<load, tags, out>>

PowerOn == due' = PowerOnDue /\ armed' = {} /\ out' = <<>>

Init == due = PowerOnDue /\ armed = {} /\ out = <<>>

CONSTANT MaxElapse
Next == (\E n \in 1..MaxElapse : Elapse(n)) \/ OtherProcessors \/ PowerOn

Spec == Init /\ [][Next]_<<due, armed, load, tags, out>>
===============================================================================
