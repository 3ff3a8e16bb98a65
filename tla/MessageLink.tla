----------------------------- MODULE MessageLink ------------------------------
(***************************************************************************)
(* What a SIF channel promises the drivers at its two ends: messages arrive *)
(* complete and in the order they were sent, one transfer list at a time,   *)
(* and the sender is free again exactly when its list has arrived.          *)
(* Messages are numbered; a list is a run of consecutive numbers.           *)
(***************************************************************************)
EXTENDS Integers

CONSTANT Messages   \* how many messages are ever sent

VARIABLES sent, arrived, sending

Init == sent = 0 /\ arrived = 0 /\ sending = FALSE

Send ==
  /\ ~sending /\ sending' = TRUE
  /\ sent' \in (sent + 1)..Messages
  /\ UNCHANGED arrived

(* Some messages of the list arrive.                                        *)
Arrive ==
  /\ sending
  /\ arrived' \in (arrived + 1)..sent
  /\ sending' = (arrived' # sent)
  /\ UNCHANGED sent

Next == Send \/ Arrive

Spec == Init /\ [][Next]_<<sent, arrived, sending>>
===============================================================================
