----------------------------- MODULE EventLatches -----------------------------
(***************************************************************************)
(* The registers in which one side raises events for another: the SBUS      *)
(* mailbox flags between the two CPUs, the IOP's I_STAT and DICR and the    *)
(* EE's INTC status.  The consumer reads a register, writes to it what      *)
(* clears the bits it read, and serves them; the producer raises more bits  *)
(* at any time between.  I_STAT is cleared by zeros, the others by ones,    *)
(* and both SBUS flags are written by either CPU: what clears for one sets  *)
(* for the other.                                                           *)
(***************************************************************************)
EXTENDS Integers

CONSTANTS
  Bits        \* events of a register

Registers == {"msflag", "smflag", "istat", "dicr", "intc"}

VARIABLES
  register,   \* the one this behaviour is about: they share nothing
  latch,      \* its raised bits
  read,       \* what the consumer read, from the read until it has served it
  acked,      \* the consumer is between the clearing write and serving
  want        \* history: events not served yet

vars == <<register, latch, read, acked, want>>

(* write32 (EE) and iop_write32 (IOP).                                      *)
EeWrites(bits) ==
  CASE register = "msflag" -> latch \cup bits
    [] register \in {"smflag", "intc"} -> latch \ bits
IopWrites(bits) ==
  CASE register = "smflag" -> latch \cup bits
    [] register \in {"msflag", "dicr"} -> latch \ bits
    [] register = "istat" -> latch \cap bits

(* A device ORs its bit in; a CPU writes the flags it sends.                *)
Sent(bits) == CASE register = "msflag" -> EeWrites(bits)
                [] register = "smflag" -> IopWrites(bits)
                [] OTHER -> latch \cup bits

(* What is left when a consumer clears what it read; mutant: it writes the  *)
(* same value to every register.                                            *)
ClearedByOnes(bits) == IF register \in {"smflag", "intc"} THEN EeWrites(bits) ELSE IopWrites(bits)
Cleared(bits) ==
  CASE register \in {"smflag", "intc"} -> EeWrites(bits)
    [] register = "istat" -> IopWrites(Bits \ bits)
    [] OTHER -> IopWrites(bits)

Raise ==
  /\ \E bits \in SUBSET Bits : latch' = Sent(bits) /\ want' = want \cup bits
  /\ UNCHANGED <<register, read, acked>>

Read ==
  /\ ~acked /\ read' = latch
  /\ UNCHANGED <<register, latch, acked, want>>

Clear ==
  /\ ~acked /\ acked' = TRUE
  /\ latch' = Cleared(read)
  /\ UNCHANGED <<register, read, want>>

Serve ==
  /\ acked /\ acked' = FALSE
  /\ want' = want \ read /\ read' = {}
  /\ UNCHANGED <<register, latch>>

Init == register \in Registers /\ latch = {} /\ read = {} /\ acked = FALSE /\ want = {}

Next == Raise \/ Read \/ Clear \/ Serve

Spec == Init /\ [][Next]_vars

(* An event stays raised until its consumer has taken it: a bit raised      *)
(* between the consumer's read and its clearing write is not cleared with   *)
(* the others.                                                              *)
SignalsKept == want \subseteq latch \cup (IF acked THEN read ELSE {})
===============================================================================
