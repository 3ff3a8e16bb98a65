-------------------------------- MODULE EeCore --------------------------------
(***************************************************************************)
(* The EE: each behaviour is one of the control flow of Cpu::step or one of *)
(* the cache of decoded blocks.  They share no state: the interpreter does  *)
(* not execute from the cache.  The constants are explained where each part *)
(* declares them.                                                           *)
(***************************************************************************)
EXTENDS Integers

CONSTANTS
  Kind, Target, UserSize, IntVec, ExcVec, Sources, MaxFills,           \* EeControl
  RamPages, OtherPages, Nowhere, Pages, Mapped, Reset, Pcs, PageOf,    \* EeBlockCache
  SlotOf, Codes, Zeroed, Widths, Xor(_, _), MaxGen, MaxMap

VARIABLES
  part,       \* what this behaviour is of: "control" or "cache"
  pc, branch, epc, exl, cause, eie, mapped, stat, mask, want, seen, fills, ran,
  code, gen, trans, mapGen, cache

Ee == INSTANCE EeControl
Cache == INSTANCE EeBlockCache

ASSUME Constants ==
  Ee!ProgramAssumption /\ Cache!CacheAssumption /\ Cache!XorAssumption

controlVars == <<pc, branch, epc, exl, cause, eie, mapped, stat, mask, want, seen, fills, ran>>
cacheVars == <<code, gen, trans, mapGen, cache>>
vars == <<part, controlVars, cacheVars>>

(* The part that a behaviour is not of stays as reset leaves it.             *)
Init == part \in {"control", "cache"} /\ Ee!Init /\ Cache!Init

Executes == part = "control" /\ Ee!Cpu /\ UNCHANGED <<part, cacheVars>>

Next == \/ Executes
        \/ part = "control" /\ Ee!Raise /\ UNCHANGED <<part, cacheVars>>
        \/ part = "cache" /\ Cache!Next /\ UNCHANGED <<part, controlVars>>

(* Cpu::run goes from one instruction to the next.                          *)
Spec == Init /\ [][Next]_vars /\ WF_vars(Executes)

-----------------------------------------------------------------------------
(* The properties of each part, stated and explained in its module.         *)

(* Every variable keeps its type.                                           *)
TypeOK == Ee!TypeOK /\ Cache!TypeOK

(* EeControl: no event is forgotten before the kernel serves it.            *)
EventsStayVisible == Ee!EventsStayVisible
(* EeControl: a device that is not kept masked is served.                   *)
Answered == Ee!Answered
(* EeControl: a handler returns.                                            *)
HandlersReturn == Ee!HandlersReturn
(* EeControl: interrupts and exceptions are invisible to the program.       *)
KeepsFlow == Ee!KeepsFlow
(* EeBlockCache: docs/ARCHITECTURE.md on stores to executable RAM.          *)
StoresInvalidate == Cache!StoresInvalidate
(* EeBlockCache: a block decoded under the present TLB is never stale.      *)
UnmovedHitsAreFresh == Cache!UnmovedHitsAreFresh
===============================================================================
