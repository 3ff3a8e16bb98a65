------------------------------ MODULE Vif1Stream ------------------------------
(***************************************************************************)
(* The VIF1 command stream.  DMA cuts the stream into packets wherever it    *)
(* likes; Vif1::submit interprets a packet at a time, carries only a DIRECT  *)
(* payload over its end, and drops the rest of a packet it cannot go on      *)
(* with.  VU programs run to their end inside MSCAL, and what they XGKICK    *)
(* (PATH1) shares one way out with DIRECT payload (PATH2).                   *)
(*                                                                          *)
(* A unit of the stream is a command word or one piece of payload (a word,   *)
(* an instruction or a qword, as the command counts it).                     *)
(***************************************************************************)
EXTENDS Integers, Sequences, SequencesExt, FiniteSetsExt

CONSTANTS
  Streams,    \* the command sequences the guest may send
  VuSize      \* addresses of VU1 data memory that uploads and programs use

(* n units of payload; v an address, BASE, OFFSET (10 bits each), or 1 for   *)
(* CL # WL; kicks and stop are what the VU program does; data is how a       *)
(* payload unit reads when it is taken for a command.  "nop" is every        *)
(* command without payload and without state of interest (NOP, ITOP, MARK,   *)
(* FLUSH...).                                                                *)
Command == [op : {"nop", "stcycl", "offset", "base", "strow", "mpg", "unpack", "mscal",
                  "mscnt", "direct", "bad"},
            n : Nat, v : 0..(VuSize - 1), flg : BOOLEAN, kicks : Nat,
            stop : {"ends", "budget", "unknown"}, data : {"nop", "bad", "direct"}]

(* What the constants must be: a count of zero stands for the largest one,   *)
(* so that a command that has payload has some.                              *)
StreamAssumption ==
  /\ VuSize \in Nat \ {0, 1}
  /\ \A s \in Streams :
       /\ s \in Seq(Command)
       /\ \A i \in DOMAIN s : s[i].n # 0 <=> s[i].op \in {"strow", "mpg", "unpack", "direct"}

VARIABLES
  commands,   \* the stream, chosen at first
  sent,       \* how many of its units have been submitted
  vif,
  got,        \* GIF packets handed on so far
  history     \* the commands that should have taken effect, whether still in step

vars == <<commands, sent, vif, got, history>>

Runs == {"mscal", "mscnt"}

Reset0 == [direct |-> 0, packet |-> <<>>, out |-> <<>>, path1 |-> <<>>, differ |-> 0,
           base |-> 0, offset |-> 0, tops |-> 0, dbf |-> FALSE,
           running |-> FALSE, unknown |-> FALSE, mem |-> [a \in 0..(VuSize - 1) |-> <<0, 0>>],
           micro |-> 0, runs |-> <<>>, skip |-> 0, rejected |-> FALSE]

-----------------------------------------------------------------------------
(* The stream as units, at[1] the command and at[2] the piece of it.         *)

Units(cs) ==
  FlattenSeq([i \in DOMAIN cs |->
    [j \in 1..(cs[i].n + 1) |->
      [at |-> <<i, j - 1>>,
       code |-> IF j = 1 THEN cs[i]
                ELSE [cs[i] EXCEPT !.op = cs[i].data, !.n = 1]]]])

Reject(s) == [s EXCEPT !.rejected = TRUE]

(* MSCAL and MSCNT: the program gets the buffer that was being filled, the   *)
(* next uploads the other one.  A program that is still running, or an       *)
(* unknown instruction at any time since reset, rejects the packet.          *)
SwapFirst(s) == [s EXCEPT !.tops = IF s.dbf THEN s.base ELSE (s.base + s.offset) % VuSize,
                          !.dbf = ~@]
RunTopSwapped(s) == SwapFirst(s).tops          \* mutant: the buffers swap first
RunTop(s) == s.tops
Run(s, u) ==
  LET unknown == s.unknown \/ u.code.stop = "unknown"
      running == u.code.stop = "budget"
      t == [SwapFirst(s) EXCEPT
              !.path1 = @ \o [k \in 1..u.code.kicks |-> <<"kick", u.at[1], k>>],
              !.runs = Append(@, [at |-> u.at[1], saw |-> s.mem[RunTop(s)]]),
              !.unknown = unknown, !.running = running]
  IN IF running \/ unknown THEN Reject(t) ELSE t

(* DIRECT first takes over what PATH1 has emitted; the mutant does not.      *)
DirectAhead(s, n) == [s EXCEPT !.direct = n, !.packet = <<>>]
Direct(s, n) ==
  [s EXCEPT !.out = @ \o s.path1, !.path1 = <<>>, !.direct = n, !.packet = <<>>]

(* Payload other than DIRECT's must lie in the command's own packet.         *)
Unpack(s, u, rest) ==
  LET a == (u.code.v + (IF u.code.flg THEN s.tops ELSE 0)) % VuSize
  IN IF s.differ = 1 \/ rest < u.code.n THEN Reject(s)
     ELSE [s EXCEPT !.mem[a] = u.at, !.skip = u.code.n]

Interpret(s, u, rest) ==
  CASE u.code.op = "nop" -> s
    [] u.code.op = "stcycl" -> [s EXCEPT !.differ = u.code.v]
    [] u.code.op = "offset" -> [s EXCEPT !.offset = u.code.v, !.tops = s.base, !.dbf = FALSE]
    [] u.code.op = "base" -> [s EXCEPT !.base = u.code.v]
    [] u.code.op = "strow" -> IF rest < u.code.n THEN Reject(s) ELSE [s EXCEPT !.skip = u.code.n]
    [] u.code.op = "mpg" -> IF rest < u.code.n THEN Reject(s)
                            ELSE [s EXCEPT !.skip = u.code.n, !.micro = u.at[1]]
    [] u.code.op = "unpack" -> Unpack(s, u, rest)
    [] u.code.op \in Runs -> Run(s, u)
    [] u.code.op = "direct" -> Direct(s, u.code.n)
    [] u.code.op = "bad" -> Reject(s)

DirectUnit(s, u) ==
  LET packet == Append(s.packet, u.at)
  IN IF s.direct > 1 THEN [s EXCEPT !.direct = @ - 1, !.packet = packet]
     ELSE [s EXCEPT !.direct = 0, !.packet = <<>>, !.out = Append(@, packet)]

Turn(s, u, rest) ==
  IF s.rejected THEN s
  ELSE IF s.direct # 0 THEN DirectUnit(s, u)
  ELSE IF s.skip # 0 THEN [s EXCEPT !.skip = @ - 1]
  ELSE Interpret(s, u, rest)

(* The end of submit keeps the DIRECT payload that is not whole.             *)
Parse(s, p) ==
  LET f[i \in 0..Len(p)] ==
        IF i = 0 THEN [s EXCEPT !.rejected = FALSE, !.skip = 0]
        ELSE Turn(f[i - 1], p[i], Len(p) - i)
  IN  f[Len(p)]

-----------------------------------------------------------------------------
(* What the commands mean, from the commands alone: where each one starts    *)
(* and ends, which of a packet's take effect, and what comes out.            *)

CodeAt(i) == 1 + Len(Units(SubSeq(commands, 1, i - 1)))
LastAt(i) == CodeAt(i) + commands[i].n

LastOp(took, ops) == {i \in took : commands[i].op \in ops}
Differs(took) == LET S == LastOp(took, {"stcycl"}) IN S # {} /\ commands[Max(S)].v = 1

Refused(i, took, end) ==
  LET c == commands[i]
  IN \/ c.op = "bad"
     \/ c.op \in {"strow", "mpg", "unpack"} /\ LastAt(i) > end
     \/ c.op = "unpack" /\ Differs(took)
     \/ c.op \in Runs /\ (c.stop # "ends" \/
                          \E j \in LastOp(took, Runs) : commands[j].stop = "unknown")

(* The commands that start in the packet, up to the first that is refused,   *)
(* by which a program has run.                                               *)
Effective(begin, end) ==
  LET new == {i \in DOMAIN commands : begin < CodeAt(i) /\ CodeAt(i) <= end}
      refused == {i \in new : Refused(i, history.took \cup {j \in new : j < i}, end)}
  IN history.took \cup
       {i \in new : \A r \in refused : i < r \/ (i = r /\ commands[i].op \in Runs)}

InStep(took, end) ==
  \E i \in DOMAIN commands : \/ LastAt(i) = end
                             \/ commands[i].op = "direct" /\ i \in took
                                /\ CodeAt(i) <= end /\ end <= LastAt(i)

Output(i) ==
  LET c == commands[i]
  IN IF c.op \in Runs THEN [k \in 1..c.kicks |-> <<"kick", i, k>>]
     ELSE IF c.op = "direct" /\ LastAt(i) <= sent THEN << [j \in 1..c.n |-> <<i, j>>] >>
     ELSE <<>>

-----------------------------------------------------------------------------
Init ==
  /\ commands \in Streams /\ sent = 0 /\ vif = Reset0 /\ got = <<>>
  /\ history = [took |-> {}, step |-> TRUE]

(* Emulator::service_graphics hands over the next DMA packet ...             *)
Submit ==
  /\ \E n \in 1..(Len(Units(commands)) - sent) :
       LET took == Effective(sent, sent + n)
       IN /\ vif' = Parse(vif, SubSeq(Units(commands), sent + 1, sent + n))
          /\ sent' = sent + n
          /\ history' = [took |-> took, step |-> history.step /\ InStep(took, sent + n)]
  /\ UNCHANGED <<commands, got>>

(* ... and when there is none left, takes every packet for the GIF.          *)
PopAll ==
  /\ vif.out \o vif.path1 # <<>>
  /\ got' = got \o vif.out \o vif.path1
  /\ vif' = [vif EXCEPT !.out = <<>>, !.path1 = <<>>]
  /\ UNCHANGED <<commands, sent, history>>

(* Vif1::reset, the guest starting over.                                     *)
Reset ==
  /\ sent' = 0 /\ vif' = Reset0 /\ got' = <<>>
  /\ history' = [took |-> {}, step |-> TRUE]
  /\ UNCHANGED commands

Next == Submit \/ PopAll \/ Reset

Spec == Init /\ [][Next]_vars

-----------------------------------------------------------------------------
(* Properties                                                                *)

(* As long as the packets do not cut a payload that cannot be carried over,  *)
(* the GIF gets the XGKICK packets and the whole DIRECT payloads in the      *)
(* order of their commands, of exactly the commands up to one refused in     *)
(* each packet, wherever DMA cuts the stream.                                *)
OutputInOrder ==
  history.step =>
    got \o vif.out \o vif.path1
      = FlattenSeq([i \in DOMAIN commands |-> IF i \in history.took THEN Output(i) ELSE <<>>])

(* A program finds at TOP what was last uploaded relative to TOPS for it,    *)
(* unless an OFFSET or an absolute upload came in between.                   *)
UploadSeen ==
  history.step =>
    \A r \in Range(vif.runs) :
      LET before == {i \in LastOp(history.took, {"unpack", "offset"} \cup Runs) : i < r.at}
      IN (before # {} /\ commands[Max(before)].op = "unpack"
            /\ commands[Max(before)].flg /\ commands[Max(before)].v = 0)
         => r.saw = <<Max(before), 0>>
===============================================================================
