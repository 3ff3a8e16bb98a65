---------------------------- MODULE MCIopAndHost -----------------------------
(* Small values for the parts of IopAndHost.                                 *)
EXTENDS IopAndHost, MCElfFiles

-----------------------------------------------------------------------------
(* IopControl: the first loads and merges land across branches, traps and    *)
(* interrupts; the others isolate the cache, store, and enable and disable   *)
(* interrupts around a wait.                                                 *)
Op(op, r) == [op |-> op, rd |-> r, rs |-> r, to |-> 1]
Plain == {Op("alu", 1), Op("load", 1), Op("merge", 2), Op("store", 1)}
Any == Plain \cup {[Op("alu", 2) EXCEPT !.rs = 1], Op("branch", 1), Op("syscall", 1), Op("hole", 1)}
AsCode(p) == [i \in 0..5 |-> p[i + 1]]
MCPrograms ==
  {AsCode(<<Op("ei", 1), Op("mask", 1), a, b, Op("jump", 1), c>>) :
     a \in Any \ {Op("branch", 1)}, b \in Any \ {Op("branch", 1)}, c \in Plain}
  \cup
  {AsCode(<<Op("ei", 1), Op("mask", 1), Op("branch", 1), b, [Op("jump", 1) EXCEPT !.to = t], c>>) :
     b, c \in Plain, t \in {1, 2}}
  \cup
  {AsCode(<<Op("isolate", 1), a, Op("expose", 1), Op("ei", 1), [Op("jump", 1) EXCEPT !.to = 3], b>>) :
     a \in {Op("store", 1), Op("load", 2)}, b \in {Op("di", 1), Op("load", 1)}}
MCAlu(v) == (v + 1) % 3
MCMerge(v, w) == (v + 2 * w) % 3

(* Timers: all modes of Timer 3; of Timer 5, those that interrupt without a  *)
(* gate, and slow ones with and without.                                     *)
MCEeModes == [counts : BOOLEAN, zero : BOOLEAN, compare : BOOLEAN, overflow : BOOLEAN]
MCIopModes ==
  [gate : {FALSE}, zero : BOOLEAN, compare : BOOLEAN, overflow : BOOLEAN, repeat : BOOLEAN,
   toggle : BOOLEAN, rate : {1}]
  \cup [gate : BOOLEAN, zero : {TRUE}, compare : {TRUE}, overflow : {FALSE}, repeat : BOOLEAN,
        toggle : {FALSE}, rate : {2}]

(* AotDispatch: good and bad entries in every order, and good tables of up   *)
(* to five.                                                                  *)
E(f, t) == [from |-> f, to |-> t, code |-> TRUE]
Entries == {E(f, t) : f \in {0, 2, 4}, t \in {2, 4, 6}} \cup {E(1, 2), [E(0, 2) EXCEPT !.code = FALSE]}
Package(s, h) == [entries |-> s, min |-> 0, max |-> 6, header |-> h]
Row(starts) == [i \in DOMAIN starts |-> E(starts[i], starts[i] + 2)]
MCPackages ==
  {Package(s, TRUE) : s \in UNION {[1..n -> Entries] : n \in 0..3}}
  \cup {Package(<<E(0, 2)>>, FALSE)}
  \cup {[Package(Row(s), TRUE) EXCEPT !.max = 12] :
          s \in {<<0, 2, 4, 6>>, <<0, 4, 6, 10>>, <<0, 2, 4, 6, 8>>, <<2, 4, 6, 8, 10>>}}

(* Spu2Voice: loops with and without a start mark, an end, a bad block, and  *)
(* a sample that wraps around memory.                                        *)
Fast(d, i, e) == [delta |-> d, increment |-> i, down |-> d < 0, exp |-> e]
MCSettings ==
  {[floor |-> 3, attack |-> Fast(4, 4, FALSE), decay |-> Fast(-2, 4, TRUE),
    sustain |-> Fast(-1, 8, FALSE), release |-> Fast(-3, 8, FALSE)],
   [floor |-> 5, attack |-> Fast(3, 8, TRUE), decay |-> Fast(-3, 8, TRUE),
    sustain |-> Fast(2, 2, FALSE), release |-> Fast(-1, 4, TRUE)]}
Mid == [bad |-> FALSE, end |-> FALSE, repeat |-> FALSE, start |-> FALSE]
Mark == [Mid EXCEPT !.start = TRUE]
End == [Mid EXCEPT !.end = TRUE]
Again == [End EXCEPT !.repeat = TRUE]
Memory(a, b, c) == [i \in 0..2 |-> <<a, b, c>>[i + 1]]
MCMemories == {Memory(Mid, Mark, Again), Memory(Mark, End, Mid),
               Memory(Mid, Again, [Mid EXCEPT !.bad = TRUE]),
               Memory(Mid, Mid, [Again EXCEPT !.start = TRUE])}

(* Cadence: two modes with a rest in one phase or in both.                   *)
MCCycles == [ntsc |-> <<5, 3>>, pal |-> <<4, 4>>]
MCRest == [ntsc |-> <<2, 0>>, pal |-> <<3, 4>>]
MCDivisor == [ntsc |-> 3, pal |-> 5]

(* FrameLoop: a budget of time and quanta, and two of nothing.               *)
MCFrameBudgets == {<<3, 3>>, <<0, 1>>, <<2, 0>>}

(* EeIntegers: the ends of the range, and operands of either sign.           *)
MCBytes == {[i \in 0..15 |-> IF i \in {0, 1, 3, 4, 9, 10, 14} THEN 1 ELSE 0]}
MCWords == {-8, -1}
MCImmediates == {-2}
===============================================================================
