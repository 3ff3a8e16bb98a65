------------------------------ MODULE GifStream ------------------------------
(***************************************************************************)
(* The GIF.  Packets of any path are appended to one pending buffer; a tag   *)
(* is interpreted once its payload is complete.  PACKED, REGLIST and IMAGE   *)
(* payload write registers, kick vertices and fill a transfer rectangle;     *)
(* kicks are assembled into points, lines, triangles and sprites.            *)
(*                                                                          *)
(* A vertex carries the place of its kick, colour and Q as identities.  How  *)
(* a primitive covers pixels is in GsRaster.                                 *)
(***************************************************************************)
EXTENDS Integers, Sequences, SequencesExt, FiniteSetsExt

CONSTANTS Menus      \* [tags, values : what the guest may write, length : qwords]

Prim == [type : 0..7, smooth : BOOLEAN]    \* 7 is reserved
Slot == {"prim", "rgbaq", "st", "xyz", "xyz3", "ad", "nop"}
Tag == [fmt : {"packed", "reglist", "image"}, loops : Nat, regs : Seq(Slot), pre : BOOLEAN,
        prim : Prim]
(* A 64-bit value as each register would read it; ad is the address of A+D,  *)
(* "trxreg" stands for BITBLTBUF, TRXPOS and TRXREG written together.        *)
Value == [ad : {"prim", "rgbaq", "st", "xyz", "xyz3", "trxreg", "trxdir", "other"}, adc : BOOLEAN,
          prim : Prim, total : Nat, size : {0, 1, 2}, dir : {0, 1}]

(* What the constants must be.                                              *)
MenuAssumption == \A m \in Menus : m.tags \subseteq Tag /\ m.values \subseteq Value /\ m.length \in Nat

VARIABLES
  menu,
  gif,
  unsent,     \* qwords the guest has written and no path has submitted
  writes      \* history: what complete tags wrote, and the values of the one being written

vars == <<menu, gif, unsent, writes>>

One == "one"

Reset0 == [pending |-> <<>>, prim |-> [type |-> 0, smooth |-> FALSE], col |-> 0, q |-> One,
           packedQ |-> One, count |-> 0, v |-> <<>>, first |-> <<>>, drawn |-> <<>>,
           trx |-> [total |-> 0, size |-> 0], dir |-> 0, moved |-> 0, image |-> <<>>]

-----------------------------------------------------------------------------
(* Vertex assembly                                                           *)

(* A PRIM write restarts assembly.                                           *)
SetPrim(g, p) == [g EXCEPT !.prim = p, !.count = 0, !.v = <<>>, !.first = <<>>]

Draw(g, vs) == [g EXCEPT !.drawn = Append(@, [type |-> g.prim.type, vs |-> vs])]

(* Flat shading takes the colour of the kick that draws, not what is kept.   *)
Shaded(g, vs) == IF g.prim.smooth THEN vs
                 ELSE [i \in DOMAIN vs |-> [vs[i] EXCEPT !.col = Last(vs).col]]

Line(g, v, draw) ==
  IF g.count = 0 THEN [g EXCEPT !.v = <<v>>, !.count = 1]
  ELSE LET d == IF draw THEN Draw(g, Shaded(g, <<g.v[1], v>>)) ELSE g
       IN IF g.prim.type = 1 THEN [d EXCEPT !.count = 0, !.v = <<>>] ELSE [d EXCEPT !.v = <<v>>]

Triangle(g, v, draw) ==
  IF g.count < 2 THEN [g EXCEPT !.v = Append(@, v), !.count = @ + 1]
  ELSE LET d == IF draw THEN Draw(g, Shaded(g, <<g.v[1], g.v[2], v>>)) ELSE g
       IN CASE g.prim.type = 3 -> [d EXCEPT !.count = 0, !.v = <<>>]
            [] g.prim.type = 4 -> [d EXCEPT !.v = <<g.v[2], v>>]
            [] g.prim.type = 5 -> [d EXCEPT !.v = <<g.v[1], v>>]

(* A sprite has the second kick's colour; without a draw the pair is gone.   *)
Sprite(g, v, draw) ==
  IF g.first = <<>> THEN [g EXCEPT !.first = <<v>>]
  ELSE [(IF draw THEN Draw(g, <<[g.first[1] EXCEPT !.col = v.col, !.q = v.q], v>>) ELSE g)
          EXCEPT !.first = <<>>]

(* Mutant: a kick that does not draw leaves the assembly as it is.           *)
EmitDrawn(g, at, draw) ==
  LET v == [at |-> at, col |-> g.col, q |-> g.q]
  IN IF ~draw THEN g ELSE
     CASE g.prim.type = 0 -> Draw(g, <<v>>)
       [] g.prim.type \in 1..2 -> Line(g, v, draw)
       [] g.prim.type \in 3..5 -> Triangle(g, v, draw)
       [] g.prim.type = 6 -> Sprite(g, v, draw)
       [] OTHER -> g
Emit(g, at, draw) ==
  LET v == [at |-> at, col |-> g.col, q |-> g.q]
  IN CASE g.prim.type = 0 -> IF draw THEN Draw(g, <<v>>) ELSE g
       [] g.prim.type \in 1..2 -> Line(g, v, draw)
       [] g.prim.type \in 3..5 -> Triangle(g, v, draw)
       [] g.prim.type = 6 -> Sprite(g, v, draw)
       [] OTHER -> g

-----------------------------------------------------------------------------
(* Registers and payload.  x is [at : place, val : Value].                   *)

WriteRegister(g, reg, x) ==
  CASE reg = "prim" -> SetPrim(g, x.val.prim)
    [] reg = "rgbaq" -> [g EXCEPT !.col = x.at, !.q = x.at]
    [] reg = "xyz" -> Emit(g, x.at, TRUE)
    [] reg = "xyz3" -> Emit(g, x.at, FALSE)
    [] reg = "trxreg" -> [g EXCEPT !.trx = [total |-> x.val.total, size |-> x.val.size]]
    [] reg = "trxdir" -> [g EXCEPT !.dir = x.val.dir, !.moved = 0, !.image = <<>>]
    [] OTHER -> g          \* ST, which does not change Q, and the others

(* PACKED: RGBAQ takes the Q that ST has left, XYZ may forbid to draw.       *)
Packed(g, slot, x) ==
  CASE slot = "ad" -> WriteRegister(g, x.val.ad, x)
    [] slot = "rgbaq" -> [g EXCEPT !.col = x.at, !.q = g.packedQ]
    [] slot = "st" -> [g EXCEPT !.packedQ = x.at]
    [] slot = "xyz" -> Emit(g, x.at, ~x.val.adc)
    [] OTHER -> WriteRegister(g, slot, x)

Reglist(g, slot, x) == IF slot \in {"ad", "nop"} THEN g ELSE WriteRegister(g, slot, x)

(* IMAGE: size is the pixels of a payload qword, 0 for a format that is not  *)
(* written; what is beyond the rectangle is dropped.  The mutant starts over *)
(* with every tag.                                                           *)
Pixels(x, size) == [i \in 1..size |-> <<x.at, i>>]
WriteImageAnew(g, xs) ==
  LET all == FlattenSeq([i \in DOMAIN xs |-> Pixels(xs[i], g.trx.size)])
      n == Min({Len(all), g.trx.total})
  IN IF g.dir # 0 \/ g.trx.size = 0 \/ g.trx.total = 0 THEN g
     ELSE [g EXCEPT !.image = @ \o [i \in 1..n |-> [pos |-> i - 1, pix |-> all[i]]]]
WriteImage(g, xs) ==
  LET all == FlattenSeq([i \in DOMAIN xs |-> Pixels(xs[i], g.trx.size)])
      room == Max({0, g.trx.total - g.moved})
      n == Min({Len(all), room})
  IN IF g.dir # 0 \/ g.trx.size = 0 \/ g.trx.total = 0 THEN g
     ELSE [g EXCEPT !.moved = @ + n,
                    !.image = @ \o [i \in 1..n |-> [pos |-> g.moved + i - 1, pix |-> all[i]]]]

-----------------------------------------------------------------------------
(* Tags                                                                      *)

Slots(t) == IF t.fmt = "image" THEN [i \in 1..t.loops |-> "image"]
            ELSE FlattenSeq([i \in 1..t.loops |-> t.regs])
PerQword(t) == IF t.fmt = "reglist" THEN 2 ELSE 1
Payload(t) == (Len(Slots(t)) + PerQword(t) - 1) \div PerQword(t)

(* The values a tag's payload holds, without the padding of a REGLIST.       *)
Values(t, qwords) == SubSeq(FlattenSeq(qwords), 1, Len(Slots(t)))

TagStart(g, t) ==
  LET r == IF t.loops # 0 THEN [g EXCEPT !.packedQ = One] ELSE g
  IN IF t.fmt = "packed" /\ t.loops # 0 /\ t.pre THEN SetPrim(r, t.prim) ELSE r

WriteSlot(t, g, slot, x) == IF t.fmt = "packed" THEN Packed(g, slot, x) ELSE Reglist(g, slot, x)
ProcessTag(g, t, qwords) ==
  LET xs == Values(t, qwords)
      after[i \in 0..Len(Slots(t))] ==
        IF i = 0 THEN TagStart(g, t) ELSE WriteSlot(t, after[i - 1], Slots(t)[i], xs[i])
  IN  IF t.fmt = "image" THEN WriteImage(TagStart(g, t), xs) ELSE after[Len(Slots(t))]

(* One turn of submit's loop: a tag whose payload is there leaves the buffer. *)
Complete(p) == p # <<>> /\ Len(p) > Payload(p[1].tag)
TakeTag(g) ==
  LET p == g.pending
      n == Min({Len(p), 1 + Payload(p[1].tag)})
  IN IF ~Complete(p) THEN g
     ELSE [ProcessTag(g, p[1].tag, [i \in 1..(n - 1) |-> p[i + 1].vals])
             EXCEPT !.pending = SubSeq(p, n + 1, Len(p))]

(* The mutant forgets what the packet before left in the buffer.             *)
BufferedAnew(g, packet) == [g EXCEPT !.pending = packet]
Buffered(g, packet) == [g EXCEPT !.pending = @ \o packet]
SubmitPacket(g, packet) ==
  LET turns == Len(g.pending) + Len(packet)
      after[i \in 0..turns] == IF i = 0 THEN Buffered(g, packet) ELSE TakeTag(after[i - 1])
  IN  after[turns]

-----------------------------------------------------------------------------
(* What the guest wrote: [what, at, draw, prim, val] in order, with a mark   *)
(* where each tag begins.  open is the tag being written and its payload.    *)

Mark(what, x) == [what |-> what, at |-> x.at, val |-> x.val]
Empty == [open |-> <<>>, qwords |-> <<>>, log |-> <<>>, length |-> 0]

Means(t, slot, x) ==
  LET reg == IF slot = "ad" THEN x.val.ad ELSE slot
  IN IF t.fmt = "image" THEN Mark("pixels", x)
     ELSE IF t.fmt = "reglist" THEN Mark(IF reg \in {"st", "nop"} \/ slot = "ad" THEN "nothing" ELSE reg, x)
     ELSE IF slot \in {"rgbaq", "st"} THEN Mark(IF slot = "st" THEN "packed_st" ELSE "packed_rgbaq", x)
     ELSE IF slot = "xyz" /\ x.val.adc THEN Mark("xyz3", x) ELSE Mark(reg, x)

LogOf(t, qwords) ==
  LET begin == [at |-> 0, val |-> [prim |-> t.prim]]
      xs == Values(t, qwords)
  IN (IF t.loops # 0 THEN <<Mark("tag", begin)>> ELSE <<>>)
       \o (IF t.fmt = "packed" /\ t.loops # 0 /\ t.pre THEN <<Mark("prim", begin)>> ELSE <<>>)
       \o [i \in DOMAIN xs |-> Means(t, Slots(t)[i], xs[i])]

(* A qword is written; writes.open is the tag in progress, if any.           *)
Written(q) ==
  LET w == [writes EXCEPT !.length = @ + 1]
      t == IF w.open = <<>> THEN q.tag ELSE w.open[1]
      qs == IF w.open = <<>> THEN <<>> ELSE Append(w.qwords, q.vals)
  IN IF Len(qs) = Payload(t) THEN [w EXCEPT !.open = <<>>, !.qwords = <<>>, !.log = @ \o LogOf(t, qs)]
     ELSE [w EXCEPT !.open = <<t>>, !.qwords = qs]

-----------------------------------------------------------------------------
Init == \E m \in Menus : menu = m /\ gif = Reset0 /\ unsent = <<>> /\ writes = Empty

(* The guest builds a tag or the next qword of the payload it owes ...       *)
WriteTag ==
  /\ writes.open = <<>> /\ writes.length < menu.length
  /\ \E t \in menu.tags : LET q == [tag |-> t, vals |-> <<>>]
                          IN unsent' = Append(unsent, q) /\ writes' = Written(q)
  /\ UNCHANGED <<menu, gif>>
WriteData ==
  /\ writes.open # <<>> /\ writes.length < menu.length
  /\ \E x, y \in menu.values :
       LET two == PerQword(writes.open[1]) = 2
           q == [tag |-> writes.open[1],
                 vals |-> [i \in 1..PerQword(writes.open[1]) |->
                             [at |-> 2 * writes.length + i, val |-> IF i = 1 THEN x ELSE y]]]
       IN /\ two \/ x = y
          /\ unsent' = Append(unsent, q) /\ writes' = Written(q)
  /\ UNCHANGED <<menu, gif>>

(* ... and a path submits what there is, cut anywhere.                       *)
Submit ==
  /\ unsent # <<>>
  /\ gif' = SubmitPacket(gif, unsent) /\ unsent' = <<>>
  /\ UNCHANGED <<menu, writes>>

Reset ==
  /\ gif' = Reset0 /\ unsent' = <<>> /\ writes' = Empty
  /\ UNCHANGED menu

Next == WriteTag \/ WriteData \/ Submit \/ Reset

Spec == Init /\ [][Next]_vars

-----------------------------------------------------------------------------
(* Properties                                                                *)

(* What the log says, by position and not by state.                          *)
LastOf(i, whats) == LET S == {j \in 1..(i - 1) : writes.log[j].what \in whats}
                    IN IF S = {} THEN 0 ELSE Max(S)
PrimAt(i) == LET j == LastOf(i, {"prim"})
             IN IF j = 0 THEN [type |-> 0, smooth |-> FALSE] ELSE writes.log[j].val.prim
Kicks(i) == {j \in (LastOf(i, {"prim"}) + 1)..i : writes.log[j].what \in {"xyz", "xyz3"}}
Nth(S, k) == Max({j \in S : Cardinality({l \in S : l <= j}) = k})

(* The kicks since PRIM that make the primitive of kick i, the n-th of them. *)
Chosen(type, n) ==
  CASE type = 0 -> <<n>>
    [] type \in {1, 6} -> IF n % 2 = 0 THEN <<n - 1, n>> ELSE <<>>
    [] type = 2 -> IF n >= 2 THEN <<n - 1, n>> ELSE <<>>
    [] type = 3 -> IF n % 3 = 0 THEN <<n - 2, n - 1, n>> ELSE <<>>
    [] type = 4 -> IF n >= 3 THEN <<n - 2, n - 1, n>> ELSE <<>>
    [] type = 5 -> IF n >= 3 THEN <<1, n - 1, n>> ELSE <<>>
    [] OTHER -> <<>>

ColourAt(i) == LET j == LastOf(i, {"rgbaq", "packed_rgbaq"})
               IN IF j = 0 THEN 0 ELSE writes.log[j].at
QAt(i) ==
  LET j == LastOf(i, {"rgbaq", "packed_rgbaq"})
      s == LastOf(j, {"tag", "packed_st"})
  IN IF j = 0 THEN One
     ELSE IF writes.log[j].what = "rgbaq" THEN writes.log[j].at
     ELSE IF s = 0 \/ writes.log[s].what = "tag" THEN One ELSE writes.log[s].at

Vertices(i) ==
  [k \in 1..Cardinality(Kicks(i)) |->
     LET j == Nth(Kicks(i), k) IN [at |-> writes.log[j].at, col |-> ColourAt(j), q |-> QAt(j)]]

(* The primitive of the last of the vertices w, if it completes one.         *)
Formed(p, w) ==
  LET vs == Chosen(p.type, Len(w))
      colour(k) == IF p.smooth /\ p.type # 6 THEN w[vs[k]].col ELSE w[Len(w)].col
      q(k) == IF p.type = 6 THEN w[Len(w)].q ELSE w[vs[k]].q
  IN  IF vs = <<>> THEN <<>>
      ELSE << [type |-> p.type,
               vs |-> [k \in DOMAIN vs |-> [at |-> w[vs[k]].at, col |-> colour(k), q |-> q(k)]]] >>
Expected(i) == IF writes.log[i].what = "xyz" THEN Formed(PrimAt(i), Vertices(i)) ELSE <<>>

(* However packets are cut, the GIF has drawn exactly the primitives of the  *)
(* tags that are complete: every kick counted from the PRIM before it,       *)
(* kicks that do not draw included, with the colour and the Q of its vertex. *)
DrawnAsWritten ==
  unsent = <<>> => gif.drawn = FlattenSeq([i \in DOMAIN writes.log |-> Expected(i)])

(* A transfer rectangle gets the image data since TRXDIR in order, as much   *)
(* as fits, over as many tags and packets as it takes, whatever else is      *)
(* written in between.                                                       *)
ImageInOrder ==
  LET n == Len(writes.log)
      d == LastOf(n + 1, {"trxdir"})
      r == LastOf(d, {"trxreg"})
      setup == writes.log[r].val
      data(j) == IF writes.log[j].what = "pixels" THEN Pixels(writes.log[j], setup.size) ELSE <<>>
      all == FlattenSeq([i \in 1..(n - d) |-> data(d + i)])
  IN (unsent = <<>> /\ r # 0 /\ LastOf(n + 1, {"trxreg"}) = r)
       => gif.image = IF writes.log[d].val.dir # 0 THEN <<>>
                      ELSE [i \in 1..Min({Len(all), setup.total}) |-> [pos |-> i - 1, pix |-> all[i]]]
===============================================================================
