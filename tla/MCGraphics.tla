------------------------------ MODULE MCGraphics ------------------------------
(* The stages of GraphicsPath, and the rasteriser after them, as a stage of  *)
(* its own whose behaviours are single drawings.                             *)
EXTENDS GraphicsPath

VARIABLE input      \* of GsRaster

-----------------------------------------------------------------------------
(* DMA: every kind of tag in the first three places, subchains that return,  *)
(* call again, end or never do, and data that wraps around the scratchpad.   *)
R(n) == [bank |-> "ram", at |-> n]
S(n) == [bank |-> "spr", at |-> n]
Tg(id, q, a) == [id |-> id, qwc |-> q, addr |-> a, irq |-> FALSE]
Irq(t) == [t EXCEPT !.irq = TRUE]
Outer == {Tg("cnt", 1, R(0)), Tg("ref", 2, S(3)), Irq(Tg("refs", 1, R(6))), Tg("call", 0, R(6)),
          Irq(Tg("next", 0, R(4))), Tg("refe", 1, R(0)), Tg("end", 1, R(0)), Tg("next", 1, S(2))}
Called == {Tg("ret", 0, R(0)), Tg("call", 1, R(10)), Irq(Tg("cnt", 1, R(0))), Tg("end", 0, R(0))}
Last3 == {Tg("ret", 0, R(0)), Tg("call", 0, R(10)), Tg("refe", 1, R(2))}
Tags(a, b, c, d, e) ==
  [x \in ({"ram"} \X {0, 2, 4, 6, 10}) \cup ({"spr"} \X {0, 2}) |->
     CASE x = <<"ram", 0>> -> a [] x = <<"ram", 2>> -> b [] x = <<"ram", 4>> -> c
       [] x = <<"ram", 6>> -> d [] x = <<"ram", 10>> -> e
       [] x = <<"spr", 2>> -> Tg("ref", 1, R(2)) [] x = <<"spr", 0>> -> Tg("next", 1, R(4))]
MCChains == [tags : {Tags(a, b, c, d, e) : a, b, c \in Outer, d \in Called, e \in Last3},
             start : {R(0)}, tte : BOOLEAN, tie : BOOLEAN]

-----------------------------------------------------------------------------
(* VIF1: the order of outputs, refused and cut commands; double buffering.   *)

Op(op, n) == [op |-> op, n |-> n, v |-> 0, flg |-> FALSE, kicks |-> 0, stop |-> "ends", data |-> "nop"]
Kick == [Op("mscal", 0) EXCEPT !.kicks = 1]
Order == {Op("direct", 1), Op("direct", 2), Kick, [Kick EXCEPT !.op = "mscnt", !.stop = "unknown"],
          [Op("mscal", 0) EXCEPT !.stop = "budget"], Op("nop", 0),
          [Op("strow", 1) EXCEPT !.data = "bad"], Op("bad", 0)}
Base == [Op("base", 0) EXCEPT !.v = 1]
Offset == [Op("offset", 0) EXCEPT !.v = 1]
Buffer == {Offset, [Op("unpack", 1) EXCEPT !.flg = TRUE, !.data = "direct"], [Op("unpack", 1) EXCEPT !.v = 1],
           Kick, [Op("stcycl", 0) EXCEPT !.v = 1], Op("mpg", 1)}
MCStreams == [1..4 -> Order] \cup {<<Base, Offset>> \o s : s \in [1..4 -> Buffer]}

(* GIF: every primitive with kicks that do and do not draw; colour and Q in  *)
(* PACKED and REGLIST; transfers over several IMAGE tags.                    *)
P(t, s) == [type |-> t, smooth |-> s]
T(fmt, loops, regs) == [fmt |-> fmt, loops |-> loops, regs |-> regs, pre |-> FALSE, prim |-> P(0, FALSE)]
Pre(t, p) == [t EXCEPT !.pre = TRUE, !.prim = p]
V(ad) == [ad |-> ad, adc |-> FALSE, prim |-> P(3, FALSE), total |-> 3, size |-> 2, dir |-> 0]
MCMenus ==
  { [tags |-> {Pre(T("packed", 3, <<"xyz">>), P(t, s)), T("packed", 2, <<"xyz">>), T("packed", 0, <<"xyz">>)},
     values |-> {V("xyz"), [V("xyz") EXCEPT !.adc = TRUE]}, length |-> 7] : t \in 0..7, s \in BOOLEAN }
  \cup
  { [tags |-> {Pre(T("packed", 2, <<"rgbaq", "st", "rgbaq", "xyz">>), P(t, s)),
               T("reglist", 1, <<"rgbaq", "xyz", "ad", "xyz3", "prim">>)},
     values |-> {V("xyz")}, length |-> 13] : t \in 0..6, s \in BOOLEAN }
  \cup
  { [tags |-> {T("packed", 1, <<"ad", "ad">>), T("image", 1, <<>>), T("image", 2, <<>>)},
     values |-> {V("trxreg"), V("trxdir"), [V("trxdir") EXCEPT !.dir = 1], V("rgbaq")}, length |-> 8] }

(* Samples at 0, 4 and 8, vertices on them and between; two scissors.        *)
MCClips == {[l |-> 0, t |-> 0, r |-> 2, b |-> 2], [l |-> 1, t |-> 0, r |-> 9, b |-> 1]}

-----------------------------------------------------------------------------
Raster == INSTANCE GsRaster WITH Step <- 4, Width <- 3, Height <- 3, Coordinates <- {-1, 2, 4, 8},
                                 DepthBase <- 4, AreaLimit <- 20, Clips <- MCClips

ASSUME RasterConstants == Raster!RasterAssumption

NoRaster == input = [kind |-> "off"]

MCInit == \/ Init /\ NoRaster
          \/ part = "raster" /\ Raster!Init /\ NoDma /\ NoVif /\ NoGif
MCNext == \/ Next /\ UNCHANGED input
          \/ part = "raster" /\ Raster!Next /\ UNCHANGED vars
MCSpec == MCInit /\ [][MCNext]_<<vars, input>>

-----------------------------------------------------------------------------
(* The properties of the rasteriser, stated and explained in its module.     *)

(* GsRaster: abutting primitives have neither gaps nor double samples.       *)
SharedEdges == Raster!SharedEdges
(* GsRaster: a sample has the exact depth and colour of its triangle's       *)
(* corners, and a filtered texel lies between its taps; depth orders opaque  *)
(* fragments, and a failed test touches its buffer only.                     *)
PixelsExact == Raster!Interpolation /\ Raster!FragmentsInOrder
===============================================================================
