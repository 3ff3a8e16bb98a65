------------------------------ MODULE GsRaster ------------------------------
(***************************************************************************)
(* Which samples a primitive covers, what it interpolates there, how a       *)
(* texture is sampled, and what a fragment does to its pixel: the functions  *)
(* of Gs and of Gif's sprite and sampler, in a small frame.                  *)
(*                                                                          *)
(* Coordinates are fixed point, Step units between two samples; colours are  *)
(* one channel and alpha.  There is no state but the frame's: each behaviour *)
(* draws one input, and the properties compare functions over it.            *)
(***************************************************************************)
EXTENDS Integers, Sequences, SequencesExt, FiniteSetsExt, Bitwise

CONSTANTS
  Step,              \* fixed-point units per sample, 16 * kRasterScale
  Width, Height,     \* of the frame, in samples
  Coordinates,       \* of vertices, fixed point
  DepthBase,         \* mix_depth splits a depth into halves of this base, 65536
  AreaLimit,         \* in triangles of a larger area, 2^32 - 1
  Clips              \* scissor rectangles, as samples

(* What the constants must be.                                              *)
RasterAssumption == Step > 0 /\ Width > 0 /\ Height > 0 /\ DepthBase > 0 /\ AreaLimit > 0

VARIABLE input

Point == [x : Coordinates, y : Coordinates]
Ceil(n) == -((-n) \div Step)
Floor(n) == n \div Step

-----------------------------------------------------------------------------
(* Coverage                                                                  *)

Edge(a, b, x, y) == (x - a.x) * (b.y - a.y) - (y - a.y) * (b.x - a.x)

(* Left and top edges own the samples on them; the mutant's own all.         *)
InclusiveBoth(from, to) == TRUE
Inclusive(from, to) == to.y > from.y \/ (to.y = from.y /\ to.x < from.x)

Owns(from, to, x, y) ==
  LET w == Edge(from, to, x, y) IN w > 0 \/ (w = 0 /\ Inclusive(from, to))

(* Gs::triangle: the winding is made positive first.                         *)
Wound(a, b, c) == IF Edge(a, b, c.x, c.y) < 0 THEN <<a, c, b>> ELSE <<a, b, c>>
Box(ps, clip) ==
  LET xs == {p.x : p \in ps}
      ys == {p.y : p \in ps}
  IN {[x |-> i, y |-> j] : i \in Max({0, clip.l, Ceil(Min(xs))})..Min({Width - 1, clip.r, Floor(Max(xs))}),
                           j \in Max({0, clip.t, Ceil(Min(ys))})..Min({Height - 1, clip.b, Floor(Max(ys))})}
Triangle(a, b, c, clip) ==
  LET t == Wound(a, b, c)
  IN IF Edge(a, b, c.x, c.y) = 0 THEN {}
     ELSE {s \in Box({a, b, c}, clip) :
             /\ Owns(t[2], t[3], s.x * Step, s.y * Step)
             /\ Owns(t[3], t[1], s.x * Step, s.y * Step)
             /\ Owns(t[1], t[2], s.x * Step, s.y * Step)}

(* emit_xyz2's sprite: the samples in [min, max), whichever corner is first. *)
Span(p, q, low, high, size) ==
  Max({Min({Ceil(p), Ceil(q)}), low, 0})..(Min({Max({Ceil(p), Ceil(q)}), high + 1, size}) - 1)
Sprite(a, b, clip) ==
  {[x |-> i, y |-> j] : i \in Span(a.x, b.x, clip.l, clip.r, Width),
                        j \in Span(a.y, b.y, clip.t, clip.b, Height)}

(* Gs::line: steps along the longer axis, truncated on the other.            *)
Distance(m, n) == Max({m - n, n - m})
Truncated(n, d) == IF n < 0 THEN -((-n) \div d) ELSE n \div d
Line(a, b) ==
  LET steps == Max({Distance(a.x, b.x), Distance(a.y, b.y)})
  IN IF steps = 0 THEN <<a>>
     ELSE [i \in 1..(steps + 1) |-> [x |-> a.x + Truncated((b.x - a.x) * (i - 1), steps),
                                     y |-> a.y + Truncated((b.y - a.y) * (i - 1), steps)]]

-----------------------------------------------------------------------------
(* Interpolation                                                             *)

Weights(t, s) == <<Edge(t[2], t[3], s.x * Step, s.y * Step), Edge(t[3], t[1], s.x * Step, s.y * Step),
                   Edge(t[1], t[2], s.x * Step, s.y * Step)>>
Dot(v, w) == v[1] * w[1] + v[2] * w[2] + v[3] * w[3]

(* mix_depth: depths are split where the product could overflow.  The mutant *)
(* forgets the first half's remainder.                                       *)
MixDepthLossy(v, w, area) ==
  (Dot([i \in 1..3 |-> v[i] \div DepthBase], w) \div area) * DepthBase
    + Dot([i \in 1..3 |-> v[i] % DepthBase], w) \div area
MixDepth(v, w, area) ==
  LET high == Dot([i \in 1..3 |-> v[i] \div DepthBase], w)
      low == Dot([i \in 1..3 |-> v[i] % DepthBase], w)
  IN IF area <= AreaLimit THEN Dot(v, w) \div area
     ELSE (high \div area) * DepthBase + ((high % area) * DepthBase + low) \div area

MixChannel(v, w, area) == Max({0, Min({255, Dot(v, w) \div area})})

(* What a wound triangle writes at a sample; equal corners are not divided.  *)
Constant(v) == v[1] = v[2] /\ v[1] = v[3]
Inside(t, s) ==
  LET area == Edge(t[1], t[2], t[3].x, t[3].y)
      z == <<t[1].z, t[2].z, t[3].z>>
      rgb == <<t[1].rgb, t[2].rgb, t[3].rgb>>
  IN [z |-> IF Constant(z) THEN t[1].z ELSE MixDepth(z, Weights(t, s), area),
      rgb |-> IF Constant(rgb) THEN t[1].rgb ELSE MixChannel(rgb, Weights(t, s), area)]

(* Winding swaps the attributes of two corners with their places; the mutant *)
(* swaps the places alone.                                                   *)
FilledUnswapped(a, b, c, clip) ==
  LET t == Wound(a, b, c)
      corner == <<a, b, c>>
  IN [s \in Triangle(a, b, c, clip) |->
        Inside([i \in 1..3 |-> [t[i] EXCEPT !.z = corner[i].z, !.rgb = corner[i].rgb]], s)]
Filled(a, b, c, clip) == [s \in Triangle(a, b, c, clip) |-> Inside(Wound(a, b, c), s)]

(* lerp_byte_4bit and floor_blend_product_7bit divide without a sign.        *)
LerpByte(a, b, f) == a + ((b - a) * f + 4096) \div 16 - 256
FloorBlend(p) == (p + 65536) \div 128 - 512

-----------------------------------------------------------------------------
(* Texture                                                                   *)

Repeat == 0
Clamp == 1
RegionClamp == 2
RegionRepeat == 3
Address(n, mode, size, low, high) ==
  CASE mode = Repeat -> n % size
    [] mode = Clamp -> Min({Max({n, 0}), size - 1})
    [] mode = RegionClamp -> Min({Max({n, low}), high})
    [] OTHER -> ((n % 1024) & low) | high

(* Linear filtering: half a texel back, floor, four bits of fraction.        *)
Texel(n) == (n - 32768) \div 65536
Fraction(n) == ((n - 32768) - Texel(n) * 65536) \div 4096
Filter(tap, size, mode, low, high, u, v) ==
  LET Tap(i, j) == tap[Address(Texel(u) + i, mode, size, low, high),
                       Address(Texel(v) + j, mode, size, low, high)]
      top == LerpByte(Tap(0, 0), Tap(1, 0), Fraction(u))
      bottom == LerpByte(Tap(0, 1), Tap(1, 1), Fraction(u))
  IN LerpByte(top, bottom, Fraction(v))

(* MODULATE and the HIGHLIGHTs saturate before tests and blending.           *)
Shade(texel, vertex, highlight) == Min({255, (texel * vertex) \div 128 + highlight})

-----------------------------------------------------------------------------
(* Gs::write on one pixel [rgb, alpha, z]; f is a fragment, c the state.     *)

AlphaPasses(f, c) ==
  ~c.ate \/ CASE c.atst = "never" -> FALSE
              [] c.atst = "always" -> TRUE
              [] c.atst = "less" -> f.alpha < c.aref
              [] c.atst = "lequal" -> f.alpha <= c.aref
              [] c.atst = "equal" -> f.alpha = c.aref
              [] c.atst = "gequal" -> f.alpha >= c.aref
              [] c.atst = "greater" -> f.alpha > c.aref
              [] c.atst = "notequal" -> f.alpha # c.aref
DepthPasses(f, p, c) ==
  CASE c.ztst = "always" -> TRUE
    [] c.ztst = "gequal" -> f.z >= p.z
    [] c.ztst = "greater" -> f.z > p.z
    [] c.ztst = "lequal" -> f.z <= p.z
    [] c.ztst = "never" -> FALSE

Blend(f, p, c) ==
  LET pick(sel) == CASE sel = 0 -> f.rgb [] sel = 1 -> p.rgb [] sel = 2 -> 0
      alpha == CASE c.eq[3] = 0 -> f.alpha [] c.eq[3] = 1 -> p.alpha [] OTHER -> c.fix
      value == FloorBlend((pick(c.eq[1]) - pick(c.eq[2])) * alpha) + pick(c.eq[4])
  IN IF ~c.abe \/ (c.pabe /\ f.alpha < 128) \/ \E i \in 1..4 : c.eq[i] = 3 THEN f.rgb
     ELSE IF c.clamp THEN Max({0, Min({255, value})}) ELSE value % 256

(* mask is FBMSK: what the target keeps.  The mutant lets a fragment that    *)
(* fails the alpha test write its depth.                                     *)
WriteDepthFirst(p, f, c) ==
  IF ~DepthPasses(f, p, c) THEN p
  ELSE [p EXCEPT !.z = IF c.zwrite THEN f.z ELSE @,
                 !.rgb = IF AlphaPasses(f, c) /\ "rgb" \notin c.mask THEN Blend(f, p, c) ELSE @,
                 !.alpha = IF AlphaPasses(f, c) /\ "alpha" \notin c.mask THEN f.alpha ELSE @]
Write(p, f, c) ==
  LET fail == IF AlphaPasses(f, c) THEN "none" ELSE c.afail
  IN IF fail = "keep" \/ ~DepthPasses(f, p, c) THEN p
     ELSE [z |-> IF c.zwrite /\ fail \notin {"fb_only", "rgb_only"} THEN f.z ELSE p.z,
           rgb |-> IF fail = "zb_only" \/ "rgb" \in c.mask THEN p.rgb ELSE Blend(f, p, c),
           alpha |-> IF fail \in {"zb_only", "rgb_only"} \/ "alpha" \in c.mask THEN p.alpha ELSE f.alpha]

-----------------------------------------------------------------------------
(* Inputs                                                                    *)

Comparisons == {"never", "always", "less", "lequal", "equal", "gequal", "greater", "notequal"}
Settings == [ate : BOOLEAN, atst : Comparisons, aref : {64},
             afail : {"keep", "zb_only", "fb_only", "rgb_only"}, ztst : {"gequal", "greater", "always", "never"},
             zwrite : BOOLEAN, abe : BOOLEAN, pabe : {TRUE}, clamp : {TRUE},
             eq : {<<0, 1, 0, 1>>, <<2, 0, 2, 1>>}, fix : {255}, mask : {{}, {"alpha"}}]
Fragment == [rgb : {1, 200}, alpha : {0, 64, 200}, z : 1..2]
Looks == {<<[z |-> 0, rgb |-> 255], [z |-> 5, rgb |-> 0], [z |-> 9, rgb |-> 9], [z |-> 2, rgb |-> 90]>>,
          <<[z |-> 7, rgb |-> 7], [z |-> 7, rgb |-> 7], [z |-> 7, rgb |-> 200], [z |-> 3, rgb |-> 1]>>,
          <<[z |-> 9, rgb |-> 7], [z |-> 2, rgb |-> 7], [z |-> 11, rgb |-> 7], [z |-> 1, rgb |-> 7]>>}
Products == {-65025, -65024, -129, -128, -127, -1, 0, 1, 127, 128, 65025}

Init == input = [kind |-> "none"]

DrawQuad == \E a, b, c, d \in Point, clip \in Clips :
              input' = [kind |-> "quad", a |-> a, b |-> b, c |-> c, d |-> d, clip |-> clip]
DrawFragments ==
  \E c \in Settings, f, g \in Fragment : input' = [kind |-> "fragments", c |-> c, f |-> f, g |-> g]
Sample == \E u, v \in {-20, -9, -8, -1, 0, 7, 8, 9, 16, 17, 24, 40}, t \in [{0, 1} \X {0, 1} -> {0, 7, 255}] :
            input' = [kind |-> "sample", u |-> u * 4096, v |-> v * 4096, t |-> t]

Next == input.kind = "none" /\ (DrawQuad \/ DrawFragments \/ Sample)

Spec == Init /\ [][Next]_input

-----------------------------------------------------------------------------
(* Properties                                                                *)

Opposite(p, q, a, c) == LET e == Edge(a, c, p.x, p.y)
                            f == Edge(a, c, q.x, q.y)
                        IN (e > 0 /\ f < 0) \/ (e < 0 /\ f > 0)

(* Two triangles on either side of an edge never draw a sample twice; split  *)
(* along either diagonal a convex quadrangle covers the same samples; a      *)
(* rectangle covers those of a sprite between its corners.  So meshes have   *)
(* neither gaps nor double blending, for any winding and order of vertices.  *)
SharedEdges ==
  input.kind = "quad" =>
    LET a == input.a
        b == input.b
        c == input.c
        d == input.d
        T(p, q, r) == Triangle(p, q, r, input.clip)
    IN /\ T(a, b, c) = T(b, c, a) /\ T(a, b, c) = T(a, c, b)
       /\ Opposite(b, d, a, c) =>
            /\ T(a, b, c) \cap T(a, c, d) = {}
            /\ Opposite(a, c, b, d) => T(a, b, c) \cup T(a, c, d) = T(a, b, d) \cup T(b, c, d)
            /\ a.x = b.x /\ b.y = c.y /\ c.x = d.x /\ d.y = a.y
                 => T(a, b, c) \cup T(a, c, d) = Sprite(a, c, input.clip)

(* A corner with its attributes, and what exact arithmetic gives a sample    *)
(* from three corners in any order.                                          *)
Vertex(p, look) == [x |-> p.x, y |-> p.y, z |-> look.z, rgb |-> look.rgb]
Affine(a, b, c, s) ==
  LET Mean(v) == Distance(Dot(v, Weights(<<a, b, c>>, s)), 0) \div Distance(Edge(a, b, c.x, c.y), 0)
  IN [z |-> Mean(<<a.z, b.z, c.z>>), rgb |-> Mean(<<a.rgb, b.rgb, c.rgb>>)]

(* What is interpolated lies between what it comes from: a triangle has the  *)
(* exact depth and colour of its corners at every sample, whatever their     *)
(* order, split products and equal corners included, and those of the        *)
(* triangle beyond on a shared edge; lines run from end to end without a gap;*)
(* the byte kernels are floor division, and a filtered texel lies between    *)
(* its taps, is the tap itself where it is hit exactly, and goes on beyond   *)
(* the texture, negative coordinates included, as each wrap mode says.       *)
Interpolation ==
  /\ input.kind = "quad" =>
       LET line == Line(input.a, input.b)
       IN /\ \A look \in Looks :
               LET a == Vertex(input.a, look[1])
                   b == Vertex(input.b, look[2])
                   c == Vertex(input.c, look[3])
                   d == Vertex(input.d, look[4])
                   drawn == Filled(a, b, c, input.clip)
               IN \A s \in DOMAIN drawn :
                    /\ drawn[s] = Affine(a, b, c, s)
                    /\ Opposite(b, d, a, c) /\ Edge(a, c, s.x * Step, s.y * Step) = 0
                         => drawn[s] = Affine(c, d, a, s)
          /\ line[1] = input.a /\ Last(line) = input.b
          /\ \A i \in 1..(Len(line) - 1) : /\ Distance(line[i].x, line[i + 1].x) <= 1
                                           /\ Distance(line[i].y, line[i + 1].y) <= 1
  /\ input.kind = "sample" =>
       LET Texture(mode, u, v) == Filter(input.t, 2, mode, IF mode = RegionRepeat THEN 1 ELSE 0,
                                         IF mode = RegionRepeat THEN 0 ELSE 1, u, v)
           At(mode) == Texture(mode, input.u, input.v)
           i == Texel(input.u)
           j == Texel(input.v)
           taps == {input.t[(i + k) % 2, (j + l) % 2] : k, l \in {0, 1}}
       IN /\ At(Repeat) \in Min(taps)..Max(taps)
          /\ Fraction(input.u) = 0 /\ Fraction(input.v) = 0 => At(Repeat) = input.t[i % 2, j % 2]
          /\ At(Repeat) = Texture(Repeat, input.u - 131072, input.v) /\ At(Repeat) = At(RegionRepeat)
          /\ At(Clamp) = At(RegionClamp) /\ (input.u < 0 => At(Clamp) = Texture(Clamp, 0, input.v))
          /\ Shade(At(Clamp), 128, 0) = At(Clamp)
  /\ \A p \in Products : FloorBlend(p) = p \div 128

(* Opaque fragments of different depths leave the same pixel in either       *)
(* order under a depth test that writes; a fragment that fails the alpha     *)
(* test touches only the buffer its mode leaves to it, and a depth test that *)
(* does not write orders nothing.                                            *)
FragmentsInOrder ==
  input.kind = "fragments" =>
    LET c == input.c
        p == [rgb |-> 100, alpha |-> 128, z |-> 0]
        f == Write(p, input.f, c)
        g == Write(p, input.g, c)
        Passes(h) == AlphaPasses(h, c) \/ c.afail = "keep"
    IN /\ c.zwrite /\ c.ztst \in {"gequal", "greater"} /\ ~c.abe /\ input.f.z # input.g.z
            /\ Passes(input.f) /\ Passes(input.g)
          => Write(f, input.g, c) = Write(g, input.f, c)
       /\ ~AlphaPasses(input.f, c) =>
            /\ f.z # p.z => c.afail = "zb_only"
            /\ f.rgb # p.rgb => c.afail \in {"fb_only", "rgb_only"}
            /\ f.alpha # p.alpha => c.afail = "fb_only"
       /\ f.rgb \in 0..255 /\ ("rgb" \in c.mask => f.rgb = p.rgb) /\ (f.z # p.z => c.zwrite)
===============================================================================
