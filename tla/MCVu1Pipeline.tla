---------------------------- MODULE MCVu1Pipeline ----------------------------
(* Menus for the division pipeline, the branch operand, XGKICK against       *)
(* stores, the flags, and programs that stop at an unknown instruction.      *)
EXTENDS Vu1Pipeline

Low(low, r, a) == [up |-> "nop", fs |-> None, fd |-> None, low |-> low, r |-> r, a |-> a, e |-> FALSE]
Nop == Low("nop", None, 0)
Add(p) == [p EXCEPT !.up = "add", !.fs = "f1", !.fd = "f1"]
End == [Nop EXCEPT !.e = TRUE]

MCShapes == {[n |-> 0, eop |-> TRUE], [n |-> 1, eop |-> FALSE], [n |-> 3, eop |-> TRUE]}
Tags(n0, n1, n2) == [a \in 0..2 |-> CHOOSE t \in MCShapes : t.n = <<n0, n1, n2>>[a + 1]]

MCMenus ==
  { [tags |-> Tags(0, 0, 0), cycles |-> 11, runs |-> 2,
     pairs |-> {Low("div", "f1", 0), Low("waitq", None, 0), Add(Nop), End,
                [Nop EXCEPT !.up = "max", !.fs = "f1", !.fd = "f2"]}],
    [tags |-> Tags(0, 0, 0), cycles |-> 7, runs |-> 1,
     pairs |-> {Low("vi", "i1", 0), Low("vi", "i2", 0), Low("xtop", "i1", 0),
                Low("branch", "i1", 0), Add(Nop), [Low("jump", None, 0) EXCEPT !.e = TRUE]}],
    [tags |-> Tags(1, 3, 0), cycles |-> 8, runs |-> 1,
     pairs |-> {Low("kick", None, 0), Low("kick", None, 2), Low("store", "f1", 1), Nop, End}],
    [tags |-> Tags(3, 1, 1), cycles |-> 9, runs |-> 1,
     pairs |-> {Add(Nop), Add(Low("fmand", "i1", 0)), Low("kick", None, 1), Nop}],
    [tags |-> Tags(1, 1, 0), cycles |-> 7, runs |-> 2,
     pairs |-> {Add(Low("bad", None, 0)), [Low("div", "f1", 0) EXCEPT !.up = "imm"],
                Low("div", "f1", 0), [Nop EXCEPT !.up = "bad"], Low("kick", None, 0),
                Add(Low("load", "f1", 1)), Add([Low("load", "f2", 1) EXCEPT !.e = TRUE])}] }
==============================================================================
