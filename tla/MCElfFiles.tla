------------------------------ MODULE MCElfFiles ------------------------------
(* Files for ElfImage with four cells of memory in two pages: segments at    *)
(* the edges of memory, overlapping, cut or beyond it; and the translations  *)
(* a guest may leave: none, swapped pages, a page mapped elsewhere.          *)
EXTENDS Integers, Sequences

Part(v, f, m) == [load |-> TRUE, inFile |-> TRUE, filesz |-> f, memsz |-> m, vaddr |-> v]
Good == {Part(0, 2, 3), Part(1, 1, 3), Part(2, 2, 2)}
MCSegments == Good \cup {Part(3, 1, 2), Part(4, 0, 0), Part(8, 1, 1), Part(13, 0, 2),
                         [Part(0, 1, 2) EXCEPT !.load = FALSE],
                         [Part(1, 1, 1) EXCEPT !.inFile = FALSE],
                         [Part(1, 2, 2) EXCEPT !.memsz = 1]}
Image(s) == [header |-> TRUE, segments |-> s, entry |-> 0]
MCImages == {Image(s) : s \in UNION {[1..n -> MCSegments] : n \in 0..2} \cup [1..3 -> Good]}
            \cup {[Image(<<Part(0, 2, 3)>>) EXCEPT !.entry = e] : e \in {4, 8, 12}}
            \cup {[Image(<<Part(0, 2, 3)>>) EXCEPT !.header = FALSE]}

Same == [p \in 0..6 |-> p]
MCTlbs == {Same, [Same EXCEPT ![0] = 1, ![1] = 0], [Same EXCEPT ![1] = 2]}
===============================================================================
