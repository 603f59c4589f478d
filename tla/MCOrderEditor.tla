--------------------------- MODULE MCOrderEditor ---------------------------
\* Instances of OrderEditor for TLC.
EXTENDS OrderEditor, TLC

\* The requests are all alike.
Symmetry == Permutations(Editor)

\* "bw" has a quantity tier: from three pages on each costs less.
MCRate(c, n) == IF c # "bw" THEN 5 ELSE IF n >= 3 THEN 2 ELSE 3

\* The first item is a document of two pages.
MCPageCount == [i \in Item |-> IF i = "i1" THEN 2 ELSE 1]
=============================================================================
