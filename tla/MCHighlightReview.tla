-------------------------- MODULE MCHighlightReview --------------------------
(* Small instances of the life of a highlight row for TLC. *)
EXTENDS HighlightReview, TLC

\* The n-th clip of a run, "c1" to "c3", starts at n.
Place(c) == CASE c = "c1" -> 1 [] c = "c2" -> 2 [] c = "c3" -> 3

\* Every clip is a moment of its own.
Distinct == [c \in Clips |-> c]

\* The second clip, or every later clip, is a new detection of the first one's
\* moment.
Redetected == [Distinct EXCEPT !["c2"] = "c1"]
OneMoment == [c \in Clips |-> "c1"]

\* Over SQLite the clips may have rows of their own.
AnyBackend ==
  [b \in {"sqlite", "postgres", "faulty"} |->
     IF b = "sqlite" THEN {Distinct, Redetected} ELSE {OneMoment}]
SqliteOnly == [b \in {"sqlite"} |-> {Distinct}]

\* Clips that only touch, and clips of which one overlaps the next.
Apart == [c \in Clips |-> [start |-> Place(c), end |-> Place(c) + 1]]
Chained == [c \in Clips |-> [start |-> Place(c), end |-> Place(c) + 2]]

\* Requests differ in nothing but their order.
RequestSymmetry == Permutations(Reviews)
=============================================================================
