------------------------------ MODULE MCBuddy ------------------------------
(* Instantiates Buddy with a heap of four 2-byte blocks (a tree of seven   *)
(* nodes and four 2-byte dirty-bitmap chunks), two block values, and       *)
(* request sizes covering 0, each block order and one too large.           *)
EXTENDS Buddy

MCVals == {0, 1}
MCReqSizes == {0, 1, 3, 9}
MCCallocSizes == {1}
\* the sizes that allocate: one block or two
MCFitSizes == {1, 3}
=============================================================================
