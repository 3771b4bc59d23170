---------------------------- MODULE MCMultiBuddy ----------------------------
(* Parameters of MultiBuddy for TLC. *)
EXTENDS MultiBuddy

\* block values, and the request sizes: NULL, one block, a whole region,
\* and one past a region (ENOMEM); all whole blocks, so that a realloc
\* copies whole blocks
MCVals == {0, 1}
MCReqSizes == {0, 2, 4, 6}
MCCallocSizes == {2}
\* the requests that allocate: one block and a whole region
MCFitSizes == {2, 4}
====
