---------------------------- MODULE AbstractHeap ----------------------------
(***************************************************************************)
(* What the speculative allocator of an LP promises its model, whatever    *)
(* its data structures: a heap of disjoint allocations, each a run of      *)
(* cells at consecutive addresses, plus a log of saved heaps.  A rollback  *)
(* brings back a saved heap exactly and forgets the newer ones; fossil     *)
(* collection forgets the oldest ones.  A cell nobody stored into holds     *)
(* UNDEF.                                                                  *)
(***************************************************************************)
EXTENDS Integers, Sequences, FiniteSets, SequencesExt

CONSTANTS
  Addrs,   \* the cell addresses the allocator can hand out
  MaxCells, \* the largest allocation, in cells
  Vals,    \* contents of a cell
  UNDEF    \* content of a cell never stored into

ASSUME UNDEF \notin Vals

VARIABLES
  heap,    \* start address of each allocation -> its cells, in order
  snaps    \* the saved heaps, oldest first

avars == <<heap, snaps>>

Cells(p, n) == p .. (p + n - 1)
Used == UNION {Cells(p, Len(heap[p])) : p \in DOMAIN heap}
Content == Vals \cup {UNDEF}

\* n cells at p that are not handed out; the first z of them read 0
Alloc(p, n, z) ==
  /\ n > 0 /\ Cells(p, n) \subseteq Addrs /\ Cells(p, n) \cap Used = {}
  /\ heap' = heap @@ (p :> [j \in 1 .. n |-> IF j <= z THEN 0 ELSE UNDEF])
  /\ UNCHANGED snaps

Release(p) ==
  /\ p \in DOMAIN heap
  /\ heap' = [q \in DOMAIN heap \ {p} |-> heap[q]]
  /\ UNCHANGED snaps

Store(p, j, v) ==
  /\ p \in DOMAIN heap /\ j \in DOMAIN heap[p]
  /\ heap' = [heap EXCEPT ![p][j] = v]
  /\ UNCHANGED snaps

\* resize p to n cells, in place (q = p) or at fresh cells q; the first
\* cells keep their content, the rest read UNDEF
Resize(p, q, n) ==
  LET old == heap[p]
      body == [j \in 1 .. n |-> IF j <= Len(old) THEN old[j] ELSE UNDEF]
      rest == [r \in DOMAIN heap \ {p} |-> heap[r]]
  IN  /\ p \in DOMAIN heap /\ n > 0 /\ Cells(q, n) \subseteq Addrs
      /\ \/ q = p /\ n <= Len(old)
         \/ Cells(q, n) \cap Used = {}
      /\ heap' = rest @@ (q :> body)
      /\ UNCHANGED snaps

Save ==
  /\ snaps' = Append(snaps, heap)
  /\ UNCHANGED heap

\* a saved heap comes back, and the newer ones are forgotten
Restore(i) ==
  /\ i \in 1 .. Len(snaps)
  /\ heap' = snaps[i]
  /\ snaps' = SubSeq(snaps, 1, i)

Discard(k) ==
  /\ k \in 1 .. Len(snaps)
  /\ snaps' = SubSeq(snaps, k, Len(snaps))
  /\ UNCHANGED heap

Clear ==
  /\ snaps' = << >>
  /\ UNCHANGED heap

Init ==
  /\ heap = [p \in {} |-> << >>]
  /\ snaps = << >>

Next ==
  \/ \E p \in Addrs, n \in 1 .. MaxCells : \E z \in 0 .. n : Alloc(p, n, z)
  \/ \E p \in DOMAIN heap : Release(p)
  \/ \E p \in DOMAIN heap, j \in 1 .. MaxCells, v \in Vals : Store(p, j, v)
  \/ \E p \in DOMAIN heap, q \in Addrs, n \in 1 .. MaxCells : Resize(p, q, n)
  \/ Save
  \/ \E i \in 1 .. Len(snaps) : Restore(i)
  \/ \E k \in 1 .. Len(snaps) : Discard(k)
  \/ Clear

Spec == Init /\ [][Next]_avars

=============================================================================
