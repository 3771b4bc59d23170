----------------------------- MODULE BuddyTree -----------------------------
(***************************************************************************)
(* The buddy tree of src/mm/buddy/buddy.c, shared by both allocator        *)
(* designs: the index macros, the "longest free run" array and the loops   *)
(* of malloc, free and buddy_tree_visit, as pure operators over a tree     *)
(* value lg (a function from node index to byte).  A buddy covers         *)
(* 2^TotalExp bytes in blocks of 2^BlockExp bytes.                          *)
(***************************************************************************)
EXTENDS Integers, Sequences, FiniteSets, SequencesExt

CONSTANTS
  TotalExp,      \* B_TOTAL_EXP: a buddy has 2^TotalExp bytes
  BlockExp       \* B_BLOCK_EXP: the smallest block has 2^BlockExp bytes

ASSUME BlockExp \in Nat \ {0} /\ TotalExp \in Nat /\ TotalExp > BlockExp

(***************************************************************************)
(* Tree and heap geometry, as the index macros of buddy.c compute it.      *)
(***************************************************************************)
BS == 2^BlockExp                          \* bytes of a block
Levels == TotalExp - BlockExp
TreeBytes == 2^(Levels + 1)               \* sizeof(longest); last byte unused
Bytes == 0 .. (TreeBytes - 1)
Nodes == 0 .. (TreeBytes - 2)
Blocks == 0 .. (2^Levels - 1)             \* heap blocks, leaf order

left_child(i) == 2 * i + 1
right_child(i) == 2 * i + 2
parent(i) == (i + 1) \div 2 - 1
MaxOf(a, b) == IF a >= b THEN a ELSE b

\* depth of node i: floor(log2(i + 1))
LevelTab == [i \in Bytes |-> CHOOSE k \in 0 .. (Levels + 1) : 2^k <= i + 1 /\ i + 1 < 2^(k + 1)]
Level(i) == LevelTab[i]
NodeExp(i) == TotalExp - Level(i)
\* ((i + 1) << node_size) - (1 << B_TOTAL_EXP)
Offset(i, node_size) == (i + 1) * 2^node_size - 2^TotalExp
\* next_exp_of_2(x): number of significant bits of x
next_exp_of_2(x) == CHOOSE k \in 0 .. (TotalExp + 2) :
                      x < 2^k /\ (k = 0 \/ 2^(k - 1) <= x)

BlocksAt(off, e) == (off \div BS) .. ((off + 2^e) \div BS - 1)
NodeBlocksTab == [i \in Nodes |-> BlocksAt(Offset(i, NodeExp(i)), NodeExp(i))]
NodeBlocks(i) == NodeBlocksTab[i]
LiveBlocks(L) == UNION {BlocksAt(a.off, a.exp) : a \in L}

(***************************************************************************)
(* buddy_tree_visit: the allocated regions of a tree, in address order.    *)
(* A node with longest 0 is one region; a fully free node is skipped; any  *)
(* other node is split into its children (a leaf is always one of the two).*)
(***************************************************************************)
\* mutant: the walk enters the right child before the left one
RECURSIVE VisitFrom_right_first(_, _, _)
VisitFrom_right_first(lg, i, l) ==
  IF lg[i] = 0 THEN << [off |-> Offset(i, l), len |-> 2^l] >>
  ELSE IF lg[i] = l THEN << >>
  ELSE VisitFrom_right_first(lg, right_child(i), l - 1)
         \o VisitFrom_right_first(lg, left_child(i), l - 1)

RECURSIVE VisitFrom(_, _, _)
VisitFrom(lg, i, l) ==
  IF lg[i] = 0 THEN << [off |-> Offset(i, l), len |-> 2^l] >>
  ELSE IF lg[i] = l THEN << >>
  ELSE VisitFrom(lg, left_child(i), l - 1) \o VisitFrom(lg, right_child(i), l - 1)

buddy_tree_visit(lg) == VisitFrom(lg, 0, TotalExp)

\* the heap blocks the visit hands to on_visit, one per block, in order
VisitBlocks(lg) ==
  LET v == buddy_tree_visit(lg)
  IN  FlattenSeq([k \in 1 .. Len(v) |->
                   [j \in 1 .. (v[k].len \div BS) |-> v[k].off \div BS + j - 1]])

(***************************************************************************)
(* __wrap_malloc: the descent and the back-propagation.                    *)
(***************************************************************************)
\* mutant: the descent leaves a left child that fits exactly
RECURSIVE Descend_strict(_, _, _, _)
Descend_strict(lg, i, node_size, req_blks) ==
  IF node_size > req_blks
  THEN LET l == left_child(i)
       IN  Descend_strict(lg, IF lg[l] <= req_blks THEN l + 1 ELSE l,
                          node_size - 1, req_blks)
  ELSE i

RECURSIVE Descend(_, _, _, _)
Descend(lg, i, node_size, req_blks) ==
  IF node_size > req_blks
  THEN LET l == left_child(i)
       IN  Descend(lg, IF lg[l] < req_blks THEN l + 1 ELSE l, node_size - 1, req_blks)
  ELSE i

RECURSIVE FixUp(_, _)
FixUp(lg, i) ==
  IF i = 0 THEN lg
  ELSE LET p == parent(i)
       IN  FixUp([lg EXCEPT ![p] = MaxOf(lg[left_child(p)], lg[right_child(p)])], p)

\* the node i and all its ancestors
RECURSIVE PathToRoot(_)
PathToRoot(i) == IF i = 0 THEN {0} ELSE {i} \cup PathToRoot(parent(i))

ReqBlks(req_size) == MaxOf(next_exp_of_2(req_size - 1), BlockExp)

(***************************************************************************)
(* __wrap_free: climb from the leaf of ptr to the allocated node, then     *)
(* coalesce upwards.                                                       *)
(***************************************************************************)
\* mutant: the climb ignores the allocated mark and runs to the root
RECURSIVE Climb_to_root(_, _, _)
Climb_to_root(lg, i, node_size) ==
  IF i = 0 THEN <<i, node_size>> ELSE Climb_to_root(lg, parent(i), node_size + 1)

RECURSIVE Climb(_, _, _)
Climb(lg, i, node_size) ==
  IF lg[i] = 0 THEN <<i, node_size>>
  ELSE Climb(lg, parent(i), node_size + 1)

\* mutant: free never merges two free buddies
RECURSIVE Coalesce_nomerge(_, _, _)
Coalesce_nomerge(lg, i, node_size) ==
  IF i = 0 THEN lg
  ELSE LET p == parent(i)
       IN  Coalesce_nomerge([lg EXCEPT ![p] = MaxOf(lg[left_child(p)], lg[right_child(p)])],
                            p, node_size + 1)

RECURSIVE Coalesce(_, _, _)
Coalesce(lg, i, node_size) ==
  IF i = 0 THEN lg
  ELSE LET p == parent(i)
           l == lg[left_child(p)]
           r == lg[right_child(p)]
       IN  Coalesce([lg EXCEPT ![p] = IF l = node_size /\ r = node_size
                                      THEN node_size + 1 ELSE MaxOf(l, r)],
                    p, node_size + 1)


\* the tree of an empty buddy, as model_allocator_lp_init fills it
InitTree == [n \in Bytes |-> TotalExp - Level(n)]

(***************************************************************************)
(* Unpack copies data[k] into the k-th block b of the visit vb when b is   *)
(* in sel.  Reading past the end of data is undefined behaviour: such a    *)
(* block gets JUNK.                                                        *)
(***************************************************************************)
JUNK == -1

Unpack(vb, data, m, sel) ==
  [b \in Blocks |->
     LET ks == {k \in 1 .. Len(vb) : vb[k] = b}
     IN  IF ks # {} /\ b \in sel
         THEN LET k == CHOOSE k \in ks : TRUE
              IN  IF k <= Len(data) THEN data[k] ELSE JUNK
         ELSE m[b]]

(***************************************************************************)
(* Reference definitions for the properties: the longest value a node     *)
(* must hold when the allocations L ([off, exp] records) are handed out.  *)
(***************************************************************************)
SubtreeTab == [i \in Nodes |-> {j \in Nodes : NodeBlocks(j) \subseteq NodeBlocks(i)}]
IsFreeIn(L, j) == NodeBlocks(j) \cap LiveBlocks(L) = {}
TrueLongest(L, i) ==
  LET f == {NodeExp(j) : j \in {j \in SubtreeTab[i] : IsFreeIn(L, j)}}
  IN  IF f = {} THEN 0 ELSE Max(f)
InsideLive(L, i) ==
  \E a \in L : NodeBlocks(i) \subseteq BlocksAt(a.off, a.exp)
               /\ NodeBlocks(i) # BlocksAt(a.off, a.exp)

\* L is a set of disjoint allocations and lg stores, for every node not
\* strictly inside one of them, the largest free block of its subtree
TreeExact(lg, L) ==
  /\ \A a, b \in L : a # b => BlocksAt(a.off, a.exp) \cap BlocksAt(b.off, b.exp) = {}
  /\ \A i \in Nodes : ~InsideLive(L, i) => lg[i] = TrueLongest(L, i)

=============================================================================
