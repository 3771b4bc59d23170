----------------------------- MODULE MultiBuddy -----------------------------
(***************************************************************************)
(* The multi-buddy allocator of one LP: src/mm/buddy/multi.c.              *)
(*                                                                         *)
(* The heap is a growing set of buddy regions.  Each region is a          *)
(* struct buddy_state obtained from mm_alloc: its tree `longest` followed *)
(* by its 2^TotalExp bytes of memory.  mm_state.buddies keeps the regions  *)
(* sorted by address, and buddy_find_by_address finds the region of a      *)
(* pointer by binary search over it.  A checkpoint is one buffer holding,  *)
(* for each region from the last to the first, a record tagged with the    *)
(* region (orig) that holds its tree and its allocated blocks.             *)
(*                                                                         *)
(* Addresses: mm_alloc may place a region at any of the address slots      *)
(* 0 .. Slots - 1.  Slot s spans W units from Base(s): one for the tree,   *)
(* then one per heap block.  A slot no region of this LP occupies holds    *)
(* memory of someone else (another LP's region, a stack, a message).       *)
(*                                                                         *)
(* The per-region functions multi.c calls (buddy_malloc, buddy_free,        *)
(* buddy_best_effort_realloc, checkpoint_full_take/_restore, buddy_init)   *)
(* are not in the repository; buddy_malloc and buddy_free use the tree     *)
(* algorithms of buddy.c (module BuddyTree), the others follow the spec.   *)
(* The event-processing driver is the one of module Buddy.                 *)
(***************************************************************************)
EXTENDS BuddyTree

CONSTANTS
  Slots,         \* bound: addresses mm_alloc may return for a new region
  Vals,          \* contents a heap block may hold (0 is what calloc writes)
  ReqSizes,      \* request sizes (bytes) the model passes to malloc/realloc
  CallocSizes,   \* total sizes (bytes) the model passes to calloc
  MaxOps,        \* bound: allocator calls made by one event
  MaxAbs         \* bound: events processed since the LP started

ASSUME /\ Slots \in Nat \ {0}
       /\ 0 \in Vals /\ ReqSizes \subseteq Nat /\ CallocSizes \subseteq Nat
       /\ MaxOps \in Nat /\ MaxAbs \in Nat

VARIABLES
  buddies,    \* mm_state.buddies: the slots of the regions, by address
  tree,       \* longest of the region in each slot
  mem,        \* base memory of the region in each slot: a value per block
  used_mem,   \* mm_state.used_mem
  logs,       \* mm_state.logs: the checkpoint log, oldest first
  live,       \* the model's allocations: [slot, off, exp] records it holds
  defined,    \* <<slot, block>> of live allocations the model stored into
  ref,        \* |PES|: events processed since the last fossil collection
  coast,      \* events still to re-execute silently after a rollback
  phase,      \* "init", "idle", "event", "fini", or "stuck" (LP thread lost)
  ops,        \* allocator calls made by the running event
  base        \* events discarded by fossil collection so far

vars == <<buddies, tree, mem, used_mem, logs, live, defined, ref, coast, phase,
          ops, base>>

SlotSet == 0 .. (Slots - 1)
W == 1 + 2^Levels                   \* units of a struct buddy_state
Base(s) == s * W                    \* (void *)b of the region in slot s
Ptr(s, blk) == Base(s) + 1 + blk    \* address of heap block blk of slot s
PtrOf(a) == Ptr(a.slot, a.off \div BS)

(***************************************************************************)
(* buddy_find_by_address: binary search over the sorted buddies.  The loop *)
(* has no exit for a pointer in no region: it then revisits an (l, h) pair *)
(* forever (LOOP), or steps outside the array (OOB) after h = m - 1 wraps. *)
(* (l, h) takes at most (n + 1)^2 values, so more steps than that means    *)
(* the loop never ends.                                                    *)
(***************************************************************************)
LOOP == -1
OOB == -3

\* mutant: the search keeps m as its lower bound after a pointer above it
RECURSIVE Search_keep_m(_, _, _, _, _)
Search_keep_m(bs, ptr, l, h, fuel) ==
  LET m == (l + h) \div 2
  IN  IF fuel = 0 THEN LOOP
      ELSE IF m < 0 \/ m >= Len(bs) THEN OOB
      ELSE IF ptr < Base(bs[m + 1]) THEN Search_keep_m(bs, ptr, l, m - 1, fuel - 1)
      ELSE IF ptr > Base(bs[m + 1]) + W THEN Search_keep_m(bs, ptr, m, h, fuel - 1)
      ELSE m + 1

RECURSIVE Search(_, _, _, _, _)
Search(bs, ptr, l, h, fuel) ==
  LET m == (l + h) \div 2
  IN  IF fuel = 0 THEN LOOP
      ELSE IF m < 0 \/ m >= Len(bs) THEN OOB
      ELSE IF ptr < Base(bs[m + 1]) THEN Search(bs, ptr, l, m - 1, fuel - 1)
      ELSE IF ptr > Base(bs[m + 1]) + W THEN Search(bs, ptr, m + 1, h, fuel - 1)
      ELSE m + 1

\* the position in bs of the region found for ptr, LOOP or OOB
buddy_find_by_address(bs, ptr) ==
  Search(bs, ptr, 0, Len(bs) - 1, (Len(bs) + 1)^2 + 1)

(***************************************************************************)
(* Per-region operations.                                                  *)
(***************************************************************************)
\* buddy_malloc on a region whose root fits rb: the descent of buddy.c
buddy_malloc(lg, rb) ==
  LET i == Descend(lg, 0, TotalExp, rb)
  IN  [tree |-> FixUp([lg EXCEPT ![i] = 0], i), off |-> Offset(i, rb)]

\* buddy_free of the block blk: the climb and coalescing of buddy.c; the
\* freed size in bytes is returned
buddy_free(lg, blk) ==
  LET c == Climb(lg, blk + 2^Levels - 1, BlockExp)
  IN  [tree |-> Coalesce([lg EXCEPT ![c[1]] = c[2]], c[1], c[2]), size |-> 2^c[2]]

\* buddy_best_effort_realloc: a request that fits the block is served in
\* place by keeping its leftmost part of 2^rb bytes; otherwise the block's
\* size is reported
RECURSIVE LeftmostAt(_, _, _)
LeftmostAt(i, ns, rb) == IF ns = rb THEN i ELSE LeftmostAt(left_child(i), ns - 1, rb)

buddy_best_effort_realloc(lg, blk, req_size) ==
  LET c == Climb(lg, blk + 2^Levels - 1, BlockExp)
      rb == ReqBlks(req_size)
      j == LeftmostAt(c[1], c[2], rb)
  IN  IF c[2] < rb
      THEN [handled |-> FALSE, original |-> 2^c[2]]
      ELSE [handled |-> TRUE, variation |-> 2^rb - 2^c[2],
            tree |-> FixUp([lg EXCEPT ![j] = 0], j)]

\* checkpoint_full_take of the region in slot s: its record
checkpoint_full_take(s) ==
  LET vb == VisitBlocks(tree[s])
  IN  [orig |-> s, tree |-> tree[s], data |-> [k \in 1 .. Len(vb) |-> mem[s][vb[k]]]]

(***************************************************************************)
(* rs_malloc, after the NULL and ENOMEM returns: used_mem grows first, then *)
(* the regions are tried from the last to the first; if none fits, a new   *)
(* region from mm_alloc (at a free slot) is inserted before the first      *)
(* region above it.  The set of outcomes, one per possible new slot.       *)
(***************************************************************************)
FreeSlots(bs) == SlotSet \ Range(bs)

\* the position array_add_at gets: the first region with a higher address
InsertPos(bs, s) ==
  LET k == SelectInSeq(bs, LAMBDA x : Base(x) > Base(s))
  IN  IF k = 0 THEN Len(bs) + 1 ELSE k

MallocOutcomes(bs, tr, um, rb) ==
  LET k == SelectLastInSeq(bs, LAMBDA x : tr[x][0] >= rb)
      Got(b2, s) == LET r == buddy_malloc(IF s \in Range(bs) THEN tr[s] ELSE InitTree, rb)
                    IN  [buddies |-> b2, tree |-> [tr EXCEPT ![s] = r.tree],
                         used |-> um + 2^rb, a |-> [slot |-> s, off |-> r.off, exp |-> rb]]
  IN  IF k # 0 THEN {Got(bs, bs[k])}
      ELSE {Got(InsertAt(bs, InsertPos(bs, s), s), s) : s \in FreeSlots(bs)}

\* rs_free(ptr) for ptr inside region position k: the freed size leaves used_mem
FreeAt(tr, um, bs, k, ptr) ==
  LET s == bs[k]
      r == buddy_free(tr[s], ptr - Base(s) - 1)
  IN  [tree |-> [tr EXCEPT ![s] = r.tree], used |-> um - r.size]

\* the lookup of ptr lands in a region that holds it
Found(bs, ptr) ==
  LET k == buddy_find_by_address(bs, ptr)
  IN  k \notin {LOOP, OOB} /\ ptr - Base(bs[k]) - 1 \in Blocks

(***************************************************************************)
(* Checkpoint and restore.  checkpoint_full_restore returns NULL when the  *)
(* next record is not the region's (orig differs); the region is then     *)
(* reinitialised and the record is kept for the next region.  Past the     *)
(* last record the walk reads beyond the checkpoint buffer; that memory is *)
(* not a record of this buffer, so it is taken as a mismatch.              *)
(***************************************************************************)
NULL == [slot |-> -1, off |-> -1, exp |-> 0]
NOREC == [orig |-> -1]

\* mutant: the tree is copied back but the region's data is not
checkpoint_full_restore_tree_only(s, rec, ms) ==
  IF rec.orig # s THEN NOREC ELSE [orig |-> s, tree |-> rec.tree, mem |-> ms]

checkpoint_full_restore(s, rec, ms) ==
  IF rec.orig # s THEN NOREC
  ELSE [orig |-> s, tree |-> rec.tree,
        mem |-> Unpack(VisitBlocks(rec.tree), rec.data, ms, Blocks)]

\* mutant: the regions are walked from the first, not from the last
RECURSIVE RestoreWalk_forward(_, _, _, _, _, _)
RestoreWalk_forward(bs, recs, k, c, tr, m) ==
  IF k = 0 THEN [tree |-> tr, mem |-> m]
  ELSE LET s == bs[Len(bs) - k + 1]
           r == checkpoint_full_restore(s, IF c <= Len(recs) THEN recs[c] ELSE NOREC, m[s])
       IN  IF r = NOREC
           THEN RestoreWalk_forward(bs, recs, k - 1, c, [tr EXCEPT ![s] = InitTree], m)
           ELSE RestoreWalk_forward(bs, recs, k - 1, c + 1, [tr EXCEPT ![s] = r.tree],
                                    [m EXCEPT ![s] = r.mem])

\* the while(k--) loop of model_allocator_checkpoint_restore, record c next
RECURSIVE RestoreWalk(_, _, _, _, _, _)
RestoreWalk(bs, recs, k, c, tr, m) ==
  IF k = 0 THEN [tree |-> tr, mem |-> m]
  ELSE LET s == bs[k]
           r == checkpoint_full_restore(s, IF c <= Len(recs) THEN recs[c] ELSE NOREC, m[s])
       IN  IF r = NOREC
           THEN RestoreWalk(bs, recs, k - 1, c, [tr EXCEPT ![s] = InitTree], m)
           ELSE RestoreWalk(bs, recs, k - 1, c + 1, [tr EXCEPT ![s] = r.tree],
                            [m EXCEPT ![s] = r.mem])

\* model_allocator_checkpoint_take(r): one full record per region, last first
CheckpointTake(r) ==
  logs' = Append(logs,
            [ref_i |-> r, used_mem |-> used_mem,
             recs |-> [j \in 1 .. Len(buddies) |->
                         checkpoint_full_take(buddies[Len(buddies) - j + 1])],
             img |-> [live |-> live, defined |-> defined]])

(***************************************************************************)
(* The allocator entry points, called by the model inside an event.        *)
(***************************************************************************)
InEvent == phase \in {"init", "event"} /\ ops < MaxOps

\* the LP's thread never returns from the call (or corrupts memory it does
\* not own): nothing of the LP changes any more
Stuck ==
  /\ phase' = "stuck"
  /\ UNCHANGED <<buddies, tree, mem, used_mem, logs, live, defined, ref, coast,
                 ops, base>>

\* mutant: used_mem grows before the ENOMEM return, as if the increment
\* were moved above the size check
MallocOp_count_enomem(req_size, fill) ==
  /\ InEvent
  /\ ops' = ops + 1
  /\ \/ /\ req_size = 0
        /\ UNCHANGED <<buddies, tree, mem, used_mem, live, defined>>
     \/ /\ req_size # 0 /\ ReqBlks(req_size) > TotalExp
        /\ used_mem' = used_mem + 2^ReqBlks(req_size)
        /\ UNCHANGED <<buddies, tree, mem, live, defined>>
     \/ /\ req_size # 0 /\ ReqBlks(req_size) <= TotalExp
        /\ \E o \in MallocOutcomes(buddies, tree, used_mem, ReqBlks(req_size)) :
             /\ buddies' = o.buddies /\ tree' = o.tree /\ used_mem' = o.used
             /\ live' = live \cup {o.a}
             /\ UNCHANGED <<mem, defined>>
  /\ UNCHANGED <<logs, ref, coast, phase, base>>

\* rs_malloc(req_size); the caller then clears the first fill bytes
MallocOp(req_size, fill) ==
  /\ InEvent
  /\ ops' = ops + 1
  /\ \/ /\ req_size = 0 \/ ReqBlks(req_size) > TotalExp
        /\ UNCHANGED <<buddies, tree, mem, used_mem, live, defined>>
     \/ /\ req_size # 0 /\ ReqBlks(req_size) <= TotalExp
        /\ \E o \in MallocOutcomes(buddies, tree, used_mem, ReqBlks(req_size)) :
             LET b0 == o.a.off \div BS
                 zeroed == {b \in Blocks : b0 <= b /\ (b - b0) * BS < fill}
             IN  /\ buddies' = o.buddies
                 /\ tree' = o.tree
                 /\ used_mem' = o.used
                 /\ live' = live \cup {o.a}
                 /\ mem' = [mem EXCEPT ![o.a.slot] =
                              [b \in Blocks |-> IF b \in zeroed THEN 0 ELSE @[b]]]
                 /\ defined' = defined \cup {<<o.a.slot, b>> : b \in zeroed}
  /\ UNCHANGED <<logs, ref, coast, phase, base>>

Malloc(req_size) == MallocOp(req_size, 0)

\* rs_calloc(nmemb, size) with tot = nmemb * size
Calloc(tot) == MallocOp(tot, tot)

BlocksOf(a) == BlocksAt(a.off, a.exp)

\* rs_free(ptr) for an allocation a the model holds, or for NULL
Free(a) ==
  /\ InEvent
  /\ \/ a = NULL /\ ops' = ops + 1
        /\ UNCHANGED <<buddies, tree, mem, used_mem, logs, live, defined, ref,
                       coast, phase, base>>
     \/ a # NULL /\ ~Found(buddies, PtrOf(a)) /\ Stuck
     \/ /\ a # NULL /\ Found(buddies, PtrOf(a))
        /\ ops' = ops + 1
        /\ LET r == FreeAt(tree, used_mem, buddies,
                           buddy_find_by_address(buddies, PtrOf(a)), PtrOf(a))
           IN  tree' = r.tree /\ used_mem' = r.used
        /\ live' = live \ {a}
        /\ defined' = defined \ {<<a.slot, b>> : b \in BlocksOf(a)}
        /\ UNCHANGED <<buddies, mem, logs, ref, coast, phase, base>>

\* rs_realloc(ptr, req_size) for an allocation a the model holds, or NULL
Realloc(a, req_size) ==
  LET ptr == PtrOf(a)
      k == buddy_find_by_address(buddies, ptr)
      s == a.slot
      rb == ReqBlks(req_size)
      r == buddy_best_effort_realloc(tree[buddies[k]], ptr - Base(buddies[k]) - 1, req_size)
  IN  \/ /\ req_size = 0 /\ InEvent /\ ops' = ops + 1
         /\ UNCHANGED <<buddies, tree, mem, used_mem, logs, live, defined, ref,
                        coast, phase, base>>
      \/ req_size # 0 /\ a = NULL /\ Malloc(req_size)
      \/ req_size # 0 /\ a # NULL /\ InEvent /\ ~Found(buddies, ptr) /\ Stuck
      \/ /\ req_size # 0 /\ a # NULL /\ InEvent /\ Found(buddies, ptr)
         /\ ops' = ops + 1
         /\ \/ /\ r.handled
               /\ tree' = [tree EXCEPT ![buddies[k]] = r.tree]
               /\ used_mem' = used_mem + r.variation
               /\ live' = (live \ {a}) \cup {[a EXCEPT !.exp = rb]}
               /\ defined' = defined \ {<<s, b>> : b \in BlocksOf(a) \ BlocksAt(a.off, rb)}
               /\ UNCHANGED <<buddies, mem>>
            \/ /\ ~r.handled /\ rb > TotalExp
               /\ UNCHANGED <<buddies, tree, mem, used_mem, live, defined>>
            \/ /\ ~r.handled /\ rb <= TotalExp
               /\ \E o \in MallocOutcomes(buddies, tree, used_mem, rb) :
                    LET n == (IF req_size < r.original THEN req_size ELSE r.original)
                    \* memcpy(new_buffer, ptr, n): whole blocks from the start
                        ob == a.off \div BS
                        nb == o.a.off \div BS
                        cp == {j \in 0 .. ((n + BS - 1) \div BS - 1) : nb + j \in Blocks}
                        fr == FreeAt(o.tree, o.used, o.buddies,
                                     buddy_find_by_address(o.buddies, ptr), ptr)
                    IN  /\ Found(o.buddies, ptr)
                        /\ buddies' = o.buddies
                        /\ tree' = fr.tree
                        /\ used_mem' = fr.used
                        /\ mem' = [mem EXCEPT ![o.a.slot] =
                                     [b \in Blocks |-> IF b - nb \in cp
                                                       THEN mem[s][ob + b - nb] ELSE @[b]]]
                        /\ live' = (live \ {a}) \cup {o.a}
                        /\ defined' = (defined \ {<<s, b>> : b \in BlocksOf(a)})
                                      \cup {<<o.a.slot, nb + j>> :
                                              j \in {j \in cp : <<s, ob + j>> \in defined}}
         /\ UNCHANGED <<logs, ref, coast, phase, base>>

\* a store of v by the model at address ptr, instrumented by __write_mem:
\* pointers below the first region or past the last one are ignored; any
\* other is looked up (buddy_dirty_mark only feeds incremental checkpoints,
\* which multi.c does not take)
Filtered(bs, ptr) ==
  IF bs = << >> THEN TRUE ELSE ptr < Base(bs[1]) \/ ptr > Base(bs[Len(bs)]) + W

WriteMem(ptr, v) ==
  /\ InEvent
  /\ \/ /\ ~Filtered(buddies, ptr)
        /\ buddy_find_by_address(buddies, ptr) \in {LOOP, OOB}
        /\ Stuck
     \/ /\ IF Filtered(buddies, ptr) THEN TRUE
           ELSE buddy_find_by_address(buddies, ptr) \notin {LOOP, OOB}
        /\ ops' = ops + 1
        /\ LET own == UNION {{<<a.slot, b>> : b \in BlocksOf(a)} : a \in live}
               at == {x \in own : Ptr(x[1], x[2]) = ptr}
           IN  /\ mem' = [x \in SlotSet |-> [b \in Blocks |->
                            IF <<x, b>> \in at THEN v ELSE mem[x][b]]]
               /\ defined' = defined \cup at
        /\ UNCHANGED <<buddies, tree, used_mem, logs, live, ref, coast, phase, base>>

(***************************************************************************)
(* The LP's event processing (process.c, modelled from the spec), with     *)
(* the restore, fossil and teardown entry points of multi.c.              *)
(***************************************************************************)
\* end of LP_INIT: model_allocator_checkpoint_next_force_full (it only sets
\* dirty_mem, which multi.c never reads) and the checkpoint with index 0
LpInit ==
  /\ phase = "init"
  /\ CheckpointTake(0)
  /\ phase' = "idle"
  /\ UNCHANGED <<buddies, tree, mem, used_mem, live, defined, ref, coast, ops, base>>

StartEvent ==
  /\ phase = "idle"
  /\ coast > 0 \/ base + ref < MaxAbs
  /\ phase' = "event"
  /\ ops' = 0
  /\ UNCHANGED <<buddies, tree, mem, used_mem, logs, live, defined, ref, coast, base>>

\* the event joins the PES; a silently re-executed one takes no checkpoint
EndEvent ==
  /\ phase = "event"
  /\ phase' = "idle"
  /\ ref' = ref + 1
  /\ \/ coast > 0 /\ coast' = coast - 1 /\ UNCHANGED logs
     \/ coast = 0 /\ CheckpointTake(ref + 1) /\ UNCHANGED coast
  /\ UNCHANGED <<buddies, tree, mem, used_mem, live, defined, ops, base>>

\* a straggler: model_allocator_checkpoint_restore(p), then silent
\* re-execution up to p
Rollback(p) ==
  /\ phase = "idle" /\ coast = 0
  /\ LET i == SelectLastInSeq(logs, LAMBDA e : e.ref_i <= p)
         c == logs[i]
         r == RestoreWalk(buddies, c.recs, Len(buddies), 1, tree, mem)
     IN  /\ tree' = r.tree
         /\ mem' = r.mem
         /\ used_mem' = c.used_mem
         /\ logs' = SubSeq(logs, 1, i)
         /\ live' = c.img.live
         /\ defined' = c.img.defined
         /\ ref' = c.ref_i
         /\ coast' = p - c.ref_i
  /\ UNCHANGED <<buddies, phase, ops, base>>

\* model_allocator_fossil_lp_collect(self, tgt), then the PES loses the
\* entries before the returned index; every entry is a full checkpoint, so
\* the step back over incremental entries never moves
Fossil(tgt) ==
  /\ phase = "idle" /\ coast = 0
  /\ LET li == SelectLastInSeq(logs, LAMBDA e : e.ref_i <= tgt)
         r0 == logs[li].ref_i
     IN  /\ logs' = [k \in 1 .. (Len(logs) - li + 1) |->
                       [logs[k + li - 1] EXCEPT !.ref_i = @ - r0]]
         /\ ref' = ref - r0
         /\ base' = base + r0
  /\ UNCHANGED <<buddies, tree, mem, used_mem, live, defined, coast, phase, ops>>

\* model_allocator_lp_fini: the log and the regions are freed
LpFini ==
  /\ phase = "idle"
  /\ logs' = << >>
  /\ buddies' = << >>
  /\ phase' = "fini"
  /\ UNCHANGED <<tree, mem, used_mem, live, defined, ref, coast, ops, base>>

Halted == phase \in {"fini", "stuck"} /\ UNCHANGED vars

\* model_allocator_lp_init
Init ==
  /\ buddies = << >>
  /\ tree = [s \in SlotSet |-> InitTree]
  /\ mem = [s \in SlotSet |-> [b \in Blocks |-> 0]]
  /\ used_mem = 0
  /\ logs = << >>
  /\ live = {}
  /\ defined = {}
  /\ ref = 0
  /\ coast = 0
  /\ phase = "init"
  /\ ops = 0
  /\ base = 0

\* the addresses a store may target: blocks the model holds, and memory of
\* someone else in a slot no region occupies
StoreTargets ==
  UNION {{Ptr(a.slot, b) : b \in BlocksOf(a)} : a \in live}
    \cup {Ptr(s, 0) : s \in FreeSlots(buddies)}

Next ==
  \/ \E r \in ReqSizes : Malloc(r)
  \/ \E t \in CallocSizes : Calloc(t)
  \/ \E a \in live \cup {NULL} : Free(a)
  \/ \E a \in live \cup {NULL}, r \in ReqSizes : Realloc(a, r)
  \/ \E p \in StoreTargets, v \in Vals : WriteMem(p, v)
  \/ LpInit \/ StartEvent \/ EndEvent
  \/ \E p \in 0 .. (ref - 1) : Rollback(p)
  \/ \E t \in 1 .. ref : Fossil(t)
  \/ LpFini
  \/ Halted

Spec == Init /\ [][Next]_vars

(***************************************************************************)
(* Properties.                                                             *)
(***************************************************************************)
Running == phase \in {"init", "idle", "event"}

TypeOK ==
  /\ buddies \in Seq(SlotSet) /\ Len(buddies) <= Slots
  /\ tree \in [SlotSet -> [Bytes -> 0 .. TotalExp]]
  /\ mem \in [SlotSet -> [Blocks -> Vals]]
  /\ used_mem \in 0 .. (Slots * 2^TotalExp)
  /\ live \subseteq [slot : SlotSet, off : 0 .. (2^TotalExp - 1), exp : BlockExp .. TotalExp]
  /\ defined \subseteq SlotSet \X Blocks
  /\ ref \in Nat /\ coast \in Nat /\ base \in Nat /\ ops \in 0 .. MaxOps
  /\ phase \in {"init", "idle", "event", "fini", "stuck"}

InSlot(s) == {[off |-> a.off, exp |-> a.exp] : a \in {a \in live : a.slot = s}}

(* Regions and accounting, after any sequence of rs_malloc (new regions    *)
(* included), rs_free, rs_realloc (in place or moved) and restores: every  *)
(* allocation lies in a region, each region's tree is exact for the        *)
(* allocations in it, and used_mem, which sizes the data part of the next  *)
(* checkpoint buffer, equals the bytes checkpoint_full_take copies out of  *)
(* all regions.                                                            *)
HeapConsistent ==
  Running =>
    /\ \A a \in live : a.slot \in Range(buddies)
    /\ \A s \in Range(buddies) : TreeExact(tree[s], InSlot(s))
    /\ used_mem = BS * FoldSeq(LAMBDA s, acc : acc + Len(VisitBlocks(tree[s])), 0, buddies)

(* Every store the model makes returns from the write barrier: the LP's  *)
(* thread is never lost inside __write_mem.                               *)
StoresReturn == phase # "stuck"

(***************************************************************************)
(* Refinement: the allocator implements AbstractHeap.  An allocation is    *)
(* seen at the address of its first block, as the run of its blocks; a    *)
(* block the model never stored into reads UNDEF.  A log entry is seen as  *)
(* the heap its records hold, each region's data unpacked along the visit *)
(* of that record's tree.                                                  *)
(***************************************************************************)
UNDEF == -2

HeapView(L, D, M) ==
  [p \in {PtrOf(a) : a \in L} |->
     LET a == CHOOSE a \in L : PtrOf(a) = p
     IN  [j \in 1 .. 2^(a.exp - BlockExp) |->
            LET b == a.off \div BS + j - 1
            IN  IF <<a.slot, b>> \in D THEN M[a.slot][b] ELSE UNDEF]]

Decode(e) ==
  HeapView(e.img.live, e.img.defined,
           [s \in SlotSet |->
              LET k == SelectInSeq(e.recs, LAMBDA x : x.orig = s)
                  none == [b \in Blocks |-> UNDEF]
              IN  IF k = 0 THEN none
                  ELSE Unpack(VisitBlocks(e.recs[k].tree), e.recs[k].data, none, Blocks)])

UserAddrs == {Ptr(s, b) : s \in SlotSet, b \in Blocks}

AH == INSTANCE AbstractHeap
        WITH heap <- HeapView(live, defined, mem),
             snaps <- [k \in 1 .. Len(logs) |-> Decode(logs[k])],
             Addrs <- UserAddrs,
             MaxCells <- 2^Levels

(* The heap the model sees through rs_malloc, rs_calloc, rs_free,         *)
(* rs_realloc and its stores, checkpointed at every event, restored on a   *)
(* rollback and trimmed by fossil collection, behaves as AbstractHeap:     *)
(* allocations are disjoint and keep their content, realloc keeps the      *)
(* copied prefix, and a restore brings back exactly the saved heap.        *)
RefinesAbstractHeap == AH!Spec

====
