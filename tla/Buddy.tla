------------------------------- MODULE Buddy -------------------------------
(***************************************************************************)
(* The speculative allocator of one LP: src/mm/buddy/buddy.c.              *)
(*                                                                         *)
(* The heap is a buddy system whose "longest free run" tree lives in the   *)
(* byte array `longest`, laid out in memory right before the heap buffer   *)
(* `base_mem`.  Every checkpoint appends an entry to the log `logs`; in    *)
(* the incremental build (ROOTSIM_INCREMENTAL) a checkpoint may hold only  *)
(* the 2^B_BLOCK_EXP-byte blocks of (longest ++ base_mem) dirtied since    *)
(* the previous one.  Rollback restores a logged checkpoint, fossil        *)
(* collection discards the log prefix nobody can roll back to.             *)
(*                                                                         *)
(* The allocator is driven by the LP's event processing (process.c, not in *)
(* this repository): an event calls malloc/free/write any number of times, *)
(* then the event is appended to the LP's processed event sequence (PES)   *)
(* and model_allocator_checkpoint_take(|PES|) is called.  That driver is   *)
(* modelled from the spec.  Data is abstracted: a heap block holds a value *)
(* of Vals, addresses are byte offsets in 0 .. 2^TotalExp - 1.            *)
(***************************************************************************)
EXTENDS BuddyTree

CONSTANTS
  LogFreq,       \* B_LOG_FREQUENCY
  ThresholdNum,  \* B_LOG_INCREMENTAL_THRESHOLD = ThresholdNum / ThresholdDen
  ThresholdDen,
  Incremental,   \* is the build compiled with ROOTSIM_INCREMENTAL?
  Vals,          \* contents a heap block may hold (0 is what calloc writes)
  ReqSizes,      \* request sizes (bytes) the model passes to malloc/realloc
  CallocSizes,   \* total sizes (bytes) the model passes to calloc
  MaxOps,        \* bound: allocator calls made by one event
  MaxAbs         \* bound: events processed since the LP started

ASSUME /\ LogFreq \in Nat \ {0}
       /\ ThresholdNum \in Nat /\ ThresholdDen \in Nat \ {0}
       /\ Incremental \in BOOLEAN
       /\ 0 \in Vals /\ ReqSizes \subseteq Nat /\ CallocSizes \subseteq Nat
       /\ MaxOps \in Nat /\ MaxAbs \in Nat

VARIABLES
  longest,    \* mm_state.longest: the buddy tree, one byte per node
  mem,        \* mm_state.base_mem: content of each heap block
  used_mem,   \* mm_state.used_mem: bytes handed out
  dirty,      \* mm_state.dirty: dirty blocks of (longest ++ base_mem)
  dirty_mem,  \* mm_state.dirty_mem
  logs,       \* mm_state.logs: the checkpoint log, oldest first
  live,       \* the model's allocations: [off, exp] records it holds
  defined,    \* blocks of live allocations the model has stored into
  ref,        \* |PES|: events processed since the last fossil collection
  coast,      \* events still to re-execute silently after a rollback
  phase,      \* "init" (LP_INIT running), "idle", "event", "aborted", "fini"
  ops,        \* allocator calls made by the running event
  base        \* events discarded by fossil collection so far

vars == <<longest, mem, used_mem, dirty, dirty_mem, logs, live, defined, ref,
          coast, phase, ops, base>>

(***************************************************************************)
(* The dirty bitmap of the incremental build: the tree chunks, then the   *)
(* heap blocks.                                                           *)
(***************************************************************************)
TreeChunks == 2^(TotalExp - 2 * BlockExp + 1)
DirtyIdx == 0 .. (TreeChunks + 2^Levels - 1)
\* the dirty-bitmap index of the tree byte i, and of the heap block b
TreeChunk(i) == i \div BS
\* mutant: the memory bitmap indices start one past the tree's
MemChunk_shifted(b) == b + TreeChunks + 1
MemChunk(b) == b + TreeChunks

(***************************************************************************)
(* Checkpoint entries.  A full checkpoint (checkpoint_full_take) copies    *)
(* the whole tree and packs the allocated blocks in visit order; an        *)
(* incremental one (checkpoint_incremental_take) copies the dirty blocks   *)
(* of (longest ++ base_mem).  `img` is history: the heap the entry       *)
(* entry stands for and the number of the event it was taken after.        *)
(***************************************************************************)
Image == [tree |-> longest, mem |-> Restrict(mem, defined),
          live |-> live, defined |-> defined, used |-> used_mem]

checkpoint_full_take(r) ==
  LET vb == VisitBlocks(longest)
  IN  [ref_i |-> r, inc |-> FALSE, dirty |-> dirty, used_mem |-> used_mem,
       tree |-> longest, data |-> [k \in 1 .. Len(vb) |-> mem[vb[k]]],
       img |-> Image]

checkpoint_incremental_take(r) ==
  [ref_i |-> r, inc |-> TRUE, dirty |-> dirty, used_mem |-> used_mem,
   tree |-> Restrict(longest, {n \in Bytes : TreeChunk(n) \in dirty}),
   data |-> Restrict(mem, {b \in Blocks : MemChunk(b) \in dirty}),
   img |-> Image]

\* model_allocator_checkpoint_take(r), with dm the value of dirty_mem
CheckpointTake(r, dm) ==
  IF r % LogFreq # 0 THEN UNCHANGED <<logs, dirty, dirty_mem>>
  ELSE /\ logs' = Append(logs,
                    IF Incremental /\ dm * ThresholdDen < used_mem * ThresholdNum
                    THEN checkpoint_incremental_take(r)
                    ELSE checkpoint_full_take(r))
       /\ dirty' = {}
       /\ dirty_mem' = 0

\* model_allocator_checkpoint_next_force_full: the dirty_mem it stores
ForcedDirtyMem == IF Incremental THEN (used_mem * ThresholdNum) \div ThresholdDen
                  ELSE dirty_mem

(***************************************************************************)
(* Restore (Unpack and JUNK are in BuddyTree).                             *)
(***************************************************************************)
\* mutant: the tree is not copied back
checkpoint_full_restore_keep_tree(c) ==
  [lg |-> longest, m |-> Unpack(VisitBlocks(c.tree), c.data, mem, Blocks)]

\* mutant: the read pointer is not advanced past each copied region
checkpoint_full_restore_no_advance(c) ==
  [lg |-> c.tree,
   m |-> Unpack(VisitBlocks(c.tree), [k \in DOMAIN c.data |-> c.data[1]], mem,
                Blocks)]

checkpoint_full_restore(c) ==
  [lg |-> c.tree, m |-> Unpack(VisitBlocks(c.tree), c.data, mem, Blocks)]

\* the do/while loop of checkpoint_incremental_restore, from log entry i back
RECURSIVE IncWalk(_, _, _, _)
IncWalk(lg, m, need, i) ==
  LET c == logs[i]
      hit == c.dirty \cap need
      lg2 == [n \in Bytes |-> IF TreeChunk(n) \in hit THEN c.tree[n] ELSE lg[n]]
      m2 == [b \in Blocks |-> IF MemChunk(b) \in hit THEN c.data[b] ELSE m[b]]
  IN  IF need \ hit # {} /\ i > 1 /\ logs[i - 1].inc
      THEN IncWalk(lg2, m2, need \ hit, i - 1)
      ELSE [lg |-> lg2, m |-> m2, need |-> need \ hit, cur |-> i - 1]

\* mutant: the dirty maps of the newer log entries are not merged in
checkpoint_incremental_restore_no_merge(i) ==
  LET w == IncWalk(longest, mem, dirty, i)
      f == logs[w.cur]
      lg3 == [n \in Bytes |-> IF TreeChunk(n) \in w.need THEN f.tree[n] ELSE w.lg[n]]
  IN  IF w.need = {} THEN [lg |-> w.lg, m |-> w.m]
      ELSE [lg |-> lg3,
            m |-> Unpack(VisitBlocks(lg3), f.data, w.m,
                         {b \in Blocks : MemChunk(b) \in w.need})]

checkpoint_incremental_restore(i) ==
  LET need == dirty \cup UNION {logs[k].dirty : k \in (i + 1) .. Len(logs)}
      w == IncWalk(longest, mem, need, i)
      f == logs[w.cur]
      lg3 == [n \in Bytes |-> IF TreeChunk(n) \in w.need THEN f.tree[n] ELSE w.lg[n]]
  IN  IF w.need = {} THEN [lg |-> w.lg, m |-> w.m]
      ELSE [lg |-> lg3,
            m |-> Unpack(VisitBlocks(lg3), f.data, w.m,
                         {b \in Blocks : MemChunk(b) \in w.need})]

\* model_allocator_checkpoint_restore: the heap restoring log entry i yields
RestoreResult(i) ==
  IF logs[i].inc THEN checkpoint_incremental_restore(i)
  ELSE checkpoint_full_restore(logs[i])

\* the heaps a restored heap with JUNK blocks may turn out to be
Fill(m) == IF JUNK \notin Range(m) THEN {m}
           ELSE {f \in [Blocks -> Vals] : \A b \in Blocks : m[b] # JUNK => f[b] = m[b]}

(***************************************************************************)
(* Actions of the model code inside an event: the allocator entry points.  *)
(***************************************************************************)
NULL == [off |-> -1, exp |-> 0]

InEvent == phase \in {"init", "event"} /\ ops < MaxOps

\* __wrap_malloc(req_size); the caller then clears the first fill bytes of
\* the new allocation a (fill = 0 for a plain malloc)
MallocOp(req_size, fill) ==
  /\ InEvent
  /\ ops' = ops + 1
  /\ \/ /\ req_size = 0 \/ longest[0] < ReqBlks(req_size)
        /\ UNCHANGED <<longest, mem, used_mem, dirty, live, defined>>
     \/ /\ req_size # 0 /\ longest[0] >= ReqBlks(req_size)
        /\ LET rb == ReqBlks(req_size)
               i == Descend(longest, 0, TotalExp, rb)
               a == [off |-> Offset(i, rb), exp |-> rb]
               zeroed == IF fill = 0 THEN {}
                         ELSE (a.off \div BS) .. ((a.off + fill - 1) \div BS)
           IN  /\ longest' = FixUp([longest EXCEPT ![i] = 0], i)
               /\ used_mem' = used_mem + 2^rb
               /\ dirty' = IF Incremental
                           THEN dirty \cup {TreeChunk(j) : j \in PathToRoot(i)}
                           ELSE dirty
               /\ live' = live \cup {a}
               /\ mem' = [b \in Blocks |-> IF b \in zeroed THEN 0 ELSE mem[b]]
               /\ defined' = defined \cup zeroed
  /\ UNCHANGED <<dirty_mem, logs, ref, coast, phase, base>>

Malloc(req_size) == MallocOp(req_size, 0)

\* __wrap_calloc: memset the first tot bytes, without the write barrier
Calloc(tot) ==
  MallocOp(tot, tot)

\* mutant: free subtracts the size of a child of the freed node
FreeOp_half(a) ==
  /\ InEvent
  /\ ops' = ops + 1
  /\ \/ /\ a = NULL
        /\ UNCHANGED <<longest, used_mem, dirty, live, defined>>
     \/ /\ a # NULL
        /\ LET c == Climb(longest, (a.off \div BS) + 2^Levels - 1, BlockExp)
           IN  /\ longest' = Coalesce([longest EXCEPT ![c[1]] = c[2]], c[1], c[2])
               /\ used_mem' = used_mem - 2^(c[2] - 1)
               /\ dirty' = IF Incremental
                           THEN dirty \cup {TreeChunk(j) : j \in PathToRoot(c[1])}
                           ELSE dirty
               /\ live' = live \ {a}
               /\ defined' = defined \ BlocksAt(a.off, a.exp)
  /\ UNCHANGED <<mem, dirty_mem, logs, ref, coast, phase, base>>

\* __wrap_free(ptr) for a block a the model holds, or for NULL
FreeOp(a) ==
  /\ InEvent
  /\ ops' = ops + 1
  /\ \/ /\ a = NULL
        /\ UNCHANGED <<longest, used_mem, dirty, live, defined>>
     \/ /\ a # NULL
        /\ LET c == Climb(longest, (a.off \div BS) + 2^Levels - 1, BlockExp)
               i == c[1]
               node_size == c[2]
           IN  /\ longest' = Coalesce([longest EXCEPT ![i] = node_size], i, node_size)
               /\ used_mem' = used_mem - 2^node_size
               /\ dirty' = IF Incremental
                           THEN dirty \cup {TreeChunk(j) : j \in PathToRoot(i)}
                           ELSE dirty
               /\ live' = live \ {a}
               /\ defined' = defined \ BlocksAt(a.off, a.exp)
  /\ UNCHANGED <<mem, dirty_mem, logs, ref, coast, phase, base>>

Free(a) == FreeOp(a)

\* __wrap_realloc: only the degenerate cases are served, the rest aborts
Realloc(a, req_size) ==
  \/ req_size = 0 /\ FreeOp(a)
  \/ req_size # 0 /\ a = NULL /\ Malloc(req_size)
  \/ /\ req_size # 0 /\ a # NULL /\ InEvent
     /\ phase' = "aborted"
     /\ UNCHANGED <<longest, mem, used_mem, dirty, dirty_mem, logs, live,
                    defined, ref, coast, ops, base>>

\* the blocks a store of s bytes at ptr = diff overwrites
StoredBlocks(diff, s) == (diff \div BS) .. ((diff + s - 1) \div BS)

\* mutant: the offset of ptr inside its block is not added to siz
WriteMem_no_offset(diff, s, v) ==
  LET first == diff \div BS
      siz == (s - 1) \div BS
  IN  /\ InEvent
      /\ ops' = ops + 1
      /\ mem' = [b \in Blocks |-> IF b \in StoredBlocks(diff, s) THEN v ELSE mem[b]]
      /\ dirty' = IF Incremental
                  THEN dirty \cup {MemChunk(b) : b \in first .. (first + siz)}
                  ELSE dirty
      /\ dirty_mem' = IF Incremental THEN dirty_mem + siz ELSE dirty_mem
      /\ defined' = defined \cup StoredBlocks(diff, s)
      /\ UNCHANGED <<longest, used_mem, logs, live, ref, coast, phase, base>>

\* a store of s bytes of value v at ptr = diff, instrumented by
\* __write_mem(ptr, s), which marks blocks first .. first + siz dirty
WriteMem(diff, s, v) ==
  LET first == diff \div BS
      siz == (s + (diff % BS) - 1) \div BS
  IN  /\ InEvent
      /\ ops' = ops + 1
      /\ mem' = [b \in Blocks |-> IF b \in StoredBlocks(diff, s) THEN v ELSE mem[b]]
      /\ dirty' = IF Incremental
                  THEN dirty \cup {MemChunk(b) : b \in first .. (first + siz)}
                  ELSE dirty
      /\ dirty_mem' = IF Incremental THEN dirty_mem + siz ELSE dirty_mem
      /\ defined' = defined \cup StoredBlocks(diff, s)
      /\ UNCHANGED <<longest, used_mem, logs, live, ref, coast, phase, base>>

(***************************************************************************)
(* The LP's event processing (process.c, modelled from the spec).          *)
(***************************************************************************)
\* end of LP_INIT: force a full checkpoint with reference index 0
LpInit ==
  /\ phase = "init"
  /\ CheckpointTake(0, ForcedDirtyMem)
  /\ phase' = "idle"
  /\ UNCHANGED <<longest, mem, used_mem, live, defined, ref, coast, ops, base>>

StartEvent ==
  /\ phase = "idle"
  /\ coast > 0 \/ base + ref < MaxAbs
  /\ phase' = "event"
  /\ ops' = 0
  /\ UNCHANGED <<longest, mem, used_mem, dirty, dirty_mem, logs, live, defined,
                 ref, coast, base>>

\* the event joins the PES; a silently re-executed one takes no checkpoint
EndEvent ==
  /\ phase = "event"
  /\ phase' = "idle"
  /\ ref' = ref + 1
  /\ \/ coast > 0 /\ coast' = coast - 1 /\ UNCHANGED <<logs, dirty, dirty_mem>>
     \/ coast = 0 /\ CheckpointTake(ref + 1, dirty_mem) /\ UNCHANGED coast
  /\ UNCHANGED <<longest, mem, used_mem, live, defined, ops, base>>

\* model_allocator_checkpoint_next_force_full, called between events
ForceFull ==
  /\ phase = "idle" /\ coast = 0
  /\ dirty_mem' = ForcedDirtyMem
  /\ UNCHANGED <<longest, mem, used_mem, dirty, logs, live, defined, ref, coast,
                 phase, ops, base>>

\* a straggler forces a rollback to before PES entry p:
\* model_allocator_checkpoint_restore(p), then silent re-execution up to p
Rollback(p) ==
  /\ phase = "idle" /\ coast = 0
  /\ LET i == SelectLastInSeq(logs, LAMBDA e : e.ref_i <= p)
         c == logs[i]
     IN  /\ longest' = RestoreResult(i).lg
         /\ mem' \in Fill(RestoreResult(i).m)
         /\ used_mem' = c.used_mem
         /\ logs' = SubSeq(logs, 1, i)
         /\ live' = c.img.live
         /\ defined' = c.img.defined
         /\ ref' = c.ref_i
         /\ coast' = p - c.ref_i
  /\ dirty' = {}
  /\ dirty_mem' = 0
  /\ UNCHANGED <<phase, ops, base>>

\* fossil_lp_collect with target PES index tgt: model_allocator_fossil_lp_collect,
\* then the PES loses the entries before the returned reference index
\* mutant: the reference indices kept are not renumbered
Fossil_no_renumber(tgt) ==
  /\ phase = "idle" /\ coast = 0
  /\ LET newest == SelectLastInSeq(logs, LAMBDA e : e.ref_i <= tgt)
         li == IF Incremental
               THEN SelectLastInSubSeq(logs, 1, newest, LAMBDA e : ~e.inc)
               ELSE newest
         r0 == logs[li].ref_i
     IN  /\ logs' = SubSeq(logs, li, Len(logs))
         /\ ref' = ref - r0
         /\ base' = base + r0
  /\ UNCHANGED <<longest, mem, used_mem, dirty, dirty_mem, live, defined, coast,
                 phase, ops>>

\* mutant: the kept prefix is not snapped back to a full checkpoint
Fossil_no_snap(tgt) ==
  /\ phase = "idle" /\ coast = 0
  /\ LET li == SelectLastInSeq(logs, LAMBDA e : e.ref_i <= tgt)
         r0 == logs[li].ref_i
     IN  /\ logs' = [k \in 1 .. (Len(logs) - li + 1) |->
                       [logs[k + li - 1] EXCEPT !.ref_i = @ - r0]]
         /\ ref' = ref - r0
         /\ base' = base + r0
  /\ UNCHANGED <<longest, mem, used_mem, dirty, dirty_mem, live, defined, coast,
                 phase, ops>>

Fossil(tgt) ==
  /\ phase = "idle" /\ coast = 0
  /\ LET newest == SelectLastInSeq(logs, LAMBDA e : e.ref_i <= tgt)
         li == IF Incremental
               THEN SelectLastInSubSeq(logs, 1, newest, LAMBDA e : ~e.inc)
               ELSE newest
         r0 == logs[li].ref_i
     IN  /\ logs' = [k \in 1 .. (Len(logs) - li + 1) |->
                       [logs[k + li - 1] EXCEPT !.ref_i = @ - r0]]
         /\ ref' = ref - r0
         /\ base' = base + r0
  /\ UNCHANGED <<longest, mem, used_mem, dirty, dirty_mem, live, defined, coast,
                 phase, ops>>

\* model_allocator_lp_fini at teardown, between events: the log is freed
LpFini ==
  /\ phase = "idle"
  /\ logs' = << >>
  /\ phase' = "fini"
  /\ UNCHANGED <<longest, mem, used_mem, dirty, dirty_mem, live, defined, ref,
                 coast, ops, base>>

\* the run is over, after abort() or after teardown
Halted == phase \in {"aborted", "fini"} /\ UNCHANGED vars

Init ==
  /\ longest = InitTree
  /\ mem = [b \in Blocks |-> 0]
  /\ used_mem = 0
  /\ dirty = {}
  /\ dirty_mem = 0
  /\ logs = << >>
  /\ live = {}
  /\ defined = {}
  /\ ref = 0
  /\ coast = 0
  /\ phase = "init"
  /\ ops = 0
  /\ base = 0

Next ==
  \/ \E r \in ReqSizes : Malloc(r)
  \/ \E t \in CallocSizes : Calloc(t)
  \/ \E a \in live \cup {NULL} : Free(a)
  \/ \E a \in live \cup {NULL}, r \in ReqSizes : Realloc(a, r)
  \/ \E a \in live : \E diff \in a.off .. (a.off + 2^a.exp - 1) :
       \E s \in 1 .. (a.off + 2^a.exp - diff), v \in Vals : WriteMem(diff, s, v)
  \/ LpInit \/ StartEvent \/ EndEvent \/ ForceFull
  \/ \E p \in 0 .. (ref - 1) : Rollback(p)
  \/ \E t \in 1 .. ref : Fossil(t)
  \/ LpFini
  \/ Halted

Spec == Init /\ [][Next]_vars

(***************************************************************************)
(* Properties.                                                             *)
(***************************************************************************)
TypeOK ==
  /\ longest \in [Bytes -> 0 .. TotalExp]
  /\ mem \in [Blocks -> Vals]
  /\ used_mem \in 0 .. 2^TotalExp
  /\ dirty \subseteq DirtyIdx
  /\ dirty_mem \in Nat
  /\ \A k \in 1 .. Len(logs) : logs[k].ref_i \in Nat /\ logs[k].inc \in BOOLEAN
  /\ live \subseteq [off : 0 .. (2^TotalExp - 1), exp : BlockExp .. TotalExp]
  /\ defined \subseteq Blocks
  /\ ref \in Nat /\ coast \in Nat /\ base \in Nat
  /\ phase \in {"init", "idle", "event", "aborted", "fini"}
  /\ ops \in 0 .. MaxOps


(* Free-tree invariant (malloc, free, calloc, realloc, and the tree that a *)
(* rollback restores): the blocks handed out never overlap, and every node *)
(* not strictly inside an allocated block stores exactly the largest free  *)
(* block of its subtree.                                                   *)
TreeConsistent ==
  TreeExact(longest, live)

(* buddy_tree_visit, which checkpoint_full_take and both restores use to   *)
(* walk the heap, yields exactly the blocks the model holds, in address    *)
(* order, and used_mem, the size of a full checkpoint's data buffer, is    *)
(* exactly the number of bytes that walk copies into it.                   *)
VisitCoversLive ==
  /\ VisitBlocks(longest) = SetToSortSeq(LiveBlocks(live), <)
  /\ used_mem = BS * Len(VisitBlocks(longest))

(* The checkpoint log after LP_INIT, rollbacks and fossil collections:     *)
(* its first entry is a full checkpoint with reference index 0 (so every   *)
(* PES position can be restored and an incremental restore always reaches  *)
(* a full checkpoint), indices increase along the log, and none is beyond  *)
(* the current PES.                                                        *)
LogWellFormed ==
  phase \in {"idle", "event"} =>
    /\ Len(logs) >= 1
    /\ ~logs[1].inc /\ logs[1].ref_i = 0
    /\ \A k \in 1 .. (Len(logs) - 1) : logs[k].ref_i < logs[k + 1].ref_i
    /\ logs[Len(logs)].ref_i <= ref

(* model_allocator_checkpoint_restore rebuilds the allocation tree of the *)
(* entry it restores: whenever a rollback may start, restoring any log     *)
(* entry it may pick (an incremental one by overlaying the tree chunks of  *)
(* it and the older increments onto the nearest full checkpoint) yields    *)
(* exactly the tree and used_mem of the moment that entry was taken.        *)
RestoredTreeExact ==
  phase = "idle" /\ coast = 0 =>
    \A i \in 1 .. Len(logs) :
      logs[i].ref_i < ref =>
        RestoreResult(i).lg = logs[i].img.tree /\ logs[i].used_mem = logs[i].img.used

(* model_allocator_checkpoint_restore reproduces the heap content of the   *)
(* entry it restores: whenever a rollback may start, restoring any log     *)
(* entry it may pick yields, for every block the model held when that      *)
(* checkpoint was taken and had stored into, its content at the time.      *)
RestoredMemExact ==
  phase = "idle" /\ coast = 0 =>
    \A i \in 1 .. Len(logs) :
      logs[i].ref_i < ref =>
        LET r == RestoreResult(i)
            c == logs[i].img
        IN  \A b \in c.defined : r.m[b] = c.mem[b]

(* The write barrier of the incremental build: whatever the offset of ptr  *)
(* in its block and the size of the store, __write_mem marks dirty every  *)
(* block the store overwrites, so the next incremental checkpoint copies   *)
(* it.  Within an event, every step that changes heap content without      *)
(* changing the allocation tree (a store; calloc's memset changes the tree *)
(* too) leaves each block it changed dirty.                                *)
StoresMarkedDirty ==
  [][ Incremental /\ phase \in {"init", "event"} /\ longest' = longest =>
        \A b \in Blocks : mem'[b] # mem[b] => MemChunk(b) \in dirty' ]_vars

=============================================================================
