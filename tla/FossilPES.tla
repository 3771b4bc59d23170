------------------------------ MODULE FossilPES ------------------------------
(***************************************************************************)
(* Fossil collection of one LP (gvt/fossil.c) against the checkpoint log of *)
(* the multi-buddy allocator (mm/buddy/multi.c, whose two-argument         *)
(* model_allocator_fossil_lp_collect fossil.c calls).                      *)
(*                                                                         *)
(* The LP's processed-event sequence (PES) holds one "recv" entry per      *)
(* processed event, followed by one entry per message that event sent.     *)
(* multi.c takes a full checkpoint after every event, tagged with |PES|.  *)
(* A straggler rolls the LP back: the newest checkpoint at or before the   *)
(* straggler's PES position is restored and the events in between are     *)
(* re-executed silently (process.c, absent from the repository, so those  *)
(* steps follow the spec).  GVT is a lower bound on every pending or      *)
(* unprocessed message; fossil_on_gvt publishes it and fossil_lp_collect  *)
(* commits the PES prefix below it.                                       *)
(*                                                                         *)
(* The LP's state is abstracted to the sequence of event times it has     *)
(* applied (hist); a checkpoint keeps a copy of it.  The other LPs are the *)
(* environment: they send messages to the LP at any time not below GVT,   *)
(* process the messages it sends, and free a local message once they      *)
(* commit it.                                                             *)
(***************************************************************************)
EXTENDS Integers, Sequences, FiniteSets, SequencesExt

CONSTANTS
  MaxTime,    \* virtual times are 1 .. MaxTime
  MaxMsgs,    \* messages created in a behaviour
  MaxEpochs   \* GVT rounds in a behaviour

Times == 1 .. MaxTime
Ids == 1 .. MaxMsgs
GvtVals == 0 .. MaxTime + 1
Kinds == {"recv", "sent_local", "sent_remote"}
Entry == [kind : Kinds, id : Ids, t : Times]
Msg == [id : Ids, t : Times]

VARIABLES
  pes,        \* proc_p->pes
  logs,       \* mm_state.logs: ref_i and (ghost) the state the checkpoint holds
  hist,       \* the LP's state: times of the events applied to it
  done,       \* ghost: times of the events committed by fossil collection
  pending,    \* the LP's incoming queue
  out,        \* messages the LP sent that their receiver has not processed
  atB,        \* local messages processed by their receiver, not yet freed
  freed,      \* ids of local messages their receiver has freed
  gvt,        \* fossil_gvt_current
  epoch,      \* fossil_epoch_current
  lp_epoch,   \* lp->fossil_epoch
  nmsg        \* messages created so far

vars == <<pes, logs, hist, done, pending, out, atB, freed, gvt, epoch,
          lp_epoch, nmsg>>

RET == -1                              \* fossil_lp_collect's early return
Now == IF hist = << >> THEN 0 ELSE Last(hist)
RecvTimes(s) == LET r == SelectSeq(s, LAMBDA e : e.kind = "recv")
                IN  [k \in DOMAIN r |-> r[k].t]
AsMsg(e) == [id |-> e.id, t |-> e.t]
MinT(S) == CHOOSE x \in S : \A y \in S : x.t <= y.t

-----------------------------------------------------------------------------
(* multi.c: the checkpoint log                                             *)

\* model_allocator_checkpoint_take: a full checkpoint tagged ref_i
checkpoint_take(ref_i, st) == Append(logs, [ref |-> ref_i, hist |-> st])

\* the backward walk "while (logs[i].ref_i > ref_i) i--"
RECURSIVE LastAtMost_ge(_, _, _)
LastAtMost_ge(L, k, tgt) ==
  IF k > 1 /\ L[k].ref >= tgt THEN LastAtMost_ge(L, k - 1, tgt) ELSE k
RECURSIVE LastAtMost(_, _, _)
LastAtMost(L, k, tgt) ==
  IF L[k].ref > tgt THEN LastAtMost(L, k - 1, tgt) ELSE k

AllocFossil_sub_tgt(L, tgt) ==
  LET i == LastAtMost(L, Len(L), tgt)
  IN  [logs |-> [k \in 1 .. Len(L) - i + 1 |->
                   [L[k + i - 1] EXCEPT !.ref = @ - tgt]],
       ret |-> L[i].ref]

\* model_allocator_fossil_lp_collect: keep the log from the newest entry at
\* or before tgt (every multi.c checkpoint is full), renumber it from 0 and
\* return the old ref_i of the new head
AllocFossil(L, tgt) ==
  LET i == LastAtMost(L, Len(L), tgt)
      r == L[i].ref
  IN  [logs |-> [k \in 1 .. Len(L) - i + 1 |->
                   [L[k + i - 1] EXCEPT !.ref = @ - r]],
       ret |-> r]

-----------------------------------------------------------------------------
(* fossil.c: fossil_lp_collect                                              *)

\* the times the scan can read for entry e: a local message the receiver
\* has already freed is read after free, and reads whatever the pool holds
ReadTimes(e) ==
  IF e.kind = "sent_local" /\ e.id \in freed THEN GvtVals ELSE {e.t}

\* the inner do/while: from 0-based index j, step back to the previous
\* received entry, or RET when index 0 is reached first
RECURSIVE PrevRecv(_)
PrevRecv(j) ==
  IF j = 0 THEN RET
  ELSE IF pes[j].kind = "recv" THEN j - 1 ELSE PrevRecv(j - 1)

\* the outer for: a received entry at or after gvt sends the scan back
RECURSIVE Walk(_, _)
Walk(j, g) ==
  IF j = RET THEN RET
  ELSE IF pes[j + 1].t >= g THEN Walk(PrevRecv(j), g) ELSE j

\* the 0-based index past_i where the scan stops, or RET; the first entry
\* is tested whatever its kind
Scan(g) ==
  LET n == Len(pes)
  IN  {IF x >= g THEN Walk(PrevRecv(n - 1), g) ELSE n - 1
         : x \in ReadTimes(pes[n])}

\* the state after the allocator's collection and the PES truncation
Collected(j) ==
  LET a == AllocFossil(logs, j + 1)
  IN  [pes |-> SubSeq(pes, a.ret + 1, Len(pes)), logs |-> a.logs,
       done |-> done \o RecvTimes(SubSeq(pes, 1, a.ret))]

CollectOutcomes_past_i_plus_2 ==
  IF pes = << >> THEN {}
  ELSE LET a(j) == AllocFossil(logs, j + 2)
       IN {[pes |-> SubSeq(pes, a(j).ret + 1, Len(pes)), logs |-> a(j).logs,
            done |-> done \o RecvTimes(SubSeq(pes, 1, a(j).ret))]
             : j \in Scan(gvt) \ {RET}}

\* what fossil_lp_collect can leave; {} when it returns early
CollectOutcomes ==
  IF pes = << >> THEN {} ELSE {Collected(j) : j \in Scan(gvt) \ {RET}}

-----------------------------------------------------------------------------
(* Actions                                                                 *)

\* the other LPs send a message to this LP; they only process events at or
\* after GVT, and send no earlier than that
EnvSend(u) ==
  /\ nmsg < MaxMsgs /\ u >= gvt
  /\ pending' = pending \cup {[id |-> nmsg + 1, t |-> u]}
  /\ nmsg' = nmsg + 1
  /\ UNCHANGED <<pes, logs, hist, done, out, atB, freed, gvt, epoch, lp_epoch>>

\* the sends an event at time t may make: none, or one, not before t
Sends(t) ==
  {<< >>} \cup
  IF nmsg < MaxMsgs
  THEN {<<[kind |-> k, id |-> nmsg + 1, t |-> u]>>
          : k \in {"sent_local", "sent_remote"}, u \in t .. MaxTime}
  ELSE {}

\* the smallest pending message is not a straggler: process it, append it
\* and its sends to the PES, then checkpoint_take(|PES|)
Process(m) ==
  /\ m = MinT(pending) /\ m.t >= Now
  /\ \E s \in Sends(m.t) :
       LET pes2 == pes \o <<[kind |-> "recv", id |-> m.id, t |-> m.t]>> \o s
           st == Append(hist, m.t)
       IN  /\ pes' = pes2
           /\ hist' = st
           /\ logs' = checkpoint_take(Len(pes2), st)
           /\ pending' = pending \ {m}
           /\ out' = out \cup {[id |-> e.id, t |-> e.t, kind |-> e.kind]
                                 : e \in ToSet(s)}
           /\ nmsg' = nmsg + Len(s)
  /\ UNCHANGED <<done, atB, freed, gvt, epoch, lp_epoch>>

\* PES position of a straggler at time t: before the first received entry
\* later than t
StragglerPos(t) ==
  LET ks == {k \in DOMAIN pes : pes[k].kind = "recv" /\ pes[k].t > t}
  IN  IF ks = {} THEN Len(pes) ELSE CHOOSE k \in ks : \A k2 \in ks : k <= k2

\* the smallest pending message is a straggler: model_allocator_checkpoint_
\* restore(pos) restores the newest checkpoint at or before pos and drops
\* the newer log entries; the events up to pos are re-executed silently;
\* the undone events go back to the queue and their sends are annihilated
Rollback(m) ==
  LET pos == StragglerPos(m.t)
      i == LastAtMost(logs, Len(logs), pos)
      r == logs[i].ref
      undone == ToSet(SubSeq(pes, pos + 1, Len(pes)))
      undoneIds == {e.id : e \in undone}
  IN  /\ m = MinT(pending) /\ m.t < Now
      /\ hist' = logs[i].hist \o RecvTimes(SubSeq(pes, r + 1, pos))
      /\ logs' = SubSeq(logs, 1, i)
      /\ pes' = SubSeq(pes, 1, pos)
      /\ pending' = pending \cup {AsMsg(e) : e \in {x \in undone : x.kind = "recv"}}
      /\ out' = {o \in out : o.id \notin undoneIds}
      /\ atB' = {b \in atB : b.id \notin undoneIds}
      /\ UNCHANGED <<done, freed, gvt, epoch, lp_epoch, nmsg>>

\* a receiver processes a message the LP sent; it keeps a local one
OutProcess(o) ==
  /\ out' = out \ {o}
  /\ atB' = IF o.kind = "sent_local" THEN atB \cup {AsMsg(o)} ELSE atB
  /\ UNCHANGED <<pes, logs, hist, done, pending, freed, gvt, epoch, lp_epoch,
                 nmsg>>

\* the receiver commits a local message below GVT and frees it
ReceiverFree(b) ==
  /\ b.t < gvt
  /\ atB' = atB \ {b}
  /\ freed' = freed \cup {b.id}
  /\ UNCHANGED <<pes, logs, hist, done, pending, out, gvt, epoch, lp_epoch,
                 nmsg>>

\* a GVT round ends with g, no later than any pending or unprocessed
\* message: fossil_on_gvt
GvtBound == LET ts == {x.t : x \in pending \cup out}
            IN  IF ts = {} THEN MaxTime + 1
                ELSE CHOOSE x \in ts : \A y \in ts : x <= y
fossil_on_gvt(g) ==
  /\ epoch < MaxEpochs /\ gvt <= g /\ g <= GvtBound
  /\ epoch' = epoch + 1
  /\ gvt' = g
  /\ UNCHANGED <<pes, logs, hist, done, pending, out, atB, freed, lp_epoch,
                 nmsg>>

\* fossil_lp_collect, run on an LP whose fossil_epoch is behind; the early
\* returns leave lp->fossil_epoch behind
fossil_lp_collect ==
  /\ lp_epoch # epoch
  /\ \/ /\ IF pes = << >> THEN TRUE ELSE RET \in Scan(gvt)
        /\ UNCHANGED vars
     \/ \E o \in CollectOutcomes :
          /\ pes' = o.pes /\ logs' = o.logs /\ done' = o.done
          /\ lp_epoch' = epoch
          /\ UNCHANGED <<hist, pending, out, atB, freed, gvt, epoch, nmsg>>

\* the bounds on messages and GVT rounds are used up: the behaviour ends
Exhausted ==
  /\ epoch = MaxEpochs /\ (nmsg = MaxMsgs \/ gvt = MaxTime + 1)
  /\ UNCHANGED vars

Init ==
  /\ pes = << >>
  /\ hist = << >>
  /\ logs = << [ref |-> 0, hist |-> << >>] >>
  /\ done = << >>
  /\ pending = {} /\ out = {} /\ atB = {} /\ freed = {}
  /\ gvt = 0 /\ epoch = 0 /\ lp_epoch = 0 /\ nmsg = 0

Next ==
  \/ \E u \in Times : EnvSend(u)
  \/ \E m \in pending : Process(m)
  \/ \E m \in pending : Rollback(m)
  \/ \E o \in out : OutProcess(o)
  \/ \E b \in atB : ReceiverFree(b)
  \/ \E g \in GvtVals : fossil_on_gvt(g)
  \/ fossil_lp_collect
  \/ Exhausted

Spec == Init /\ [][Next]_vars

-----------------------------------------------------------------------------
(* Properties                                                              *)

TypeOK ==
  /\ pes \in Seq(Entry) /\ hist \in Seq(Times) /\ done \in Seq(Times)
  /\ logs \in Seq([ref : 0 .. MaxMsgs, hist : Seq(Times)]) /\ logs # << >>
  /\ pending \subseteq Msg /\ atB \subseteq Msg /\ freed \subseteq Ids
  /\ out \subseteq [id : Ids, t : Times, kind : {"sent_local", "sent_remote"}]
  /\ gvt \in GvtVals /\ epoch \in 0 .. MaxEpochs /\ lp_epoch \in 0 .. epoch
  /\ nmsg \in 0 .. MaxMsgs

\* fossil_lp_collect commits only events below the GVT it adopted, so no
\* event a straggler (never earlier than GVT) can undo is ever discarded
Committed == \A k \in DOMAIN done : done[k] < gvt

ScanReadsLive ==
  (lp_epoch # epoch /\ pes # << >>) =>
    ~(Last(pes).kind = "sent_local" /\ Last(pes).id \in freed)

=============================================================================
