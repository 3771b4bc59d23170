------------------------------ MODULE Scheduler ------------------------------
(***************************************************************************)
(* The worker threads of parallel/parallel.c and the main thread that      *)
(* spawns and joins them.  A worker initialises its message allocator and  *)
(* queue, passes three barriers around lp_init, runs the loop (termination *)
(* check, a batch of process_msg calls, a GVT step) until termination, and *)
(* finalises behind two more barriers.  sync_thread_barrier (core/sync.h)  *)
(* returns true to exactly one thread; termination, process_msg and the   *)
(* GVT step are not in the repository and follow the spec.  The message    *)
(* queues are reduced to message counts: what matters here is which thread *)
(* may touch which queue, allocator or LP, and when.                       *)
(***************************************************************************)
EXTENDS Integers

CONSTANTS
  N,         \* global_config.n_threads
  BatchLen,  \* the 64 process_msg calls of a loop iteration
  MaxMsgs    \* messages the model sends in a behaviour

Thr == 0 .. N - 1
Life == {"none", "live", "fini"}

VARIABLES
  pc,        \* each worker's position in parallel_thread_run
  bi,        \* the batch counter i
  leader,    \* the result of the worker's last sync_thread_barrier
  arrived,   \* workers waiting at the current barrier
  gen,       \* barrier generation
  mygen,     \* the generation a waiting worker arrived in
  bnext,     \* where a waiting worker resumes
  queue,     \* messages pending in each worker's queue
  qlife,     \* msg_queue_init / msg_queue_fini of each worker
  alife,     \* msg_allocator_init / msg_allocator_fini of each worker
  lplife,    \* lp_init / lp_fini of each worker's LPs
  lp_initialized,
  ended,     \* the termination condition holds
  sent,      \* messages sent so far
  mpc,       \* the main thread's position in parallel_simulation
  mi,        \* the main thread's loop counter i
  glife      \* parallel_global_init / parallel_global_fini: the global
             \* LP table and message-queue state every worker uses

vars == <<pc, bi, leader, arrived, gen, mygen, bnext, queue, qlife, alife,
          lplife, lp_initialized, ended, sent, mpc, mi, glife>>
bar == <<leader, arrived, gen, mygen, bnext>>
res == <<queue, qlife, alife, lplife>>
misc == <<bi, lp_initialized, ended, sent>>

Running == mpc # "aborted"

Goto(t, l) == pc' = [pc EXCEPT ![t] = l]

-----------------------------------------------------------------------------
(* sync_thread_barrier: the last worker to arrive releases the others and   *)
(* is the one that gets true                                                *)

Arrive_no_reset(t, next) ==
  /\ IF arrived + 1 = N
     THEN /\ gen' = gen + 1 /\ arrived' = arrived + 1
          /\ leader' = [leader EXCEPT ![t] = TRUE]
          /\ Goto(t, next) /\ UNCHANGED <<mygen, bnext>>
     ELSE /\ arrived' = arrived + 1
          /\ leader' = [leader EXCEPT ![t] = FALSE]
          /\ mygen' = [mygen EXCEPT ![t] = gen]
          /\ bnext' = [bnext EXCEPT ![t] = next]
          /\ Goto(t, "wait") /\ UNCHANGED gen

Arrive(t, next) ==
  /\ IF arrived + 1 = N
     THEN /\ gen' = gen + 1 /\ arrived' = 0
          /\ leader' = [leader EXCEPT ![t] = TRUE]
          /\ Goto(t, next) /\ UNCHANGED <<mygen, bnext>>
     ELSE /\ arrived' = arrived + 1
          /\ leader' = [leader EXCEPT ![t] = FALSE]
          /\ mygen' = [mygen EXCEPT ![t] = gen]
          /\ bnext' = [bnext EXCEPT ![t] = next]
          /\ Goto(t, "wait") /\ UNCHANGED gen

Release(t) ==
  /\ pc[t] = "wait" /\ gen > mygen[t]
  /\ Goto(t, bnext[t])
  /\ UNCHANGED <<bar, res, misc>>

\* the barriers of worker_thread_init and worker_thread_fini, with the
\* label each one resumes at
Barriers == [b1 |-> "lp_init", b2 |-> "lead2", b3 |-> "loop",
             b4 |-> "lp_fini", b5 |-> "a_fini"]

Barrier(t) ==
  /\ pc[t] \in DOMAIN Barriers
  /\ Arrive(t, Barriers[pc[t]])
  /\ UNCHANGED <<res, misc>>

-----------------------------------------------------------------------------
(* the sends one message handler may make: none, or one to any worker's   *)
(* queue                                                                    *)
SendTo(u) ==
  /\ sent < MaxMsgs /\ sent' = sent + 1
  /\ queue' = [queue EXCEPT ![u] = @ + 1]

\* worker_thread_init up to the first barrier: msg_allocator_init,
\* msg_queue_init
ThreadInit(t) ==
  /\ pc[t] = "init"
  /\ alife' = [alife EXCEPT ![t] = "live"]
  /\ qlife' = [qlife EXCEPT ![t] = "live"]
  /\ Goto(t, "b1")
  /\ UNCHANGED <<queue, lplife, bar, misc>>

\* lp_init: the LPs of the worker are set up and their LP_INIT handlers run
LpInit(t) ==
  /\ pc[t] = "lp_init"
  /\ lplife' = [lplife EXCEPT ![t] = "live"]
  /\ \/ UNCHANGED <<queue, sent>>
     \/ \E u \in Thr : SendTo(u)
  /\ Goto(t, "b2")
  /\ UNCHANGED <<qlife, alife, bar, bi, lp_initialized, ended>>

LeaderInit_skip_barrier(t) ==
  /\ pc[t] = "lead2"
  /\ lp_initialized' = (lp_initialized \/ leader[t])
  /\ Goto(t, "loop")
  /\ UNCHANGED <<res, bar, bi, ended, sent>>

\* the leader of the second barrier: mpi_node_barrier, lp_initialized_set
LeaderInit(t) ==
  /\ pc[t] = "lead2"
  /\ lp_initialized' = (lp_initialized \/ leader[t])
  /\ Goto(t, "b3")
  /\ UNCHANGED <<res, bar, bi, ended, sent>>

\* while (termination_cant_end()): mpi_remote_msg_handle has nothing to do
\* on one node
Loop(t) ==
  /\ pc[t] = "loop"
  /\ IF ended THEN Goto(t, "drain") ELSE Goto(t, "batch")
  /\ bi' = [bi EXCEPT ![t] = BatchLen]
  /\ UNCHANGED <<res, bar, lp_initialized, ended, sent>>

\* while (i--) process_msg(): extract the smallest message of the worker's
\* queue, if any, and dispatch it; its handler may send one message
Batch(t) ==
  /\ pc[t] = "batch"
  /\ IF bi[t] = 0
     THEN Goto(t, "gvt") /\ UNCHANGED <<queue, sent, bi>>
     ELSE /\ bi' = [bi EXCEPT ![t] = @ - 1] /\ UNCHANGED pc
          /\ IF queue[t] = 0 THEN UNCHANGED <<queue, sent>>
             ELSE \/ queue' = [queue EXCEPT ![t] = @ - 1] /\ UNCHANGED sent
                  \/ \E u \in Thr : sent < MaxMsgs
                       /\ sent' = sent + 1
                       /\ queue' = [queue EXCEPT ![t] = @ - 1, ![u] = @ + 1]
  /\ UNCHANGED <<qlife, alife, lplife, bar, lp_initialized, ended>>

GvtStep_skip_check(t) ==
  /\ pc[t] = "gvt"
  /\ ended' \in {ended, TRUE}
  /\ Goto(t, "batch") /\ bi' = [bi EXCEPT ![t] = BatchLen]
  /\ UNCHANGED <<res, bar, lp_initialized, sent>>

\* gvt_phase_run; on a new GVT, termination_on_gvt may find that the
\* simulation can end (fossil_on_gvt and the rest change no state here)
GvtStep(t) ==
  /\ pc[t] = "gvt"
  /\ ended' \in {ended, TRUE}
  /\ Goto(t, "loop")
  /\ UNCHANGED <<res, bar, bi, lp_initialized, sent>>

\* worker_thread_fini: gvt_msg_drain has nothing to drain on one node
Drain(t) ==
  /\ pc[t] = "drain"
  /\ Goto(t, "b4")
  /\ UNCHANGED <<res, bar, misc>>

LpFini(t) ==
  /\ pc[t] = "lp_fini"
  /\ lplife' = [lplife EXCEPT ![t] = "fini"]
  /\ Goto(t, "q_fini")
  /\ UNCHANGED <<queue, qlife, alife, bar, misc>>

QueueFini_skip_barrier(t) ==
  /\ pc[t] = "q_fini"
  /\ qlife' = [qlife EXCEPT ![t] = "fini"]
  /\ Goto(t, "a_fini")
  /\ UNCHANGED <<queue, alife, lplife, bar, misc>>

QueueFini(t) ==
  /\ pc[t] = "q_fini"
  /\ qlife' = [qlife EXCEPT ![t] = "fini"]
  /\ Goto(t, "b5")
  /\ UNCHANGED <<queue, alife, lplife, bar, misc>>

AllocFini(t) ==
  /\ pc[t] = "a_fini"
  /\ alife' = [alife EXCEPT ![t] = "fini"]
  /\ Goto(t, "done")
  /\ UNCHANGED <<queue, qlife, lplife, bar, misc>>

\* every step of worker t, while the process has not aborted
Worker(t) ==
  /\ Running
  /\ \/ ThreadInit(t) \/ Barrier(t) \/ Release(t)
     \/ LpInit(t) \/ LeaderInit(t) \/ Loop(t) \/ Batch(t) \/ GvtStep(t)
     \/ Drain(t) \/ LpFini(t) \/ QueueFini(t) \/ AllocFini(t)
  /\ UNCHANGED <<mpc, mi, glife>>

-----------------------------------------------------------------------------
(* parallel_simulation                                                     *)

\* parallel_global_init: stats, LP table, message-queue and termination
\* globals are set up before any thread starts
GlobalInit ==
  /\ mpc = "init"
  /\ glife' = "live"
  /\ mpc' = "spawn"
  /\ UNCHANGED <<pc, mi>>

\* parallel_global_fini: the global queue and LP state are released
parallel_global_fini == glife' = "fini"

\* start threads n_threads - 1 down to 0; a failing thread_start or
\* thread_affinity_set aborts the process
Spawn ==
  /\ mpc = "spawn"
  /\ IF mi = 0
     THEN mpc' = "join" /\ mi' = N /\ UNCHANGED <<pc, glife>>
     ELSE \/ /\ pc' = [pc EXCEPT ![mi - 1] = "init"]
             /\ mi' = mi - 1 /\ UNCHANGED <<mpc, glife>>
          \/ mpc' = "aborted" /\ UNCHANGED <<pc, mi, glife>>

Join_skip_zero ==
  /\ mpc = "join" /\ UNCHANGED pc
  /\ IF mi <= 1 THEN mpc' = "returned" /\ parallel_global_fini /\ UNCHANGED mi
     ELSE pc[mi - 1] = "done" /\ mi' = mi - 1 /\ UNCHANGED <<mpc, glife>>

\* thread_wait on threads n_threads - 1 down to 0, then
\* parallel_global_fini and return
Join ==
  /\ mpc = "join" /\ UNCHANGED pc
  /\ IF mi = 0 THEN mpc' = "returned" /\ parallel_global_fini /\ UNCHANGED mi
     ELSE pc[mi - 1] = "done" /\ mi' = mi - 1 /\ UNCHANGED <<mpc, glife>>

Main ==
  /\ (GlobalInit \/ Spawn \/ Join)
  /\ UNCHANGED <<bar, res, misc>>

\* the process has returned or aborted
Stopped ==
  /\ mpc \in {"returned", "aborted"}
  /\ UNCHANGED vars

Init ==
  /\ pc = [t \in Thr |-> "start"]
  /\ bi = [t \in Thr |-> 0]
  /\ leader = [t \in Thr |-> FALSE]
  /\ arrived = 0 /\ gen = 0
  /\ mygen = [t \in Thr |-> 0]
  /\ bnext = [t \in Thr |-> "loop"]
  /\ queue = [t \in Thr |-> 0]
  /\ qlife = [t \in Thr |-> "none"]
  /\ alife = [t \in Thr |-> "none"]
  /\ lplife = [t \in Thr |-> "none"]
  /\ lp_initialized = FALSE /\ ended = FALSE /\ sent = 0
  /\ mpc = "init" /\ mi = N /\ glife = "none"

Next == (\E t \in Thr : Worker(t)) \/ Main \/ Stopped

\* each worker runs on its own thread and the main thread on its own: the
\* OS keeps scheduling every thread that can run
Fairness == (\A t \in Thr : WF_vars(Worker(t))) /\ WF_vars(Main)

Spec == Init /\ [][Next]_vars /\ Fairness

-----------------------------------------------------------------------------
(* Properties                                                              *)

Labels == {"start", "init", "b1", "lp_init", "b2", "lead2", "b3", "loop",
           "batch", "gvt", "drain", "b4", "lp_fini", "q_fini", "b5",
           "a_fini", "done", "wait"}

TypeOK ==
  /\ pc \in [Thr -> Labels] /\ bi \in [Thr -> 0 .. BatchLen]
  /\ leader \in [Thr -> BOOLEAN] /\ arrived \in 0 .. N - 1
  /\ gen \in 0 .. 5 /\ mygen \in [Thr -> 0 .. 5]
  /\ queue \in [Thr -> 0 .. MaxMsgs] /\ sent \in 0 .. MaxMsgs
  /\ qlife \in [Thr -> Life] /\ alife \in [Thr -> Life]
  /\ lplife \in [Thr -> Life]
  /\ lp_initialized \in BOOLEAN /\ ended \in BOOLEAN
  /\ mpc \in {"init", "spawn", "join", "returned", "aborted"} /\ mi \in 0 .. N
  /\ glife \in Life

\* a worker that may insert into any worker's queue (lp_init, the batch)
\* or free a message another worker allocated (lp_fini frees the PES) only
\* does so while every queue and message allocator is initialised and not
\* yet finalised: the barriers of parallel.c lines 27, 45 and 55
ResourcesLive ==
  \A t \in Thr :
    /\ pc[t] \in {"lp_init", "batch"} =>
         \A u \in Thr : qlife[u] = "live" /\ alife[u] = "live"
    /\ pc[t] = "lp_fini" => \A u \in Thr : alife[u] = "live"

\* a worker processes events only after every worker's lp_init has run
\* and the leader has called lp_initialized_set, and only while no
\* worker's LPs have been finalised: the barriers of lines 30, 35 and 45
ProcessAfterInit ==
  \A t \in Thr :
    pc[t] \in {"loop", "batch", "gvt"} =>
      /\ lp_initialized
      /\ \A u \in Thr : lplife[u] = "live"

\* the global LP table and message-queue state outlive every worker: from
\* its worker_thread_init to its return, a started worker finds
\* parallel_global_init done and parallel_global_fini not yet run, because
\* parallel_simulation spawns after the one and joins all n_threads threads
\* before the other
GlobalOutlivesWorkers ==
  \A t \in Thr : pc[t] \notin {"start", "done"} => glife = "live"

\* once termination_on_gvt finds that the simulation can end, every worker
\* leaves its loop, passes the fini barriers, and parallel_simulation
\* returns (or the process has aborted at start-up)
EndLeadsToReturn == ended ~> (mpc \in {"returned", "aborted"})

=============================================================================
