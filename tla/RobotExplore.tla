---------------------------- MODULE RobotExplore ----------------------------
(***************************************************************************)
(* The robot-exploration simulation model, models/robot_explore_mn/        *)
(* application.c: the callbacks ProcessEvent and OnGVT that the kernel     *)
(* calls.  Regions are LPs 0..NReg-1 and agents the LPs after them (OnGVT  *)
(* prints progress at me == get_tot_regions(), the first agent).  An agent  *)
(* ENTERs a region, EXITs it after a delay, is told its next DESTINATION,  *)
(* and, once it has visited Need regions (visited_counter / tot_regions >= *)
(* VISITED), sends COMPLETE around the ring of all LPs.                    *)
(*                                                                         *)
(* The kernel's committed execution is modelled: events are processed in   *)
(* timestamp order, ties in either order (the order of equal timestamps is *)
(* the queue's, and msg_queue has no implementation in the repository).    *)
(* A region holds its agents as the pointers to their visited_regions      *)
(* arrays; each agent has one such array, so a pointer is the agent.       *)
(***************************************************************************)
EXTENDS Integers, Sequences, FiniteSets, SequencesExt

CONSTANTS
    NReg,       \* get_tot_regions()
    NAg,        \* get_tot_agents()
    Need,       \* the least visited_counter with counter / tot_regions >= VISITED
    InitTimes,  \* values of (simtime_t)(20 * Random()) in INIT
    Delays,     \* values of Expent(DELAY)
    MaxTime     \* events after this timestamp are past the end of the run

NLP == NReg + NAg            \* n_prc_tot
LPs == 0 .. NLP - 1
Regions == 0 .. NReg - 1
Agents == NReg .. NLP - 1    \* is_agent(me)

VARIABLES
    pending,   \* the events scheduled and not yet processed
    region,    \* state->region of each agent
    visited,   \* the set of j with state->visited_regions[j] == 1, per agent
    vcount,    \* state->visited_counter of each agent
    complete,  \* state->complete of each LP
    actual     \* state->actual_agent[0 .. agent_counter-1] of each region

vars == <<pending, region, visited, vcount, complete, actual>>

Ev(k, d, t, s, x) == [kind |-> k, dst |-> d, ts |-> t, sender |-> s, dest |-> x]

(* Processing event e: it leaves the queue and the events it schedules      *)
(* (ScheduleNewEvent) join it.                                              *)
Deliver(e, new) == pending' = (pending \ {e}) \cup new

(* case INIT: an agent starts in a random region, marks it visited and      *)
(* schedules its ENTER and EXIT there; a region starts with no agents and   *)
(* its first PING.                                                          *)
OnInit(e) ==
    LET me == e.dst IN
    \E t \in InitTimes :
       IF me \in Agents
       THEN \E r \in Regions, d \in Delays :
              /\ region' = [region EXCEPT ![me] = r]
              /\ visited' = [visited EXCEPT ![me] = {r}]
              /\ vcount' = [vcount EXCEPT ![me] = 1]
              /\ complete' = [complete EXCEPT ![me] = FALSE]
              /\ Deliver(e, {Ev("ENTER", r, t, me, me), Ev("EXIT", r, t + d, me, me)})
              /\ UNCHANGED actual
       ELSE /\ complete' = [complete EXCEPT ![me] = FALSE]
            /\ actual' = [actual EXCEPT ![me] = << >>]
            /\ Deliver(e, {Ev("PING", me, t, me, me)})
            /\ UNCHANGED <<region, visited, vcount>>

(* case PING: the region reschedules itself.                                *)
OnPing(e) ==
    /\ \E d \in Delays : Deliver(e, {Ev("PING", e.dst, e.ts + d, e.dst, e.dst)})
    /\ UNCHANGED <<region, visited, vcount, complete, actual>>

(* The loop of case ENTER over the agents already in the region: for each   *)
(* old agent, bit by bit, a bit set in one of the two arrays is set in the  *)
(* other, so both end with the union.  The arrays belong to other LPs.      *)
MergeVisited_one_way(vis, L, a) ==
    LET step(v, o) == [v EXCEPT ![o] = v[o] \cup v[a]]
    IN FoldLeft(step, vis, L)

MergeVisited(vis, L, a) ==
    LET step(v, o) == LET u == v[o] \cup v[a] IN [v EXCEPT ![o] = u, ![a] = u]
    IN FoldLeft(step, vis, L)

(* case ENTER: the agent's array is stored at actual_agent[agent_counter]   *)
(* and merged with those of the agents already there.                       *)
OnEnter(e) ==
    /\ visited' = MergeVisited(visited, actual[e.dst], e.sender)
    /\ actual' = [actual EXCEPT ![e.dst] = Append(@, e.sender)]
    /\ Deliver(e, {})
    /\ UNCHANGED <<region, vcount, complete>>

(* The loop of case EXIT: the first slot holding the agent gets the last   *)
(* slot's pointer and the count drops; an agent not found leaves the list. *)
SwapRemove_drop_last(L, a) ==
    LET i == SelectInSeq(L, LAMBDA x : x = a)
    IN IF i = 0 THEN L ELSE SubSeq(L, 1, Len(L) - 1)

SwapRemove(L, a) ==
    LET i == SelectInSeq(L, LAMBDA x : x = a)
    IN IF i = 0 THEN L ELSE SubSeq([L EXCEPT ![i] = L[Len(L)]], 1, Len(L) - 1)

(* case EXIT: get_region picks the next region (utility.c is not in the     *)
(* repository, so any region), the agent leaves, and DESTINATION is sent to *)
(* it at the same timestamp.  new_event.sender is not set and not read.     *)
OnExit(e) ==
    /\ \E dst \in Regions :
          Deliver(e, {Ev("DESTINATION", e.sender, e.ts, e.dst, dst)})
    /\ actual' = [actual EXCEPT ![e.dst] = SwapRemove(@, e.sender)]
    /\ UNCHANGED <<region, visited, vcount, complete>>

(* The ring successor: me + 1, or 0 after the last LP.                     *)
NextLP_no_wrap(me) == me + 1

NextLP(me) == IF me + 1 = NLP THEN 0 ELSE me + 1

(* case DESTINATION: the agent moves, marks the region, recounts its array  *)
(* (merges included); with enough regions it is complete and starts the    *)
(* COMPLETE ring, otherwise it ENTERs the region now and EXITs it later.    *)
OnDestination(e) ==
    LET a == e.dst
        vis == visited[a] \cup {e.dest}
    IN /\ region' = [region EXCEPT ![a] = e.dest]
       /\ visited' = [visited EXCEPT ![a] = vis]
       /\ vcount' = [vcount EXCEPT ![a] = Cardinality(vis)]
       /\ IF Cardinality(vis) >= Need
          THEN /\ complete' = [complete EXCEPT ![a] = TRUE]
               /\ Deliver(e, {Ev("COMPLETE", NextLP(a), e.ts, a, a)})
          ELSE /\ \E d \in Delays :
                    Deliver(e, {Ev("ENTER", e.dest, e.ts, a, a),
                                Ev("EXIT", e.dest, e.ts + d, a, a)})
               /\ UNCHANGED complete
       /\ UNCHANGED actual

(* case COMPLETE: the LP is complete and passes the message on, with the    *)
(* originator as sender, unless its successor me + 1 is the originator.     *)
OnComplete_stop_at_sender(e) ==
    /\ complete' = [complete EXCEPT ![e.dst] = TRUE]
    /\ Deliver(e, IF e.dst # e.sender
                  THEN {Ev("COMPLETE", NextLP(e.dst), e.ts, e.sender, e.sender)}
                  ELSE {})
    /\ UNCHANGED <<region, visited, vcount, actual>>

OnComplete_stop_early(e) ==
    /\ complete' = [complete EXCEPT ![e.dst] = TRUE]
    /\ Deliver(e, IF e.dst + 2 # e.sender
                  THEN {Ev("COMPLETE", NextLP(e.dst), e.ts, e.sender, e.sender)}
                  ELSE {})
    /\ UNCHANGED <<region, visited, vcount, actual>>

OnComplete(e) ==
    /\ complete' = [complete EXCEPT ![e.dst] = TRUE]
    /\ Deliver(e, IF e.dst + 1 # e.sender
                  THEN {Ev("COMPLETE", NextLP(e.dst), e.ts, e.sender, e.sender)}
                  ELSE {})
    /\ UNCHANGED <<region, visited, vcount, actual>>

(* ProcessEvent: the switch on the event kind.                             *)
ProcessEvent(e) ==
    \/ e.kind = "INIT" /\ OnInit(e)
    \/ e.kind = "PING" /\ OnPing(e)
    \/ e.kind = "ENTER" /\ OnEnter(e)
    \/ e.kind = "EXIT" /\ OnExit(e)
    \/ e.kind = "DESTINATION" /\ OnDestination(e)
    \/ e.kind = "COMPLETE" /\ OnComplete(e)

(* OnGVT: an agent is done once its counter reaches VISITED or it is       *)
(* complete; a region once it is complete.                                  *)
OnGVT(me) ==
    IF me \in Agents THEN ~(vcount[me] < Need /\ ~complete[me])
    ELSE complete[me]

(* The kernel delivers INIT to every LP at time 0.                          *)
Init ==
    /\ pending = {Ev("INIT", lp, 0, lp, lp) : lp \in LPs}
    /\ region = [a \in Agents |-> 0]
    /\ visited = [a \in Agents |-> {}]
    /\ vcount = [a \in Agents |-> 0]
    /\ complete = [lp \in LPs |-> FALSE]
    /\ actual = [r \in Regions |-> << >>]

(* The kernel processes an event of the least pending timestamp.           *)
Step ==
    \E e \in pending :
       /\ \A f \in pending : e.ts <= f.ts
       /\ e.ts <= MaxTime
       /\ ProcessEvent(e)

(* Every event left is past the end of the run.                            *)
Horizon ==
    /\ \A e \in pending : e.ts > MaxTime
    /\ UNCHANGED vars

Next == Step \/ Horizon

Spec == Init /\ [][Next]_vars /\ WF_vars(Step)

-----------------------------------------------------------------------------
TypeOK ==
    /\ \A e \in pending :
          /\ e.kind \in {"INIT", "PING", "ENTER", "EXIT", "DESTINATION", "COMPLETE"}
          /\ e.dst \in LPs /\ e.sender \in LPs /\ e.dest \in LPs
          /\ e.ts \in Nat
    /\ region \in [Agents -> Regions]
    /\ visited \in [Agents -> SUBSET Regions]
    /\ vcount \in [Agents -> 0 .. NReg]
    /\ complete \in [LPs -> BOOLEAN]
    /\ actual \in [Regions -> Seq(Agents)]

InFlight(k, r, a) == \E e \in pending : e.kind = k /\ e.dst = r /\ e.sender = a

(* ENTER and EXIT keep each region's actual_agent array exact: an agent is  *)
(* in it once, exactly while its EXIT there is pending and its ENTER is     *)
(* not.  So agent_counter never exceeds the tot_agents slots calloc'd in    *)
(* INIT, and an EXIT always finds the pointer it removes.                   *)
RegionListExact ==
    \A r \in Regions :
       /\ Len(actual[r]) = Cardinality(ToSet(actual[r]))
       /\ \A a \in Agents :
             a \in ToSet(actual[r]) <=> InFlight("EXIT", r, a) /\ ~InFlight("ENTER", r, a)

(* The two-way merge of ENTER keeps every agent in a region with the same   *)
(* visited map, although the maps change only when agents enter.           *)
SharedVisited ==
    \A r \in Regions : \A i, j \in DOMAIN actual[r] :
       visited[actual[r][i]] = visited[actual[r][j]]

(* Once an agent is complete, the ring makes OnGVT true at every LP, so    *)
(* the run can terminate.                                                   *)
Terminates ==
    (\E a \in Agents : complete[a]) ~> (\A lp \in LPs : OnGVT(lp))
=============================================================================
