----------------------- MODULE ConcurrentAutomatonProofs -----------------------
(***************************************************************************)
(* Lemmas about concurrent_automaton as a set of functions: the types of   *)
(* the states it generates and what each kind of successor changes.  They  *)
(* hold for whoever explores the automaton.                                *)
(***************************************************************************)
EXTENDS ConcurrentAutomaton, TLAPS

----------------------------------------------------------------------------
(* Graphs and positions                                                  *)

\* A state of a graph is a cfg_state and its edges lead to states that have an
\* action or are the exit.
LEMMA GraphState ==
  ASSUME NEW g \in abstract_cfg, NEW s \in DOMAIN g
  PROVE  /\ s \in Nat \ {0}
         /\ g[s] \in cfg_state
         /\ 1 \in DOMAIN g
         /\ \A i \in DOMAIN g[s].edges :
              /\ i \in Nat \ {0}
              /\ g[s].edges[i].to \in DOMAIN g
              /\ g[s].edges[i].tagged \in BOOLEAN
              /\ HasAction(g, g[s].edges[i].to) \/ g[g[s].edges[i].to].final
         /\ Len(g[s].edges) \in Nat
         /\ DOMAIN g[s].edges = 1..Len(g[s].edges)
<1>1. g \in Seq(cfg_state) /\ g # <<>>
  BY DEF abstract_cfg
<1>2. Len(g) \in Nat /\ DOMAIN g = 1..Len(g) /\ Len(g) # 0
  BY <1>1
<1>3. s \in Nat \ {0} /\ g[s] \in cfg_state /\ 1 \in DOMAIN g
  BY <1>1, <1>2
<1>4. g[s].edges \in Seq(edge)
  BY <1>3 DEF cfg_state
<1>5. Len(g[s].edges) \in Nat /\ DOMAIN g[s].edges = 1..Len(g[s].edges)
  BY <1>4
<1>6. ASSUME NEW i \in DOMAIN g[s].edges
      PROVE  i \in Nat \ {0} /\ g[s].edges[i].tagged \in BOOLEAN
  <2>1. i \in 1..Len(g[s].edges) /\ g[s].edges[i] \in edge
    BY <1>4, <1>5, <1>6
  <2> QED
    BY <1>5, <2>1 DEF edge
<1> QED
  BY <1>3, <1>5, <1>6 DEF abstract_cfg

\* Where a thread is after the action of a state.
LEMMA AfterActionPosition ==
  ASSUME NEW g \in abstract_cfg, NEW s \in DOMAIN g
  PROVE  AfterAction(g, s) \in Positions(g) \ {no_state}
<1>1. CASE Len(g[s].edges) = 1
  <2>1. 1 \in DOMAIN g[s].edges
    BY <1>1, GraphState
  <2>2. g[s].edges[1].to \in DOMAIN g
        /\ (HasAction(g, g[s].edges[1].to) \/ g[g[s].edges[1].to].final)
    BY <2>1, GraphState
  <2>3. g[s].edges[1].to # no_state
    BY <2>2, GraphState DEF no_state
  <2> QED
    BY <1>1, <2>2, <2>3 DEF AfterAction, Positions
<1>2. CASE Len(g[s].edges) # 1
  <2>1. -s # no_state
    BY GraphState DEF no_state
  <2> QED
    BY <1>2, <2>1 DEF AfterAction, Positions
<1> QED
  BY <1>1, <1>2

\* The symbols offered at a position are symbols of the thread, and each leads to
\* a position of the graph.
LEMMA SymbolsLeadToPositions ==
  ASSUME NEW t \in Thread, NEW g \in abstract_cfg, NEW p \in Positions(g) \ {no_state},
         NEW sigma \in next_symbols(t, g, p)
  PROVE  /\ sigma \in symbol
         /\ sigma.thread = t
         /\ successor(t, g, p, sigma) \in Positions(g) \ {no_state}
<1>0. 1 \in DOMAIN g
  <2>1. Len(g) \in Nat /\ DOMAIN g = 1..Len(g) /\ Len(g) # 0
    BY DEF abstract_cfg
  <2> QED
    BY <2>1
<1>1. ASSUME NEW s \in DOMAIN g, HasAction(g, s), sigma = ActionSymbol(t, g, s)
      PROVE  /\ sigma \in symbol
             /\ sigma.thread = t
             /\ successor(t, g, p, sigma) = AfterAction(g, s)
  <2>1. g[s] \in cfg_state /\ g[s].operation \in op_class /\ s \in Int
    BY <1>1, GraphState DEF HasAction, cfg_state
  <2> QED
    BY <1>1, <2>1 DEF ActionSymbol, symbol, successor, NoBranch, cfg_state
<1>2. CASE p < 0
  <2>1. -p \in DOMAIN g
    BY <1>0, <1>2, GraphState DEF Positions, initial_state, no_state
  <2>2. PICK i \in DOMAIN g[-p].edges : sigma \in EdgeSymbols(t, g, -p, i)
    BY <1>2 DEF next_symbols
  <2>3. /\ i \in Nat \ {0}
        /\ g[-p] \in cfg_state
        /\ g[-p].edges[i].to \in DOMAIN g
        /\ HasAction(g, g[-p].edges[i].to) \/ g[g[-p].edges[i].to].final
    BY <2>1, GraphState
  <2>4. CASE g[-p].edges[i].tagged
    <3>1. sigma = TagSymbol(t, g, -p, i)
      BY <2>2, <2>4 DEF EdgeSymbols
    <3>2. sigma \in symbol /\ sigma.thread = t /\ sigma.tag_branch = i
      BY <2>1, <2>3, <3>1, GraphState DEF TagSymbol, symbol, cfg_state, op_class
    <3>3. successor(t, g, p, sigma) = g[-p].edges[i].to
      BY <2>3, <3>2 DEF successor, NoBranch
    <3>4. g[-p].edges[i].to # no_state
      BY <2>3, GraphState DEF no_state
    <3> QED
      BY <2>3, <3>2, <3>3, <3>4 DEF Positions
  <2>5. CASE ~g[-p].edges[i].tagged
    <3>1. HasAction(g, g[-p].edges[i].to) /\ sigma = ActionSymbol(t, g, g[-p].edges[i].to)
      BY <2>2, <2>5 DEF EdgeSymbols
    <3> QED
      BY <1>1, <2>3, <3>1, AfterActionPosition
  <2> QED
    BY <2>4, <2>5
<1>3. CASE ~(p < 0)
  <2>1. HasAction(g, p) /\ sigma = ActionSymbol(t, g, p)
    BY <1>3 DEF next_symbols
  <2>2. p \in DOMAIN g
    BY <1>3, GraphState DEF Positions, initial_state, no_state
  <2> QED
    BY <1>1, <2>1, <2>2, AfterActionPosition
<1> QED
  BY <1>2, <1>3

----------------------------------------------------------------------------
(* What add_forbidden_traces computes                                    *)

\* Every conflict_info is about two symbols of one thread and names a lock.
LEMMA ConflictInfos ==
  ASSUME NEW new_locks \in Seq(Seq(lock_lists))
  PROVE  conflict_infos(new_locks) \subseteq conflict_info
<1>1. SUFFICES ASSUME NEW dk \in LockIndex(new_locks),
                      NEW ci \in LockConflicts(new_locks[dk[1]][dk[2]], LockId(new_locks, dk))
               PROVE  ci \in conflict_info
  BY DEF conflict_infos
<1>2. PICK d \in DOMAIN new_locks : \E k \in DOMAIN new_locks[d] : dk = <<d, k>>
  BY DEF LockIndex
<1>3. PICK k \in DOMAIN new_locks[d] : dk = <<d, k>>
  BY <1>2
<1>4. new_locks[d] \in Seq(lock_lists) /\ d \in Nat
  OBVIOUS
<1>5. new_locks[d][k] \in lock_lists /\ k \in Nat
  BY <1>4
<1>6. LockId(new_locks, dk) \in Nat \X Nat
  BY <1>3, <1>4, <1>5 DEF LockId, no_lock
<1> DEFINE lock == new_locks[d][k]
<1>7. PICK ab \in (DOMAIN lock) \X (DOMAIN lock) :
        ci \in ListConflicts(lock[ab[1]], lock[ab[2]], LockId(new_locks, dk))
  <2>1. ci \in LockConflicts(lock, LockId(new_locks, dk))
    BY <1>1, <1>3
  <2> HIDE DEF lock
  <2> QED
    BY <2>1 DEF LockConflicts
<1> DEFINE a == ab[1]
           b == ab[2]
<1>8. lock[a] \in lock_list /\ lock[b] \in lock_list
  BY <1>5 DEF lock_lists
<1>9. PICK ij \in Consecutive(lock[a]) :
        ci = [pred |-> lock[a][ij[1]], next |-> lock[a][ij[2]],
              conflict |-> VisibleSymbols(lock[b]), lock_id |-> LockId(new_locks, dk)]
  BY <1>7 DEF ListConflicts
<1>10. ij[1] \in DOMAIN lock[a] /\ ij[2] \in DOMAIN lock[a]
  BY DEF Consecutive
<1>11. /\ lock[a][ij[1]] \in symbol /\ lock[a][ij[2]] \in symbol
       /\ lock[a][ij[1]].thread = lock[a][ij[2]].thread
  BY <1>8, <1>10 DEF lock_list
<1>12. VisibleSymbols(lock[b]) \subseteq symbol
  BY <1>8 DEF lock_list, VisibleSymbols
<1> QED
  BY <1>6, <1>9, <1>11, <1>12 DEF conflict_info

\* The pattern of a disjunction is not empty.
LEMMA LockMasks ==
  ASSUME NEW new_locks \in Seq(Seq(lock_lists)), NEW bad \in lock_masks(new_locks)
  PROVE  bad # {}
<1>1. PICK d \in DOMAIN new_locks :
        multiple(new_locks, d) /\ bad = {dk \in LockIndex(new_locks) : dk[1] = d}
  BY DEF lock_masks
<1>2. new_locks[d] \in Seq(lock_lists)
  OBVIOUS
<1>3. 1 \in DOMAIN new_locks[d]
  BY <1>1, <1>2 DEF multiple
<1>4. <<d, 1>> \in LockIndex(new_locks)
  BY <1>3 DEF LockIndex
<1> QED
  BY <1>1, <1>4

----------------------------------------------------------------------------
(* Symbols and successors                                                *)

\* A symbol of int_next_symbols belongs to a thread that has not terminated, at its
\* position, and leads to a position.
LEMMA NextSymbol ==
  ASSUME AutomatonOK, NEW st, StateOK(st), NEW sigma \in int_next_symbols(st)
  PROVE  /\ sigma \in symbol
         /\ sigma.thread \in Thread
         /\ st.current \in {no_thread, sigma.thread}
         /\ st.threads[sigma.thread] # no_state
         /\ sigma \in next_single(st, sigma.thread)
         /\ sigma \in next_symbols(sigma.thread, threads[sigma.thread], st.threads[sigma.thread])
         /\ position_after(st, sigma) \in Positions(threads[sigma.thread]) \ {no_state}
<1>1. PICK t \in IF st.current = no_thread THEN Thread ELSE {st.current} :
        sigma \in next_single(st, t)
  BY DEF int_next_symbols
<1>2. t \in Thread /\ st.current \in {no_thread, t}
  BY <1>1 DEF StateOK, AutomatonOK, concurrent_state
<1>3. /\ st.threads[t] # no_state
      /\ sigma \in next_symbols(t, threads[t], st.threads[t])
  BY <1>1 DEF next_single
<1>4. threads[t] \in abstract_cfg /\ st.threads[t] \in Positions(threads[t]) \ {no_state}
  BY <1>2, <1>3 DEF StateOK, AutomatonOK
<1>5. /\ sigma \in symbol
      /\ sigma.thread = t
      /\ successor(t, threads[t], st.threads[t], sigma) \in Positions(threads[t]) \ {no_state}
  BY <1>2, <1>3, <1>4, SymbolsLeadToPositions
<1> QED
  BY <1>1, <1>2, <1>3, <1>5 DEF position_after

\* The loop of apply_bad_trace_dnf inserts into the set it goes through: a conflict that it
\* meets again, after it was escalated, stays as it is and ticks nothing off.
LEMMA MetAgain ==
  ASSUME NEW pending \in SUBSET conflict_t, NEW sigma \in symbol,
         NEW c \in Observed(pending, sigma)
  PROVE  Observed({c}, sigma) = {c} /\ Ticked({c}, sigma) = {}
<1>1. PICK d \in pending :
        c = [d EXCEPT !.seen = @ \/ sigma \in d.info.conflict] /\ next_thread(d) # sigma.thread
  BY DEF Observed
<1>2. d \in conflict_t
  OBVIOUS
<1>3. c \in conflict_t /\ c.info = d.info /\ c.seen = (d.seen \/ sigma \in d.info.conflict)
  BY <1>1, <1>2 DEF conflict_t
<1>4. next_thread(c) # sigma.thread /\ c.info.next # sigma
  BY <1>1, <1>3 DEF next_thread
<1>5. [c EXCEPT !.seen = @ \/ sigma \in c.info.conflict] = c
  <2>1. c.seen = (c.seen \/ sigma \in c.info.conflict)
    BY <1>3
  <2> QED
    BY <1>3, <2>1 DEF conflict_t
<1>6. Observed({c}, sigma) = {c}
  BY <1>4, <1>5 DEF Observed
<1>7. Ticked({c}, sigma) = {}
  BY <1>4 DEF Ticked
<1> QED
  BY <1>6, <1>7

\* The parts of a state that the monitor changes keep their types.
LEMMA MonitorType ==
  ASSUME AutomatonOK, NEW st, StateOK(st), NEW sigma \in symbol
  PROVE  /\ conflicts_after(st, sigma) \in SUBSET conflict_t
         /\ locksviolated_after(st, sigma) \in SUBSET (Nat \X Nat)
<1>1. st.conflicts \subseteq conflict_t /\ st.locksviolated \subseteq Nat \X Nat
  BY DEF StateOK, AutomatonOK, concurrent_state
<1>2. Observed(st.conflicts, sigma) \subseteq conflict_t
  <2>1. SUFFICES ASSUME NEW c \in st.conflicts
                 PROVE  [c EXCEPT !.seen = @ \/ sigma \in c.info.conflict] \in conflict_t
    BY DEF Observed
  <2>2. c \in conflict_t
    BY <1>1
  <2> QED
    BY <2>2 DEF conflict_t
<1>3. Started(conflicts, sigma) \subseteq conflict_t
  <2>1. SUFFICES ASSUME NEW ci \in conflicts
                 PROVE  [info |-> ci, seen |-> FALSE] \in conflict_t
    BY DEF Started
  <2> QED
    BY DEF conflict_t
<1>4. Ticked(st.conflicts, sigma) \subseteq Nat \X Nat
  <2>1. SUFFICES ASSUME NEW c \in st.conflicts PROVE c.info.lock_id \in Nat \X Nat
    BY DEF Ticked
  <2>2. c.info \in conflict_info
    BY <1>1 DEF conflict_t, StateOK, AutomatonOK
  <2> QED
    BY <2>2 DEF conflict_info
<1> QED
  BY <1>1, <1>2, <1>3, <1>4 DEF conflicts_after, locksviolated_after

\* The state after executing a symbol, and the state after descheduling its thread.
LEMMA SuccessorTypes ==
  ASSUME AutomatonOK, NEW st, StateOK(st), NEW sigma \in int_next_symbols(st)
  PROVE  /\ Executed(st, sigma) \in concurrent_state
         /\ Terminated(st, sigma) \in concurrent_state
         /\ Descheduled(st, sigma) \in concurrent_state
<1>1. /\ sigma \in symbol /\ sigma.thread \in Thread /\ sigma.variable \in Var
      /\ position_after(st, sigma) \in Int
  <2>1. threads[sigma.thread] \in abstract_cfg /\ sigma.thread \in Thread
    BY NextSymbol DEF StateOK, AutomatonOK
  <2>2. \A s \in DOMAIN threads[sigma.thread] : s \in Int
    BY <2>1, GraphState
  <2>3. Positions(threads[sigma.thread]) \subseteq Int
    BY <2>2 DEF Positions, no_state, initial_state
  <2> QED
    BY <2>1, <2>3, NextSymbol DEF symbol
<1>2. /\ st \in concurrent_state
      /\ conflicts_after(st, sigma) \in SUBSET conflict_t
      /\ locksviolated_after(st, sigma) \in SUBSET (Nat \X Nat)
  BY <1>1, MonitorType DEF StateOK, AutomatonOK
<1>3. Monitored(st, sigma) \in concurrent_state
  BY <1>2 DEF Monitored, concurrent_state
<1>4. /\ locks_after(st, sigma) \in SUBSET Var
      /\ conditionals_after(st, sigma) \in SUBSET Var
      /\ current_after(st, sigma) \in Thread \cup {no_thread}
  BY <1>1, <1>2 DEF concurrent_state, locks_after, conditionals_after, current_after
<1>5. Executed(st, sigma) \in concurrent_state
  BY <1>1, <1>3, <1>4 DEF Executed, concurrent_state
<1>6. Terminated(st, sigma) \in concurrent_state
  BY <1>1, <1>5 DEF Terminated, concurrent_state, no_state
<1>7. Descheduled(st, sigma) \in concurrent_state
  BY <1>2, <1>3 DEF Descheduled, concurrent_state
<1> QED
  BY <1>5, <1>6, <1>7

\* What a step does to the positions of the threads.
LEMMA StepPositions ==
  ASSUME AutomatonOK, NEW st, StateOK(st), NEW sigma \in int_next_symbols(st)
  PROVE  /\ Executed(st, sigma).threads =
              [st.threads EXCEPT ![sigma.thread] = position_after(st, sigma)]
         /\ Terminated(st, sigma).threads = [st.threads EXCEPT ![sigma.thread] = no_state]
         /\ Descheduled(st, sigma).threads = st.threads
<1>1. st \in concurrent_state /\ st.threads \in [Thread -> Int]
  BY DEF StateOK, AutomatonOK, concurrent_state
<1>2. Monitored(st, sigma).threads = st.threads
  BY <1>1 DEF Monitored, concurrent_state
<1>3. Monitored(st, sigma) \in concurrent_state
  BY NextSymbol, MonitorType, <1>1 DEF Monitored, concurrent_state
<1>4. Executed(st, sigma).threads =
        [st.threads EXCEPT ![sigma.thread] = position_after(st, sigma)]
  BY <1>2, <1>3 DEF Executed, concurrent_state
<1>5. Terminated(st, sigma).threads = [st.threads EXCEPT ![sigma.thread] = no_state]
  <2>1. Executed(st, sigma) \in concurrent_state
    BY SuccessorTypes
  <2> QED
    BY <1>1, <1>4, <2>1 DEF Terminated, concurrent_state
<1>6. Descheduled(st, sigma).threads = st.threads
  BY <1>1, <1>2, <1>3 DEF Descheduled, concurrent_state
<1> QED
  BY <1>4, <1>5, <1>6

LEMMA StepFields ==
  ASSUME AutomatonOK, NEW st, StateOK(st), NEW sigma \in int_next_symbols(st)
  PROVE  /\ Executed(st, sigma).current = current_after(st, sigma)
         /\ Executed(st, sigma).locks = locks_after(st, sigma)
         /\ Executed(st, sigma).conditionals = conditionals_after(st, sigma)
         /\ Executed(st, sigma).conflicts = conflicts_after(st, sigma)
         /\ Executed(st, sigma).locksviolated = locksviolated_after(st, sigma)
<1>1. Monitored(st, sigma) \in concurrent_state
  BY NextSymbol, MonitorType DEF Monitored, concurrent_state, StateOK, AutomatonOK
<1>2. /\ Monitored(st, sigma).conflicts = conflicts_after(st, sigma)
      /\ Monitored(st, sigma).locksviolated = locksviolated_after(st, sigma)
  BY DEF Monitored, concurrent_state, StateOK, AutomatonOK
<1> QED
  BY <1>1, <1>2 DEF Executed, concurrent_state

LEMMA TerminatedFields ==
  ASSUME AutomatonOK, NEW st, StateOK(st), NEW sigma \in int_next_symbols(st)
  PROVE  \A f \in {"current", "locks", "conditionals", "conflicts", "locksviolated"} :
           Terminated(st, sigma)[f] = Executed(st, sigma)[f]
BY SuccessorTypes DEF Terminated, concurrent_state

LEMMA DescheduledFields ==
  ASSUME AutomatonOK, NEW st, StateOK(st), NEW sigma \in int_next_symbols(st)
  PROVE  /\ Descheduled(st, sigma).current = no_thread
         /\ Descheduled(st, sigma).locks = st.locks
         /\ Descheduled(st, sigma).conditionals = st.conditionals
         /\ \/ /\ Descheduled(st, sigma).conflicts = st.conflicts
               /\ Descheduled(st, sigma).locksviolated = st.locksviolated
            \/ /\ ~CondyieldIsAlwaysYield
               /\ Descheduled(st, sigma).conflicts = conflicts_after(st, sigma)
               /\ Descheduled(st, sigma).locksviolated = locksviolated_after(st, sigma)
<1>1. st \in concurrent_state
  BY DEF StateOK, AutomatonOK
<1>2. CASE CondyieldIsAlwaysYield
  BY <1>1, <1>2 DEF Descheduled, concurrent_state
<1>3. CASE ~CondyieldIsAlwaysYield
  <2>1. Monitored(st, sigma) \in concurrent_state
    BY <1>1, NextSymbol, MonitorType DEF Monitored, concurrent_state
  <2>2. /\ Monitored(st, sigma).locks = st.locks
        /\ Monitored(st, sigma).conditionals = st.conditionals
        /\ Monitored(st, sigma).conflicts = conflicts_after(st, sigma)
        /\ Monitored(st, sigma).locksviolated = locksviolated_after(st, sigma)
    BY <1>1 DEF Monitored, concurrent_state
  <2> QED
    BY <1>3, <2>1, <2>2 DEF Descheduled, concurrent_state
<1> QED
  BY <1>2, <1>3

\* What the constructor builds.
LEMMA ConstructOK == Construct => AutomatonOK
<1> SUFFICES ASSUME Construct PROVE AutomatonOK
  OBVIOUS
<1>1. PICK c \in Configurations :
        threads = c.threads /\ conflicts = conflict_infos(c.new_locks)
  BY DEF Construct
<1> QED
  BY <1>1, ConflictInfos, ConcurrentAutomatonAssumption DEF AutomatonOK

LEMMA InitialStateOK == StateOK(int_initial_state)
<1>1. int_initial_state \in concurrent_state
  BY DEF int_initial_state, concurrent_state, initial_state, no_thread
<1> QED
  BY <1>1 DEF StateOK, int_initial_state, Positions

\* The three kinds of successors are states of the automaton.
LEMMA SuccessorsOK ==
  ASSUME AutomatonOK, NEW st, StateOK(st), NEW sigma \in int_next_symbols(st)
  PROVE  /\ StateOK(Executed(st, sigma))
         /\ StateOK(Terminated(st, sigma))
         /\ StateOK(Descheduled(st, sigma))
<1>1. /\ st.threads \in [Thread -> Int]
      /\ \A t \in Thread : st.threads[t] \in Positions(threads[t])
  BY DEF StateOK, concurrent_state
<1>2. \A t \in Thread : no_state \in Positions(threads[t])
  BY DEF Positions
<1>3. StateOK(Executed(st, sigma))
  <2>1. /\ sigma.thread \in Thread
        /\ position_after(st, sigma) \in Positions(threads[sigma.thread])
    BY NextSymbol
  <2>2. Executed(st, sigma).threads =
          [st.threads EXCEPT ![sigma.thread] = position_after(st, sigma)]
    BY StepPositions
  <2>3. \A t \in Thread : Executed(st, sigma).threads[t] \in Positions(threads[t])
    BY <1>1, <2>1, <2>2
  <2> QED
    BY <2>3, SuccessorTypes DEF StateOK
<1>4. StateOK(Terminated(st, sigma))
  <2>1. Terminated(st, sigma).threads = [st.threads EXCEPT ![sigma.thread] = no_state]
    BY StepPositions
  <2>2. \A t \in Thread : Terminated(st, sigma).threads[t] \in Positions(threads[t])
    BY <1>1, <1>2, <2>1
  <2> QED
    BY <2>2, SuccessorTypes DEF StateOK
<1>5. StateOK(Descheduled(st, sigma))
  BY <1>1, SuccessorTypes, StepPositions DEF StateOK
<1> QED
  BY <1>3, <1>4, <1>5

\* Without forbidden traces no symbol is rejected.
LEMMA NeverRejected ==
  ASSUME NEW st, StateOK(st), conflicts = {}, NEW sigma
  PROVE  st.conflicts = {} /\ ~Rejected(st, sigma)
<1>1. st.conflicts = {}
  BY DEF StateOK, concurrent_state, conflict_t
<1>2. Ticked(st.conflicts, sigma) = {}
  BY <1>1 DEF Ticked
<1> QED
  BY <1>1, <1>2 DEF Rejected, locksviolated_after
================================================================================
