---------------------------- MODULE DeadlockAlgo ----------------------------
(***************************************************************************)
(* automata::deadlock_algo run on a concurrent_automaton: a breadth-first  *)
(* search for a state without successors.                                  *)
(* The search for livelocks behind it is commented out in the code, and so *)
(* are the predecessor map and the set of final states it would need.      *)
(*                                                                         *)
(* A step is one round of the while loop.  The order in which the          *)
(* successors of a state join the frontier is the order of next_symbols in *)
(* the code; here it is fixed but arbitrary.                               *)
(***************************************************************************)
EXTENDS ConcurrentAutomaton, SequencesExt

VARIABLES
  frontier,   \* queue of states still to visit, each with the symbols leading to it
  reachable,  \* the states visited
  result,     \* deadlock_result
  running     \* inside run

vars == <<threads, conflicts, locks, frontier, reachable, result, running>>

no_result == [deadlock_found |-> FALSE]

\* States are compared by their threads, locks, conditionals and what the monitor has seen.
was_visited(st) == st \in reachable

Init ==
  /\ Construct
  /\ frontier = <<[s |-> int_initial_state, cex_chain |-> <<>>]>>
  /\ reachable = {}
  /\ result = no_result
  /\ running = TRUE

current_item == Head(frontier)

one_assumes(st) == \E sigma \in int_next_symbols(st) : sigma.assume

\* Fault: of the successors for a symbol only one is visited.
OneSuccessorItem(item) ==
  {[s |-> CHOOSE st \in int_successors(item.s, sigma) : TRUE,
    cex_chain |-> Append(item.cex_chain, sigma)] :
     sigma \in {sigma \in int_next_symbols(item.s) : int_successors(item.s, sigma) # {}}}

SuccessorItems(item) ==
  UNION {{[s |-> st, cex_chain |-> Append(item.cex_chain, sigma)] :
            st \in int_successors(item.s, sigma)} : sigma \in int_next_symbols(item.s)}

\* A state in which nothing can happen, although not all threads are at an exit
\* and none waits for an assume.
is_deadlock(st) ==
  /\ \A sigma \in int_next_symbols(st) : int_successors(st, sigma) = {}
  /\ ~int_is_final_state(st)
  /\ ~one_assumes(st)

\* Fault: the visited state stays in the queue.
SkipInPlace ==
  /\ running /\ frontier # <<>> /\ was_visited(current_item.s)
  /\ UNCHANGED vars

\* The state was visited before.
Skip ==
  /\ running /\ frontier # <<>> /\ was_visited(current_item.s)
  /\ frontier' = Tail(frontier)
  /\ UNCHANGED <<automaton, reachable, result, running>>

\* Fault: the successors are visited first.
ExpandDepthFirst ==
  /\ running /\ frontier # <<>> /\ ~was_visited(current_item.s)
  /\ ~is_deadlock(current_item.s)
  /\ reachable' = reachable \cup {current_item.s}
  /\ frontier' = SetToSeq(SuccessorItems(current_item)) \o Tail(frontier)
  /\ UNCHANGED <<automaton, result, running>>

\* Fault: the successors count as visited as soon as they are queued.
ExpandMarkingQueued ==
  /\ running /\ frontier # <<>> /\ ~was_visited(current_item.s)
  /\ ~is_deadlock(current_item.s)
  /\ reachable' = reachable \cup {current_item.s} \cup {i.s : i \in SuccessorItems(current_item)}
  /\ frontier' = Tail(frontier) \o SetToSeq(SuccessorItems(current_item))
  /\ UNCHANGED <<automaton, result, running>>

Expand ==
  /\ running /\ frontier # <<>> /\ ~was_visited(current_item.s)
  /\ ~is_deadlock(current_item.s)
  /\ reachable' = reachable \cup {current_item.s}
  /\ frontier' = Tail(frontier) \o SetToSeq(SuccessorItems(current_item))
  /\ UNCHANGED <<automaton, result, running>>

deadlock_result(item) ==
  [deadlock_found |-> TRUE, dead_state |-> item.s, counter_example |-> item.cex_chain,
   impossible_successors |-> int_next_symbols(item.s)]

ReportDeadlock ==
  /\ running /\ frontier # <<>> /\ ~was_visited(current_item.s)
  /\ is_deadlock(current_item.s)
  /\ result' = deadlock_result(current_item)
  /\ reachable' = reachable \cup {current_item.s}
  /\ frontier' = Tail(frontier)
  /\ running' = FALSE
  /\ UNCHANGED automaton

ReportNone ==
  /\ running /\ frontier = <<>>
  /\ running' = FALSE
  /\ UNCHANGED <<automaton, frontier, reachable, result>>

Next == Skip \/ Expand \/ ReportDeadlock \/ ReportNone

Spec == Init /\ [][Next]_vars

----------------------------------------------------------------------------
Followers(st) == UNION {int_successors(st, sigma) : sigma \in int_next_symbols(st)}

\* The states that a sequence of symbols can lead to.
Replay(symbols) ==
  LET after[n \in 0..Len(symbols)] ==
        IF n = 0 THEN {int_initial_state}
        ELSE UNION {int_successors(st, symbols[n]) :
                      st \in {st \in after[n - 1] : symbols[n] \in int_next_symbols(st)}}
  IN after[Len(symbols)]

\* The states the automaton can be in after at most n symbols.
Within[n \in Nat] ==
  IF n = 0 THEN {int_initial_state}
  ELSE LET before == Within[n - 1] IN before \cup UNION {Followers(st) : st \in before}

\* A reported deadlock can be reached by the counterexample, and no shorter
\* execution ends in a deadlock.
CounterexampleIsShortest ==
  result.deadlock_found =>
    /\ result.dead_state \in Replay(result.counter_example)
    /\ is_deadlock(result.dead_state)
    /\ result.counter_example # <<>> =>
         \A st \in Within[Len(result.counter_example) - 1] : ~is_deadlock(st)

\* If no deadlock is reported then all states of the automaton have been visited
\* and none is a deadlock.
NoneMissed ==
  ~running /\ ~result.deadlock_found =>
    /\ int_initial_state \in reachable
    /\ \A st \in reachable : Followers(st) \subseteq reachable /\ ~is_deadlock(st)

\* Every state whose successors are not all visited or queued is still to be
\* visited: what makes NoneMissed inductive.
FrontierCoversRest ==
  LET queued == {frontier[i].s : i \in DOMAIN frontier} IN
    ~result.deadlock_found =>
      /\ int_initial_state \in reachable \cup queued
      /\ \A st \in reachable : Followers(st) \subseteq reachable \cup queued /\ ~is_deadlock(st)

\* No thread ends other than at an exit or keeps the processor while it waits: it has no
\* endless loop without instructions and no lock_s of an earlier synthesis.
GivesWay(g) ==
  \A s \in DOMAIN g :
    /\ ~g[s].synthesised
    /\ g[s].edges = <<>> => g[s].final /\ ~HasAction(g, s)
    /\ s = 1 => g[s].edges # <<>>

----------------------------------------------------------------------------
(* What the documentation says *)

\* The states in which some of the threads that are at an exit have ended there.
Endings(st) ==
  {[st EXCEPT !.threads = [t \in Thread |-> IF t \in ended THEN no_state ELSE @[t]],
              !.current = no_thread] :
     ended \in SUBSET {t \in Thread :
       st.threads[t] # no_state /\ is_final_state(threads[t], st.threads[t])}}

\* README.md: "If a thread cannot progress due to a wait and all other threads are
\* either blocked or finished then a deadlock is reported."
BlockedThreadsAreReported ==
  ~running /\ ~result.deadlock_found =>
    \A st \in reachable : \A e \in Endings(st) : ~is_deadlock(e)
=============================================================================
