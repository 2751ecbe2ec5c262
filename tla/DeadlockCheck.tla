---------------------------- MODULE DeadlockCheck ----------------------------
(***************************************************************************)
(* actions::deadlock_check, the -deadlock action: the search is run on the *)
(* automaton without preemption and then on the preemptive one, both of    *)
(* which split the exits of threads.                                       *)
(***************************************************************************)
EXTENDS Symbols, FiniteSets

CONSTANTS
  CondyieldIsAlwaysYield,  \* as for ConcurrentAutomaton
  Configurations

VARIABLES
  concurrent,         \* which automaton is searched
  sequential_result,  \* what the search of the first one reported
  threads, conflicts, locks, frontier, reachable, result, running

Sequential == INSTANCE DeadlockAlgo WITH Concurrent <- FALSE, DeadlockAutomaton <- TRUE
Preemptive == INSTANCE DeadlockAlgo WITH Concurrent <- TRUE, DeadlockAutomaton <- TRUE

\* No trace is forbidden in the automata that deadlock_check builds.
ASSUME DeadlockCheckAssumption ==
  /\ CondyieldIsAlwaysYield \in BOOLEAN
  /\ IsFiniteSet(Thread)
  /\ \A c \in Configurations :
       c.threads \in [Thread -> Sequential!abstract_cfg] /\ c.new_locks = <<>>

search == <<threads, conflicts, locks, frontier, reachable, result, running>>
vars == <<concurrent, sequential_result, search>>

Init ==
  /\ Sequential!Init
  /\ concurrent = FALSE
  /\ sequential_result = Sequential!no_result

SearchSequential ==
  ~concurrent /\ Sequential!Next /\ UNCHANGED <<concurrent, sequential_result>>

SearchPreemptive ==
  concurrent /\ Preemptive!Next /\ UNCHANGED <<concurrent, sequential_result>>

\* A search with an algorithm and an automaton of its own.
TestConcurrent ==
  /\ ~concurrent /\ ~running
  /\ concurrent' = TRUE
  /\ sequential_result' = result
  /\ frontier' = <<[s |-> Preemptive!int_initial_state, cex_chain |-> <<>>]>>
  /\ reachable' = {}
  /\ result' = Preemptive!no_result
  /\ running' = TRUE
  /\ UNCHANGED <<threads, conflicts, locks>>

Next == SearchSequential \/ TestConcurrent \/ SearchPreemptive

Spec == Init /\ [][Next]_vars

\* A loop without blocking calls, and no wait between the two tests.
FairSpec == Spec /\ WF_vars(Next)

----------------------------------------------------------------------------
(* Properties *)

\* A reported deadlock can be reached by the counterexample, and no shorter
\* execution ends in a deadlock.
CounterexampleIsShortest ==
  IF concurrent THEN Preemptive!CounterexampleIsShortest ELSE Sequential!CounterexampleIsShortest

\* If no deadlock is reported then all states of the automaton have been visited
\* and none is a deadlock.
NoneMissed == IF concurrent THEN Preemptive!NoneMissed ELSE Sequential!NoneMissed

\* Every state whose successors are not all visited or queued is still to be
\* visited: what makes NoneMissed inductive.
FrontierCoversRest ==
  IF concurrent THEN Preemptive!FrontierCoversRest ELSE Sequential!FrontierCoversRest

\* The action ends, loops in the threads notwithstanding.
Ends == <>(concurrent /\ ~running)

\* The scheduler without preemption invents no deadlock: a program that deadlocks with it
\* deadlocks with any scheduler, so the second test finds a deadlock if the first does.
SequentialDeadlocksArePreemptive ==
  concurrent /\ ~running /\ (\A t \in Thread : Sequential!GivesWay(threads[t])) =>
    (sequential_result.deadlock_found => result.deadlock_found)
=============================================================================
