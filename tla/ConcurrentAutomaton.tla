------------------------ MODULE ConcurrentAutomaton ------------------------
(***************************************************************************)
(* abstraction::concurrent_automaton: the automaton over the product of    *)
(* the threads of a program.  Built with concurrent = FALSE it generates   *)
(* the non-preemptive executions (a thread runs until it reaches a         *)
(* preemption point), with concurrent = TRUE the preemptive ones.          *)
(*                                                                         *)
(* The variables of this module are the members of the object, fixed when  *)
(* it is built; the automaton itself is a set of pure functions on states  *)
(* (concurrent_state), which Executions and DeadlockAlgo run.              *)
(***************************************************************************)
EXTENDS ThreadAutomaton, ForbiddenTraces

CONSTANTS
  Concurrent,              \* constructor argument concurrent
  DeadlockAutomaton,       \* constructor argument deadlock_automaton
  CondyieldIsAlwaysYield,  \* options.h: condyield_is_always_yield
  Configurations           \* the programs, with the locks synthesised for them

\* A lock is a sequence of lists of symbols; each list is non-empty and is code of
\* one thread.
lock_list == {l \in Seq(symbol) : l # <<>> /\ \A i \in DOMAIN l : l[i].thread = l[1].thread}
lock_lists == Seq(lock_list)

ASSUME ConcurrentAutomatonAssumption ==
  /\ {Concurrent, DeadlockAutomaton, CondyieldIsAlwaysYield} \subseteq BOOLEAN
  /\ IsFiniteSet(Thread)
  /\ \A c \in Configurations :
       /\ c.threads \in [Thread -> abstract_cfg]
       /\ c.new_locks \in Seq(Seq(lock_lists))

VARIABLES
  threads,    \* the control flow graphs
  conflicts,  \* what add_forbidden_traces computed: conflicts and conflict_map
  locks       \* and the patterns of violated locks that reject an execution

automaton == <<threads, conflicts, locks>>

Construct ==
  \E c \in Configurations :
    /\ threads = c.threads
    /\ conflicts = conflict_infos(c.new_locks)
    /\ locks = lock_masks(c.new_locks)

conflict_t == [info : conflicts, seen : BOOLEAN]

concurrent_state ==
  [threads : [Thread -> Int], current : Thread \cup {no_thread},
   locks : SUBSET Var, conditionals : SUBSET Var,
   conflicts : SUBSET conflict_t, locksviolated : SUBSET (Nat \X Nat)]

\* What holds of every automaton, and of every state it reaches.
AutomatonOK ==
  /\ threads \in [Thread -> abstract_cfg]
  /\ conflicts \subseteq conflict_info

StateOK(st) ==
  /\ st \in concurrent_state
  /\ \A t \in Thread : st.threads[t] \in Positions(threads[t])

int_initial_state ==
  [threads |-> [t \in Thread |-> initial_state], current |-> no_thread,
   locks |-> {}, conditionals |-> {}, conflicts |-> {}, locksviolated |-> {}]

int_is_final_state(st) ==
  \A t \in Thread : st.threads[t] # no_state => is_final_state(threads[t], st.threads[t])

next_single(st, t) ==
  IF st.threads[t] = no_state THEN {} ELSE next_symbols(t, threads[t], st.threads[t])

int_next_symbols(st) ==
  UNION {next_single(st, t) : t \in IF st.current = no_thread THEN Thread ELSE {st.current}}

----------------------------------------------------------------------------
(* apply_symbol *)

\* Fault: a lock is not tested.
AvailableIgnoringLocks(st, sigma) ==
  /\ sigma.operation \in {"wait", "wait_reset"} => sigma.variable \in st.conditionals
  /\ sigma.operation = "wait_not" => sigma.variable \notin st.conditionals

Available(st, sigma) ==
  /\ sigma.operation = "lock" => sigma.variable \notin st.locks
  /\ sigma.operation \in {"wait", "wait_reset"} => sigma.variable \in st.conditionals
  /\ sigma.operation = "wait_not" => sigma.variable \notin st.conditionals

\* Fault: assumes_allow_switch is not looked at.
MayYieldAtAssume(st, sigma) == st.current # no_thread /\ ~sigma.synthesised

\* The running thread may yield at sigma; in all other cases sigma is taken only
\* if it can be executed.
MayYield(st, sigma) ==
  /\ st.current # no_thread
  /\ ~(sigma.assume /\ ~AssumesAllowSwitch)
  /\ ~sigma.synthesised

\* Fault: condyield_is_always_yield stops also a thread that is just being chosen.
ProgressNeverBlocking(st, sigma) ==
  /\ Available(st, sigma)
  /\ CondyieldIsAlwaysYield => sigma.operation \notin BlockingOps

Progress(st, sigma) ==
  /\ Available(st, sigma)
  /\ MayYield(st, sigma) /\ CondyieldIsAlwaysYield => sigma.operation \notin BlockingOps

\* The thread gives up the processor in front of sigma and stays there.
Deschedules(st, sigma) == MayYield(st, sigma) /\ ~Progress(st, sigma)

locks_after(st, sigma) ==
  CASE sigma.operation = "lock" -> st.locks \cup {sigma.variable}
    [] sigma.operation = "unlock" -> st.locks \ {sigma.variable}
    [] OTHER -> st.locks

conditionals_after(st, sigma) ==
  CASE sigma.operation = "notify" -> st.conditionals \cup {sigma.variable}
    [] sigma.operation \in {"reset", "wait_reset"} -> st.conditionals \ {sigma.variable}
    [] OTHER -> st.conditionals

----------------------------------------------------------------------------
(* apply_bad_trace_dnf and tick_lock *)

locksviolated_after(st, sigma) ==
  IF Unmonitored(sigma) THEN st.locksviolated
  ELSE st.locksviolated \cup (Ticked(st.conflicts, sigma) \ {no_lock})

\* Fault: only the locks that are alone in their disjunction reject.
RejectedAtOnce(st, sigma) == ~Unmonitored(sigma) /\ no_lock \in Ticked(st.conflicts, sigma)

Rejected(st, sigma) ==
  /\ ~Unmonitored(sigma)
  /\ \/ no_lock \in Ticked(st.conflicts, sigma)
     \/ /\ locksviolated_after(st, sigma) # st.locksviolated
        /\ \E bad \in locks : bad \subseteq locksviolated_after(st, sigma)

conflicts_after(st, sigma) ==
  IF Unmonitored(sigma) THEN st.conflicts
  ELSE Observed(st.conflicts, sigma) \cup Started(conflicts, sigma)

Monitored(st, sigma) ==
  [st EXCEPT !.conflicts = conflicts_after(st, sigma),
             !.locksviolated = locksviolated_after(st, sigma)]

----------------------------------------------------------------------------
(* int_successors *)

position_after(st, sigma) ==
  successor(sigma.thread, threads[sigma.thread], st.threads[sigma.thread], sigma)

at_exit(st, sigma) == is_final_state(threads[sigma.thread], position_after(st, sigma))

\* Fault: a thread at an exit keeps the processor.
current_at_exit_too(st, sigma) ==
  IF Concurrent \/ sigma.operation = "yield" THEN no_thread ELSE sigma.thread

\* Fault: the preemptive automaton hands out the processor as well.
current_if_concurrent(st, sigma) ==
  IF at_exit(st, sigma) \/ sigma.operation = "yield" THEN no_thread ELSE sigma.thread

current_after(st, sigma) ==
  IF Concurrent \/ at_exit(st, sigma) \/ sigma.operation = "yield"
    THEN no_thread ELSE sigma.thread

\* sigma executed.
Executed(st, sigma) ==
  [Monitored(st, sigma) EXCEPT
     !.threads[sigma.thread] = position_after(st, sigma),
     !.current = current_after(st, sigma),
     !.locks = locks_after(st, sigma),
     !.conditionals = conditionals_after(st, sigma)]

\* Fault: the processor is not given back.
DescheduledInPlace(st, sigma) == IF CondyieldIsAlwaysYield THEN st ELSE Monitored(st, sigma)

\* The thread of sigma descheduled.  With condyield_is_always_yield the code
\* returns before the monitor sees sigma, without it the monitor counts sigma.
Descheduled(st, sigma) ==
  [IF CondyieldIsAlwaysYield THEN st ELSE Monitored(st, sigma) EXCEPT !.current = no_thread]

DescheduleRejected(st, sigma) == ~CondyieldIsAlwaysYield /\ Rejected(st, sigma)

\* deadlock_states: the copy in which a thread at an exit has terminated.
Terminated(st, sigma) == [Executed(st, sigma) EXCEPT !.threads[sigma.thread] = no_state]

CanExecute(st, sigma) == Progress(st, sigma) /\ ~Rejected(st, sigma)
CanTerminate(st, sigma) == CanExecute(st, sigma) /\ DeadlockAutomaton /\ at_exit(st, sigma)
CanDeschedule(st, sigma) == Deschedules(st, sigma) /\ ~DescheduleRejected(st, sigma)

int_successors(st, sigma) ==
  {s \in {Executed(st, sigma)} : CanExecute(st, sigma)}
    \cup {s \in {Terminated(st, sigma)} : CanTerminate(st, sigma)}
    \cup {s \in {Descheduled(st, sigma)} : CanDeschedule(st, sigma)}
=============================================================================
