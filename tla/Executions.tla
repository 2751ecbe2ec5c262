----------------------------- MODULE Executions -----------------------------
(***************************************************************************)
(* The executions of a concurrent_automaton: one step is one symbol of     *)
(* int_next_symbols followed to one state of int_successors.  The three    *)
(* actions are the three ways int_successors produces a state.             *)
(***************************************************************************)
EXTENDS ConcurrentAutomaton

VARIABLE state  \* the concurrent_state reached

vars == <<threads, conflicts, locks, state>>

Init == Construct /\ state = int_initial_state

Execute(sigma) ==
  /\ CanExecute(state, sigma)
  /\ state' = Executed(state, sigma)
  /\ UNCHANGED automaton

Terminate(sigma) ==
  /\ CanTerminate(state, sigma)
  /\ state' = Terminated(state, sigma)
  /\ UNCHANGED automaton

Deschedule(sigma) ==
  /\ CanDeschedule(state, sigma)
  /\ state' = Descheduled(state, sigma)
  /\ UNCHANGED automaton

Next ==
  \E sigma \in int_next_symbols(state) :
    Execute(sigma) \/ Terminate(sigma) \/ Deschedule(sigma)

Spec == Init /\ [][Next]_vars

\* Whoever explores an automaton follows an execution until it cannot be extended.
FairSpec == Spec /\ WF_vars(Next)

----------------------------------------------------------------------------
(* Invariants *)

\* The state is a concurrent_state, and every thread is at a position at which
\* cfg::automaton can be: it is after a state only where a branch is still open
\* (the comment in int_successors).
TypeOK == AutomatonOK /\ StateOK(state)

\* The preemptive automaton never hands out the processor: between two
\* instructions no thread is current, and (the assertion of int_successors) no
\* symbol makes the running thread give up the processor.
PreemptiveHasNoScheduler ==
  Concurrent =>
    /\ state.current = no_thread
    /\ \A sigma \in int_next_symbols(state) : ~Deschedules(state, sigma)

Stuck == \A sigma \in int_next_symbols(state) : int_successors(state, sigma) = {}

\* A thread can execute an instruction in the preemptive semantics.
Runnable(t) == \E sigma \in next_single(state, t) : Available(state, sigma)

\* The scheduler holds on to a thread that waits for an assume or for a
\* synthesised lock.
HeldAtAssume ==
  /\ state.current # no_thread
  /\ \E sigma \in next_single(state, state.current) :
       ~MayYield(state, sigma) /\ ~Available(state, sigma)

\* The thread that is running is in an endless loop without instructions: its graph
\* has no way on, and it is not at an exit.
HeldInEmptyLoop ==
  /\ state.current # no_thread
  /\ next_single(state, state.current) = {}
  /\ ~is_final_state(threads[state.current], state.threads[state.current])

\* Without forbidden traces an execution ends only when no thread at all could
\* run, where the scheduler may not leave a false assume (or a synthesised lock),
\* or in a loop that never ends: the scheduler itself never gets stuck on a thread,
\* and none keeps the processor beyond its exit.
NoSpuriousBlocking ==
  conflicts = {} /\ Stuck => HeldAtAssume \/ HeldInEmptyLoop \/ \A t \in Thread : ~Runnable(t)

\* Nothing of the preemptive semantics is lost in the preemptive automaton: as
\* long as no trace is forbidden, whatever a thread could execute it may execute.
NothingLost ==
  Concurrent /\ conflicts = {} =>
    \A t \in Thread : \A sigma \in next_single(state, t) :
      Available(state, sigma) => Executed(state, sigma) \in int_successors(state, sigma)

\* The pairs under observation for one thread: each watched from its own last
\* step, never both with and without the conflict seen.
OneObservation ==
  \A c, d \in state.conflicts :
    next_thread(c) = next_thread(d) => c.info.pred = d.info.pred /\ (c.info = d.info => c = d)

\* A state is never kept once all locks of a disjunction are violated.
NoDisjunctionRefuted == \A bad \in locks : ~(bad \subseteq state.locksviolated)

----------------------------------------------------------------------------
(* Action properties *)

\* Thread t was running, or was chosen in this step, and is not running after it.
LosesProcessor(t) ==
  /\ state.current = t \/ state'.threads[t] # state.threads[t]
  /\ state'.current # t

\* The step is t's, and it is about a symbol at which it may lose the processor.
AtPreemptionPoint(t) ==
  \E sigma \in next_single(state, t) :
    is_preemption_point(sigma) /\ state' \in int_successors(state, sigma)

\* symbol::is_preemption_point, with which the synthesis reasons about traces,
\* agrees with the automaton: in the non-preemptive automaton a thread loses the
\* processor only at a preemption point, or when it is at an exit of its graph,
\* and then the scheduler chooses the next thread.
SwitchOnlyAtPreemptionPoint ==
  [][~Concurrent =>
       \A t \in Thread : LosesProcessor(t) =>
         /\ state'.current = no_thread
         /\ \/ AtPreemptionPoint(t)
            \/ state'.threads[t] = no_state
            \/ is_final_state(threads[t], state'.threads[t])]_vars

----------------------------------------------------------------------------
(* Refinement *)

Abstract == INSTANCE Preemptive WITH
  MayTerminate <- DeadlockAutomaton,
  position <- state.threads, held <- state.locks, notified <- state.conditionals

\* Every execution of the automaton, preemptive or not, is one of the preemptive
\* semantics: the scheduler and the monitor only remove interleavings.
RefinesPreemptive == Abstract!Spec

----------------------------------------------------------------------------
(* Liveness *)

\* Every edge of every thread leads forward.
LoopFree ==
  \A t \in Thread : \A s \in DOMAIN threads[t] : \A i \in DOMAIN threads[t][s].edges :
    threads[t][s].edges[i].to > s

\* An execution of a program without loops ends: handing over the processor at a
\* lock or wait is not repeated for ever without an instruction being executed.
Ends == LoopFree => <>Stuck
=============================================================================
