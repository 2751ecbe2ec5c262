-------------------------- MODULE ExecutionsProofs --------------------------
(***************************************************************************)
(* Theorems about the executions of concurrent_automaton, for all programs *)
(* and all sets of synthesised locks, and about programs that keep a lock  *)
(* discipline.                                                             *)
(***************************************************************************)
EXTENDS LockDiscipline, ConcurrentAutomatonProofs

----------------------------------------------------------------------------
(* Type correctness *)

\* What the automaton starts from.
LEMMA InitTypeOK == Init => TypeOK
BY ConstructOK, InitialStateOK DEF Init, TypeOK

\* Every step keeps the types, whichever of the three actions it is.
LEMMA NextTypeOK == TypeOK /\ [Next]_vars => TypeOK'
<1> SUFFICES ASSUME TypeOK, [Next]_vars PROVE TypeOK'
  OBVIOUS
<1>1. UNCHANGED automaton /\ StateOK(state')
  <2>1. ASSUME NEW sigma \in int_next_symbols(state),
               Execute(sigma) \/ Terminate(sigma) \/ Deschedule(sigma)
        PROVE  UNCHANGED automaton /\ StateOK(state')
    BY <2>1, SuccessorsOK DEF Execute, Terminate, Deschedule, TypeOK
  <2> QED
    BY <2>1 DEF Next, vars, automaton, TypeOK
<1> QED
  BY <1>1 DEF TypeOK, AutomatonOK, StateOK, automaton, concurrent_state, conflict_t

\* Every thread is always at a position of its graph.
THEOREM TypeCorrect == Spec => []TypeOK
<1> QED
  BY InitTypeOK, NextTypeOK, PTL DEF Spec

\* The lemmas about the automaton are stated for the parts of TypeOK.
USE DEF TypeOK

----------------------------------------------------------------------------
(* The preemptive automaton *)

\* With concurrent = TRUE no thread is ever current.
FreeOfScheduler == Concurrent => state.current = no_thread

LEMMA FreeInductive ==
  /\ Init => FreeOfScheduler
  /\ TypeOK /\ FreeOfScheduler /\ [Next]_vars => FreeOfScheduler'
<1>1. Init => FreeOfScheduler
  BY DEF Init, int_initial_state, FreeOfScheduler
<1>2. ASSUME TypeOK, FreeOfScheduler, [Next]_vars PROVE FreeOfScheduler'
  <2>1. ASSUME NEW sigma \in int_next_symbols(state), Execute(sigma) PROVE FreeOfScheduler'
    BY <1>2, <2>1, StepFields DEF Execute, FreeOfScheduler, current_after
  <2>2. ASSUME NEW sigma \in int_next_symbols(state), Terminate(sigma) PROVE FreeOfScheduler'
    <3>1. Terminated(state, sigma).current = Executed(state, sigma).current
      BY <1>2, TerminatedFields
    <3> QED
      BY <1>2, <2>2, <3>1, StepFields DEF Terminate, FreeOfScheduler, current_after
  <2>3. ASSUME NEW sigma \in int_next_symbols(state), Deschedule(sigma) PROVE FreeOfScheduler'
    BY <1>2, <2>3, DescheduledFields DEF Deschedule, FreeOfScheduler
  <2>4. CASE UNCHANGED vars
    BY <1>2, <2>4 DEF vars, FreeOfScheduler
  <2> QED
    BY <1>2, <2>1, <2>2, <2>3, <2>4 DEF Next
<1> QED
  BY <1>1, <1>2

\* The preemptive automaton has no scheduler, and the assertion
\* `progress || !concurrent_' of int_successors never fails.
THEOREM NoScheduler == Spec => []PreemptiveHasNoScheduler
<1>1. FreeOfScheduler => PreemptiveHasNoScheduler
  BY DEF FreeOfScheduler, PreemptiveHasNoScheduler, Deschedules, MayYield
<1> QED
  BY <1>1, FreeInductive, InitTypeOK, NextTypeOK, PTL DEF Spec

\* As long as no trace is forbidden the preemptive automaton lets every thread
\* execute what it could execute.
THEOREM NothingIsLost == Spec => []NothingLost
<1>1. TypeOK /\ FreeOfScheduler => NothingLost
  <2> SUFFICES ASSUME TypeOK, FreeOfScheduler, Concurrent, conflicts = {},
                      NEW t \in Thread, NEW sigma \in next_single(state, t), Available(state, sigma)
               PROVE  Executed(state, sigma) \in int_successors(state, sigma)
    BY DEF NothingLost
  <2>3. ~Rejected(state, sigma)
    BY NeverRejected
  <2>4. Progress(state, sigma)
    BY DEF Progress, MayYield, FreeOfScheduler
  <2> QED
    BY <2>3, <2>4 DEF int_successors, CanExecute
<1> QED
  BY <1>1, FreeInductive, InitTypeOK, NextTypeOK, PTL DEF Spec

----------------------------------------------------------------------------
(* The scheduler *)

\* A thread that is running has not terminated and is not at an exit.
RunsOn ==
  state.current # no_thread =>
    /\ state.threads[state.current] # no_state
    /\ ~is_final_state(threads[state.current], state.threads[state.current])

LEMMA RunsOnInductive ==
  /\ Init => RunsOn
  /\ TypeOK /\ RunsOn /\ [Next]_vars => RunsOn'
<1>1. Init => RunsOn
  BY DEF Init, int_initial_state, RunsOn
<1>2. ASSUME TypeOK, RunsOn, [Next]_vars PROVE RunsOn'
  <2>1. ASSUME NEW sigma \in int_next_symbols(state), Execute(sigma) PROVE RunsOn'
    <3>1. /\ Executed(state, sigma).current = current_after(state, sigma)
          /\ Executed(state, sigma).threads =
               [state.threads EXCEPT ![sigma.thread] = position_after(state, sigma)]
      BY <1>2, StepFields, StepPositions
    <3>2. /\ sigma.thread \in Thread /\ DOMAIN state.threads = Thread
          /\ position_after(state, sigma) # no_state
      BY <1>2, NextSymbol DEF StateOK, concurrent_state
    <3>3. /\ state'.current = current_after(state, sigma)
          /\ state'.threads[sigma.thread] = position_after(state, sigma)
          /\ threads' = threads
      BY <2>1, <3>1, <3>2 DEF Execute, automaton
    <3>4. state'.current # no_thread => state'.current = sigma.thread /\ ~at_exit(state, sigma)
      BY <3>3 DEF current_after
    <3> QED
      BY <3>2, <3>3, <3>4 DEF RunsOn, at_exit
  <2>2. ASSUME NEW sigma \in int_next_symbols(state), Terminate(sigma) PROVE RunsOn'
    <3>1. Terminated(state, sigma).current = Executed(state, sigma).current
      BY <1>2, TerminatedFields
    <3>2. Executed(state, sigma).current = current_after(state, sigma)
      BY <1>2, StepFields
    <3> QED
      BY <2>2, <3>1, <3>2 DEF Terminate, CanTerminate, current_after, RunsOn
  <2>3. ASSUME NEW sigma \in int_next_symbols(state), Deschedule(sigma) PROVE RunsOn'
    BY <1>2, <2>3, DescheduledFields DEF Deschedule, RunsOn
  <2>4. CASE UNCHANGED vars
    BY <1>2, <2>4 DEF vars, RunsOn
  <2> QED
    BY <1>2, <2>1, <2>2, <2>3, <2>4 DEF Next
<1> QED
  BY <1>1, <1>2

\* As long as no trace is forbidden the scheduler gets stuck only where it means to.
THEOREM SchedulerIsNotSpurious == Spec => []NoSpuriousBlocking
<1>1. TypeOK /\ RunsOn => NoSpuriousBlocking
  <2> SUFFICES ASSUME TypeOK, RunsOn, conflicts = {}, Stuck
               PROVE  HeldAtAssume \/ HeldInEmptyLoop \/ \A t \in Thread : ~Runnable(t)
    BY DEF NoSpuriousBlocking
  <2>1. ASSUME NEW sigma \in int_next_symbols(state)
        PROVE  ~Progress(state, sigma) /\ ~Deschedules(state, sigma)
    <3>1. ~Rejected(state, sigma)
      BY NeverRejected
    <3> QED
      BY <2>1, <3>1
         DEF Stuck, int_successors, CanExecute, CanDeschedule, DescheduleRejected
  <2>2. ASSUME NEW sigma \in int_next_symbols(state)
        PROVE  ~MayYield(state, sigma) /\ ~Available(state, sigma)
    BY <2>1 DEF Deschedules, Progress
  <2>3. CASE state.current = no_thread
    BY <2>2, <2>3 DEF int_next_symbols, Runnable
  <2>4. CASE state.current # no_thread
    <3>1. int_next_symbols(state) = next_single(state, state.current)
      BY <2>4 DEF int_next_symbols
    <3> QED
      BY <2>2, <2>4, <3>1 DEF RunsOn, HeldAtAssume, HeldInEmptyLoop
  <2> QED
    BY <2>3, <2>4
<1> QED
  BY <1>1, RunsOnInductive, InitTypeOK, NextTypeOK, PTL DEF Spec

----------------------------------------------------------------------------
(* The monitor *)

\* One monitored symbol keeps the observations of each thread consistent.
LEMMA ObservationStep ==
  ASSUME TypeOK, OneObservation, NEW sigma \in symbol,
         NEW c \in conflicts_after(state, sigma), NEW d \in conflicts_after(state, sigma),
         next_thread(c) = next_thread(d)
  PROVE  c.info.pred = d.info.pred /\ (c.info = d.info => c = d)
<1> DEFINE seen_after(e) == [e EXCEPT !.seen = @ \/ sigma \in e.info.conflict]
<1>1. CASE Unmonitored(sigma)
  BY <1>1 DEF conflicts_after, OneObservation
<1>2. CASE ~Unmonitored(sigma)
  <2>1. state.conflicts \subseteq conflict_t
    BY DEF TypeOK, AutomatonOK, StateOK, concurrent_state
  <2>2. ASSUME NEW e \in Observed(state.conflicts, sigma)
        PROVE  \E f \in state.conflicts :
                 e = seen_after(f) /\ e.info = f.info /\ next_thread(f) # sigma.thread
    <3>1. PICK f \in state.conflicts : e = seen_after(f) /\ next_thread(f) # sigma.thread
      BY <2>2 DEF Observed
    <3>2. f \in conflict_t
      BY <2>1
    <3> QED
      BY <3>1, <3>2 DEF conflict_t
  <2>3. ASSUME NEW e \in Started(conflicts, sigma)
        PROVE  /\ e = [info |-> e.info, seen |-> FALSE]
               /\ e.info.pred = sigma
               /\ next_thread(e) = sigma.thread
    <3>1. PICK ci \in conflicts : e = [info |-> ci, seen |-> FALSE] /\ ci.pred = sigma
      BY <2>3 DEF Started
    <3>2. ci.pred.thread = ci.next.thread
      BY DEF TypeOK, AutomatonOK, conflict_info
    <3> QED
      BY <3>1, <3>2 DEF next_thread
  <2>4. /\ c \in Observed(state.conflicts, sigma) \/ c \in Started(conflicts, sigma)
        /\ d \in Observed(state.conflicts, sigma) \/ d \in Started(conflicts, sigma)
    BY <1>2 DEF conflicts_after
  <2>5. CASE c \in Observed(state.conflicts, sigma) /\ d \in Observed(state.conflicts, sigma)
    <3>1. PICK f \in state.conflicts : c = seen_after(f) /\ c.info = f.info
      BY <2>2, <2>5
    <3>2. PICK g \in state.conflicts : d = seen_after(g) /\ d.info = g.info
      BY <2>2, <2>5
    <3>3. next_thread(f) = next_thread(g)
      BY <3>1, <3>2 DEF next_thread
    <3>4. f.info.pred = g.info.pred /\ (f.info = g.info => f = g)
      BY <3>3 DEF OneObservation
    <3> HIDE DEF seen_after
    <3> QED
      BY <3>1, <3>2, <3>4
  <2>6. CASE c \in Started(conflicts, sigma) /\ d \in Started(conflicts, sigma)
    BY <2>3, <2>6
  <2>7. CASE c \in Observed(state.conflicts, sigma) /\ d \in Started(conflicts, sigma)
    BY <2>2, <2>3, <2>7 DEF next_thread
  <2>8. CASE c \in Started(conflicts, sigma) /\ d \in Observed(state.conflicts, sigma)
    BY <2>2, <2>3, <2>8 DEF next_thread
  <2> QED
    BY <2>4, <2>5, <2>6, <2>7, <2>8
<1> QED
  BY <1>1, <1>2

\* What a step does to the monitor: nothing, or it counts one symbol.
LEMMA MonitorStep ==
  ASSUME TypeOK, Next
  PROVE  /\ UNCHANGED automaton
         /\ \/ UNCHANGED <<state.conflicts, state.locksviolated>>
            \/ \E sigma \in symbol :
                 /\ ~Rejected(state, sigma)
                 /\ state'.conflicts = conflicts_after(state, sigma)
                 /\ state'.locksviolated = locksviolated_after(state, sigma)
<1>1. PICK sigma \in int_next_symbols(state) :
        Execute(sigma) \/ Terminate(sigma) \/ Deschedule(sigma)
  BY DEF Next
<1>2. sigma \in symbol
  BY NextSymbol
<1>3. CASE Execute(sigma)
  BY <1>2, <1>3, StepFields DEF Execute, CanExecute
<1>4. CASE Terminate(sigma)
  <2>1. /\ Terminated(state, sigma).conflicts = Executed(state, sigma).conflicts
        /\ Terminated(state, sigma).locksviolated = Executed(state, sigma).locksviolated
    BY TerminatedFields
  <2> QED
    BY <1>2, <1>4, <2>1, StepFields DEF Terminate, CanTerminate, CanExecute
<1>5. CASE Deschedule(sigma)
  BY <1>2, <1>5, DescheduledFields DEF Deschedule, CanDeschedule, DescheduleRejected
<1> QED
  BY <1>1, <1>3, <1>4, <1>5

\* All pairs under observation for a thread belong to its last monitored symbol,
\* and a pair is observed at most once.
THEOREM ObservationsAreConsistent == Spec => []OneObservation
<1>1. Init => OneObservation
  BY DEF Init, int_initial_state, OneObservation
<1>2. ASSUME TypeOK, OneObservation, [Next]_vars PROVE OneObservation'
  <2>1. CASE Next
    <3>1. CASE UNCHANGED <<state.conflicts, state.locksviolated>>
      BY <1>2, <3>1 DEF OneObservation, next_thread
    <3>2. CASE \E sigma \in symbol : state'.conflicts = conflicts_after(state, sigma)
      BY <1>2, <3>2, ObservationStep DEF OneObservation, next_thread
    <3> QED
      BY <1>2, <2>1, <3>1, <3>2, MonitorStep
  <2>2. CASE UNCHANGED vars
    BY <1>2, <2>2 DEF vars, OneObservation, next_thread
  <2> QED
    BY <1>2, <2>1, <2>2
<1> QED
  BY <1>1, <1>2, InitTypeOK, NextTypeOK, PTL DEF Spec

\* No state is kept in which all locks of a disjunction are violated: every
\* execution the automaton generates respects at least one lock of each.
THEOREM DisjunctionsHold == Spec => []NoDisjunctionRefuted
<1>1. ASSUME Init PROVE NoDisjunctionRefuted
  <2>1. PICK c \in Configurations : locks = lock_masks(c.new_locks)
    BY <1>1 DEF Init, Construct
  <2>2. c.new_locks \in Seq(Seq(lock_lists))
    BY ConcurrentAutomatonAssumption
  <2>3. \A bad \in locks : bad # {}
    BY <2>1, <2>2, LockMasks
  <2> QED
    BY <1>1, <2>3 DEF Init, int_initial_state, NoDisjunctionRefuted
<1>2. ASSUME TypeOK, NoDisjunctionRefuted, [Next]_vars PROVE NoDisjunctionRefuted'
  <2>1. CASE Next
    <3>1. locks' = locks
      BY <1>2, <2>1, MonitorStep DEF automaton
    <3>2. CASE state'.locksviolated = state.locksviolated
      BY <1>2, <3>1, <3>2 DEF NoDisjunctionRefuted
    <3>3. CASE \E sigma \in symbol : /\ ~Rejected(state, sigma)
                                     /\ state'.locksviolated = locksviolated_after(state, sigma)
      BY <1>2, <3>1, <3>3 DEF NoDisjunctionRefuted, Rejected, locksviolated_after
    <3> QED
      BY <1>2, <2>1, <3>2, <3>3, MonitorStep
  <2>2. CASE UNCHANGED vars
    BY <1>2, <2>2 DEF vars, NoDisjunctionRefuted
  <2> QED
    BY <1>2, <2>1, <2>2
<1> QED
  BY <1>1, <1>2, InitTypeOK, NextTypeOK, PTL DEF Spec

----------------------------------------------------------------------------
(* Refinement: the scheduler only removes interleavings                   *)

\* The abstract specification reads graphs as the automaton does.
LEMMA SameSymbols ==
  \A t, g, p : Abstract!next_symbols(t, g, p) = next_symbols(t, g, p)
BY DEF Abstract!next_symbols, next_symbols, Abstract!EdgeSymbols, EdgeSymbols,
       Abstract!TagSymbol, TagSymbol, Abstract!ActionSymbol, ActionSymbol,
       Abstract!HasAction, HasAction, Abstract!NullAction, NullAction,
       Abstract!NoBranch, NoBranch

LEMMA SameSuccessor ==
  \A t, g, p, s : Abstract!successor(t, g, p, s) = successor(t, g, p, s)
BY DEF Abstract!successor, successor, Abstract!AfterAction, AfterAction,
       Abstract!NoBranch, NoBranch

LEMMA SameFinal ==
  \A g, p : Abstract!is_final_state(g, p) = is_final_state(g, p)
BY DEF Abstract!is_final_state, is_final_state

LEMMA SameGraphs == Abstract!abstract_cfg = abstract_cfg
BY DEF Abstract!abstract_cfg, abstract_cfg, Abstract!cfg_state, cfg_state,
       Abstract!edge, edge, Abstract!op_class, op_class, Abstract!BlockingOps, BlockingOps,
       Abstract!WaitOps, WaitOps, Abstract!NullAction, NullAction,
       Abstract!HasAction, HasAction

\* Executing sigma has the effect that the operation of sigma has in the abstract
\* specification.
LEMMA EffectOfSymbol ==
  ASSUME TypeOK, TypeOK', NEW sigma \in int_next_symbols(state), Available(state, sigma),
         state'.locks = locks_after(state, sigma),
         state'.conditionals = conditionals_after(state, sigma)
  PROVE  Abstract!Effect(sigma.operation, sigma.variable)
<1>1. sigma.operation \in op_class
  BY NextSymbol DEF symbol
<1> USE DEF Abstract!Effect, Available, locks_after, conditionals_after
<1>2. CASE sigma.operation = "lock"
  BY <1>2 DEF Abstract!Lock
<1>3. CASE sigma.operation = "unlock"
  BY <1>3 DEF Abstract!Unlock
<1>4. CASE sigma.operation = "notify"
  BY <1>4 DEF Abstract!Notify
<1>5. CASE sigma.operation = "reset"
  BY <1>5 DEF Abstract!Reset
<1>6. CASE sigma.operation = "wait"
  BY <1>6 DEF Abstract!Wait
<1>7. CASE sigma.operation = "wait_not"
  BY <1>7 DEF Abstract!WaitNot
<1>8. CASE sigma.operation = "wait_reset"
  BY <1>8 DEF Abstract!WaitReset
<1>9. CASE sigma.operation \in {"read", "write", "tag", "yield", "epsilon"}
  BY <1>9 DEF Abstract!Other
<1> QED
  BY <1>1, <1>2, <1>3, <1>4, <1>5, <1>6, <1>7, <1>8, <1>9 DEF op_class, BlockingOps, WaitOps

\* The initial state of the automaton is one of the abstract specification.
LEMMA InitRefines == Init => Abstract!Init
<1> SUFFICES ASSUME Init PROVE Abstract!Init
  OBVIOUS
<1>1. threads \in [Thread -> abstract_cfg]
  BY InitTypeOK DEF TypeOK, AutomatonOK
<1> QED
  BY <1>1, SameGraphs DEF Init, int_initial_state, Abstract!Init,
       Abstract!initial_state, initial_state

\* Every step is a step of the thread of its symbol, or changes nothing that the
\* abstract specification knows of.
LEMMA StepRefines == TypeOK /\ TypeOK' /\ [Next]_vars => [Abstract!Next]_(Abstract!vars)
<1> SUFFICES ASSUME TypeOK, TypeOK', [Next]_vars PROVE [Abstract!Next]_(Abstract!vars)
  OBVIOUS
<1> USE SameSymbols, SameSuccessor, SameFinal
<1>1. ASSUME NEW sigma \in int_next_symbols(state), Execute(sigma)
      PROVE  Abstract!Next
  <2>1. Available(state, sigma)
    BY <1>1 DEF Execute, CanExecute, Progress
  <2>2. Abstract!Effect(sigma.operation, sigma.variable)
    BY <1>1, <2>1, EffectOfSymbol, StepFields DEF Execute
  <2>3. Abstract!Moves(sigma.thread, sigma)
    BY <1>1, NextSymbol, StepPositions
       DEF Execute, Abstract!Moves, position_after, Abstract!no_state, no_state
  <2>4. Abstract!Step(sigma.thread)
    BY <1>1, <2>2, <2>3, NextSymbol
       DEF Execute, Abstract!Step, Abstract!no_state, no_state, automaton
  <2> QED
    BY <2>4, NextSymbol DEF Abstract!Next
<1>2. ASSUME NEW sigma \in int_next_symbols(state), Terminate(sigma)
      PROVE  Abstract!Next
  <2>1. Available(state, sigma)
    BY <1>2 DEF Terminate, CanTerminate, CanExecute, Progress
  <2>2. /\ Terminated(state, sigma).locks = Executed(state, sigma).locks
        /\ Terminated(state, sigma).conditionals = Executed(state, sigma).conditionals
    BY TerminatedFields
  <2>3. Abstract!Effect(sigma.operation, sigma.variable)
    BY <1>2, <2>1, <2>2, EffectOfSymbol, StepFields DEF Terminate
  <2>4. Abstract!Moves(sigma.thread, sigma)
    BY <1>2, NextSymbol, StepPositions
       DEF Terminate, CanTerminate, at_exit, Abstract!Moves, position_after,
           Abstract!no_state, no_state
  <2>5. Abstract!Step(sigma.thread)
    BY <1>2, <2>3, <2>4, NextSymbol
       DEF Terminate, Abstract!Step, Abstract!no_state, no_state, automaton
  <2> QED
    BY <2>5, NextSymbol DEF Abstract!Next
<1>3. ASSUME NEW sigma \in int_next_symbols(state), Deschedule(sigma)
      PROVE  UNCHANGED Abstract!vars
  BY <1>3, StepPositions, DescheduledFields DEF Deschedule, Abstract!vars, automaton
<1>4. CASE UNCHANGED vars
  BY <1>4 DEF vars, Abstract!vars
<1> QED
  BY <1>1, <1>2, <1>3, <1>4 DEF Next

\* Both automata generate only executions of the preemptive semantics.
THEOREM Refinement == Spec => RefinesPreemptive
<1> QED
  BY InitRefines, StepRefines, InitTypeOK, NextTypeOK, PTL DEF Spec, RefinesPreemptive, Abstract!Spec

\* A thread of the non-preemptive automaton that does not keep the processor is at
\* a preemption point or at an exit, and then no thread is chosen yet.
LEMMA SwitchStep ==
  ASSUME TypeOK, Next, ~Concurrent, NEW t \in Thread, LosesProcessor(t)
  PROVE  /\ state'.current = no_thread
         /\ \/ AtPreemptionPoint(t)
            \/ state'.threads[t] = no_state
            \/ is_final_state(threads[t], state'.threads[t])
<1>1. PICK sigma \in int_next_symbols(state) :
        Execute(sigma) \/ Terminate(sigma) \/ Deschedule(sigma)
  BY DEF Next
<1>2. state.threads \in [Thread -> Int]
  BY DEF TypeOK, AutomatonOK, StateOK, concurrent_state
<1>3. t = sigma.thread
  <2>1. CASE state.current = t
    BY <2>1, NextSymbol, SymbolsAssumption DEF no_thread
  <2>2. CASE state'.threads[t] # state.threads[t]
    <3>1. \/ state'.threads = [state.threads EXCEPT ![sigma.thread] = position_after(state, sigma)]
          \/ state'.threads = [state.threads EXCEPT ![sigma.thread] = no_state]
          \/ state'.threads = state.threads
      BY <1>1, StepPositions DEF Execute, Terminate, Deschedule
    <3> QED
      BY <1>2, <2>2, <3>1
  <2> QED
    BY <2>1, <2>2 DEF LosesProcessor
<1>4. sigma \in next_single(state, t)
  BY <1>3, NextSymbol
<1>5. CASE Execute(sigma)
  <2>1. state'.current = current_after(state, sigma) /\ state'.current # t
    BY <1>5, StepFields DEF Execute, LosesProcessor
  <2>2. at_exit(state, sigma) \/ sigma.operation = "yield"
    BY <1>3, <2>1 DEF current_after
  <2>3. state'.current = no_thread
    BY <2>1, <2>2 DEF current_after
  <2>4. CASE at_exit(state, sigma)
    <3>1. Executed(state, sigma).threads =
            [state.threads EXCEPT ![t] = position_after(state, sigma)]
      BY <1>3, StepPositions
    <3>2. state'.threads[t] = position_after(state, sigma)
      BY <1>2, <1>5, <3>1 DEF Execute
    <3> QED
      BY <1>3, <2>3, <2>4, <3>2 DEF at_exit
  <2>5. CASE sigma.operation = "yield"
    <3>1. state' \in int_successors(state, sigma)
      BY <1>5 DEF Execute, int_successors
    <3> QED
      BY <1>4, <2>3, <2>5, <3>1 DEF AtPreemptionPoint, is_preemption_point
  <2> QED
    BY <2>2, <2>4, <2>5
<1>6. CASE Terminate(sigma)
  <2>1. state'.threads[t] = no_state
    <3>1. Terminated(state, sigma).threads = [state.threads EXCEPT ![t] = no_state]
      BY <1>3, StepPositions
    <3> QED
      BY <1>2, <1>6, <3>1 DEF Terminate
  <2>2. Terminated(state, sigma).current = Executed(state, sigma).current
    BY TerminatedFields
  <2>3. state'.current = no_thread
    BY <1>6, <2>2, StepFields DEF Terminate, CanTerminate, current_after
  <2> QED
    BY <2>1, <2>3
<1>7. CASE Deschedule(sigma)
  <2>1. state'.current = no_thread /\ state' \in int_successors(state, sigma)
    BY <1>7, DescheduledFields DEF Deschedule, int_successors
  <2>2. MayYield(state, sigma) /\ ~Progress(state, sigma)
    BY <1>7 DEF Deschedule, CanDeschedule, Deschedules
  <2>3. sigma.operation \in BlockingOps
    BY <2>2, NextSymbol DEF Progress, Available, BlockingOps, WaitOps
  <2>4. is_preemption_point(sigma)
    <3>1. sigma.assume \in BOOLEAN /\ sigma.synthesised \in BOOLEAN
      BY NextSymbol DEF symbol
    <3> QED
      BY <2>2, <2>3, <3>1 DEF MayYield, is_preemption_point, MayDeschedule, BlockingOps
  <2> QED
    BY <1>4, <2>1, <2>4 DEF AtPreemptionPoint
<1> QED
  BY <1>1, <1>5, <1>6, <1>7

\* symbol::is_preemption_point describes where the non-preemptive automaton switches.
THEOREM SwitchesAreAllowed == Spec => SwitchOnlyAtPreemptionPoint
<1>1. ASSUME TypeOK, [Next]_vars
      PROVE  [~Concurrent =>
               \A t \in Thread : LosesProcessor(t) =>
                 /\ state'.current = no_thread
                 /\ \/ AtPreemptionPoint(t)
                    \/ state'.threads[t] = no_state
                    \/ is_final_state(threads[t], state'.threads[t])]_vars
  BY <1>1, SwitchStep
<1> QED
  BY <1>1, InitTypeOK, NextTypeOK, PTL DEF Spec, SwitchOnlyAtPreemptionPoint

----------------------------------------------------------------------------
(* The locks of a program with a discipline *)

\* The invariant of a program with a discipline.
LInv == TypeOK /\ WellLockedProgram /\ LocksAreOwned

\* The instruction a thread executes in its own graph: the discipline applies to it.
LEMMA Disciplined ==
  ASSUME TypeOK, WellLockedProgram, NEW sigma \in int_next_symbols(state)
  PROVE  LET t == sigma.thread IN
         /\ t \in Thread
         /\ sigma.operation = "lock" => sigma.variable \notin HeldBy(t)
         /\ sigma.operation = "unlock" => sigma.variable \in HeldBy(t)
         /\ position_after(state, sigma) # no_state
         /\ LocksetAt(threads[t], position_after(state, sigma)) = LocksetAfter(HeldBy(t), sigma)
         /\ at_exit(state, sigma) => LocksetAfter(HeldBy(t), sigma) = {}
<1> DEFINE t == sigma.thread
           p == state.threads[t]
<1>1. t \in Thread /\ p \in Positions(threads[t]) /\ p # no_state
  BY NextSymbol DEF StateOK
<1>2. sigma \in next_symbols(t, threads[t], p)
  BY <1>1, NextSymbol DEF next_single
<1>3. position_after(state, sigma) \in Positions(threads[t]) \ {no_state}
  BY NextSymbol
<1>4. HeldBy(t) = LocksetAt(threads[t], p)
  BY <1>1 DEF HeldBy
<1>5. WellLocked(t, threads[t])
  BY <1>1 DEF WellLockedProgram
<1> QED
  BY <1>1, <1>2, <1>3, <1>4, <1>5 DEF WellLocked, position_after, at_exit

\* The locks of a thread after an instruction of its own, and of the others.
LEMMA HeldAfter ==
  ASSUME LInv, NEW sigma \in int_next_symbols(state), threads' = threads,
         \/ state'.threads =
              [state.threads EXCEPT ![sigma.thread] = position_after(state, sigma)]
         \/ /\ at_exit(state, sigma)
            /\ state'.threads = [state.threads EXCEPT ![sigma.thread] = no_state]
  PROVE  \A t \in Thread :
           HeldBy(t)' = IF t = sigma.thread THEN LocksetAfter(HeldBy(t), sigma) ELSE HeldBy(t)
<1>1. state.threads \in [Thread -> Int]
  BY DEF LInv, TypeOK, StateOK, concurrent_state
<1>2. sigma.thread \in Thread
  BY Disciplined DEF LInv
<1>3. ASSUME NEW t \in Thread, t # sigma.thread PROVE HeldBy(t)' = HeldBy(t)
  BY <1>1, <1>3 DEF HeldBy
<1>4. HeldBy(sigma.thread)' = LocksetAfter(HeldBy(sigma.thread), sigma)
  <2>1. CASE state'.threads =
               [state.threads EXCEPT ![sigma.thread] = position_after(state, sigma)]
    <3>1. state'.threads[sigma.thread] = position_after(state, sigma)
      BY <1>1, <1>2, <2>1
    <3>2. HeldBy(sigma.thread)' = LocksetAt(threads[sigma.thread], position_after(state, sigma))
      BY <3>1, Disciplined DEF HeldBy, LInv
    <3> QED
      BY <3>2, Disciplined DEF LInv
  <2>2. CASE /\ at_exit(state, sigma)
             /\ state'.threads = [state.threads EXCEPT ![sigma.thread] = no_state]
    <3>1. state'.threads[sigma.thread] = no_state
      BY <1>1, <1>2, <2>2
    <3>2. HeldBy(sigma.thread)' = {}
      BY <3>1 DEF HeldBy
    <3> QED
      BY <2>2, <3>2, Disciplined DEF LInv
  <2> QED
    BY <2>1, <2>2
<1> QED
  BY <1>3, <1>4

\* An instruction that is available keeps the locks exclusive.
LEMMA ExclusionStep ==
  ASSUME LInv, NEW sigma \in int_next_symbols(state), Available(state, sigma), threads' = threads,
         state'.locks = locks_after(state, sigma),
         \/ state'.threads =
              [state.threads EXCEPT ![sigma.thread] = position_after(state, sigma)]
         \/ /\ at_exit(state, sigma)
            /\ state'.threads = [state.threads EXCEPT ![sigma.thread] = no_state]
  PROVE  LocksAreOwned'
<1> DEFINE u == sigma.thread
           x == sigma.variable
<1>1. \A t \in Thread :
        HeldBy(t)' = IF t = u THEN LocksetAfter(HeldBy(u), sigma) ELSE HeldBy(t)
  BY HeldAfter
<1>2. u \in Thread
  BY Disciplined DEF LInv
<1>3. /\ state.locks = UNION {HeldBy(t) : t \in Thread}
      /\ \A t, v \in Thread : t # v => HeldBy(t) \cap HeldBy(v) = {}
  BY DEF LInv, LocksAreOwned
<1>4. CASE sigma.operation = "lock"
  <2>1. LocksetAfter(HeldBy(u), sigma) = HeldBy(u) \cup {x}
    BY <1>4 DEF LocksetAfter
  <2>2. state'.locks = state.locks \cup {x} /\ x \notin state.locks
    BY <1>4 DEF locks_after, Available
  <2>3. \A t \in Thread : HeldBy(t)' = IF t = u THEN HeldBy(t) \cup {x} ELSE HeldBy(t)
    BY <1>1, <2>1
  <2>4. state'.locks = UNION {HeldBy(t)' : t \in Thread}
    BY <1>2, <1>3, <2>2, <2>3
  <2>5. \A t, v \in Thread : t # v => HeldBy(t)' \cap HeldBy(v)' = {}
    BY <1>2, <1>3, <2>2, <2>3
  <2> QED
    BY <2>4, <2>5 DEF LocksAreOwned
<1>5. CASE sigma.operation = "unlock"
  <2>1. LocksetAfter(HeldBy(u), sigma) = HeldBy(u) \ {x} /\ x \in HeldBy(u)
    BY <1>5, Disciplined DEF LocksetAfter, LInv
  <2>2. state'.locks = state.locks \ {x}
    BY <1>5 DEF locks_after
  <2>3. \A t \in Thread : HeldBy(t)' = IF t = u THEN HeldBy(t) \ {x} ELSE HeldBy(t)
    BY <1>1, <2>1
  <2>4. state'.locks = UNION {HeldBy(t)' : t \in Thread}
    BY <1>2, <1>3, <2>1, <2>2, <2>3
  <2>5. \A t, v \in Thread : t # v => HeldBy(t)' \cap HeldBy(v)' = {}
    BY <1>2, <1>3, <2>3
  <2> QED
    BY <2>4, <2>5 DEF LocksAreOwned
<1>6. CASE sigma.operation \notin {"lock", "unlock"}
  <2>1. state'.locks = state.locks /\ \A t \in Thread : HeldBy(t)' = HeldBy(t)
    BY <1>1, <1>6 DEF LocksetAfter, locks_after
  <2> QED
    BY <1>3, <2>1 DEF LocksAreOwned
<1> QED
  BY <1>4, <1>5, <1>6

LEMMA LInvInit == Init /\ WellLockedProgram => LInv
<1> SUFFICES ASSUME Init, WellLockedProgram PROVE LInv
  OBVIOUS
<1>1. TypeOK
  BY InitTypeOK
<1>3. \A t \in Thread : HeldBy(t) = {}
  BY DEF Init, int_initial_state, HeldBy, WellLockedProgram, WellLocked, initial_state, no_state
<1>4. state.locks = {}
  BY DEF Init, int_initial_state
<1> QED
  BY <1>1, <1>3, <1>4 DEF LInv, LocksAreOwned

LEMMA LInvNext == LInv /\ [Next]_vars => LInv'
<1> SUFFICES ASSUME LInv, [Next]_vars PROVE LInv'
  OBVIOUS
<1>1. TypeOK'
  BY NextTypeOK DEF LInv
<1>2. threads' = threads
  BY DEF Next, Execute, Terminate, Deschedule, automaton, vars
<1>3. WellLockedProgram'
  BY <1>2 DEF LInv, WellLockedProgram
<1>4. ASSUME NEW sigma \in int_next_symbols(state), Execute(sigma) PROVE LocksAreOwned'
  <2>1. /\ state'.threads =
             [state.threads EXCEPT ![sigma.thread] = position_after(state, sigma)]
        /\ state'.locks = locks_after(state, sigma)
    BY <1>4, StepPositions, StepFields DEF Execute, LInv
  <2> QED
    BY <1>2, <1>4, <2>1, ExclusionStep DEF Execute, CanExecute, Progress
<1>5. ASSUME NEW sigma \in int_next_symbols(state), Terminate(sigma) PROVE LocksAreOwned'
  <2>1. state'.threads = [state.threads EXCEPT ![sigma.thread] = no_state]
    BY <1>5, StepPositions DEF Terminate, LInv
  <2>2. Terminated(state, sigma).locks = Executed(state, sigma).locks
    BY TerminatedFields DEF LInv
  <2>3. state'.locks = locks_after(state, sigma)
    BY <1>5, <2>2, StepFields DEF Terminate, LInv
  <2> QED
    BY <1>2, <1>5, <2>1, <2>3, ExclusionStep DEF Terminate, CanTerminate, CanExecute, Progress
<1>6. ASSUME NEW sigma \in int_next_symbols(state), Deschedule(sigma) PROVE LocksAreOwned'
  <2>1. state'.threads = state.threads /\ state'.locks = state.locks
    BY <1>6, StepPositions, DescheduledFields DEF Deschedule, LInv
  <2> QED
    BY <1>2, <2>1 DEF LInv, LocksAreOwned, HeldBy
<1>7. CASE UNCHANGED vars
  BY <1>1, <1>3, <1>7 DEF LInv, LocksAreOwned, HeldBy, vars
<1> QED
  BY <1>1, <1>3, <1>4, <1>5, <1>6, <1>7 DEF LInv, Next

\* A program keeps its discipline, so nothing is said of one that has none.
DInv == TypeOK /\ MutualExclusion

LEMMA DInvNext == DInv /\ [Next]_vars => DInv'
<1> SUFFICES ASSUME DInv, [Next]_vars PROVE DInv'
  OBVIOUS
<1>1. TypeOK'
  BY NextTypeOK DEF DInv
<1>2. threads' = threads
  BY DEF Next, Execute, Terminate, Deschedule, automaton, vars
<1>3. WellLockedProgram' => WellLockedProgram
  BY <1>2 DEF WellLockedProgram
<1>4. CASE WellLockedProgram
  BY <1>1, <1>4, LInvNext DEF DInv, LInv, MutualExclusion
<1> QED
  BY <1>1, <1>3, <1>4 DEF DInv, MutualExclusion

\* No lock is ever held by two threads, and the bit of concurrent_state is set
\* exactly for the locks that are held.
THEOREM LocksExclude == Spec => []MutualExclusion
<1>1. Init => DInv
  BY InitTypeOK, LInvInit DEF DInv, LInv, MutualExclusion
<1> QED
  BY <1>1, DInvNext, PTL DEF Spec, DInv
=============================================================================
