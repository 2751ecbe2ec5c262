# A specification of Liss

Liss takes a C program written for a scheduler that does not preempt, and places
locks so that the program behaves the same under a preemptive scheduler. This
directory holds TLA+ modules of its core, TLC configurations that check them on
small programs, and theorems about them that TLAPS proves for every program.

Source paths below are relative to `src/src/` of the repository.

## 1. The system

### Data flow

    C source --clang_interf--> cfg::program (one abstract_cfg per thread)
                                  | minimise, compact
                                  v
       cfg::automaton (one thread)  ->  abstraction::concurrent_automaton
                                         |   concurrent = false: sequential
                                         |   concurrent = true : preemptive
            -deadlock  <-- deadlock_algo |
            -inclusion <-- compressed_automaton + Limi inclusion test
            -synthesis <-- the loop:
                 inclusion test -> counterexample
                   -> reorderings (Z3): which orders of symbols are bad
                   -> synchronisation: locks that exclude them
                   -> trace_helpers: locks as lists of symbols
                   -> concurrent_automaton::add_forbidden_traces, and again
                 place_locks (Z3) -> print_program

Everything runs in one process and one thread. The concurrency is that of the
program that Liss explores: the automata are its transition systems, and every
later part relies on what they generate.

### Inventory

| Component | State it keeps | Operations | What is hard |
|---|---|---|---|
| `abstraction/symbol` | none (values) | predicates on symbols, `independence` | the predicates restate decisions made elsewhere |
| `cfg/abstract_cfg`, `cfg/program` | states, edges, tags, places for locks, limits | `add_state`, `add_edge`, `mark_final`, `minimise`, `compact`, `add_thread` | removal while iterating, renumbering |
| `cfg/automaton` | a graph | `initial_states`, `next_symbols`, `successors`, `is_final_state` | positions before and after a state |
| `abstraction/concurrent_automaton` | graphs, conflicts, lock patterns; explored states | the same four, `apply_symbol`, `deadlock_states`, `add_forbidden_traces`, `apply_bad_trace_dnf`, `tick_lock` | interleavings, the scheduler, a monitor of executions |
| `automata/deadlock_algo` | queue, visited states | `run` | completeness of the search, the counterexample |
| `abstraction/compressed_automaton` | numbering of states and symbols | `from_concurrent_automaton`, wrapper | numbers shared by two automata |
| `actions/inclusion_test` | bound, the filter of the sequential automaton | `test_inclusion`, `check_trace` | a result that depends on a bound; a filter that must be lifted |
| `actions/synthesis2` | locks found so far | `synth_loop`, `run` | progress of the loop |
| `synthesis/reorderings`, `z3_helpers`, `constraint` | Z3 context | `prepare_trace`, `process_trace`, `find_*`, `min_unsat` | soundness of a generalised constraint |
| `synthesis/synchronisation`, `lock` | none | `generate_sync`, `find_lock` (`merge_locks` is not called) | which pairs of constraints make a lock |
| `synthesis/trace_helpers` | none | `locks_to_symbols`, `blow_up_lock`, `remove_preemption`, `remove_duplicates` | locks that lose one side |
| `placement/place_locks` | Z3 context, constraints | `find_locks` under a cost function | deadlock freedom of what is placed, agreement of all ways into a location |
| `placement/print_program` | the rewritten source | `print_with_locks` | the order of locks at one place |
| `actions/print*`, `cfg/dot_printer` | files | output | formatting only |
| `abstraction/identifier_store` | three maps of names | `insert_variable`, `insert_lock`, `insert_conditonal`, `lookup_*` | limits |
| `clang_interf` | the graph being built, the first states of visited blocks | `process_block`, `process_function`, visitors of statements and calls, `add_successor`, `lock_locations` | calls put into the graph, loops, places for locks that statements share |
| `main`, `options`, `actions/action_base` | options | argument parsing | none |
| `automata/perf_test`, `actions/perf_test`, `tests/` | none | measurements, tests of Limi | none |
| Limi, Z3, clang | external | inclusion test, solver, parser | not in the repository |

### What makes each component correct

* *Thread automaton*: a thread is always at a position of its graph, and is
  "after" a state only where a branch is open.
* *Concurrent automaton*: the preemptive one generates exactly the preemptive
  semantics; the preemption-free one generates some of its executions, switches
  only where the documentation and `is_preemption_point` say, and does not get
  stuck on a thread. Locks exclude.
* *Forbidden traces*: an execution is rejected exactly if it violates every lock
  of some disjunction; for threads without loops this is what a real lock does.
* *Deadlock search*: it ends; it reports a deadlock exactly if there is one, with
  an execution that leads there.
* *Front end, control flow graph*: the graphs have the instruction sequences of the
  source with its calls; minimising and compacting leave edges only to states that
  do something, can be locked or are final, every loop has a back edge, and numbers
  kept in a graph are those of its states.
* *Inclusion test*: a counterexample is none that the bound made, and the test
  gives up only on a program that needs more reorderings than the maximum.
* *Synthesis loop*: each round excludes its counterexample, so the loop ends, and
  what it returns makes the preemptive program behave as the sequential one.
* *Reorderings, synchronisation, trace helpers*: a lock excludes the bad orders
  and is never one-sided.
* *Lock placement, printer*: the threads of the printed program hold the locks the
  solver planned, do not wait for each other, and do nothing that the locks of the
  synthesis forbid.

## 2. The modules

| Module | Models | Contents |
|---|---|---|
| `Symbols` | `abstraction/symbol.*` | the alphabet, `is_epsilon`, `is_preemption_point` |
| `ThreadAutomaton` | `cfg/automaton.*`, the data of `cfg/abstract_cfg.h` | graphs, positions, `next_symbols`, `successor`, `is_final_state` |
| `ForbiddenTraces` | `add_forbidden_traces`, `apply_bad_trace_dnf`, `tick_lock` | conflicts of a set of locks, and what one symbol does to the observed pairs |
| `ConcurrentAutomaton` | `abstraction/concurrent_automaton.*` | `apply_symbol`, `int_successors`, `deadlock_states` as functions on states |
| `Executions` | the automaton run | actions `Execute`, `Terminate`, `Deschedule`; invariants, action properties, refinement |
| `Preemptive` | the promise of the automata | the abstract specification: any thread executes any instruction that is not blocked |
| `LockDiscipline` | the lock bits of `concurrent_state` | for programs that use locks in pairs: mutual exclusion |
| `ForbiddenExecutions` | the monitor against whole executions | the executions with their history; what a lock excludes |
| `DeadlockAlgo` | `automata/deadlock_algo.h`, `automata/results.h` | one search: actions `Skip`, `Expand`, `ReportDeadlock`, `ReportNone` |
| `DeadlockCheck` | `actions/deadlock_check.cpp` | both searches: actions `SearchSequential`, `TestConcurrent`, `SearchPreemptive` |
| `LockInference` | `synthesis/synchronisation.cpp`, `synthesis/trace_helpers.cpp` | `generate_sync`, `find_lock`, `locks_to_symbols`, `remove_preemption`, `remove_duplicates` as functions |
| `Reorderings` | the formulas of `synthesis/reorderings.cpp`, `constraint.*`, `z3_helpers.h` | orders, `prepare_trace`, `synth_locks`, `find_order`, `min_unsat` |
| `ProcessTrace` | `reorderings::process_trace` | actions `FindSequential`, `SequentialDone`, `FindBad`, `BadDone` |
| `InclusionTest` | `actions/inclusion_test.cpp`, `abstraction/compressed_automaton.*` | actions `run`, `check_trace`, `GiveUp`; the two automata, their executions and equivalence |
| `SynthLoop` | `synth_loop` of `actions/synthesis2.cpp` | actions `TestInclusion`, `PrepareTrace`, the four of `ProcessTrace`, `AddLocks`, `NoMoreLocks` |
| `AbstractCfg` | the data of `cfg/abstract_cfg.h` as built and as placed in | states, edges, predecessors |
| `CfgBuilder` | `clang_interf/statement_visitor.cpp`, `cfg_visitor.cpp`, `parse_thread` | the graph of a thread as a function of the blocks of its functions |
| `Minimise` | `abstract_cfg::minimise`, `abstract_cfg::compact` | both as functions on graphs |
| `Instructions` | the promise of the front end | the instruction sequences of a source and of a graph as automata, and their comparison |
| `FrontEnd` | `thread_visitor`, `cfg/program.cpp`, `abstraction/identifier_store.cpp`, `abstraction_consumer` | actions `TraverseFunctionDecl` (with its refusals), `RunActions` |
| `LockPlacement` | `placement/place_locks.cpp`, `print_with_locks`, `run` of `actions/synthesis2.cpp`, `blow_up_lock` | actions `find_locks`, `PlacementFails`, and of the printed program `StartProgram`, `ExecuteLock`, `Execute`, `Follow` |
| `ConcurrentAutomatonProofs`, `ExecutionsProofs`, `ForbiddenExecutionsProofs`, `DeadlockAlgoProofs`, `DeadlockCheckProofs`, `ReorderingsProofs`, `SynthLoopProofs`, `LockPlacementProofs` | | theorems and proofs |
| `TestPrograms`, `MC*` | | small programs and the constants of the runs |

`ConcurrentAutomaton` extends `ThreadAutomaton` and `ForbiddenTraces`;
`Executions` and `DeadlockAlgo` both extend it: they are two ways of running the
same functions. `DeadlockCheck` instantiates `DeadlockAlgo` twice, for the two automata.
`Executions` instantiates `Preemptive`. `Reorderings` extends
`LockInference`, `ProcessTrace` extends `Reorderings`. `InclusionTest` instantiates
`ConcurrentAutomaton` twice, for the two automata. `SynthLoop` composes: it extends
`InclusionTest` and instantiates `ProcessTrace` for the rounds. `CfgBuilder`,
`Minimise` and `LockPlacement` extend `AbstractCfg`; `FrontEnd` composes the first
two. Modules that walk graphs with `RECURSIVE` operators (`CfgBuilder`, `Minimise`,
`Instructions`, `FrontEnd`) are only model-checked; the others can be proved about.

### How the state corresponds

`state` of `Executions` is a `concurrent_state`, field by field. `reward` is left
out: `operator==` and the hash ignore it, and it only orders a priority queue.
`current` is the running thread or `no_thread`; positions are the numbers of the
code (`s` in front of a state, `-s` after it, 0 for a thread that has ended).
`threads`, `conflicts` and `locks` are the members of the automaton that are
computed before it is run.

`apply_symbol` decides by a chain of tests whether a symbol is executed, the
thread descheduled, or there is no successor. The model says the same with
`Available` (the lock or condition permits it), `MayYield` (the running thread may
give up the processor at this symbol), `Progress` and `Deschedules`. In the code a
descheduled thread keeps its position, and with `condyield_is_always_yield` the
monitor does not see the symbol; without the option it does. Both are modelled.

A lock of several alternatives has the identity `<<d, k>>` instead of the running
number `locks_size`; `conflicts` is a set and not a vector with indices. The
vector can hold the same conflict twice, in which case the two indices are
always observed, marked and removed together.
The loop of `apply_bad_trace_dnf` inserts an escalated conflict into the set it goes through and may meet it again;
`Observed` says it for all conflicts at once. The lemma `MetAgain` (`ConcurrentAutomatonProofs`) is why this is
the same: a conflict met again stays as it is and ticks nothing off.

In `Reorderings` a location is a position of the counterexample. Z3 gives each
location an integer; the formulas compare integers and ask for neighbours, so a
model of the solver is represented by the permutation it stands for. `strace` is
not stored: `threaded_trace`, `waits` and so on are operators on the trace. The
final location comes after all others. `Orders(tr)` enumerates the candidates
cleverly (ways to hand out places to threads) and filters them by `thread_order`
and `distinct`; that it forgets no permutation is not proved.
A `z3::solver` is the set of models of its assertions; `add` shrinks it, `push` and
`pop` are which constraints it is asked with. `check` returns any model, and
`min_unsat` any minimal core: the algorithm removes members one by one, so its
result is minimal, and which one depends on the order and on Z3. The sets
`seq_traces` and `bad_traces` are vectors in the code; a constraint is never found
twice, because the solver has excluded it. The flag `from_wait_notify` is left
out: it is never set.

`InclusionTest` replaces the antichain algorithm of Limi by what it can answer with a
bound k: an execution is recognised as equivalent to a sequential one if no symbol is
put off behind more than k symbols of another thread. Run with the bound, it reports
that all executions are recognised, or one that is not: as certain, if it has no
sequential equivalent at all (up to swapping adjacent independent symbols, epsilons
ignored), or as one that the bound prevents it from answering. Which one is left open.
The loop over the bounds, the check of a single execution with its own bound and
the filter of the sequential automaton are those of the code. `check_trace` computes
half the number of visible symbols for its bound but passes the length of the
trace (`inclusion_test.cpp:54-55`); the model does the latter. The
numbers that `compressed_automaton` gives states and symbols are left out: its states
are the states themselves. Executions are enumerated, so the programs have no loops: a
thread is then at most once in front of each of its states and once behind it, and may be
descheduled once at each of these positions, so `LongestRun` steps are enough to reach every state
and to complete every execution. A record `Automaton(..)` holds what `from_concurrent_automaton`
computes; `Explore` is one level of its search, `Extend` one more step of all executions.

`CfgBuilder` starts from what clang makes of a function, a graph of blocks of
elements; an element lists what the visitors find in it, and the two places of the
statement it belongs to. `minimise` works through the edges of a state, to which it
appends those of the states it removes; the queue of the model is that vector, and
the set of edges (ordered by target, first one wins) is `found`. Costs and distances
are left out, since nothing that is modelled reads them. A program is refused with the
limits `max_states`, `max_threads` and, for each kind of names, `max_names`.

`LockPlacement` gives Z3 the hard constraints one by one and lets it choose any
solution with the least cost of the soft ones; each function of the solver is the set of
pairs it maps to true. The set of solutions is put together from solutions for one
lock in one thread, which changes nothing but the time it takes to find them. The
loop over predecessors in `lock_consistancy` compares iterators of two hash sets
(`place_locks.cpp:269`); with the standard library in use their ends are equal,
so it visits the forward predecessors. `cost_model_max_concurrency` adds constraints
that are constantly true (a comma expression, line 435), and the `continue` of line 425
skips the increment of its counter; `max_pairwise_concurrency` is therefore
the same as `absolute_minimum`. The soft constraint of `small_locks` is added twice.
The printed program executes the locks of a place in the order in which
`print_with_locks` inserts their texts, the highest number first. Its data is left out: a
thread takes any branch, and a wait lasts as long as it likes.

`successor_filter` is empty: nothing in the repository sets that of
`concurrent_automaton`. Epsilon collapsing belongs to the base class in Limi and
is not modelled: the runs see each epsilon.

A definition marked *Fault* is a plausible bug of the definition that follows it.
No module uses it; `PROJECT.json` (`mutants`) says which property notices when it
is put in the place of the original.

## 3. What is checked

All passing runs but `front_end`, which builds programs of up to its limit, have two threads. Two are enough for each rule of the automaton: it reads
the thread of the symbol and `current`, and treats all other threads alike; a lock
relates pairs of lists. The theorems of section 5 hold for any number of threads.

| Run | Configuration | Shows |
|---|---|---|
| `sequential` | `MCSequential.cfg` | all programs of two statements per thread out of the eleven statements of `langinc.h`, and loops, nondeterministic and deterministic branches of five of them: types, no spurious blocking, switches only at preemption points, refinement of `Preemptive`; programs without loops reach a state without successors |
| `preemptive` | `MCPreemptive.cfg` | the same programs, and all programs of four statements, or two in a loop or branch, that use two locks in pairs, `concurrent = TRUE`: no scheduler, nothing lost, refinement, mutual exclusion |
| `forbidden` | `MCForbiddenExecutions.cfg` | one lock over any two pieces of code, with an epsilon in one, two such locks, two alternatives, a lock over three pieces, and locks over a loop (also around it): the monitor against the definition over histories; sections under a lock do not overlap |
| `deadlock_check` | `MCDeadlockCheck.cfg` | the search on the preemption-free automaton and then on the preemptive one, for straight, branching and looping programs, two test cases, crossed locks, an endless loop without instructions and a program that already has synthesised locks: exact and shortest answers, each search ends, and what deadlocks without preemption deadlocks with it |
| `process_trace` | `MCProcessTrace.cfg` | `process_trace` on counterexamples of up to seven symbols with locks, conditions, assumes, yields and locks found earlier: exact result, and both loops end |
| `synth_loop` | `MCSynthLoop.cfg` | the synthesis of programs of accesses, yields, locks, assumes, waits and branches, with the inclusion test inside: the answers of the test are right, each round keeps what is sequential, makes progress unless the counterexample waits, and its locks have two sides |
| `lock_placement` | `MCLockPlacement.cfg` | all optimal placements under the five cost functions and all executions of the printed programs: nested sections, alternatives, a wait in a loop, a branch around a removed state, functions called from several places, and a problem without solution |
| `front_end` | `MCFrontEnd.cfg` | threads of two statements out of thirteen shapes (all kinds of elements, `if`, `switch`, `while`, calls of two functions, one with an early return), refusals, and programs that the visitors do not understand: building, minimising, compacting |
| `deadlock_exit`, `synth_cycle`, `placement_gap`, `call_return` | `MCDeadlockExit.cfg`, `MCSynthCycle.cfg`, `MCPlacementGap.cfg`, `MCCallReturn.cfg` | disagreements, section 4 |

Bounds. `MaxHistory` (7 monitored symbols) bounds executions of `forbidden`: it is
every execution of the loop-free program, and goes round the loop
of the other program twice, enough for a lock over
`<<s2, s3, s2>>` to be entered, interrupted and entered again. The other runs
of automata have no bound but the programs, which are finite data. `CHECK_DEADLOCK FALSE`
stands in every run because executions, the search and the synthesis end.
`MaxRounds` = 4 bounds the rounds of `SynthLoop`; only runs whose
counterexample has a wait reach it: a lock may be cut at the wait and the same
counterexample come again (`ExcludedWithoutWaits`), in some of them still after six rounds. All others
end before. `process_trace` is given one
counterexample per program: the others number the same symbols differently.
Two threads suffice there for the rules (pairs of symbols of different threads,
lists of different threads); that the first conflict *with each thread* suffices
is proved for all of them.
`process_trace` leaves out threads that begin with three writes to the same variable: they
multiply the orders of the solvers, without a kind of conflict that two writes do not have.
`max_bound` = 2 is reached and exceeded: some programs need three reorderings, and
candidates that turn out to be harmless occur. `lock_limit` = 2 is the least with which
an order of locks matters, and programs have up to two disjunctions; the theorem of section 5 has any
number. `max_states` = 32, `max_threads` = 3 and `max_names` = 3 are exceeded by some programs of
`front_end` and not by others.
Programs in which a thread can be at its end in front of an open branch are left
out of `synth_loop`. There the preemption-free automaton can switch (section 4) where `process_trace` does not expect it, and `SequentialKept` fails as a
consequence.

The properties in words:

* `NoSpuriousBlocking`: an execution of the preemption-free automaton ends only if
  no thread can run, or at a false assume (or a synthesised lock that is taken),
  where the code deliberately does not switch, or in an endless loop without
  instructions, in which a thread has no symbol and is at no exit (`HeldInEmptyLoop`).
* `SwitchOnlyAtPreemptionPoint`: the synthesis reasons about counterexamples with
  `symbol::is_preemption_point`; the automaton decides by other code. The two
  agree, except at exits, where both must switch.
* `RefinesPreemptive`: scheduler and monitor only remove interleavings.
  `NothingLost`: and without forbidden traces the preemptive automaton removes
  none.
* `MutualExclusion`: the code keeps one bit per lock and no owner; the bit is set
  exactly if one thread is inside, and never are two.
* `BitsAreExact`, `RejectsExactlyTheForbidden`, `SectionsDoNotOverlap`: the
  monitor remembers a few pairs of symbols. They compare it with the history, in
  both directions: nothing forbidden is kept and nothing else is rejected.
  `RejectsExactlyTheForbidden` says so of two neighbours and a symbol in between, which is what
  the code looks for; `SectionsDoNotOverlap` says of whole pieces of code that some
  lock of each disjunction could have been held over them, in programs with loops too.
* `OneObservation`, `NoDisjunctionRefuted`: the set of observed pairs, which the
  code changes while it iterates over it, stays consistent.
* `CounterexampleIsShortest`, `NoneMissed`, `FrontierCoversRest`: soundness and
  completeness of the search; the last is the invariant that gives `NoneMissed`.
* `SequentialDeadlocksArePreemptive`: the scheduler invents no deadlock. A thread that
  keeps the processor where it must not would be one. It is stated for programs in which
  every thread gives way (`GivesWay`): at a synthesised lock of an earlier run, or in an empty endless
  loop, a thread does keep the processor, and the first search then reports a deadlock that the second
  does not find. The programs `Resynthesised` and `Endless` of the run are such ones.
* `BadTracesAreNotSequential`, `BadTracesAreComplete`: the bad traces exclude no
  sequential order, and describe all others. `OnlySequentialRemoved`: the first loop
  takes away exactly the orders in which every thread reads what it reads in some
  sequential order.
* `OriginalTraceIsBad`: the automaton and `synth_locks` interpret the locks found
  so far by different code. If they disagreed, the counterexample would be
  impossible or sequential for the solvers; the code looks for this under `SANITY`.
  They would also be if `check_trace` took a harmless candidate for a counterexample,
  because of its bound or of a filter left over from an earlier check.
* `VerdictIsRight`: the same seen from the test. A candidate that the algorithm could not decide is
  decided by `check_trace` (its `assert (!res.bound_hit)`), because a sequential execution equivalent to
  it has no symbols but its own and can put off no symbol by more than its length.
* `GivesUpBeyondBound`: "Found no counter-example up to maximum bound" is true. The option
  `-bound=0` is excepted: with it the test tries nothing and gives up on every program.
* `SequentialKept`, `ExcludedWithoutWaits`: locks remove no execution without
  preemption, but the counterexample they were made for, unless a thread waits in
  it (section 4).
* `RemovalLosesNothing`, `LocksAreUsable`: what `remove_duplicates` drops is implied by
  what it keeps, and what `remove_preemption` keeps has two sides.
* `HeldAsPlanned`: at every instruction, whatever way it was reached, a thread holds exactly the
  locks for which the solver's `inl` is true; no lock is taken twice or released by one who does
  not hold it. `ReleasedAtEnd` follows only with the constraint on functions.
* `NoCircularWait`: while a thread waits for a placed lock, a holder of some lock can go on, and is
  not in a wait of the program either.
* `NothingForbidden`: no thread completes two neighbours of a list after another thread
  executed a symbol of another list in between. It is stated for ways that close no loop
  (`placement_gap`, section 4), and along the states that `blow_up_trace` restores: of several
  ways through removed states `minimise` remembers one.
* `InstructionsKept`: source and graphs are compared as automata, with calls as a stack in the source.
  It is stated for sources that the visitors understand (`Understood`).
* `GraphsAreUsable`: what the thread automaton, `place_locks` and the proofs take for granted of a graph.
* `CallsReturn`: `return_state` is a state that every way from the call to the end comes through,
  unless a statement goes on after a call (`call_return`, section 4).
* `NoLockInsideStatement`: of two neighbouring states that belong to one statement, calls and returns
  included, the first has no place for a lock behind it and the second none in front, since both would
  be printed outside the statement. It is stated for statements in which nothing comes before a
  call (section 4).

A bad trace also orders waits, notifies and resets (`wait_notify_order`), so an
order that is equivalent to a sequential one up to these may be forbidden as well.
None of the properties denies it: locks may be larger than necessary.

Fairness. `Returns` assumes `WF_vars(Next)` of `process_trace`: the loops run without
blocking; that they end is the property. `Ends` in `Executions` assumes `WF_vars(Next)`: whoever explores an
automaton follows an execution until it cannot be extended; no fairness between
threads is assumed. `Ends` in `DeadlockCheck` assumes the same of the action,
which contains no blocking call.

The order in which successors join the queue in `DeadlockAlgo` is fixed but
arbitrary (`SetToSeq`), in the code it is the order of `next_symbols`; no property
depends on it.

## 4. Where code and documentation disagree

Found by a run:

1. `deadlock_exit`. For the deadlock check every exit state is split into one that
   goes on and one where the thread has ended; but only states reached by a step
   are. In `while (nondet) { x = 1; notify(c); } || wait(c)` the first thread can
   end at once, the second then waits for ever, and this is not reported.
2. `synth_cycle`. Three threads `x=..;y=..`, `y=..;z=..`, `z=..;x=..` have a bad order
   that is a cycle of three atoms between three pairs of threads. `find_lock` wants
   two atoms between the same two threads, so no lock is found, and `synth_loop`
   prints "Found no more locks." and returns true: `run` goes on as after a
   success, and the program is not safe. The same happens with two threads if the
   lists of a lock lose one side at a preemption point
   (`notify; x=..; reset` beside `wait; ..=x; x=..`).
3. `placement_gap`. In `while (..) { x=..; y=..; }` with a lock over `y, x`, the
   way round the loop, the locations of both are inside the lock, but it may be
   released behind `y` and taken again in front of `x`: a lock is
   compared only with the predecessors that close no loop (`place_locks.cpp:269`), and the
   other constraints are satisfied. Another thread can come in between. With all
   predecessors in `Visited` the run passes.
4. `call_return`. In `x = f();` the state after the call and the write of `x` belong to
   one statement; `add_successor` (`statement_visitor.cpp:242`) clears the place of the first, `minimise`
   and `compact` drop it, and `return_state` of the call keeps its old number (`abstract_cfg.cpp:301`).
   `place_locks.cpp:261` then takes another location for it, or reads behind the end of its vector.

Seen in the code while modelling it, and part of the model:

* In `f(y);` the read of `y` and the call belong to one statement, but the state before the call has no place
  behind it (`statement_visitor.cpp:192`), so `add_successor` (line 242) finds different places and clears neither: the
  read keeps the place behind the statement and the call the one in front, and a lock between the two is
  printed behind both or in front of both. The same in `f() + f();`. The comments there (lines 239 and 243) speak
  of states that "are part of the same statement". Without `CallsBegin` in it,
  `NoLockInsideStatement` is violated by this.
* `README.md` says that at a lock or wait the scheduler switches iff
  it is not available. With the default `condyield_is_always_yield = true`
  (`options.h:39`) a running thread is descheduled at every lock and wait
  (`concurrent_automaton.cpp:162`).
* The same paragraph lists the situations in which the
  preemption-free version may switch. `int_successors` also switches whenever
  the position reached is final (line 103), and a position from which the exit
  is one of several untagged branches is final: the loop of
  `tests/cases/test_deadlock.c` loses the processor after each round.
* In `read x; write x; notify(c)` beside `wait_not(c); read x; write x` a lock is cut at
  the `wait_not`, where a thread must be able to lose the processor. What is left does
  not exclude the counterexample, which is found again in the next round, and the
  loop need not end.
* Assumes are no preemption points unless `assumes_allow_switch` is set, so a lock may be
  held at an assume.
* Of several variables on the left of an assignment only the last is joined to the
  graph, `x++` and `x += 1` only read, and code before a call that never returns is lost
  (`statement_visitor.cpp:63,197`).
* A known name is refused if its store is full (`identifier_store.cpp:29`).

## 5. What is proved

For every set of threads, every program and every set of synthesised locks, under
named assumptions about the constants:

* `SymbolsAssumption`, `ConcurrentAutomatonAssumption`: types, and that there are finitely
  many threads (`max_threads` of `types.h`). No bound on them, on the graphs or on the locks.
* `WellLockedPrograms`, for `LocksExclude` only: the programs use locks in pairs.
* `DeadlockCheckAssumption`: the same types for both automata, and no forbidden traces, as
  `deadlock_check::run` adds none.
* `ProcessTraceAssumption`: the types of the arguments of `process_trace`.
* `InclusionTestAssumption`: finitely many threads, graphs as in `ThreadAutomaton`, and `max_bound` a
  number, with no limit on any of them. Nothing states that the programs have no loops: of a program with loops `Executions`
  has those of at most `LongestRun` steps, and the theorems are about these.
* `PlacementAssumption`: types, and graphs as `GraphsAreUsable` of `front_end` checks them (`UsableGraph`).

| Theorem | Module | Argument |
|---|---|---|
| `TypeCorrect` | `ExecutionsProofs` | `TypeOK` is inductive: `SymbolsLeadToPositions` (a symbol leads from a position to a position) carries the step |
| `NoScheduler`, `NothingIsLost` | `ExecutionsProofs` | `FreeOfScheduler` (no thread is ever current) is inductive with `TypeOK` and implies both |
| `SchedulerIsNotSpurious` | `ExecutionsProofs` | `RunsOn` (a current thread has not ended and is at no exit) is inductive with `TypeOK`; then a thread that is current has a symbol, and is executed or descheduled |
| `ObservationsAreConsistent` | `ExecutionsProofs` | `OneObservation` with `TypeOK`; `ObservationStep` is the step of the monitor |
| `DisjunctionsHold` | `ExecutionsProofs` | `NoDisjunctionRefuted` with `TypeOK`; a pattern is never empty (`LockMasks`) |
| `Refinement` | `ExecutionsProofs` | each action maps to a step of `Preemptive` or a stutter (`StepRefines`) |
| `SwitchesAreAllowed` | `ExecutionsProofs` | `SwitchStep`, from `TypeOK` |
| `LocksExclude` | `ExecutionsProofs` | `MutualExclusion` is inductive together with `TypeOK` and the discipline of the graphs |
| `MonitorIsExact`, `BitsExact`, `RejectsExactly`, `SectionsExclude` | `ForbiddenExecutionsProofs` | `MonitorInv`, below |
| `SearchCoversRest`, `SearchMissesNone`, `ShortestCounterexample` | `DeadlockAlgoProofs` | `SearchInv`, below |
| `BothCoverRest`, `NeitherMissesOne`, `BothReportShortest`, `NoDeadlockInvented` | `DeadlockCheckProofs` | `CheckInv`, below |
| `ProcessTraceTypes`, `NeverForbidsSequential`, `ForbidsAllOthers` | `ReorderingsProofs` | conjuncts of `IInv`, below |
| `RemovesEquivalentOrders` | `ReorderingsProofs` | from `IInv` by `FindOrderMeansSameConflicts` |
| `LockEnforcesDisjunction` | `ReorderingsProofs` | arithmetic on the ends of the sections; the step from bad orders to locks |
| `GivesUpOnlyBeyondBound`, `TestIsRight` | `SynthLoopProofs` | from `TestInv`, below |
| `LocksHeldAsPlanned`, `PrintedLocksDoNotDeadlock`, `LocksReleasedAtEnd` | `LockPlacementProofs` | from `PInv`, below |
| `ForbiddenIsNotExecuted` | `LockPlacementProofs` | `SectionInv` with `PInv`, below |

`ConcurrentAutomatonProofs` holds the lemmas about the functions of the automaton that three of
these modules cite: the types of what they return, what `apply_symbol` changes, and
what `add_forbidden_traces` makes of a set of locks.

**The automaton.** A position without a type has no symbols that
could be reasoned about, so `TypeOK` is part of every invariant. `NothingLost`
alone is not inductive, as it does not say that no thread is current; nor is `NoSpuriousBlocking`, which
does not say where a current thread can be.

**The monitor.** `BitsAreExact` alone is not inductive: the next bit depends on the pairs under
observation. `PendingExact` says what these are in terms of the execution: a conflict is
observed exactly if its thread has executed the first of its symbols and nothing since, and it
is marked exactly if a conflicting symbol came after it. `WatchStep` and `InterruptedStep` say
how both sides of this equivalence change with one symbol more, `ConflictsOfLock` that the conflicts made of a lock are
the neighbours of its lists, and `TickedExactly` puts them together. The history is a
spectator: `HistoryWatches` shows that each step is one of `Executions`.
`RejectsExactly` assumes `Concurrent`; without it the scheduler too can leave a symbol without a successor.
`SectionsExclude` follows from the absence of interruptions alone: if sections overlap, then a symbol of one lies
between two neighbours of the other (`NeighboursAround`).

**The searches.** `SearchInv` says that the search has visited or queued all successors of what it
has visited (`CoversRest`), that every entry of the queue is reached by its own counterexample (`Reached`),
that the queue is sorted by depth and spans at most two depths (`ByDepth`), and that every state at most as deep as the head
is visited or queued (`CoversDepths`). Depth is that of `Within[n]`, the states reached in n steps,
a function of n. From the last two follows that no shorter counterexample exists. Inductions, over the length of an execution or the depth, are stated as
sets of numbers that contain 0 and every successor (`NatSetInduction`).

**Both searches.** `CheckInv` is the invariant of the search that is under way, and, once the first has reported a
deadlock, that the preemption-free automaton has one. `NoDeadlockInvented` maps an execution of the
preemption-free automaton to one of the preemptive: `Released` forgets which thread is running,
each step becomes a step or a stutter (`ReleasedFollows`), and a deadlock of threads that give way stays one (`SameDeadlock`).

**Orders of a counterexample.** `IInv` of `ReorderingsProofs` is `TypeOK`, the definition of the solvers in terms
of the arguments, that `seq_traces` are constraints of models of `slv_good`
(`SequentialConstraints`), and the two properties. The step `FindBad` needs that
the core is unsatisfiable: the solver could answer "satisfiable" only if a
sequential order in the weak sense, without conditionals, satisfied all of
`find_order(m, TRUE)`. Such an order agrees with `m` on conflicts and on waits,
notifies and resets; then it also satisfies the conditionals
(`ConditionalsCarryOver`) and is a sequential order equivalent to `m`, which the
first loop has excluded. So the code's message "SANITY: Constraints not powerful
enough to force bad trace" is never printed.
`FindOrderMeansSameConflicts` says that the first conflict of a symbol with each
thread determines the order of all conflicts: later symbols of the thread come
later anyway. It uses a least element (`WFMin`), not induction.

**The inclusion test.** `TestInv` says for each place of `test_inclusion` what it knows there: in front of a
search that the bound before was too small for some execution (`LowerBoundsFail`), at the check that the algorithm had no answer for
the candidate, at the end what was answered; that the filter is empty between checks; and that the bound
is the first again whenever a new round begins, as the locks of the round have changed the automaton and with it
all that was known. `GivesUpBeyondBound` and `VerdictIsRight` alone are not inductive. The
core is `CheckDecides`: `check_trace` finds its candidate included exactly if some execution without
preemption is equivalent to it. A filter of the symbols of the candidate keeps every equivalent execution, as these have the same
symbols, and no symbol is put off by more than the candidate is long (`NothingPutOffLonger`, by counting:
`CountIsBounded`); both need that executions are sequences (`WordsAreSequences`, by induction on the number of steps) and that leaving out epsilons
makes none longer (`VisibleIsShorter`). The argument is for the bound
the code passes, the length of the candidate; the bound of line 54, half of that, is computed there and not used, and for it the argument would not do.
`Executions` changes only with the forbidden traces (`SameExecutions`).

**Placed locks.** The theorems of `LockPlacementProofs` hold for any number of threads and locks, any
problem and any solution of the hard constraints, which is more than the solver
returns. `PInv` says of a running program that
each lock which is ahead of a thread in what is printed for its location changes the thread from not
holding it to holding it or back, and that after all of them the locks held are
those of `inl`. `HeldAsPlanned` alone is not inductive: it does not say
what the locks still to come at a place will do. In `Follow`, a lock behind a location and
one in front of the next meet; `cons_basic` and the join of the forward predecessors
say that they agree, and a way round a loop is covered because
every location has a forward predecessor. `NoCircularWait` follows by taking the lock
with the lowest number that is held: by `cons_lockorder` and the order of printing a thread
that waits for a lock holds only locks with higher numbers (`WaiterHoldsHigher`), so the holder does not
wait for a lock, and `cons_preemption` keeps it out of waits.

`NothingForbidden` needs an invariant about the time between two instructions. `SectionInv` says that a thread
which has closed no loop is at one of the states it went through, or in front of a forward successor
of one (`CameFrom`), and that if another thread has meanwhile executed a
location inside a lock that covers all of them, this lock is no longer planned where the thread
is (`GaveUp`). The core is `HeldSince`: a lock that covers the states behind the thread and is planned
where it is cannot be taken there anew, since `cons_lockorder` refuses a lock next to a location
that is inside it; so it has been held all the time, and nobody else was inside. On the way round a loop
this constraint does not look at the predecessor, which is `placement_gap` of section 4.
`blow_up_trace` then says that a list covers the removed states between its neighbours, and
`locked_together` that one lock covers all lists of an alternative.

Only model-checked:

* `Ends` and `Returns`: liveness.
* Of `SynthLoop`, what is about the locks and the monitor together: `OriginalTraceIsBad`, `SequentialKept`,
  `ExcludedWithoutWaits`, `RemovalLosesNothing`, `LocksAreUsable`. They rest on `LockInference`, which takes traces apart with `SelectSeq`
  and the folds of the community modules; nothing can be proved about these without induction over sequences.
* All of `CfgBuilder`, `Minimise`, `Instructions` and `FrontEnd`: they are defined
  with `RECURSIVE` operators, and what these compute is a matter of induction over data.

## 6. What is not modelled, and the plan

Left out of what is modelled: within `synth_loop` statistics and output; the
`SANITY` checks, which are properties here; `merge_locks`, which is not called.
The search keeps a counterexample for each item of its queue; that these share their prefixes in
memory (`cex_chain`) is left out.
The second phase of `deadlock_algo::run`, a search for livelocks that the comment of
the class mentions, is commented out in the code and not modelled.

Of the front end, the refusals of wrong types (`parse_error`) and the computation of source
positions are left out, as are expressions with `&&`, `||` or `?:`, whose parts clang puts into several blocks; of the printer, text, braces and declarations; of `Program`, `clear_threads`
and the copy constructor, which nothing calls. Recursive functions, on which
the visitor does not end, and `goto` are no programs of the runs: for the latter `minimise` could mark all
edges into a state as back edges, and `compact` would drop it.

What is left of the plan:

1. An abstract specification of the synthesis (a set of executions that shrinks
   and keeps the sequential ones) that `SynthLoop` implements for
   programs without waits.
2. Proofs about the operators of `LockInference`: that `split_list` keeps the sections of a lock, that
   what `remove_duplicates` drops is implied by what it keeps, and that every lock has two sides.

Not modelled: the command line, performance tests, printing of graphs and results, and the
libraries Limi, Z3 and clang, which are not part of the repository.
