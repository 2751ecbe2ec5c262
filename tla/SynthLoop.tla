----------------------------- MODULE SynthLoop -----------------------------
(***************************************************************************)
(* The synthesis: synth_loop (actions/synthesis2.cpp), with process_trace  *)
(* inside.                                                                 *)
(*                                                                         *)
(* A round runs test_inclusion for a preemptive execution that no          *)
(* preemption-free one is equivalent to, asks for the bad orders of its    *)
(* symbols, makes locks of them, and forbids in the preemptive automaton   *)
(* what the locks exclude.                                                 *)
(***************************************************************************)
EXTENDS InclusionTest

CONSTANT
  MaxRounds   \* bound on the number of rounds

VARIABLES
  lock_symbols,           \* the locks found so far
  trace,                  \* the counterexample of this round
  slv_good, slv_good_weak, slv_bad, seq_traces, bad_traces,  \* as in ProcessTrace
  round                   \* number of counterexamples so far

solvers == <<slv_good, slv_good_weak, slv_bad>>
found == <<seq_traces, bad_traces>>
vars == <<pc, compressed_sequential, concurrent, testing, lock_symbols, trace, solvers, found, round>>

PT == INSTANCE ProcessTrace WITH Inputs <- {}, synthesised_locks <- lock_symbols

Init ==
  /\ threads \in Programs
  /\ conflicts = {}
  /\ patterns = {}
  /\ \E ca \in {from_concurrent_automaton} :
       compressed_sequential = {VisibleOf(w) : w \in WordsOf(ca)}
  /\ pc = "inclusion"
  /\ TestInit
  /\ lock_symbols = <<>>
  /\ trace = <<>>
  /\ slv_good = {} /\ slv_good_weak = {} /\ slv_bad = {}
  /\ seq_traces = {} /\ bad_traces = {}
  /\ round = 0

TestInclusion ==
  /\ test_inclusion
  /\ UNCHANGED <<compressed_sequential, concurrent, lock_symbols, trace, solvers, found, round>>

----------------------------------------------------------------------------
(* process_trace *)

PrepareTrace ==
  /\ pc = "answer" /\ round < MaxRounds
  /\ trace' = filter_result(counter_example)
  /\ slv_good' = PT!good(trace', lock_symbols)
  /\ slv_good_weak' = PT!good_weak(trace', lock_symbols)
  /\ slv_bad' = PT!bad(trace', lock_symbols)
  /\ pc' = "sequential"
  /\ seq_traces' = {} /\ bad_traces' = {}
  /\ round' = round + 1
  /\ bound' = 1 /\ counter_example' = <<>>   \* local to test_inclusion
  /\ UNCHANGED <<successor_filter, compressed_sequential, concurrent, lock_symbols>>

Within(step) ==
  step /\ UNCHANGED <<compressed_sequential, concurrent, testing, lock_symbols, round>>

FindSequential == Within(PT!FindSequential)
SequentialDone == Within(PT!SequentialDone)
FindBad == Within(PT!FindBad)
BadDone == Within(PT!BadDone)

----------------------------------------------------------------------------
(* synth_loop, lines 161 to 177 *)

\* add_forbidden_traces
forbid(ls) ==
  /\ conflicts' = conflict_infos(ls)
  /\ patterns' = lock_masks(ls)

AddLocks ==
  /\ pc = "return"
  /\ NewLocks(trace, bad_traces) # <<>>
  /\ lock_symbols' = lock_symbols \o NewLocks(trace, bad_traces)
  /\ forbid(lock_symbols')
  /\ pc' = "inclusion"
  /\ UNCHANGED <<compressed_sequential, threads, testing, trace, solvers, found, round>>

NoMoreLocks ==
  /\ pc = "return"
  /\ NewLocks(trace, bad_traces) = <<>>
  /\ pc' = "no more locks"
  /\ UNCHANGED <<compressed_sequential, concurrent, testing, lock_symbols, trace, solvers, found, round>>

Next ==
  \/ TestInclusion
  \/ PrepareTrace \/ FindSequential \/ SequentialDone \/ FindBad \/ BadDone
  \/ AddLocks \/ NoMoreLocks

Spec == Init /\ [][Next]_vars

----------------------------------------------------------------------------
(* Properties *)

OriginalOrder == [i \in DOMAIN trace |-> i]

\* The counterexample is itself one of the orders that process_trace must explain,
\* and no sequential order is equivalent to it, whatever locks there are already:
\* otherwise the code prints "SANITY: Original trace not valid concurrent trace" or
\* "SANITY: Original trace is equivalent to valid sequential trace".
OriginalTraceIsBad ==
  pc = "sequential" =>
    /\ OriginalOrder \in slv_bad
    /\ \A m \in slv_good : ~Holds(m, find_order(trace, OriginalOrder, FALSE))

\* The locks never remove an execution without preemption.
SequentialKept ==
  pc = "inclusion" /\ bound = 1 => compressed_sequential \subseteq {VisibleOf(w) : w \in Executions}

Repeatable == trace \in {filter_result(w) : w \in Executions}

\* Progress: the counterexample of a round is not an execution of the automaton that its
\* locks restrict, so the next round finds another one ("Found constraints to eliminate bad
\* traces"), unless a thread can lose the processor at a wait of it: locks are cut there.
ExcludedWithoutWaits ==
  pc = "inclusion" /\ bound = 1 /\ round > 0 /\ Repeatable =>
    \E i \in DOMAIN trace : trace[i].operation \in WaitOps /\ MayDeschedule(trace[i])

AllLocks(tr, dnf) ==
  remove_preemption(locks_to_symbols(tr, generate_sync(tr, cnf_of(dnf))))

\* The locks that remove_duplicates drops are implied by those it keeps.
RemovalLosesNothing ==
  pc = "return" =>
    \A m \in Orders(trace) :
      synth_locks(trace, m, NewLocks(trace, bad_traces))
        => synth_locks(trace, m, AllLocks(trace, bad_traces))

\* A lock protects code of two threads at least, holds over more than one symbol
\* somewhere, and is never held across a preemption point.
LocksAreUsable ==
  \A d \in DOMAIN lock_symbols : \A k \in DOMAIN lock_symbols[d] :
    LET lock == lock_symbols[d][k] IN
      /\ \E a, b \in DOMAIN lock : lock[a][1].thread # lock[b][1].thread
      /\ \E a \in DOMAIN lock : Len(lock[a]) > 1
      /\ \A a \in DOMAIN lock : \A i \in DOMAIN lock[a] : ~is_preemption_point(lock[a][i])

\* When synth_loop returns true every preemptive execution is equivalent to one
\* without preemption.  README.md: "Liss then adds enough synchronisation to make the
\* program safe for a standard preemptive scheduler."
SafeWhenDone == pc \in {"success", "no more locks"} => Counterexamples = {}
=============================================================================
