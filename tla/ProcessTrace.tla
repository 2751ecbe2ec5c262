---------------------------- MODULE ProcessTrace ----------------------------
(***************************************************************************)
(* reorderings::process_trace: which orders of the symbols of a            *)
(* counterexample are bad.                                                 *)
(*                                                                         *)
(* A solver is the set of models that satisfy its assertions; which of     *)
(* them check() reports is its choice.  The first loop describes every     *)
(* sequential order by the order of its conflicting symbols, the second    *)
(* every other order by a few atoms that no sequential order satisfies.    *)
(***************************************************************************)
EXTENDS Reorderings

CONSTANT Inputs  \* the arguments of process_trace

ASSUME ProcessTraceAssumption ==
  \A input \in Inputs :
    /\ input.trace \in Seq(symbol)
    /\ input.synthesised_locks \in Seq(Seq(Seq(Seq(symbol))))

VARIABLES
  pc,             \* the loop process_trace is in, "return" after both
  trace, synthesised_locks,  \* its arguments
  slv_good,       \* sequential orders
  slv_good_weak,  \* the same without the conditionals
  slv_bad,        \* all orders; in the second loop those that are not sequential
  seq_traces,     \* constraints of the sequential orders found
  bad_traces      \* constraints of the bad orders found

arguments == <<trace, synthesised_locks>>
solvers == <<slv_good, slv_good_weak, slv_bad>>
vars == <<pc, arguments, solvers, seq_traces, bad_traces>>

possible(tr, ls) == {m \in Orders(tr) : locks_exclude(tr, m) /\ synth_locks(tr, m, ls)}
good_weak(tr, ls) == {m \in possible(tr, ls) : sequential(tr, m)}
bad(tr, ls) == {m \in possible(tr, ls) : conditionals_hold(tr, m)}

\* Fault: the sequential orders are not asked to be sequential.
GoodNotSequential(tr, ls) == bad(tr, ls)

good(tr, ls) == {m \in good_weak(tr, ls) : conditionals_hold(tr, m)}

Init ==
  /\ \E input \in Inputs :
       /\ trace = input.trace
       /\ synthesised_locks = input.synthesised_locks
       /\ slv_good = good(input.trace, input.synthesised_locks)
       /\ slv_good_weak = good_weak(input.trace, input.synthesised_locks)
       /\ slv_bad = bad(input.trace, input.synthesised_locks)
  /\ pc = "sequential"
  /\ seq_traces = {}
  /\ bad_traces = {}

\* The models left once the constraints found so far have been excluded.
Unexplained(models, constraints) == {m \in models : ~HoldsOne(m, constraints)}

\* Accumulate sequential traces.
FindSequential ==
  /\ pc = "sequential"
  /\ \E m \in Unexplained(slv_good, seq_traces) :
       seq_traces' = seq_traces \cup {find_order(trace, m, FALSE)}
  /\ UNCHANGED <<pc, arguments, solvers, bad_traces>>

SequentialDone ==
  /\ pc = "sequential"
  /\ Unexplained(slv_good, seq_traces) = {}
  /\ slv_bad' = Unexplained(slv_bad, seq_traces)
  /\ pc' = "bad"
  /\ UNCHANGED <<arguments, slv_good, slv_good_weak, seq_traces, bad_traces>>

\* Gather traces that are not possible sequentially, and generalise them.
FindBad ==
  /\ pc = "bad"
  /\ \E m \in Unexplained(slv_bad, bad_traces) :
       LET order == find_order(trace, m, TRUE) IN
         \E core \in min_unsat(order, violated_atoms(order, slv_good_weak)) :
           bad_traces' = bad_traces \cup {core}
  /\ UNCHANGED <<pc, arguments, solvers, seq_traces>>

\* Fault: the solver still excludes the bad orders found (slv_bad.pop is missing).
BadDoneWithoutPop ==
  /\ pc = "bad"
  /\ Unexplained(slv_bad, bad_traces) = {}
  /\ bad_traces' \in min_unsat(bad_traces,
        violated_exclusions(bad_traces, Unexplained(slv_bad, bad_traces)))
  /\ pc' = "return"
  /\ UNCHANGED <<arguments, solvers, seq_traces>>

\* Filter out duplicates.
BadDone ==
  /\ pc = "bad"
  /\ Unexplained(slv_bad, bad_traces) = {}
  /\ bad_traces' \in min_unsat(bad_traces, violated_exclusions(bad_traces, slv_bad))
  /\ pc' = "return"
  /\ UNCHANGED <<arguments, solvers, seq_traces>>

Next == FindSequential \/ SequentialDone \/ FindBad \/ BadDone

Spec == Init /\ [][Next]_vars
FairSpec == Spec /\ WF_vars(Next)

----------------------------------------------------------------------------
(* Properties *)

\* What the constraints are made of.
TypeOK ==
  /\ pc \in {"sequential", "bad", "return"}
  /\ trace \in Seq(symbol)
  /\ slv_good \subseteq slv_good_weak
  /\ slv_good_weak \cup slv_bad \subseteq [DOMAIN trace -> DOMAIN trace]
  /\ seq_traces \cup bad_traces \subseteq SUBSET [before : DOMAIN trace, after : DOMAIN trace]

\* The constraints of bad orders exclude no sequential order, not even one that
\* the conditionals would forbid: the code prints "SANITY: Constraints not powerful
\* enough to force bad trace" if one does.
BadTracesAreNotSequential == \A m \in slv_good_weak : ~HoldsOne(m, bad_traces)

Conflicting(r, s) ==
  /\ r.variable = s.variable
  /\ {r.operation, s.operation} \subseteq {"read", "write"}
  /\ "write" \in {r.operation, s.operation}

\* Two orders execute conflicting symbols in the same order, so a thread reads the
\* same values in both.
SameConflicts(tr, m, n) ==
  \A i, j \in DOMAIN tr : Conflicting(tr[i], tr[j]) => (m[i] < m[j] <=> n[i] < n[j])

\* What the first loop takes away from the possible orders is exactly what is
\* equivalent to a sequential order, although a constraint names only the first
\* conflict of each symbol with each thread.
OnlySequentialRemoved ==
  pc # "sequential" =>
    slv_bad = {m \in bad(trace, synthesised_locks) : \A n \in slv_good : ~SameConflicts(trace, m, n)}

\* When process_trace returns, every order that is not sequential satisfies the
\* constraint of a bad trace.
BadTracesAreComplete == pc = "return" => \A m \in slv_bad : HoldsOne(m, bad_traces)

\* Both loops end: every model makes the solver exclude at least this model.
Returns == <>(pc = "return")
=============================================================================
