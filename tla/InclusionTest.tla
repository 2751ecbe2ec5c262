--------------------------- MODULE InclusionTest ---------------------------
(***************************************************************************)
(* test_inclusion (actions/inclusion_test.cpp): is every preemptive        *)
(* execution equivalent to one without preemption?                         *)
(*                                                                         *)
(* The antichain algorithm of Limi is external.  Run with a bound it       *)
(* reports that all executions are equivalent to a sequential one that     *)
(* puts off no symbol behind more of a thread than that; or a              *)
(* counterexample; or an execution that it has no answer for because of    *)
(* the bound, which is then checked alone.  The programs have no loops, so *)
(* their executions are finitely many.                                     *)
(***************************************************************************)
EXTENDS Reorderings, ForbiddenTraces

CONSTANTS
  Programs,   \* the programs to synthesise for: [Thread -> graph], without loops
  max_bound   \* options.h

VARIABLES
  pc,
  compressed_sequential,         \* the executions without preemption
  threads, conflicts, patterns,  \* members of the automaton `concurrent'
  bound,
  successor_filter,              \* of compressed_sequential: no filter if empty
  counter_example                \* of the last run of the algorithm

concurrent == <<threads, conflicts, patterns>>
testing == <<bound, successor_filter, counter_example>>

Sequential == INSTANCE ConcurrentAutomaton WITH
  Concurrent <- FALSE, DeadlockAutomaton <- FALSE, CondyieldIsAlwaysYield <- TRUE,
  Configurations <- {}, conflicts <- {}, locks <- {}

Preemptive == INSTANCE ConcurrentAutomaton WITH
  Concurrent <- TRUE, DeadlockAutomaton <- FALSE, CondyieldIsAlwaysYield <- TRUE,
  Configurations <- {}, locks <- patterns

ASSUME InclusionTestAssumption ==
  /\ IsFiniteSet(Thread)
  /\ Programs \subseteq [Thread -> Sequential!abstract_cfg]
  /\ max_bound \in Nat

----------------------------------------------------------------------------
(* compressed_automaton: the states of an automaton and the steps between them, *)
(* computed once.  A step is <<word, state>>: descheduling a thread is a step   *)
(* with the symbol that it did not take, which is no part of an execution.      *)

\* Bounds the steps of an execution: without loops a thread is once in front of a state
\* and once behind it, and may be descheduled there before it goes on.
LongestRun == 4 * Cardinality(UNION {{t} \X DOMAIN threads[t] : t \in Thread})

\* One level of the breadth-first search.
Explore(Steps(_), seen) ==
  LET more == UNION {{step[2] : step \in Steps(st)} : st \in seen.frontier} \ seen.states
  IN  [states |-> seen.states \cup more, frontier |-> more]

Automaton(initial, Steps(_), Final(_)) ==
  LET level[n \in Nat] == IF n = 0 THEN [states |-> {initial}, frontier |-> {initial}]
                          ELSE Explore(Steps, level[n - 1])
      states == level[LongestRun].states
  IN  [initial |-> initial,
       final |-> {st \in states : Final(st)},
       transitions |-> UNION {{<<st, step[1], step[2]>> : step \in Steps(st)} : st \in states}]

SequentialSteps(st) ==
  LET symbols == Sequential!int_next_symbols(st)
  IN  {<<<<s>>, Sequential!Executed(st, s)>> : s \in {s \in symbols : Sequential!CanExecute(st, s)}}
        \cup {<<<<>>, Sequential!Descheduled(st, s)>> :
                 s \in {s \in symbols : Sequential!CanDeschedule(st, s)}}

from_concurrent_automaton ==
  Automaton(Sequential!int_initial_state, SequentialSteps, Sequential!int_is_final_state)

\* A run is <<word, state>>: what an execution has taken so far, and where it is.
Extend(ca, runs) ==
  [open |-> UNION {{<<r[1] \o tr[2], tr[3]>> : tr \in {tr \in ca.transitions : tr[1] = r[2]}} :
                     r \in runs.open},
   closed |-> runs.closed \cup runs.open]

WordsOf(ca) ==
  LET runs[n \in Nat] == IF n = 0 THEN [open |-> {<<<<>>, ca.initial>>}, closed |-> {}]
                         ELSE Extend(ca, runs[n - 1])
  IN  {r[1] : r \in {r \in runs[LongestRun + 1].closed : r[2] \in ca.final}}

\* An execution without its epsilons.
VisibleOf(w) ==
  LET visible[n \in Nat] ==
        IF n = 0 THEN <<>>
        ELSE visible[n - 1] \o (IF is_epsilon(w[n]) THEN <<>> ELSE <<w[n]>>)
  IN  visible[Len(w)]

\* The executions left by the filter, which lets epsilons through.
Filtered(filter) ==
  {v \in compressed_sequential : filter = {} \/ \A i \in DOMAIN v : v[i] \in filter}

PreemptiveSteps(st) ==
  {<<<<s>>, Preemptive!Executed(st, s)>> :
     s \in {s \in Preemptive!int_next_symbols(st) : Preemptive!CanExecute(st, s)}}

concurrent_automaton ==
  Automaton(Preemptive!int_initial_state, PreemptiveSteps, Preemptive!int_is_final_state)

Executions == UNION {WordsOf(ca) : ca \in {concurrent_automaton}}

----------------------------------------------------------------------------
(* Equivalence, and the algorithm that decides it *)

CountBefore(u, i, t) == Cardinality({j \in 1..(i - 1) : u[j].thread = t})

\* Position p of v is position i of w: the same symbol, after as many of its thread.
SamePlace(v, p, w, i) ==
  LET t == w[i].thread
  IN  v[p] = w[i] /\ CountBefore(v, p, t) = CountBefore(w, i, t)

PlaceIn(v, w, i) == CHOOSE p \in DOMAIN v : SamePlace(v, p, w, i)

\* v is w up to swapping adjacent independent symbols.
Equivalent(v, w) ==
  /\ \A i \in DOMAIN w : \E p \in DOMAIN v : SamePlace(v, p, w, i)
  /\ \A p \in DOMAIN v : \E i \in DOMAIN w : SamePlace(v, p, w, i)
  /\ \A k \in DOMAIN w : \A i \in 1..(k - 1) :
       w[i].thread # w[k].thread /\ ~independent(w[i], w[k]) => PlaceIn(v, w, i) < PlaceIn(v, w, k)

EquivalentToOne(words, w) == \E v \in words : Equivalent(v, VisibleOf(w))

Counterexamples == {w \in Executions : ~EquivalentToOne(compressed_sequential, w)}

\* How many symbols of thread t w takes before its i-th that v takes after it.
PutOff(v, w, i, t) == CountBefore(w, i, t) - CountBefore(v, PlaceIn(v, w, i), t)

\* What the algorithm of Limi can show with the bound k.
Answered(words, w, k) ==
  \E v \in words : Equivalent(v, w) /\ \A i \in DOMAIN w, t \in Thread : PutOff(v, w, i, t) <= k

Unanswered(words, k) == {w \in Executions : ~Answered(words, VisibleOf(w), k)}

----------------------------------------------------------------------------
(* check_trace and test_inclusion *)

\* Fault: the check of one execution uses the bound of the search.
SearchBound(w) == bound

\* Its bound is the length of the execution with its epsilons.
check_bound(w) == Len(w)

\* Fault: the filter stays.
filter_kept(filter) == filter

clear(filter) == {}

CheckIncluded(w, filter) == Answered(Filtered(filter), VisibleOf(w), check_bound(w))

\* Fault: the last bound is not tried.
tried_too_few == bound < max_bound

tried == bound <= max_bound

TestInit ==
  /\ bound = 1
  /\ successor_filter = {}
  /\ counter_example = <<>>

Included(unanswered) ==
  /\ unanswered = {}
  /\ pc' = "success" /\ UNCHANGED counter_example

\* The counterexample is certain.
Found(words, unanswered) ==
  \E w \in unanswered : ~EquivalentToOne(words, w) /\ pc' = "answer" /\ counter_example' = w

\* The bound was hit.
Candidate(unanswered) ==
  \E w \in unanswered : pc' = "check" /\ counter_example' = w

run ==
  /\ pc = "inclusion" /\ tried
  /\ LET words == Filtered(successor_filter)
         unanswered == Unanswered(words, bound)
     IN  Included(unanswered) \/ Found(words, unanswered) \/ Candidate(unanswered)
  /\ UNCHANGED <<bound, successor_filter>>

check_trace ==
  /\ pc = "check"
  /\ LET filter == successor_filter \cup ToSet(VisibleOf(counter_example))
     IN  /\ successor_filter' = clear(filter)
         /\ IF CheckIncluded(counter_example, filter)
              THEN pc' = "inclusion" /\ bound' = bound + 1 /\ counter_example' = <<>>
              ELSE pc' = "answer" /\ UNCHANGED <<bound, counter_example>>

\* "Found no counter-example up to maximum bound; synthesis cannot proceed."
GiveUp ==
  /\ pc = "inclusion" /\ ~tried
  /\ pc' = "bound"
  /\ UNCHANGED testing

test_inclusion == run \/ check_trace \/ GiveUp

\* filter_result
filter_result(w) == SelectSeq(w, LAMBDA s : s.tag_branch = NoBranch)

----------------------------------------------------------------------------
(* Properties *)

\* The test gives up only on a program with an execution that needs more reorderings than
\* the maximum (with the option -bound=0 it tries nothing).  README.md: it "could take
\* long before the algorithm gives up".
GivesUpBeyondBound ==
  pc = "bound" /\ max_bound > 0 => Unanswered(compressed_sequential, max_bound) # {}

\* The test is right when it answers: with success there is no counterexample, and what it
\* answers is one although the algorithm has not decided it: check_trace, whose bound is
\* the length of the candidate and whose automaton has no symbols but those of the
\* candidate, always decides ("assert (!res.bound_hit)").
VerdictIsRight ==
  /\ pc = "success" => Counterexamples = {}
  /\ pc = "answer" => counter_example \in Counterexamples
=============================================================================
