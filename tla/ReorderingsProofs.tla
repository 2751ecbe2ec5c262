------------------------- MODULE ReorderingsProofs -------------------------
(***************************************************************************)
(* Theorems about process_trace and the locks found from its result, for   *)
(* all counterexamples of any number of threads and all locks found        *)
(* before.                                                                 *)
(***************************************************************************)
EXTENDS ProcessTrace, TLAPS, WellFoundedInduction

----------------------------------------------------------------------------
(* Orders *)

\* A non-empty set of natural numbers has a least element.
LEMMA LeastElement ==
  ASSUME NEW S \in SUBSET Nat, S # {}
  PROVE  \E x \in S : \A y \in S : x <= y
<1>1. IsWellFoundedOn(OpToRel(<, Nat), Nat)
  BY NatLessThanWellFounded
<1>2. PICK x \in S : \A y \in S : ~(<<y, x>> \in OpToRel(<, Nat))
  BY <1>1, WFMin
<1>3. ASSUME NEW y \in S, y < x
      PROVE  FALSE
  <2>1. <<y, x>> \in Nat \X Nat /\ <<y, x>>[1] < <<y, x>>[2]
    BY <1>3
  <2>2. <<y, x>> \in OpToRel(<, Nat)
    BY <2>1, Zenon DEF OpToRel
  <2> QED
    BY <1>2, <2>2
<1> QED
  BY <1>3

\* What the formulas say of a model.
LEMMA OrderFacts ==
  ASSUME NEW tr \in Seq(symbol), NEW m \in Orders(tr)
  PROVE  /\ m \in [DOMAIN tr -> DOMAIN tr]
         /\ DOMAIN tr \subseteq Nat
         /\ \A i \in DOMAIN tr : m[i] \in Nat
         /\ thread_order(tr, m)
         /\ distinct(tr, m)
<1>1. m \in [DOMAIN tr -> DOMAIN tr] /\ thread_order(tr, m) /\ distinct(tr, m)
  BY DEF Orders
<1>2. DOMAIN tr = 1..Len(tr) /\ Len(tr) \in Nat
  OBVIOUS
<1> QED
  BY <1>1, <1>2

\* The access pairs are the conflicting symbols.
LEMMA AccessPairsAreConflicts ==
  ASSUME NEW tr \in Seq(symbol), NEW i \in DOMAIN tr, NEW j \in DOMAIN tr
  PROVE  Conflicting(tr[i], tr[j]) <=> <<i, j>> \in AccessPairs(tr)
  BY DEF Conflicting, AccessPairs, ConflictsWith

\* A model that satisfies what find_order says of m executes conflicting symbols in
\* the order of m: from the first conflict with a thread the rest of that thread
\* follows.
LEMMA OneDirection ==
  ASSUME NEW tr \in Seq(symbol), NEW m \in Orders(tr), NEW n \in Orders(tr),
         Holds(n, find_other_traces(tr, m)),
         NEW i \in DOMAIN tr, NEW j \in DOMAIN tr, Conflicting(tr[i], tr[j]), m[i] < m[j]
  PROVE  n[i] < n[j]
<1> DEFINE T == {k \in DOMAIN tr : <<i, k>> \in AccessPairs(tr) /\ m[i] < m[k]
                                     /\ tr[k].thread = tr[j].thread}
<1>1. /\ DOMAIN tr \subseteq Nat
      /\ \A k \in DOMAIN tr : m[k] \in Nat /\ n[k] \in Nat
      /\ thread_order(tr, m) /\ thread_order(tr, n) /\ distinct(tr, m)
  BY OrderFacts
<1>2. j \in T
  BY AccessPairsAreConflicts
<1>3. PICK k \in T : \A l \in T : m[k] <= m[l]
  <2> DEFINE places == {m[l] : l \in T}
  <2>1. places \in SUBSET Nat /\ places # {}
    BY <1>1, <1>2
  <2>2. PICK p \in places : \A q \in places : p <= q
    BY <2>1, LeastElement
  <2> QED
    BY <2>2
<1>4. atom(i, k) \in find_other_traces(tr, m)
  <2>1. atom(i, k) \in {a \in {atom(ij[1], ij[2]) : ij \in AccessPairs(tr)} : AtomHolds(m, a)}
    BY <1>3 DEF AtomHolds, atom
  <2>2. ASSUME NEW b \in {a \in {atom(ij[1], ij[2]) : ij \in AccessPairs(tr)} : AtomHolds(m, a)},
               b.before = i, tr[k].thread = tr[b.after].thread
        PROVE  m[k] <= m[b.after]
    <3>1. PICK ij \in AccessPairs(tr) : b = atom(ij[1], ij[2]) /\ m[ij[1]] < m[ij[2]]
      BY <2>2 DEF AtomHolds, atom
    <3>2. ij[1] = i /\ ij[2] = b.after /\ ij \in (DOMAIN tr) \X (DOMAIN tr)
      BY <2>2, <3>1 DEF atom, AccessPairs
    <3>3. m[i] < m[b.after] /\ ij = <<i, b.after>>
      BY <3>1, <3>2 DEF atom
    <3>4. b.after \in T
      BY <1>2, <1>3, <2>2, <3>2, <3>3
    <3> QED
      BY <1>3, <3>4
  <2> QED
    BY <2>1, <2>2 DEF find_other_traces, atom
<1>5. n[i] < n[k]
  BY <1>4 DEF Holds, AtomHolds, atom
<1>6. k \in DOMAIN tr /\ tr[k].thread = tr[j].thread /\ m[k] <= m[j]
  BY <1>2, <1>3
<1>7. k = j \/ k < j
  <2>1. ASSUME j < k
        PROVE  FALSE
    <3>1. m[j] < m[k]
      BY <1>1, <1>6, <2>1 DEF thread_order
    <3> QED
      BY <1>1, <1>6, <3>1
  <2>2. k \in Nat /\ j \in Nat
    BY <1>1, <1>6
  <2> QED
    BY <2>1, <2>2
<1>8. n[k] <= n[j]
  BY <1>1, <1>6, <1>7 DEF thread_order
<1> QED
  BY <1>1, <1>5, <1>6, <1>8

\* A model satisfies the order of reads and writes of another one if and only if it
\* has the same conflicts in the same order.
LEMMA FindOrderMeansSameConflicts ==
  ASSUME NEW tr \in Seq(symbol), NEW m \in Orders(tr), NEW n \in Orders(tr)
  PROVE  Holds(n, find_other_traces(tr, m)) <=> SameConflicts(tr, m, n)
<1>1. /\ \A k \in DOMAIN tr : m[k] \in Nat /\ n[k] \in Nat
      /\ distinct(tr, m)
  BY OrderFacts
<1>2. ASSUME Holds(n, find_other_traces(tr, m)),
             NEW i \in DOMAIN tr, NEW j \in DOMAIN tr, Conflicting(tr[i], tr[j])
      PROVE  m[i] < m[j] <=> n[i] < n[j]
  <2>1. Conflicting(tr[j], tr[i])
    BY <1>2 DEF Conflicting
  <2>2. m[i] < m[j] => n[i] < n[j]
    BY <1>2, OneDirection
  <2>3. m[j] < m[i] => n[j] < n[i]
    BY <1>2, <2>1, OneDirection
  <2>4. i = j \/ m[i] < m[j] \/ m[j] < m[i]
    BY <1>1 DEF distinct
  <2> QED
    BY <1>1, <2>2, <2>3, <2>4
<1>3. ASSUME SameConflicts(tr, m, n), NEW a \in find_other_traces(tr, m)
      PROVE  AtomHolds(n, a)
  <2>1. PICK ij \in AccessPairs(tr) : a = atom(ij[1], ij[2]) /\ AtomHolds(m, a)
    BY <1>3 DEF find_other_traces
  <2>2. ij[1] \in DOMAIN tr /\ ij[2] \in DOMAIN tr /\ ij = <<ij[1], ij[2]>>
    BY <2>1 DEF AccessPairs
  <2>3. Conflicting(tr[ij[1]], tr[ij[2]])
    BY <2>1, <2>2, AccessPairsAreConflicts
  <2>4. m[ij[1]] < m[ij[2]]
    BY <2>1 DEF AtomHolds, atom
  <2>5. n[ij[1]] < n[ij[2]]
    BY <1>3, <2>2, <2>3, <2>4 DEF SameConflicts
  <2> QED
    BY <2>1, <2>5 DEF AtomHolds, atom
<1> QED
  BY <1>2, <1>3 DEF SameConflicts, Holds

----------------------------------------------------------------------------
(* Conditionals *)

SamePlace(m, n, i, j) == (m[i] < m[j] <=> n[i] < n[j]) /\ (m[j] < m[i] <=> n[j] < n[i])

\* What find_order2 says fixes the order of the locations it relates.
LEMMA FindOrder2Fixes ==
  ASSUME NEW tr \in Seq(symbol), NEW m \in Orders(tr), NEW n \in Orders(tr),
         NEW one \in SUBSET DOMAIN tr, NEW two \in SUBSET DOMAIN tr,
         Holds(n, find_order2(tr, m, one, two)),
         NEW i \in one, NEW j \in two
  PROVE  SamePlace(m, n, i, j)
<1>1. /\ DOMAIN tr \subseteq Nat
      /\ \A k \in DOMAIN tr : m[k] \in Nat /\ n[k] \in Nat
      /\ thread_order(tr, m) /\ thread_order(tr, n)
      /\ distinct(tr, m) /\ distinct(tr, n)
  BY OrderFacts
<1>2. CASE tr[i].thread = tr[j].thread
  <2>1. i = j \/ i < j \/ j < i
    BY <1>1
  <2>2. i < j => m[i] < m[j] /\ n[i] < n[j]
    BY <1>1, <1>2 DEF thread_order
  <2>3. j < i => m[j] < m[i] /\ n[j] < n[i]
    BY <1>1, <1>2 DEF thread_order
  <2> QED
    BY <1>1, <2>1, <2>2, <2>3 DEF SamePlace
<1>3. CASE tr[i].thread # tr[j].thread
  <2> DEFINE a == IF m[i] < m[j] THEN atom(i, j) ELSE atom(j, i)
  <2>1. a \in find_order2(tr, m, one, two)
    <3>1. tr[a.before].thread # tr[a.after].thread
      BY <1>3 DEF atom
    <3> QED
      BY <3>1 DEF find_order2
  <2>2. AtomHolds(n, a)
    BY <2>1 DEF Holds
  <2>3. IF m[i] < m[j] THEN n[i] < n[j] ELSE n[j] < n[i]
    BY <2>2 DEF AtomHolds, atom
  <2>4. i # j
    BY <1>3
  <2> QED
    BY <1>1, <2>3, <2>4 DEF SamePlace, distinct
<1> QED
  BY <1>2, <1>3

\* A model that satisfies what wait_notify_order says of m satisfies the conditionals
\* if m does.
LEMMA ConditionalsCarryOver ==
  ASSUME NEW tr \in Seq(symbol), NEW m \in Orders(tr), NEW n \in Orders(tr),
         Holds(n, wait_notify_order(tr, m)), conditionals_hold(tr, m)
  PROVE  conditionals_hold(tr, n)
<1> SUFFICES ASSUME NEW x \in Var, NEW i \in waits(tr, x)
             PROVE  IF tr[i].operation = "wait_not" THEN NotNotified(tr, n, i) ELSE Notified(tr, n, i)
  BY DEF conditionals_hold
<1>1. waits(tr, x) \subseteq DOMAIN tr /\ resets(tr, x) \subseteq DOMAIN tr /\ notifies(tr, x) \subseteq DOMAIN tr
  BY DEF waits, resets, notifies, PositionsOf
<1>2. tr[i].variable = x
  BY DEF waits, PositionsOf
<1>3. /\ Holds(n, find_order2(tr, m, waits(tr, x), resets(tr, x)))
      /\ Holds(n, find_order2(tr, m, waits(tr, x), notifies(tr, x)))
      /\ Holds(n, find_order2(tr, m, resets(tr, x), notifies(tr, x)))
  BY DEF Holds, wait_notify_order
<1>4. \A r \in resets(tr, x) : SamePlace(m, n, i, r)
  BY <1>1, <1>3, FindOrder2Fixes
<1>5. \A k \in notifies(tr, x) : SamePlace(m, n, i, k)
  BY <1>1, <1>3, FindOrder2Fixes
<1>6. \A r \in resets(tr, x), k \in notifies(tr, x) : SamePlace(m, n, r, k)
  BY <1>1, <1>3, FindOrder2Fixes
<1>7. CASE tr[i].operation = "wait_not"
  <2>1. NotNotified(tr, m, i)
    BY <1>7 DEF conditionals_hold
  <2>2. NotNotified(tr, n, i)
    BY <1>2, <1>4, <1>5, <1>6, <2>1 DEF NotNotified, SamePlace
  <2> QED
    BY <1>7, <2>2
<1>8. CASE tr[i].operation # "wait_not"
  <2>1. Notified(tr, m, i)
    BY <1>8 DEF conditionals_hold
  <2>2. Notified(tr, n, i)
    BY <1>2, <1>4, <1>5, <1>6, <2>1 DEF Notified, SamePlace
  <2> QED
    BY <1>8, <2>2
<1> QED
  BY <1>7, <1>8

----------------------------------------------------------------------------
(* Unsatisfiable cores *)

\* A core of what no model satisfies has an item that each model violates.
LEMMA CoreIsUnsat ==
  ASSUME NEW items, NEW violated, Unsat(items, violated), UNION violated \subseteq items,
         NEW core \in min_unsat(items, violated)
  PROVE  core \subseteq items /\ \A V \in violated : core \cap V # {}
<1>1. core \in {S \in SUBSET UNION violated :
                  Unsat(S, violated) /\ \A x \in S : ~Unsat(S \ {x}, violated)}
  BY DEF min_unsat
<1> QED
  BY <1>1 DEF Unsat

\* If every model violates one of the atoms, every model violates one of the core.
LEMMA CoreOfAtoms ==
  ASSUME NEW items, NEW models, NEW core \in min_unsat(items, violated_atoms(items, models)),
         \A m \in models : \E a \in items : ~AtomHolds(m, a)
  PROVE  core \subseteq items /\ \A m \in models : ~Holds(m, core)
<1>1. Unsat(items, violated_atoms(items, models)) /\ UNION violated_atoms(items, models) \subseteq items
  BY DEF Unsat, violated_atoms
<1>2. core \subseteq items /\ \A V \in violated_atoms(items, models) : core \cap V # {}
  BY <1>1, CoreIsUnsat
<1>3. ASSUME NEW m \in models
      PROVE  ~Holds(m, core)
  <2>1. core \cap {a \in items : ~AtomHolds(m, a)} # {}
    BY <1>2 DEF violated_atoms
  <2> QED
    BY <2>1 DEF Holds
<1> QED
  BY <1>2, <1>3

\* If every model satisfies one of the constraints, every model satisfies one of
\* those that the filter leaves.
LEMMA CoreOfConstraints ==
  ASSUME NEW items, NEW models, NEW core \in min_unsat(items, violated_exclusions(items, models)),
         \A m \in models : HoldsOne(m, items)
  PROVE  core \subseteq items /\ \A m \in models : HoldsOne(m, core)
<1>1. /\ Unsat(items, violated_exclusions(items, models))
      /\ UNION violated_exclusions(items, models) \subseteq items
  BY DEF Unsat, violated_exclusions, HoldsOne
<1>2. core \subseteq items /\ \A V \in violated_exclusions(items, models) : core \cap V # {}
  BY <1>1, CoreIsUnsat
<1>3. ASSUME NEW m \in models
      PROVE  HoldsOne(m, core)
  <2>1. core \cap {c \in items : Holds(m, c)} # {}
    BY <1>2 DEF violated_exclusions
  <2> QED
    BY <2>1 DEF HoldsOne
<1> QED
  BY <1>2, <1>3

----------------------------------------------------------------------------
(* Types *)

atoms(tr) == [before : DOMAIN tr, after : DOMAIN tr]

LEMMA FindOrderType ==
  ASSUME NEW tr \in Seq(symbol), NEW m, NEW wait_notify \in BOOLEAN
  PROVE  find_order(tr, m, wait_notify) \subseteq atoms(tr)
<1>1. find_other_traces(tr, m) \subseteq atoms(tr)
  <2> SUFFICES ASSUME NEW a \in find_other_traces(tr, m)
               PROVE  a \in atoms(tr)
    OBVIOUS
  <2>1. PICK ij \in AccessPairs(tr) : a = atom(ij[1], ij[2])
    BY DEF find_other_traces
  <2>2. ij[1] \in DOMAIN tr /\ ij[2] \in DOMAIN tr
    BY DEF AccessPairs
  <2> QED
    BY <2>1, <2>2 DEF atom, atoms
<1>2. ASSUME NEW one \in SUBSET DOMAIN tr, NEW two \in SUBSET DOMAIN tr
      PROVE  find_order2(tr, m, one, two) \subseteq atoms(tr)
  <2> SUFFICES ASSUME NEW a \in find_order2(tr, m, one, two)
               PROVE  a \in atoms(tr)
    OBVIOUS
  <2>1. PICK i \in one, j \in two : a = IF m[i] < m[j] THEN atom(i, j) ELSE atom(j, i)
    BY DEF find_order2
  <2> QED
    BY <1>2, <2>1 DEF atom, atoms
<1>3. ASSUME NEW x \in Var
      PROVE  /\ waits(tr, x) \in SUBSET DOMAIN tr
             /\ resets(tr, x) \in SUBSET DOMAIN tr
             /\ notifies(tr, x) \in SUBSET DOMAIN tr
  BY DEF waits, resets, notifies, PositionsOf
<1>4. wait_notify_order(tr, m) \subseteq atoms(tr)
  <2>1. ASSUME NEW x \in Var
        PROVE  /\ find_order2(tr, m, waits(tr, x), resets(tr, x)) \subseteq atoms(tr)
               /\ find_order2(tr, m, waits(tr, x), notifies(tr, x)) \subseteq atoms(tr)
               /\ find_order2(tr, m, resets(tr, x), notifies(tr, x)) \subseteq atoms(tr)
    BY <1>2, <1>3
  <2> QED
    BY <2>1 DEF wait_notify_order
<1> QED
  BY <1>1, <1>4 DEF find_order

----------------------------------------------------------------------------
(* The invariant *)

\* The solvers hold the formulas that process_trace asserts.
Solvers ==
  /\ pc \in {"sequential", "bad", "return"}
  /\ trace \in Seq(symbol)
  /\ slv_good = good(trace, synthesised_locks)
  /\ slv_good_weak = good_weak(trace, synthesised_locks)

\* Every constraint of the first loop describes a sequential order; after the loop
\* none of these is left, and all of their equivalents are gone from slv_bad.
SequentialConstraints ==
  /\ \A c \in seq_traces : \E m \in slv_good : c = find_other_traces(trace, m)
  /\ pc = "sequential" => slv_bad = bad(trace, synthesised_locks) /\ bad_traces = {}
  /\ pc # "sequential" =>
       /\ \A m \in slv_good : HoldsOne(m, seq_traces)
       /\ slv_bad = Unexplained(bad(trace, synthesised_locks), seq_traces)

IInv ==
  /\ TypeOK
  /\ Solvers
  /\ SequentialConstraints
  /\ BadTracesAreNotSequential
  /\ BadTracesAreComplete

LEMMA SolverFacts ==
  ASSUME NEW tr, NEW ls
  PROVE  /\ good(tr, ls) \subseteq good_weak(tr, ls)
         /\ good_weak(tr, ls) \subseteq Orders(tr)
         /\ bad(tr, ls) \subseteq Orders(tr)
         /\ \A m \in bad(tr, ls) : conditionals_hold(tr, m)
         /\ \A m \in good_weak(tr, ls) : conditionals_hold(tr, m) => m \in good(tr, ls)
  BY DEF good, good_weak, bad, possible

LEMMA OrdersAreFunctions ==
  ASSUME NEW tr \in Seq(symbol)
  PROVE  Orders(tr) \subseteq [DOMAIN tr -> DOMAIN tr]
  BY OrderFacts

LEMMA InitIInv == Init => IInv
<1> SUFFICES ASSUME Init
             PROVE  IInv
  OBVIOUS
<1>1. PICK input \in Inputs :
        /\ trace = input.trace
        /\ synthesised_locks = input.synthesised_locks
        /\ slv_good = good(input.trace, input.synthesised_locks)
        /\ slv_good_weak = good_weak(input.trace, input.synthesised_locks)
        /\ slv_bad = bad(input.trace, input.synthesised_locks)
  BY DEF Init
<1>2. pc = "sequential" /\ seq_traces = {} /\ bad_traces = {}
  BY DEF Init
<1>3. trace \in Seq(symbol)
  BY <1>1, ProcessTraceAssumption
<1>4. /\ slv_good \subseteq slv_good_weak
      /\ slv_good_weak \cup slv_bad \subseteq [DOMAIN trace -> DOMAIN trace]
  BY <1>1, <1>3, SolverFacts, OrdersAreFunctions
<1> QED
  BY <1>1, <1>2, <1>3, <1>4
     DEF IInv, TypeOK, Solvers, SequentialConstraints, BadTracesAreNotSequential, BadTracesAreComplete,
         HoldsOne

\* No model that satisfies slv_good_weak satisfies all that find_order says of a
\* model of slv_bad: it would satisfy the conditionals too, hence be sequential, and
\* the first loop would have excluded the model of slv_bad with it.
LEMMA BadOrdersAreExcluded ==
  ASSUME IInv, pc = "bad", NEW m \in slv_bad, NEW n \in slv_good_weak
  PROVE  \E a \in find_order(trace, m, TRUE) : ~AtomHolds(n, a)
<1> SUFFICES ASSUME \A a \in find_order(trace, m, TRUE) : AtomHolds(n, a)
             PROVE  FALSE
  OBVIOUS
<1>1. /\ trace \in Seq(symbol)
      /\ slv_good = good(trace, synthesised_locks)
      /\ slv_good_weak = good_weak(trace, synthesised_locks)
  BY DEF IInv, Solvers
<1>2. m \in bad(trace, synthesised_locks) /\ ~HoldsOne(m, seq_traces)
  BY DEF IInv, SequentialConstraints, Unexplained
<1>3. m \in Orders(trace) /\ n \in Orders(trace) /\ conditionals_hold(trace, m)
  BY <1>1, <1>2, SolverFacts
<1>4. Holds(n, find_other_traces(trace, m)) /\ Holds(n, wait_notify_order(trace, m))
  BY DEF Holds, find_order
<1>5. n \in slv_good
  BY <1>1, <1>3, <1>4, ConditionalsCarryOver, SolverFacts
<1>6. PICK c \in seq_traces : Holds(n, c)
  BY <1>5 DEF IInv, SequentialConstraints, HoldsOne
<1>7. PICK g \in slv_good : c = find_other_traces(trace, g)
  BY DEF IInv, SequentialConstraints
<1>8. g \in Orders(trace)
  BY <1>1, SolverFacts
<1>9. SameConflicts(trace, m, n) /\ SameConflicts(trace, g, n)
  BY <1>1, <1>3, <1>4, <1>6, <1>7, <1>8, FindOrderMeansSameConflicts
<1>10. SameConflicts(trace, g, m)
  BY <1>9 DEF SameConflicts
<1>11. Holds(m, c)
  BY <1>1, <1>3, <1>7, <1>8, <1>10, FindOrderMeansSameConflicts
<1> QED
  BY <1>2, <1>11 DEF HoldsOne

LEMMA NextIInv == IInv /\ [Next]_vars => IInv'
<1> SUFFICES ASSUME IInv, [Next]_vars
             PROVE  IInv'
  OBVIOUS
<1>1. CASE FindSequential
  <2>1. PICK m \in Unexplained(slv_good, seq_traces) :
          seq_traces' = seq_traces \cup {find_order(trace, m, FALSE)}
    BY <1>1 DEF FindSequential
  <2>2. m \in slv_good
    BY DEF Unexplained
  <2>3. /\ pc = "sequential"
        /\ UNCHANGED <<pc, trace, synthesised_locks, slv_good, slv_good_weak, slv_bad, bad_traces>>
    BY <1>1 DEF FindSequential, arguments, solvers
  <2>4. find_order(trace, m, FALSE) = find_other_traces(trace, m)
    BY DEF find_order
  <2>5. find_order(trace, m, FALSE) \subseteq [before : DOMAIN trace, after : DOMAIN trace]
    BY FindOrderType DEF IInv, Solvers, atoms
  <2>6. TypeOK'
    <3> DEFINE c == find_order(trace, m, FALSE)
    <3>1. c \subseteq [before : DOMAIN trace, after : DOMAIN trace] /\ seq_traces' = seq_traces \cup {c}
      BY <2>1, <2>5
    <3> HIDE DEF c
    <3> QED
      BY <2>3, <3>1 DEF IInv, TypeOK
  <2>7. Solvers'
    BY <2>3 DEF IInv, Solvers
  <2>8. SequentialConstraints'
    BY <2>1, <2>2, <2>3, <2>4 DEF IInv, SequentialConstraints
  <2> QED
    BY <2>3, <2>6, <2>7, <2>8 DEF IInv, BadTracesAreNotSequential, BadTracesAreComplete
<1>2. CASE SequentialDone
  <2>1. /\ pc = "sequential" /\ pc' = "bad"
        /\ Unexplained(slv_good, seq_traces) = {}
        /\ slv_bad' = Unexplained(slv_bad, seq_traces)
        /\ UNCHANGED <<trace, synthesised_locks, slv_good, slv_good_weak, seq_traces, bad_traces>>
    BY <1>2 DEF SequentialDone, arguments
  <2>2. slv_bad' \subseteq slv_bad
    BY <2>1 DEF Unexplained
  <2>3. TypeOK'
    BY <2>1, <2>2 DEF IInv, TypeOK
  <2>4. Solvers'
    BY <2>1 DEF IInv, Solvers
  <2>5. \A m \in slv_good : HoldsOne(m, seq_traces)
    BY <2>1 DEF Unexplained
  <2>6. SequentialConstraints'
    BY <2>1, <2>5 DEF IInv, SequentialConstraints
  <2> QED
    BY <2>1, <2>3, <2>4, <2>6 DEF IInv, BadTracesAreNotSequential, BadTracesAreComplete
<1>3. CASE FindBad
  <2>0. PICK m \in Unexplained(slv_bad, bad_traces) :
          \E core \in min_unsat(find_order(trace, m, TRUE),
                              violated_atoms(find_order(trace, m, TRUE), slv_good_weak)) :
            bad_traces' = bad_traces \cup {core}
    BY <1>3 DEF FindBad
  <2>1. PICK core \in min_unsat(find_order(trace, m, TRUE),
                              violated_atoms(find_order(trace, m, TRUE), slv_good_weak)) :
          bad_traces' = bad_traces \cup {core}
    BY <2>0
  <2>2. /\ pc = "bad"
        /\ UNCHANGED <<pc, trace, synthesised_locks, slv_good, slv_good_weak, slv_bad, seq_traces>>
    BY <1>3 DEF FindBad, arguments, solvers
  <2>3. m \in slv_bad
    BY DEF Unexplained
  <2>4. \A n \in slv_good_weak : \E a \in find_order(trace, m, TRUE) : ~AtomHolds(n, a)
    BY <2>2, <2>3, BadOrdersAreExcluded
  <2>5. core \subseteq find_order(trace, m, TRUE) /\ \A n \in slv_good_weak : ~Holds(n, core)
    BY <2>4, CoreOfAtoms
  <2>6. core \subseteq [before : DOMAIN trace, after : DOMAIN trace]
    BY <2>5, FindOrderType DEF IInv, Solvers, atoms
  <2>7. TypeOK'
    BY <2>1, <2>2, <2>6 DEF IInv, TypeOK
  <2>8. Solvers' /\ SequentialConstraints'
    BY <2>2 DEF IInv, Solvers, SequentialConstraints
  <2>9. BadTracesAreNotSequential'
    BY <2>1, <2>2, <2>5 DEF IInv, BadTracesAreNotSequential, HoldsOne
  <2> QED
    BY <2>2, <2>7, <2>8, <2>9 DEF IInv, BadTracesAreComplete
<1>4. CASE BadDone
  <2>1. /\ pc = "bad" /\ pc' = "return"
        /\ Unexplained(slv_bad, bad_traces) = {}
        /\ bad_traces' \in min_unsat(bad_traces, violated_exclusions(bad_traces, slv_bad))
        /\ UNCHANGED <<trace, synthesised_locks, slv_good, slv_good_weak, slv_bad, seq_traces>>
    BY <1>4 DEF BadDone, arguments, solvers
  <2>2. \A m \in slv_bad : HoldsOne(m, bad_traces)
    BY <2>1 DEF Unexplained
  <2>3. bad_traces' \subseteq bad_traces /\ \A m \in slv_bad : HoldsOne(m, bad_traces')
    BY <2>1, <2>2, CoreOfConstraints
  <2>4. TypeOK'
    BY <2>1, <2>3 DEF IInv, TypeOK
  <2>5. Solvers' /\ SequentialConstraints'
    BY <2>1 DEF IInv, Solvers, SequentialConstraints
  <2>6. BadTracesAreNotSequential'
    BY <2>1, <2>3 DEF IInv, BadTracesAreNotSequential, HoldsOne
  <2>7. BadTracesAreComplete'
    BY <2>1, <2>3 DEF BadTracesAreComplete
  <2> QED
    BY <2>4, <2>5, <2>6, <2>7 DEF IInv
<1>5. CASE UNCHANGED vars
  BY <1>5 DEF IInv, TypeOK, Solvers, SequentialConstraints, BadTracesAreNotSequential,
     BadTracesAreComplete, vars, arguments, solvers
<1> QED
  BY <1>1, <1>2, <1>3, <1>4, <1>5 DEF Next

LEMMA IInvAlways == Spec => []IInv
  BY InitIInv, NextIInv, PTL DEF Spec

----------------------------------------------------------------------------
(* Theorems *)

\* Type correctness of process_trace.
THEOREM ProcessTraceTypes == Spec => []TypeOK
<1>1. IInv => TypeOK
  BY DEF IInv
<1> QED
  BY <1>1, IInvAlways, PTL

\* What process_trace forbids is never a sequential order, conditionals or not.
THEOREM NeverForbidsSequential == Spec => []BadTracesAreNotSequential
<1>1. IInv => BadTracesAreNotSequential
  BY DEF IInv
<1> QED
  BY <1>1, IInvAlways, PTL

\* When it returns, every other order is forbidden.
THEOREM ForbidsAllOthers == Spec => []BadTracesAreComplete
<1>1. IInv => BadTracesAreComplete
  BY DEF IInv
<1> QED
  BY <1>1, IInvAlways, PTL

\* The orders the second loop looks at are those that differ from every sequential
\* order in the order of a conflict.
THEOREM RemovesEquivalentOrders == Spec => []OnlySequentialRemoved
<1>1. ASSUME IInv, pc # "sequential", NEW m \in bad(trace, synthesised_locks)
      PROVE  HoldsOne(m, seq_traces) <=> \E n \in slv_good : SameConflicts(trace, m, n)
  <2>1. /\ trace \in Seq(symbol)
        /\ m \in Orders(trace)
        /\ \A n \in slv_good : n \in Orders(trace)
    BY <1>1, SolverFacts DEF IInv, Solvers
  <2>2. ASSUME HoldsOne(m, seq_traces)
        PROVE  \E n \in slv_good : SameConflicts(trace, m, n)
    <3>1. PICK c \in seq_traces : Holds(m, c)
      BY <2>2 DEF HoldsOne
    <3>2. PICK n \in slv_good : c = find_other_traces(trace, n)
      BY <1>1 DEF IInv, SequentialConstraints
    <3>3. SameConflicts(trace, n, m)
      BY <2>1, <3>1, <3>2, FindOrderMeansSameConflicts
    <3> QED
      BY <3>3 DEF SameConflicts
  <2>3. ASSUME NEW n \in slv_good, SameConflicts(trace, m, n)
        PROVE  HoldsOne(m, seq_traces)
    <3>1. PICK c \in seq_traces : Holds(n, c)
      BY <1>1 DEF IInv, SequentialConstraints, HoldsOne
    <3>2. PICK g \in slv_good : c = find_other_traces(trace, g)
      BY <1>1 DEF IInv, SequentialConstraints
    <3>3. SameConflicts(trace, g, n)
      BY <2>1, <3>1, <3>2, FindOrderMeansSameConflicts
    <3>4. SameConflicts(trace, g, m)
      BY <2>3, <3>3 DEF SameConflicts
    <3>5. Holds(m, c)
      BY <2>1, <3>2, <3>4, FindOrderMeansSameConflicts
    <3> QED
      BY <3>5 DEF HoldsOne
  <2> QED
    BY <2>2, <2>3
<1>2. IInv => OnlySequentialRemoved
  <2> SUFFICES ASSUME IInv, pc # "sequential"
               PROVE  slv_bad = {m \in bad(trace, synthesised_locks) :
                                   \A n \in slv_good : ~SameConflicts(trace, m, n)}
    BY DEF OnlySequentialRemoved
  <2>1. slv_bad = {m \in bad(trace, synthesised_locks) : ~HoldsOne(m, seq_traces)}
    BY DEF IInv, SequentialConstraints, Unexplained
  <2> QED
    BY <1>1, <2>1
<1> QED
  BY <1>2, IInvAlways, PTL

----------------------------------------------------------------------------
(* Locks *)

\* The two sections of a lock do not overlap.
Exclusive(m, lock) == m[lock[1].end] < m[lock[2].start] \/ m[lock[2].end] < m[lock[1].start]

\* A section goes from the earlier to the later of two locations of a thread.
LEMMA SectionFacts ==
  ASSUME NEW tr \in Seq(symbol), NEW m \in Orders(tr), NEW i \in DOMAIN tr, NEW j \in DOMAIN tr,
         tr[i].thread = tr[j].thread
  PROVE  LET l == lock_location(i, j) IN
           /\ m[l.start] \in Nat /\ m[l.end] \in Nat
           /\ m[l.start] <= m[i] /\ m[l.start] <= m[j]
           /\ m[i] <= m[l.end] /\ m[j] <= m[l.end]
<1>1. /\ i \in Nat /\ j \in Nat
      /\ m[i] \in Nat /\ m[j] \in Nat
      /\ thread_order(tr, m)
  BY OrderFacts
<1>2. Min({i, j}) = (IF i <= j THEN i ELSE j) /\ Max({i, j}) = (IF i <= j THEN j ELSE i)
  BY <1>1 DEF Min, Max
<1>3. i < j => m[i] < m[j]
  BY <1>1 DEF thread_order
<1>4. j < i => m[j] < m[i]
  BY <1>1 DEF thread_order
<1> QED
  BY <1>1, <1>2, <1>3, <1>4 DEF lock_location

\* A lock of find_lock enforces the disjunction it was made for: if the sections of
\* the pair do not overlap, one of its two atoms holds.  A pair that is skipped
\* because both of its ends are in the order of the counterexample needs no lock: one
\* of its atoms holds in every order.
THEOREM LockEnforcesDisjunction ==
  ASSUME NEW tr \in Seq(symbol), NEW m \in Orders(tr), NEW a \in atoms(tr), NEW b \in atoms(tr),
         tr[a.before].thread = tr[b.after].thread, tr[b.before].thread = tr[a.after].thread,
         MakesLock(tr, a, b) => Exclusive(m, LockFor(tr, a, b))
  PROVE  AtomHolds(m, a) \/ AtomHolds(m, b)
<1>1. /\ \A i \in DOMAIN tr : i \in Nat /\ m[i] \in Nat
      /\ thread_order(tr, m)
  BY OrderFacts
<1>2. a.before \in DOMAIN tr /\ a.after \in DOMAIN tr /\ b.before \in DOMAIN tr /\ b.after \in DOMAIN tr
  BY DEF atoms
<1>3. CASE HoldAnyway(a, b)
  <2>1. m[a.before] < m[b.after] /\ m[b.before] < m[a.after]
    BY <1>1, <1>2, <1>3 DEF HoldAnyway, thread_order
  <2> QED
    BY <1>1, <1>2, <2>1 DEF AtomHolds
<1>4. CASE ~HoldAnyway(a, b)
  <2> DEFINE one == lock_location(a.before, b.after)
             two == lock_location(b.before, a.after)
  <2>1. Exclusive(m, LockFor(tr, a, b))
    BY <1>4 DEF MakesLock
  <2>2. m[one.end] < m[two.start] \/ m[two.end] < m[one.start]
    BY <2>1 DEF Exclusive, LockFor
  <2>3. /\ m[a.before] <= m[one.end] /\ m[one.start] <= m[b.after]
        /\ m[b.before] <= m[two.end] /\ m[two.start] <= m[a.after]
        /\ {m[one.start], m[one.end], m[two.start], m[two.end]} \subseteq Nat
    <3>1. m[a.before] <= m[one.end] /\ m[one.start] <= m[b.after] /\ {m[one.start], m[one.end]} \subseteq Nat
      BY <1>1, <1>2, SectionFacts
    <3>2. m[b.before] <= m[two.end] /\ m[two.start] <= m[a.after] /\ {m[two.start], m[two.end]} \subseteq Nat
      BY <1>1, <1>2, SectionFacts
    <3> QED
      BY <3>1, <3>2
  <2>4. {m[a.before], m[a.after], m[b.before], m[b.after]} \subseteq Nat
    BY <1>1, <1>2
  <2> HIDE DEF one, two
  <2>5. m[a.before] < m[a.after] \/ m[b.before] < m[b.after]
    <3>1. CASE m[one.end] < m[two.start]
      <4>1. m[a.before] < m[a.after]
        BY <2>3, <2>4, <3>1
      <4> QED
        BY <4>1
    <3>2. CASE m[two.end] < m[one.start]
      <4>1. m[b.before] < m[b.after]
        BY <2>3, <2>4, <3>2
      <4> QED
        BY <4>1
    <3> QED
      BY <2>2, <3>1, <3>2
  <2> QED
    BY <2>5 DEF AtomHolds
<1> QED
  BY <1>3, <1>4
=============================================================================
