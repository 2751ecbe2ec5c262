---------------------------- MODULE Reorderings ----------------------------
(***************************************************************************)
(* The formulas of synthesis/reorderings.cpp over the orders in which the  *)
(* symbols of a counterexample tr can be executed.                         *)
(*                                                                         *)
(* In the code every position of tr is an integer constant of Z3, and a    *)
(* model of the solver gives each its place in time.  The formulas only    *)
(* compare places and ask for neighbours, so here a model m is a           *)
(* permutation: m[i] is the place of position i.  A formula is a predicate *)
(* on m.  The final location comes after all others.                       *)
(***************************************************************************)
EXTENDS LockInference

final_state(tr) == Len(tr) + 1
place(tr, m, i) == IF i = final_state(tr) THEN final_state(tr) ELSE m[i]

threaded_trace(tr, t) == SelectSeq([i \in DOMAIN tr |-> i], LAMBDA i : tr[i].thread = t)

\* Position j comes right after i in its thread.
FollowsInThread(tr, i, j) ==
  /\ i < j /\ tr[i].thread = tr[j].thread
  /\ \A k \in (i + 1)..(j - 1) : tr[k].thread # tr[i].thread

thread_order(tr, m) ==
  \A i, j \in DOMAIN tr : i < j /\ tr[i].thread = tr[j].thread => m[i] < m[j]

distinct(tr, m) == \A i, j \in DOMAIN tr : i # j => m[i] # m[j]

CountOf(t, f, n) == Cardinality({k \in 1..n : f[k] = t})

\* The models of thread_order and distinct.  They are found among the ways to hand
\* out the places to the threads.
Orders(tr) ==
  LET n == Len(tr)
      owner == [i \in 1..n |-> tr[i].thread]
      shared_out == {f \in [1..n -> Thread] :
                       \A t \in Thread : CountOf(t, f, n) = CountOf(t, owner, n)}
      placed(f) == [i \in 1..n |->
                      CHOOSE p \in 1..n : f[p] = owner[i]
                        /\ CountOf(owner[i], f, p) = CountOf(owner[i], owner, i)]
  IN {m \in {placed(f) : f \in shared_out} :
        m \in [DOMAIN tr -> DOMAIN tr] /\ thread_order(tr, m) /\ distinct(tr, m)}

----------------------------------------------------------------------------
(* prepare_trace *)

\* Must a symbol follow the previous one of its thread at once?
seq_condition(s) ==
  CASE s.operation = "lock" -> s.synthesised
    [] s.operation \in WaitOps -> s.assume /\ ~AssumesAllowSwitch
    [] OTHER -> s.operation # "yield"

sequential(tr, m) ==
  \A i, j \in DOMAIN tr :
    FollowsInThread(tr, i, j) /\ seq_condition(tr[j]) => m[j] = m[i] + 1

PositionsOf(tr, ops, x) == {i \in DOMAIN tr : tr[i].operation \in ops /\ tr[i].variable = x}

\* Where the section that the lock at i begins ends: the unlock that follows
\* before the next lock of the thread, or the end.
unlock_of(tr, i) ==
  LET x == tr[i].variable
      later(op) == {j \in PositionsOf(tr, {op}, x) : j > i /\ tr[j].thread = tr[i].thread}
      first_lock == Min(later("lock") \cup {final_state(tr)})
      unlocks == {j \in later("unlock") : j < first_lock}
  IN IF unlocks = {} THEN final_state(tr) ELSE Max(unlocks)

\* The sections of a lock exclude each other.
locks_exclude(tr, m) ==
  \A x \in Var : \A i, j \in PositionsOf(tr, {"lock"}, x) :
    i # j => m[i] > place(tr, m, unlock_of(tr, j)) \/ m[i] < m[j]

notifies(tr, x) == PositionsOf(tr, {"notify"}, x)
resets(tr, x) == PositionsOf(tr, {"reset", "wait_reset"}, x)
waits(tr, x) == PositionsOf(tr, WaitOps, x)

\* After a notify, with no reset in between.
Notified(tr, m, i) ==
  LET x == tr[i].variable IN
    \E n \in notifies(tr, x) :
      /\ m[n] < m[i]
      /\ \A r \in resets(tr, x) \ {i} : m[r] < m[n] \/ m[r] > m[i]

\* Before all notifies, or after a reset with no notify in between.
NotNotified(tr, m, i) ==
  LET x == tr[i].variable IN
    \/ \A n \in notifies(tr, x) : m[i] < m[n]
    \/ \E r \in resets(tr, x) :
         /\ m[r] < m[i]
         /\ \A n \in notifies(tr, x) : m[n] < m[r] \/ m[n] > m[i]

conditionals_hold(tr, m) ==
  \A x \in Var : \A i \in waits(tr, x) :
    IF tr[i].operation = "wait_not" THEN NotNotified(tr, m, i) ELSE Notified(tr, m, i)

----------------------------------------------------------------------------
(* synth_locks *)

\* The longest piece of thread from i on that spells list from k on.
MatchLength(tr, thread, i, list, k) ==
  Max({0} \cup {n \in 1..Len(list) :
     /\ k + n - 1 <= Len(list) /\ i + n - 1 <= Len(thread)
     /\ \A d \in 0..(n - 1) : tr[thread[i + d]] = list[k + d]})

\* One round of the inner loop of find_lock_locs: at index i of the thread, for
\* symbol k of the list.  Used indices are not looked at again.
MatchAt(tr, thread, list, k, acc, i) ==
  LET n == MatchLength(tr, thread, i, list, k) IN
    IF i < acc.next \/ i \in acc.used \/ n = 0 THEN acc
    ELSE [next |-> i + n, used |-> acc.used \cup i..(i + n - 1),
          found |-> acc.found \cup {ij \in {<<thread[i], thread[i + n - 1]>>} : n > 1}]

\* Fault: the whole thread is protected, not only the code of the list.
WholeThreadLocs(tr, list) ==
  {ij \in (DOMAIN tr) \X (DOMAIN tr) : ij[1] < ij[2] /\ tr[ij[1]].thread = list[1].thread
     /\ tr[ij[2]].thread = list[1].thread}

\* The first and last positions of the pieces of the trace that are code of list.
find_lock_locs(tr, list) ==
  LET thread == threaded_trace(tr, list[1].thread)
      round(acc, k) == FoldLeft(LAMBDA a, i : MatchAt(tr, thread, list, k, a, i),
                                [acc EXCEPT !.next = 1], [i \in DOMAIN thread |-> i])
      start == [next |-> 1, used |-> {}, found |-> {}]
  IN IF Len(list) <= 1 THEN {}
     ELSE FoldLeft(round, start, [k \in DOMAIN list |-> k]).found

find_locs(tr, s) == {i \in DOMAIN tr : tr[i] = s}

\* No code of another list of the lock runs inside the code of a list.
Respects(tr, m, lock) ==
  \A a, b \in DOMAIN lock :
    lock[a][1].thread # lock[b][1].thread =>
      \A ij \in find_lock_locs(tr, lock[a]) : \A s \in ToSet(lock[b]) :
        \A l \in find_locs(tr, s) : m[l] < m[ij[1]] \/ m[ij[2]] < m[l]

\* One lock of each disjunction holds.
synth_locks(tr, m, lock_symbols) ==
  \A d \in DOMAIN lock_symbols : \E k \in DOMAIN lock_symbols[d] :
    Respects(tr, m, lock_symbols[d][k])

----------------------------------------------------------------------------
(* find_order: what a model says about the order of conflicting symbols.   *)

AtomHolds(m, a) == m[a.before] < m[a.after]

ConflictsWith(s) == IF s.operation = "write" THEN {"read", "write"} ELSE {"write"}

AccessPairs(tr) ==
  {ij \in (DOMAIN tr) \X (DOMAIN tr) :
     /\ tr[ij[1]].operation \in {"read", "write"}
     /\ tr[ij[2]].operation \in ConflictsWith(tr[ij[1]])
     /\ tr[ij[1]].variable = tr[ij[2]].variable}

\* Fault: a read is not ordered before a later write.
order_of_writes(tr, m) ==
  {atom(ij[1], ij[2]) : ij \in {ij \in AccessPairs(tr) :
     m[ij[1]] < m[ij[2]] /\ tr[ij[1]].operation = "write"}}

\* Fault: the order is that of the counterexample, not that of the model.
order_in_trace(tr, m) == {atom(ij[1], ij[2]) : ij \in {ij \in AccessPairs(tr) : ij[1] < ij[2]}}

\* For each read and write, the first later symbol of each thread that conflicts.
find_other_traces(tr, m) ==
  LET later == {a \in {atom(ij[1], ij[2]) : ij \in AccessPairs(tr)} : AtomHolds(m, a)}
  IN {a \in later : \A b \in later :
        a.before = b.before /\ tr[a.after].thread = tr[b.after].thread => m[a.after] <= m[b.after]}

\* The order of two sets of locations, where they are of different threads.
find_order2(tr, m, one, two) ==
  {a \in {IF m[i] < m[j] THEN atom(i, j) ELSE atom(j, i) : i \in one, j \in two} :
     tr[a.before].thread # tr[a.after].thread}

wait_notify_order(tr, m) ==
  UNION {find_order2(tr, m, waits(tr, x), resets(tr, x))
           \cup find_order2(tr, m, waits(tr, x), notifies(tr, x))
           \cup find_order2(tr, m, resets(tr, x), notifies(tr, x)) : x \in Var}

find_order(tr, m, wait_notify) ==
  find_other_traces(tr, m) \cup (IF wait_notify THEN wait_notify_order(tr, m) ELSE {})

----------------------------------------------------------------------------
(* Constraints *)

\* make_constraint of a conjunction and of a disjunction of them.
Holds(m, constraint) == \A a \in constraint : AtomHolds(m, a)
HoldsOne(m, constraints) == \E c \in constraints : Holds(m, c)

\* What each model violates: atoms that are to hold, or constraints that are not to.
violated_atoms(atoms, models) == {{a \in atoms : ~AtomHolds(m, a)} : m \in models}
violated_exclusions(constraints, models) == {{c \in constraints : Holds(m, c)} : m \in models}

\* No model satisfies all of items.
Unsat(items, violated) == \A V \in violated : items \cap V # {}

\* Fault: one member too many is removed.
min_unsat_and_one(items, violated) ==
  IF ~Unsat(items, violated) THEN {items}
  ELSE {S \in SUBSET UNION violated : S # {} /\ \A x \in S : ~Unsat(S \ {x}, violated)}

\* min_unsat: what is left when members of items are removed as long as no model
\* satisfies all of the rest; if some model satisfies all, nothing is removed.
\* Which members are left depends on their order and, if they are many, on the
\* core Z3 reports, so any result is possible.
min_unsat(items, violated) ==
  IF ~Unsat(items, violated) THEN {items}
  ELSE {S \in SUBSET UNION violated : Unsat(S, violated) /\ \A x \in S : ~Unsat(S \ {x}, violated)}
=============================================================================
