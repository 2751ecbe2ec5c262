--------------------------- MODULE LockInference ---------------------------
(***************************************************************************)
(* From the orders that must be excluded to locks: find_lock and           *)
(* generate_sync (synthesis/synchronisation.cpp), and the functions of     *)
(* synthesis/trace_helpers.cpp that turn locks into lists of symbols.      *)
(*                                                                         *)
(* A location is a position of the counterexample tr; an atom says that    *)
(* one location comes before another.  The flag from_wait_notify of an     *)
(* atom is left out: no caller of the constructor sets it, so the test of  *)
(* find_lock is always true.                                               *)
(***************************************************************************)
EXTENDS Symbols, SequencesExt

atom(i, j) == [before |-> i, after |-> j]

\* constraint_atom::operator!
negated(a) == atom(a.after, a.before)

\* dnf::operator!: a disjunction for each bad order, in some fixed order.
cnf_of(dnf) == SetToSeq({{negated(a) : a \in c} : c \in dnf})

----------------------------------------------------------------------------
(* find_lock: two atoms between the same two threads make a lock over the  *)
(* code from a.before to b.after of one thread and from b.before to        *)
(* a.after of the other.                                                   *)

\* Both pairs in the order of the counterexample: then one atom or the other holds
\* anyway, and there is nothing to lock.
HoldAnyway(a, b) == a.before < b.after /\ b.before < a.after

MakesLock(tr, a, b) ==
  /\ tr[a.before].thread = tr[b.after].thread
  /\ tr[b.before].thread = tr[a.after].thread
  /\ ~HoldAnyway(a, b)

lock_location(i, j) == [start |-> Min({i, j}), end |-> Max({i, j})]

\* Fault: the ends of the two sections are exchanged.
CrossedLock(tr, a, b) ==
  <<lock_location(a.before, a.before), lock_location(b.before, b.before)>>

\* The sections of the lock; the higher thread comes first.
LockFor(tr, a, b) ==
  LET one == lock_location(a.before, b.after)
      two == lock_location(b.before, a.after)
  IN IF tr[one.start].thread > tr[two.start].thread THEN <<one, two>> ELSE <<two, one>>

\* The pairs of members of a disjunction.
PairsOf(disjunct) ==
  LET atoms == SetToSeq(disjunct)
      earlier == {ij \in (DOMAIN atoms) \X (DOMAIN atoms) : ij[1] < ij[2]}
      pairs == SetToSeq(earlier)
  IN [k \in DOMAIN pairs |-> <<atoms[pairs[k][1]], atoms[pairs[k][2]]>>]

find_lock(tr, disjunct) ==
  LET pairs == SelectSeq(PairsOf(disjunct), LAMBDA ab : MakesLock(tr, ab[1], ab[2]))
  IN [k \in DOMAIN pairs |-> LockFor(tr, pairs[k][1], pairs[k][2])]

\* A disjunction without a pair gets no lock ("Inferrence failed").
generate_sync(tr, cnf) == [d \in DOMAIN cnf |-> find_lock(tr, cnf[d])]

----------------------------------------------------------------------------
(* locks_to_symbols *)

SectionSymbols(tr, loc) ==
  SelectSeq(SubSeq(tr, loc.start, loc.end), LAMBDA s : s.thread = tr[loc.start].thread)

locks_to_symbols(tr, found) ==
  [d \in DOMAIN found |->
     [k \in DOMAIN found[d] |->
        [i \in DOMAIN found[d][k] |-> SectionSymbols(tr, found[d][k][i])]]]

----------------------------------------------------------------------------
(* remove_preemption *)

\* Without the epsilons at both ends.  (On a list of nothing but epsilons
\* trim_list reads the back of an empty list; the front end creates no epsilons,
\* so a list has none before blow_up_lock.)
trim_list(list) ==
  LET real == {i \in DOMAIN list : ~is_real_epsilon(list[i])}
  IN IF real = {} THEN <<>> ELSE SubSeq(list, Min(real), Max(real))

\* Fault: a list is not cut at its preemption points.
NotSplit(list) == <<trim_list(list)>>

\* The maximal pieces of a list without a preemption point.
split_list(list) ==
  LET breaks == {0, Len(list) + 1} \cup {i \in DOMAIN list : is_preemption_point(list[i])}
      next_break(a) == Min({b \in breaks : b >= a})
      pieces == [a \in DOMAIN list |->
                   IF a - 1 \in breaks THEN trim_list(SubSeq(list, a, next_break(a) - 1)) ELSE <<>>]
  IN SelectSeq(pieces, LAMBDA p : p # <<>>)

SplitLock(lock) == FlattenSeq([i \in DOMAIN lock |-> split_list(lock[i])])

\* Fault: a lock with only one side is kept.
KeepOneSided(lock_syms) ==
  [d \in DOMAIN lock_syms |-> [k \in DOMAIN lock_syms[d] |-> SplitLock(lock_syms[d][k])]]

\* Locks that keep fewer than two lists are dropped, and disjunctions without lock.
remove_preemption(lock_syms) ==
  LET split(d) == [k \in DOMAIN lock_syms[d] |-> SplitLock(lock_syms[d][k])]
      kept == [d \in DOMAIN lock_syms |-> SelectSeq(split(d), LAMBDA l : Len(l) > 1)]
  IN SelectSeq(kept, LAMBDA ls : ls # <<>>)

----------------------------------------------------------------------------
(* remove_duplicates *)

sub_vector(l1, l2) == l1[1].thread = l2[1].thread /\ l1 \in SubSeqs(l2)

\* Lock l1 is contained in lock l2.
test_duplicate(l1, l2) ==
  /\ Len(l1) = 2 /\ Len(l2) = 2
  /\ \/ sub_vector(l1[1], l2[1]) /\ sub_vector(l1[2], l2[2])
     \/ sub_vector(l1[1], l2[2]) /\ sub_vector(l1[2], l2[1])

Alone(ls) == Len(ls) = 1

\* Fault: locks that are dropped already still count, so that equal locks drop
\* each other.
RedundantToDropped(lock_syms, kept, d) ==
  \E e \in (DOMAIN lock_syms) \ {d} :
    /\ Alone(lock_syms[d]) /\ Alone(lock_syms[e])
    /\ test_duplicate(lock_syms[d][1], lock_syms[e][1])

\* Disjunction d is one lock, contained in a single lock that is still kept.
Redundant(lock_syms, kept, d) ==
  \E e \in kept \ {d} :
    /\ Alone(lock_syms[d]) /\ Alone(lock_syms[e])
    /\ test_duplicate(lock_syms[d][1], lock_syms[e][1])

remove_duplicates(lock_syms) ==
  LET without(kept, d) == IF Redundant(lock_syms, kept, d) THEN kept \ {d} ELSE kept
      kept == FoldLeft(without, DOMAIN lock_syms, [d \in DOMAIN lock_syms |-> d])
  IN SelectSeq([d \in DOMAIN lock_syms |-> IF d \in kept THEN lock_syms[d] ELSE <<>>],
               LAMBDA ls : ls # <<>>)

\* What synth_loop makes of the bad orders of a counterexample.
NewLocks(tr, dnf) ==
  remove_duplicates(remove_preemption(locks_to_symbols(tr, generate_sync(tr, cnf_of(dnf)))))
=============================================================================
