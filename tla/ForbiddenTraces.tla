-------------------------- MODULE ForbiddenTraces --------------------------
(***************************************************************************)
(* The monitor with which concurrent_automaton forbids the interleavings   *)
(* that the locks synthesised so far exclude (add_forbidden_traces,        *)
(* apply_bad_trace_dnf, tick_lock).                                        *)
(*                                                                         *)
(* The locks come as a conjunction of disjunctions, new_locks.  A lock is  *)
(* a sequence of lists of symbols, each list a piece of code of one thread *)
(* that would hold the lock; a disjunction is refuted once an execution    *)
(* has violated every one of its locks.  The code numbers the locks of all *)
(* disjunctions with several members in one bitset; here lock k of         *)
(* disjunction d is <<d, k>>, and no_lock stands for the -1 of a lock that *)
(* is alone in its disjunction.                                            *)
(***************************************************************************)
EXTENDS Symbols, Sequences

no_lock == <<0, 0>>

\* A conflict_info together with the key `pred' under which conflict_map finds it:
\* the thread of pred and next must not be interrupted by a symbol of conflict.
conflict_info ==
  {ci \in [pred : symbol, next : symbol, conflict : SUBSET symbol, lock_id : Nat \X Nat] :
     ci.pred.thread = ci.next.thread}

LockIndex(new_locks) ==
  UNION {{<<d, k>> : k \in DOMAIN new_locks[d]} : d \in DOMAIN new_locks}

multiple(new_locks, d) == Len(new_locks[d]) > 1

LockId(new_locks, dk) == IF multiple(new_locks, dk[1]) THEN dk ELSE no_lock

\* The patterns `locks': all the bits of one disjunction.
lock_masks(new_locks) ==
  {{dk \in LockIndex(new_locks) : dk[1] = d} : d \in {d \in DOMAIN new_locks : multiple(new_locks, d)}}

\* The positions of consecutive symbols of a list, epsilons skipped.
Consecutive(list) ==
  {ij \in (DOMAIN list) \X (DOMAIN list) :
     /\ ij[1] < ij[2]
     /\ ~is_real_epsilon(list[ij[1]]) /\ ~is_real_epsilon(list[ij[2]])
     /\ \A k \in DOMAIN list : ij[1] < k /\ k < ij[2] => is_real_epsilon(list[k])}

VisibleSymbols(list) == {list[i] : i \in {i \in DOMAIN list : ~is_real_epsilon(list[i])}}

\* Between two consecutive symbols pred and next of one list no symbol of the
\* other list may be executed.
ListConflicts(list, other, id) ==
  {[pred |-> list[ij[1]], next |-> list[ij[2]],
    conflict |-> VisibleSymbols(other), lock_id |-> id] :
     ij \in {ij \in Consecutive(list) : VisibleSymbols(other) # {}}}

\* Fault: only the earlier list of a pair is protected.
LockConflictsOneWay(lock, id) ==
  UNION {ListConflicts(lock[ab[1]], lock[ab[2]], id) :
           ab \in {ab \in (DOMAIN lock) \X (DOMAIN lock) :
                     ab[1] < ab[2] /\ lock[ab[1]][1].thread # lock[ab[2]][1].thread}}

\* Lists of the same thread do not exclude each other.
LockConflicts(lock, id) ==
  UNION {ListConflicts(lock[ab[1]], lock[ab[2]], id) :
           ab \in {ab \in (DOMAIN lock) \X (DOMAIN lock) :
                     lock[ab[1]][1].thread # lock[ab[2]][1].thread}}

conflict_infos(new_locks) ==
  UNION {LockConflicts(new_locks[dk[1]][dk[2]], LockId(new_locks, dk)) :
           dk \in LockIndex(new_locks)}

----------------------------------------------------------------------------
(* Executing sigma while the pairs `pending' (conflict_info, has the       *)
(* conflict been seen) are under observation.                              *)

Unmonitored(sigma) == is_real_epsilon(sigma) \/ sigma.operation = "tag"

next_thread(c) == c.info.next.thread

\* Fault: a pair is ticked off although no conflict was seen.
TickedUnseen(pending, sigma) ==
  {c.info.lock_id : c \in {c \in pending : c.info.next = sigma}}

\* The locks whose conflict is completed by sigma: -1 rejects the execution at
\* once, any other is ticked off.
Ticked(pending, sigma) ==
  {c.info.lock_id : c \in {c \in pending : c.seen /\ c.info.next = sigma}}

\* Fault: a step of the next thread does not end the observation.
ObservedForEver(pending, sigma) ==
  {[c EXCEPT !.seen = @ \/ sigma \in c.info.conflict] : c \in pending}

\* Fault: only the last symbol of the other threads counts.
ObservedLast(pending, sigma) ==
  {[c EXCEPT !.seen = sigma \in c.info.conflict] :
     c \in {c \in pending : next_thread(c) # sigma.thread}}

\* A step of the next thread ends the observation; a conflicting symbol marks it.
Observed(pending, sigma) ==
  {[c EXCEPT !.seen = @ \/ sigma \in c.info.conflict] :
     c \in {c \in pending : next_thread(c) # sigma.thread}}

Started(infos, sigma) ==
  {[info |-> ci, seen |-> FALSE] : ci \in {ci \in infos : ci.pred = sigma}}
=============================================================================
