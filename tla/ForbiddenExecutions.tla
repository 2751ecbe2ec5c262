------------------------- MODULE ForbiddenExecutions -------------------------
(***************************************************************************)
(* The monitor of concurrent_automaton against what it is for.  The        *)
(* monitor remembers a few pairs of symbols; this module remembers the     *)
(* whole execution and says which executions a lock excludes.              *)
(***************************************************************************)
EXTENDS Executions, SequencesExt

CONSTANT MaxHistory  \* bound on the number of monitored symbols of an execution

VARIABLES
  new_locks,  \* the argument of add_forbidden_traces
  history     \* the monitored symbols executed so far

hvars == <<vars, new_locks, history>>

HInit ==
  /\ \E c \in Configurations :
       /\ threads = c.threads
       /\ conflicts = conflict_infos(c.new_locks)
       /\ locks = lock_masks(c.new_locks)
       /\ new_locks = c.new_locks
  /\ state = int_initial_state
  /\ history = <<>>

Extended(h, sigma) == IF Unmonitored(sigma) THEN h ELSE Append(h, sigma)

HNext ==
  \E sigma \in int_next_symbols(state) :
    /\ Len(history) < MaxHistory
    /\ Execute(sigma)
    /\ history' = Extended(history, sigma)
    /\ UNCHANGED new_locks

HSpec == HInit /\ [][HNext]_hvars

----------------------------------------------------------------------------
\* The symbols at m and n of a list follow each other, but for epsilons.
Neighbours(list, m, n) ==
  /\ m < n /\ ~is_real_epsilon(list[m]) /\ ~is_real_epsilon(list[n])
  /\ \A k \in (m + 1)..(n - 1) : is_real_epsilon(list[k])

\* In execution h a thread executes two neighbours of one of its lists, at i and j, and
\* nothing else between them, while another thread executes a symbol of its list.
Interrupted(lock, h) ==
  \E a, b \in DOMAIN lock :
    /\ lock[a][1].thread # lock[b][1].thread
    /\ \E m, n \in DOMAIN lock[a] : \E i, j \in DOMAIN h :
         /\ Neighbours(lock[a], m, n)
         /\ h[i] = lock[a][m] /\ h[j] = lock[a][n]
         /\ i < j
         /\ \A k \in (i + 1)..(j - 1) : h[k].thread # h[i].thread
         /\ \E k \in (i + 1)..(j - 1) : h[k] \in ToSet(lock[b])

\* h violates every lock of a disjunction that has any.
Refuted(h) ==
  \E d \in DOMAIN new_locks :
    /\ new_locks[d] # <<>>
    /\ \A k \in DOMAIN new_locks[d] : Interrupted(new_locks[d][k], h)

\* The bit of a lock is set exactly if the execution has violated the lock.
BitsAreExact ==
  \A dk \in LockIndex(new_locks) :
    multiple(new_locks, dk[1]) =>
      (dk \in state.locksviolated <=> Interrupted(new_locks[dk[1]][dk[2]], history))

\* The automaton rejects a symbol exactly if with it the execution would violate
\* all locks of some disjunction: no other execution is lost, none is missed.
RejectsExactlyTheForbidden ==
  /\ ~Refuted(history)
  /\ \A sigma \in int_next_symbols(state) :
       Available(state, sigma) =>
         (int_successors(state, sigma) = {} <=> Refuted(Extended(history, sigma)))

----------------------------------------------------------------------------
\* The ways in which a thread executes the code of a list in h, with nothing of its own in
\* between: the position of each symbol but the epsilons.
Sections(h, list) ==
  LET code == {m \in DOMAIN list : ~is_real_epsilon(list[m])} IN
    {p \in [code -> DOMAIN h] :
       /\ \A m \in code : h[p[m]] = list[m]
       /\ \A m, n \in code : m < n => p[m] < p[n]
       /\ \A m, n \in code : Neighbours(list, m, n) =>
            \A k \in (p[m] + 1)..(p[n] - 1) : h[k].thread # list[m].thread}

\* One section ends before the other begins.
Apart(p, q) ==
  \/ \A m \in DOMAIN p, n \in DOMAIN q : p[m] < q[n]
  \/ \A m \in DOMAIN p, n \in DOMAIN q : q[n] < p[m]

\* Pieces of code of different threads under a lock never overlap in h, as if a real lock had
\* been held from their first to their last symbol.
Exclusive(lock, h) ==
  \A a, b \in DOMAIN lock :
    lock[a][1].thread # lock[b][1].thread =>
      \A p \in Sections(h, lock[a]), q \in Sections(h, lock[b]) : Apart(p, q)

\* Every execution that the automaton generates is one that some lock of each disjunction
\* would have allowed, round a loop or not.
SectionsDoNotOverlap ==
  \A d \in DOMAIN new_locks :
    new_locks[d] # <<>> => \E k \in DOMAIN new_locks[d] : Exclusive(new_locks[d][k], history)
=============================================================================
