---------------------------- MODULE LockPlacement ----------------------------
(***************************************************************************)
(* placement::place_locks, print_program::print_with_locks, and the        *)
(* threads that run with the printed locks.                                *)
(*                                                                         *)
(* The locks are a solution of constraints that Z3 is asked for: hard ones *)
(* that a placement satisfies, and soft ones, by cost function, of which   *)
(* it satisfies the most valuable.  The solution is freed from duplicates  *)
(* and printed.  A thread of the printed program takes and releases locks  *)
(* before and after each location; data is left out, so a thread may take  *)
(* every branch and every wait may last as long as it likes.               *)
(***************************************************************************)
EXTENDS AbstractCfg, FiniteSets

CONSTANTS
  Problems,    \* programs with the locks to place in them
  lock_limit   \* options: how many locks may be used

VARIABLES
  threads,         \* the graph of each thread, with all states that can be locked
  minimised,       \* the same without the states that have no action
  locks_to_place,  \* from the synthesis: a conjunction of disjunctions of locks, a lock
                   \* being a sequence of lists of locations
  placement,       \* the model of the solver
  lock_ids,        \* and in it, the lock used for each disjunction
  to_place,        \* the locks and unlocks to print
  status,          \* of the placement
  at,              \* where each thread of the printed program is
  owner            \* who holds each lock of the printed program

problem == <<threads, minimised, locks_to_place>>
solution == <<placement, lock_ids, to_place>>
vars == <<problem, solution, status, at, owner>>

location == [thread : Thread, state : Nat]
lock_type == {"lock", "unlock"}
position_type == {"before", "after"}
\* A printed lock or unlock.
lock_entry == [lock : Nat, lock_t : lock_type, position : position_type, loc : Nat]

cost_type ==
  {"absolute_minimum", "coarse", "unoptimized", "small_locks", "max_pairwise_concurrency"}

\* The graph of a thread as program::add_thread has it: a state is entered, if at all, also
\* by an edge that closes no loop, the first state is not, and the exit is where it returns.
UsableGraph(g) ==
  /\ g \in Seq(cfg_state)
  /\ 1 \in States(g) /\ g[1].lock_before = NoLocation
  /\ \A s \in States(g) :
       /\ \A v \in get_successors(g, s) : v \in States(g) \ {1} /\ predecessors_forward(g, v) # {}
       /\ g[s].final => g[1].return_state = s

ASSUME PlacementAssumption ==
  /\ lock_limit \in Nat
  /\ \A p \in Problems :
       /\ \A t \in Thread : UsableGraph(p.threads[t])
       /\ p.locks_to_place \in Seq(Seq(Seq(Seq(location))))

----------------------------------------------------------------------------
(* Locations and locks *)

\* No more locks than conflicts.
max_locks == IF Len(locks_to_place) < lock_limit THEN Len(locks_to_place) ELSE lock_limit
Locks == 0 .. max_locks - 1

LocationsOf(t) == {[thread |-> t, state |-> s] : s \in States(threads[t])}
Locations == UNION {LocationsOf(t) : t \in Thread}
StateAt(x) == threads[x.thread][x.state]
With(x, states) == {[thread |-> x.thread, state |-> s] : s \in states}
Predecessors(x) == With(x, predecessors(threads[x.thread], x.state))
ForwardPredecessors(x) == With(x, predecessors_forward(threads[x.thread], x.state))

\* symbol::is_unlockable_point: the thread may have to wait here.
is_unlockable_point(s) == s.operation # NullAction /\ MayDeschedule(s)

\* Each function of the solver is the set of pairs that it maps to true.
placements ==
  [inl : SUBSET (Locations \X Locks),
   lock_b : SUBSET (Locations \X Locks), unlock_b : SUBSET (Locations \X Locks),
   lock_a : SUBSET (Locations \X Locks), unlock_a : SUBSET (Locations \X Locks)]

----------------------------------------------------------------------------
(* The hard constraints, at location x for lock l *)

\* The lock is held after the locks that follow the location.
inle(p, x, l) ==
  \/ <<x, l>> \in p.inl /\ <<x, l>> \notin p.unlock_a
  \/ <<x, l>> \in p.lock_a

\* The lock status of a location follows from that of one forward predecessor.
inl_def(p, x, l) ==
  <<x, l>> \in p.inl <=>
    \/ <<x, l>> \in p.lock_b
    \/ /\ ForwardPredecessors(x) # {}
       /\ <<x, l>> \notin p.unlock_b
       /\ inle(p, CHOOSE q \in ForwardPredecessors(x) : TRUE, l)

\* Locks only where the source has a place for them.
cons_loc(p, x, l) ==
  /\ StateAt(x).lock_before = NoLocation => <<x, l>> \notin p.lock_b \cup p.unlock_b
  /\ StateAt(x).lock_after = NoLocation => <<x, l>> \notin p.lock_a \cup p.unlock_a

\* No lock is held where the thread may have to wait.
cons_preemption(p, x, l) == is_unlockable_point(StateAt(x)) => <<x, l>> \notin p.inl

\* Nothing is locked and unlocked at the same place.
cons_basic(p, x, l) ==
  <<x, l>> \notin (p.lock_a \cap p.unlock_a) \cup (p.lock_b \cap p.unlock_b)

\* Fault: the ways into a location are not compared.
no_join(p, x, l) == TRUE

\* All ways into a location agree on the locks held.
cons_join(p, x, l) == \A q, r \in Predecessors(x) : inle(p, q, l) <=> inle(p, r, l)

\* The loop over predecessors starts at the first forward one and runs to the end
\* iterator of the set of all of them.  The end iterators of the two sets are equal in
\* the standard library in use, so it visits the forward predecessors.
Visited(x) == ForwardPredecessors(x)

\* Only what is held is released.
cons_unl(p, x, l) ==
  /\ <<x, l>> \in p.unlock_a => <<x, l>> \in p.inl
  /\ <<x, l>> \in p.unlock_b =>
       /\ ForwardPredecessors(x) # {}
       /\ \A q \in Visited(x) : <<q, l>> \in p.inl /\ <<q, l>> \notin p.unlock_a

\* Fault: calls are not compared with their returns.
no_functions(p, x, l) == TRUE

\* A call returns with the locks it was made with; the first state of a thread counts
\* as a call that returns at the exit.
cons_functions(p, x, l) ==
  LET return == StateAt(x).return_state IN
    return # no_state => (<<x, l>> \in p.inl <=> <<[x EXCEPT !.state = return], l>> \in p.inl)

\* Fault: only the lock itself must be free.
own_lock(l) == {l}

\* What a thread may not hold when it takes l: l and the locks with lower numbers.
free_for(l) == {lb \in Locks : lb <= l}

cons_lockorder(p, x, l) ==
  \A lb \in free_for(l) :
    /\ <<x, l>> \in p.lock_b =>
         \A q \in Visited(x) : <<q, lb>> \notin p.inl /\ <<q, lb>> \notin p.lock_a
    /\ <<x, l>> \in p.lock_a => <<x, lb>> \notin p.inl

\* Locations at the same place of the source have the same locks and unlocks.
cons_sameinstr(p, x, l) ==
  \A y \in Locations :
    /\ StateAt(x).lock_after = StateAt(y).lock_after /\ StateAt(x).lock_after # NoLocation =>
         /\ <<x, l>> \in p.lock_a <=> <<y, l>> \in p.lock_a
         /\ <<x, l>> \in p.unlock_a <=> <<y, l>> \in p.unlock_a
    /\ StateAt(x).lock_before = StateAt(y).lock_before /\ StateAt(x).lock_before # NoLocation =>
         /\ <<x, l>> \in p.lock_b <=> <<y, l>> \in p.lock_b
         /\ <<x, l>> \in p.unlock_b <=> <<y, l>> \in p.unlock_b

\* The constraints that relate a location to others of its thread, for the same lock.
lock_consistancy(p, x, l) ==
  /\ inl_def(p, x, l) /\ cons_loc(p, x, l) /\ cons_basic(p, x, l) /\ cons_join(p, x, l)
  /\ cons_unl(p, x, l) /\ cons_functions(p, x, l) /\ cons_preemption(p, x, l)

add_constraints(p) ==
  \A x \in Locations, l \in Locks :
    lock_consistancy(p, x, l) /\ cons_lockorder(p, x, l) /\ cons_sameinstr(p, x, l)

----------------------------------------------------------------------------
(* What has to be locked *)

\* Fault: the states that minimise removed are left out.
not_blown_up(list) == {list[i] : i \in DOMAIN list}

\* blow_up_trace: the locations of a list and the states removed between them.
blow_up_trace(list) ==
  LET between(x, y) == {e \in EdgesOf(minimised[x.thread], x.state) : e.to = y.state}
      removed(i) == UNION {{e.in_betweeners[k] : k \in DOMAIN e.in_betweeners} :
                             e \in between(list[i], list[i + 1])}
  IN  {list[i] : i \in DOMAIN list}
        \cup UNION {With(list[i], removed(i)) : i \in 1 .. Len(list) - 1}

\* The same for all lists of one lock.
blow_up_lock(lists) == UNION {blow_up_trace(lists[i]) : i \in DOMAIN lists}

\* The lock is used for the whole of every list of one of the alternatives.
LockedBy(p, lists, l) == \A x \in blow_up_lock(lists) : <<x, l>> \in p.inl

locked_together(p, ids) ==
  \A c \in DOMAIN locks_to_place : \E k \in DOMAIN locks_to_place[c] :
    LockedBy(p, locks_to_place[c][k], ids[c])

----------------------------------------------------------------------------
(* The soft constraints: what those a placement does not satisfy cost *)

\* The statements a lock covers in thread t.
StatementsIn(lists, t) ==
  {StateAt(x).stmt : x \in {y \in blow_up_lock(lists) : y.thread = t}} \ {no_stmt}

same_instructions(a, b) ==
  LET distinct(t, u) ==
        /\ StatementsIn(a, t) # {} /\ StatementsIn(b, u) # {}
        /\ StatementsIn(a, t) \cap StatementsIn(b, u) = {}
  IN  Cardinality({y \in Thread \X Thread : distinct(y[1], y[2])}) <= 2

\* Pairs of disjunctions that should rather have locks of their own.
Unrelated ==
  LET unrelated(c, d) ==
        /\ c # d
        /\ \A i \in DOMAIN locks_to_place[c], j \in DOMAIN locks_to_place[d] :
             ~same_instructions(locks_to_place[c][i], locks_to_place[d][j])
  IN  {y \in (DOMAIN locks_to_place) \X (DOMAIN locks_to_place) : unrelated(y[1], y[2])}

\* The constraint of max_pairwise_concurrency for two locations is the value after a
\* comma operator, which is true; it costs nothing.  That for small_locks is added twice.
cost_model(cf, p, ids) ==
  CASE cf = "unoptimized" -> 0
    [] cf \in {"absolute_minimum", "max_pairwise_concurrency"} -> Cardinality(p.inl)
    [] cf = "coarse" ->
         Cardinality(p.inl) + 20 * (Cardinality(p.lock_b) + Cardinality(p.lock_a))
    [] cf = "small_locks" ->
         Cardinality(p.inl)
           + 2 * 100 * Cardinality({y \in Unrelated : ids[y[1]] = ids[y[2]]})

----------------------------------------------------------------------------
(* The solver *)

\* inl and inle determine the rest of a solution for the pairs X.
Determined(X, inl, out) ==
  LET held(x) ==  \* by the first forward predecessor
        /\ ForwardPredecessors(x[1]) # {}
        /\ <<CHOOSE q \in ForwardPredecessors(x[1]) : TRUE, x[2]>> \in out
      held_before == {x \in X : held(x)}
  IN  [inl |-> inl, lock_b |-> inl \ held_before, unlock_b |-> held_before \ inl,
       lock_a |-> out \ inl, unlock_a |-> inl \ out]

Combined(ps) ==
  [inl |-> UNION {p.inl : p \in ps},
   lock_b |-> UNION {p.lock_b : p \in ps}, unlock_b |-> UNION {p.unlock_b : p \in ps},
   lock_a |-> UNION {p.lock_a : p \in ps}, unlock_a |-> UNION {p.unlock_a : p \in ps}]

\* All combinations of one placement of each set.
Combinations(sets) ==
  {Combined({f[i] : i \in DOMAIN sets}) :
     f \in {f \in [DOMAIN sets -> UNION {sets[i] : i \in DOMAIN sets}] :
              \A i \in DOMAIN sets : f[i] \in sets[i]}}

\* The placements that are worth trying, put together from one lock in one thread.
Candidates ==
  LET of_lock(t, l) ==
        LET X == LocationsOf(t) \X {l}
            changeable == {x \in X : StateAt(x[1]).lock_after # NoLocation}
            outs(inl) == {(inl \ C) \cup (C \ inl) : C \in SUBSET changeable}
        IN  {p \in UNION {{Determined(X, inl, out) : out \in outs(inl)} : inl \in SUBSET X} :
               \A x \in LocationsOf(t) : lock_consistancy(p, x, l)}
      of_thread(t) ==
        {p \in Combinations([l \in Locks |-> of_lock(t, l)]) :
           \A x \in LocationsOf(t), l \in Locks : cons_lockorder(p, x, l)}
  IN  Combinations([t \in Thread |-> of_thread(t)])

Solutions ==
  {s \in [placement : {p \in Candidates : p \in placements /\ add_constraints(p)},
          lock_ids : [DOMAIN locks_to_place -> Locks]] : locked_together(s.placement, s.lock_ids)}

\* Those of the solutions S that cost least.
Optimal(cf, S) ==
  LET cost(s) == cost_model(cf, s.placement, s.lock_ids)
      costs == {cost(s) : s \in S}
  IN  {s \in S : \A c \in costs : cost(s) <= c}

\* What is printed for the pairs that a function of the solver maps to true.
result_to_locklist(pairs, type, position) ==
  {[lock |-> y[2], lock_t |-> type, position |-> position,
    loc |-> IF position = "before" THEN StateAt(y[1]).lock_before ELSE StateAt(y[1]).lock_after] :
     y \in pairs}

\* The locks and unlocks of a placement.  Two with the same place in the source are one.
printed(p) ==
  result_to_locklist(p.lock_b, "lock", "before")
    \cup result_to_locklist(p.unlock_b, "unlock", "before")
    \cup result_to_locklist(p.lock_a, "lock", "after")
    \cup result_to_locklist(p.unlock_a, "unlock", "after")

----------------------------------------------------------------------------
(* The printed program *)

\* Locks printed before or after location x.
PrintedAt(printout, x, position) ==
  {e \in printout : e.position = position
     /\ e.loc = (IF position = "before" THEN StateAt(x).lock_before ELSE StateAt(x).lock_after)}

\* Fault: printed in the order of the lock numbers.
LowestFirst(ops) == {e \in ops : \A f \in ops : e.lock <= f.lock}

\* print_with_locks goes down the lock numbers and inserts after what it has inserted
\* before a location, and up the numbers and inserts in front of it after a location.
FirstPrinted(ops) == {e \in ops : \A f \in ops : f.lock <= e.lock}

\* A thread in front of location x.  The last four fields are a history: the last
\* instruction, and since that one the states without instruction the thread came through,
\* whether it closed a loop, and the instructions that other threads executed.
Entering(x, history) ==
  [x |-> x, phase |-> "before", todo |-> PrintedAt(to_place, x, "before"),
   last |-> history.last, via |-> history.via, looped |-> history.looped,
   meanwhile |-> history.meanwhile]

NothingYet == [last |-> no_state, via |-> {}, looped |-> FALSE, meanwhile |-> {}]

IsInstruction(x) == HasAction(threads[x.thread], x.state)

Start(t) == [thread |-> t, state |-> 1]

Init ==
  /\ \E p \in Problems :
       threads = p.threads /\ minimised = p.minimised /\ locks_to_place = p.locks_to_place
  /\ placement = Combined({}) /\ lock_ids = <<>> /\ to_place = {}
  /\ status = "synthesised"
  /\ at = <<>> /\ owner = <<>>

find_locks ==
  /\ status = "synthesised"
  /\ \E S \in {Solutions} : \E cf \in cost_type : \E s \in Optimal(cf, S) :
       /\ placement' = s.placement
       /\ lock_ids' = s.lock_ids
       /\ to_place' = printed(s.placement)
  /\ status' = "placed"
  /\ UNCHANGED <<problem, at, owner>>

\* synthesis2::run prints "Found no valid lock placement" and returns.
PlacementFails ==
  /\ status = "synthesised"
  /\ Solutions = {}
  /\ status' = "failed"
  /\ UNCHANGED <<problem, solution, at, owner>>

\* The printed program is started.
StartProgram ==
  /\ status = "placed"
  /\ status' = "running"
  /\ at' = [t \in Thread |-> Entering(Start(t), NothingYet)]
  /\ owner' = [l \in Locks |-> no_thread]
  /\ UNCHANGED <<problem, solution>>

\* The thread executes the next of the printed locks and unlocks at its place.
ExecuteLock(t) ==
  /\ status = "running"
  /\ \E e \in FirstPrinted(at[t].todo) :
       /\ e.lock_t = "lock" => owner[e.lock] = no_thread
       /\ owner' = [owner EXCEPT ![e.lock] = IF e.lock_t = "lock" THEN t ELSE no_thread]
       /\ at' = [at EXCEPT ![t].todo = @ \ {e}]
  /\ UNCHANGED <<problem, solution, status>>

\* The thread executes the instruction of its location, if there is one.
Execute(t) ==
  LET x == at[t].x IN
  /\ status = "running"
  /\ at[t].phase = "before" /\ at[t].todo = {}
  /\ at' = [u \in Thread |->
       CASE u = t -> [at[t] EXCEPT !.phase = "after", !.todo = PrintedAt(to_place, x, "after"),
                                   !.last = IF IsInstruction(x) THEN x.state ELSE @,
                                   !.via = IF IsInstruction(x) THEN {} ELSE @ \cup {x.state},
                                   !.looped = @ /\ ~IsInstruction(x),
                                   !.meanwhile = IF IsInstruction(x) THEN {} ELSE @]
         [] u # t -> [at[u] EXCEPT !.meanwhile = IF IsInstruction(x) THEN @ \cup {x} ELSE @]]
  /\ UNCHANGED <<problem, solution, status, owner>>

\* The thread goes on along an edge.
Follow(t) ==
  LET x == at[t].x IN
  /\ status = "running"
  /\ at[t].phase = "after" /\ at[t].todo = {}
  /\ \E e \in EdgesOf(threads[t], x.state) :
       at' = [at EXCEPT ![t] =
                Entering([x EXCEPT !.state = e.to], [at[t] EXCEPT !.looped = @ \/ e.back_edge])]
  /\ UNCHANGED <<problem, solution, status, owner>>

Next ==
  \/ find_locks
  \/ PlacementFails
  \/ StartProgram
  \/ \E t \in Thread : ExecuteLock(t) \/ Execute(t) \/ Follow(t)

Spec == Init /\ [][Next]_vars

----------------------------------------------------------------------------
(* Properties *)

Holds(t, l) == owner[l] = t

\* About to execute the instruction of its location.
Executing(t) == at[t].phase = "before" /\ at[t].todo = {}

Waiting(t) ==
  \E e \in FirstPrinted(at[t].todo) : e.lock_t = "lock" /\ owner[e.lock] # no_thread

\* The locks that threads of the printed program hold at an instruction are those that
\* the solver's function inl promises, from which all the guarantees of the placement
\* are taken, whatever way a thread came there: nothing is taken twice, nothing is
\* released that is not held.
HeldAsPlanned ==
  status = "running" =>
    \A t \in Thread : \A l \in Locks :
      /\ Executing(t) => (Holds(t, l) <=> <<at[t].x, l>> \in placement.inl)
      /\ \A e \in FirstPrinted(at[t].todo) :
           e.lock = l => (Holds(t, l) <=> e.lock_t = "unlock")

\* The printed locks cause no deadlock: while a thread waits for one, a thread that holds
\* one can go on, and that one is not in a wait of the program either.
NoCircularWait ==
  status = "running" /\ (\E t \in Thread : Waiting(t)) =>
    \E u \in Thread :
      /\ \E l \in Locks : Holds(u, l)
      /\ ~Waiting(u)
      /\ ~(Executing(u) /\ is_unlockable_point(StateAt(at[u].x)))

\* A thread that has ended holds no lock.
ReleasedAtEnd ==
  status = "running" =>
    \A t \in Thread :
      StateAt(at[t].x).final /\ Executing(t) => \A l \in Locks : ~Holds(t, l)

\* Two instructions of thread t that follow each other in a list of the lock, and an
\* instruction of another list.
Interrupts(lists, t, s1, s2, y) ==
  \E i, j \in DOMAIN lists :
    /\ \E n \in 1 .. Len(lists[i]) - 1 :
         /\ lists[i][n] = [thread |-> t, state |-> s1]
         /\ lists[i][n + 1] = [thread |-> t, state |-> s2]
    /\ \E n \in DOMAIN lists[j] : lists[j][n] = y

\* The thread came from its last instruction the way that minimise took as the edge.
OnTheWay(t) ==
  \E e \in EdgesOf(minimised[t], at[t].last) :
    e.to = at[t].x.state /\ at[t].via = {e.in_betweeners[i] : i \in DOMAIN e.in_betweeners}

\* Thread t is about to complete what a lock in use forbids: inside one of its lists
\* another thread has executed an instruction of another list.
Forbidden(t) ==
  /\ Executing(t) /\ at[t].last # no_state /\ OnTheWay(t)
  /\ \E c \in DOMAIN locks_to_place : \E k \in DOMAIN locks_to_place[c] :
       /\ LockedBy(placement, locks_to_place[c][k], lock_ids[c])
       /\ \E y \in at[t].meanwhile :
            Interrupts(locks_to_place[c][k], t, at[t].last, at[t].x.state, y)

\* The printed program does nothing that the locks of the synthesis forbid, on the ways
\* that blow_up_trace restores and that close no loop.
NothingForbidden == status = "running" => \A t \in Thread : Forbidden(t) => at[t].looped

\* The same for lists that go round a loop.
NothingForbiddenInLoops == status = "running" => \A t \in Thread : ~Forbidden(t)
=============================================================================
