------------------------ MODULE LockPlacementProofs ------------------------
(***************************************************************************)
(* What a placement of locks guarantees for every program, any number of   *)
(* threads and any number of locks: the constraints that the solver is     *)
(* given are enough for the locks held to be as planned, for the printed   *)
(* locks to cause no deadlock, and for none to be held at the end.         *)
(***************************************************************************)
EXTENDS LockPlacement, TLAPS, WellFoundedInduction

WellFormed ==
  /\ \A t \in Thread : UsableGraph(threads[t])
  /\ locks_to_place \in Seq(Seq(Seq(Seq(location))))

\* What find_locks leaves.
Placed ==
  /\ placement \in placements
  /\ add_constraints(placement)
  /\ to_place = printed(placement)

thread_state ==
  [x : location, phase : position_type, todo : SUBSET lock_entry, last : Nat,
   via : SUBSET Nat, looped : BOOLEAN, meanwhile : SUBSET location]

\* What the solver promises of lock l once the locks at the place of a are executed.
Planned(a, l) ==
  IF a.phase = "before" THEN <<a.x, l>> \in placement.inl ELSE inle(placement, a.x, l)

\* Thread t in state a, with owners o of the locks: the locks that it is about to take are
\* free for it, it holds those it is about to release, and it has the others if planned.
AsPlanned(t, a, o) ==
  /\ a.x \in LocationsOf(t)
  /\ a.todo \subseteq PrintedAt(to_place, a.x, a.phase)
  /\ \A e \in a.todo :
       /\ e.lock_t = "lock" => \A lb \in free_for(e.lock) : o[lb] # t
       /\ e.lock_t = "unlock" => o[e.lock] = t
  /\ \A l \in Locks : (\A e \in a.todo : e.lock # l) => (o[l] = t <=> Planned(a, l))

\* The type invariant of the printed program, and the above for all its threads.
Running ==
  /\ owner \in [Locks -> Thread \cup {no_thread}]
  /\ at \in [Thread -> thread_state]
  /\ \A t \in Thread : AsPlanned(t, at[t], owner)

PInv ==
  /\ WellFormed
  /\ status \in {"placed", "running"} => Placed
  /\ status = "running" => Running

\* What a thread has executed since its last instruction, that one included, is all
\* planned to hold lock l, and closed no loop.
Covered(t, a, l) ==
  /\ a.last # no_state /\ ~a.looped
  /\ \A s \in {a.last} \cup a.via : <<[thread |-> t, state |-> s], l>> \in placement.inl

\* The thread is at, or came along a forward edge from, one of the states it executed.
CameFrom(t, a) ==
  a.last # no_state /\ ~a.looped =>
    \/ a.phase = "after" /\ a.x.state \in {a.last} \cup a.via
    \/ /\ a.phase = "before"
       /\ \E s \in {a.last} \cup a.via : [thread |-> t, state |-> s] \in ForwardPredecessors(a.x)

\* Where another thread has executed under lock l since, the lock has been given up, and
\* will not be held at the place where the thread is.
GaveUp(t, a) ==
  \A l \in Locks :
    Covered(t, a, l) /\ (\E y \in a.meanwhile : <<y, l>> \in placement.inl) => ~Planned(a, l)

SectionInv == status = "running" => \A t \in Thread : CameFrom(t, at[t]) /\ GaveUp(t, at[t])

----------------------------------------------------------------------------
(* Locations and locks *)

LEMMA LocksAreNumbers == ASSUME WellFormed PROVE Locks \subseteq Nat /\ max_locks \in Int
<1>1. Len(locks_to_place) \in Nat
  BY DEF WellFormed
<1> QED
  BY <1>1, PlacementAssumption DEF Locks, max_locks

LEMMA ThreadsAreNumbers == no_thread \notin Thread
BY SymbolsAssumption DEF no_thread

\* A location is a state of a thread, and its predecessors are locations of that thread.
LEMMA LocationFacts ==
  ASSUME WellFormed, NEW t \in Thread, NEW x \in LocationsOf(t)
  PROVE  /\ x \in Locations /\ x \in location /\ x.thread = t
         /\ x.state \in States(threads[t])
         /\ StateAt(x) \in cfg_state
         /\ ForwardPredecessors(x) \subseteq Predecessors(x)
         /\ Predecessors(x) \subseteq LocationsOf(t)
<1>1. UsableGraph(threads[t])
  BY DEF WellFormed
<1>2. PICK s \in States(threads[t]) : x = [thread |-> t, state |-> s]
  BY DEF LocationsOf
<1>3. threads[t] \in Seq(cfg_state)
  BY <1>1 DEF UsableGraph
<1>4. States(threads[t]) \subseteq Nat
  BY <1>3 DEF States
<1>5. x.thread = t /\ x.state = s
  BY <1>2
<1>6. StateAt(x) \in cfg_state
  BY <1>3, <1>5 DEF StateAt, States
<1>7. x \in Locations
  BY DEF Locations
<1>8. x \in location
  BY <1>2, <1>4 DEF location
<1>9. ForwardPredecessors(x) \subseteq Predecessors(x)
  BY DEF ForwardPredecessors, Predecessors, With, predecessors_forward, predecessors, get_successors
<1>10. Predecessors(x) \subseteq LocationsOf(t)
  BY <1>5 DEF Predecessors, With, predecessors, LocationsOf
<1> QED
  BY <1>5, <1>6, <1>7, <1>8, <1>9, <1>10

LEMMA LocationOfThread ==
  ASSUME NEW x \in Locations PROVE x.thread \in Thread /\ x \in LocationsOf(x.thread)
BY DEF Locations, LocationsOf

----------------------------------------------------------------------------
(* What is printed at a location *)

\* The constraints at one location for one lock.
LEMMA Constraints ==
  ASSUME Placed, NEW x \in Locations, NEW l \in Locks
  PROVE  /\ inl_def(placement, x, l) /\ cons_loc(placement, x, l) /\ cons_basic(placement, x, l)
         /\ cons_join(placement, x, l) /\ cons_unl(placement, x, l)
         /\ cons_functions(placement, x, l) /\ cons_preemption(placement, x, l)
         /\ cons_lockorder(placement, x, l) /\ cons_sameinstr(placement, x, l)
BY DEF Placed, add_constraints, lock_consistancy

\* The entries printed before a location are the locks and unlocks of the placement there.
LEMMA PrintedBefore ==
  ASSUME WellFormed, Placed, NEW x \in Locations
  PROVE  /\ \A e \in PrintedAt(to_place, x, "before") :
              /\ e \in lock_entry /\ e.lock \in Locks
              /\ e.lock_t = "lock" => <<x, e.lock>> \in placement.lock_b
              /\ e.lock_t = "unlock" => <<x, e.lock>> \in placement.unlock_b
         /\ \A l \in Locks :
              /\ <<x, l>> \in placement.lock_b =>
                   \E e \in PrintedAt(to_place, x, "before") : e.lock = l
              /\ <<x, l>> \in placement.unlock_b =>
                   \E e \in PrintedAt(to_place, x, "before") : e.lock = l
<1>1. /\ placement.lock_b \subseteq Locations \X Locks /\ placement.unlock_b \subseteq Locations \X Locks
      /\ to_place = printed(placement)
  BY DEF Placed, placements
<1>2. \A y \in Locations : StateAt(y).lock_before \in Nat
  BY LocationFacts, LocationOfThread DEF cfg_state
<1>3. \A e \in PrintedAt(to_place, x, "before") :
         /\ e.position = "before" /\ e.loc = StateAt(x).lock_before
         /\ \/ \E y \in placement.lock_b :
                 e = [lock |-> y[2], lock_t |-> "lock", position |-> "before",
                      loc |-> StateAt(y[1]).lock_before]
            \/ \E y \in placement.unlock_b :
                 e = [lock |-> y[2], lock_t |-> "unlock", position |-> "before",
                      loc |-> StateAt(y[1]).lock_before]
  BY <1>1 DEF PrintedAt, printed, result_to_locklist
<1>4. ASSUME NEW e \in PrintedAt(to_place, x, "before")
      PROVE  /\ e \in lock_entry /\ e.lock \in Locks
             /\ e.lock_t = "lock" => <<x, e.lock>> \in placement.lock_b
             /\ e.lock_t = "unlock" => <<x, e.lock>> \in placement.unlock_b
  <2>1. CASE \E y \in placement.lock_b :
                 e = [lock |-> y[2], lock_t |-> "lock", position |-> "before",
                      loc |-> StateAt(y[1]).lock_before]
    <3>1. PICK y \in placement.lock_b :
                 e = [lock |-> y[2], lock_t |-> "lock", position |-> "before",
                      loc |-> StateAt(y[1]).lock_before]
      BY <2>1
    <3>2. y[1] \in Locations /\ y[2] \in Locks /\ y = <<y[1], y[2]>>
      BY <1>1
    <3>3. StateAt(y[1]).lock_before = StateAt(x).lock_before
      BY <1>3, <3>1
    <3>4. StateAt(y[1]).lock_before # NoLocation
      BY <3>2, Constraints DEF cons_loc
    <3>5. <<x, y[2]>> \in placement.lock_b
      BY <3>2, <3>3, <3>4, Constraints DEF cons_sameinstr
    <3> QED
      BY <1>2, <3>1, <3>2, <3>5, LocksAreNumbers DEF lock_entry, lock_type, position_type
  <2>2. CASE \E y \in placement.unlock_b :
                 e = [lock |-> y[2], lock_t |-> "unlock", position |-> "before",
                      loc |-> StateAt(y[1]).lock_before]
    <3>1. PICK y \in placement.unlock_b :
                 e = [lock |-> y[2], lock_t |-> "unlock", position |-> "before",
                      loc |-> StateAt(y[1]).lock_before]
      BY <2>2
    <3>2. y[1] \in Locations /\ y[2] \in Locks /\ y = <<y[1], y[2]>>
      BY <1>1
    <3>3. StateAt(y[1]).lock_before = StateAt(x).lock_before
      BY <1>3, <3>1
    <3>4. StateAt(y[1]).lock_before # NoLocation
      BY <3>2, Constraints DEF cons_loc
    <3>5. <<x, y[2]>> \in placement.unlock_b
      BY <3>2, <3>3, <3>4, Constraints DEF cons_sameinstr
    <3> QED
      BY <1>2, <3>1, <3>2, <3>5, LocksAreNumbers DEF lock_entry, lock_type, position_type
  <2> QED
    BY <1>3, <2>1, <2>2
<1>5. ASSUME NEW l \in Locks, <<x, l>> \in placement.lock_b
      PROVE  \E e \in PrintedAt(to_place, x, "before") : e.lock = l
  <2> DEFINE e == [lock |-> l, lock_t |-> "lock", position |-> "before",
                   loc |-> StateAt(x).lock_before]
  <2>0. \E y \in placement.lock_b :
          e = [lock |-> y[2], lock_t |-> "lock", position |-> "before",
               loc |-> StateAt(y[1]).lock_before]
    BY <1>5
  <2>1. e \in to_place
    BY <1>1, <2>0 DEF printed, result_to_locklist
  <2>2. e \in PrintedAt(to_place, x, "before") /\ e.lock = l
    BY <2>1 DEF PrintedAt
  <2> QED
    BY <2>2
<1>6. ASSUME NEW l \in Locks, <<x, l>> \in placement.unlock_b
      PROVE  \E e \in PrintedAt(to_place, x, "before") : e.lock = l
  <2> DEFINE e == [lock |-> l, lock_t |-> "unlock", position |-> "before",
                   loc |-> StateAt(x).lock_before]
  <2>0. \E y \in placement.unlock_b :
          e = [lock |-> y[2], lock_t |-> "unlock", position |-> "before",
               loc |-> StateAt(y[1]).lock_before]
    BY <1>6
  <2>1. e \in to_place
    BY <1>1, <2>0 DEF printed, result_to_locklist
  <2>2. e \in PrintedAt(to_place, x, "before") /\ e.lock = l
    BY <2>1 DEF PrintedAt
  <2> QED
    BY <2>2
<1> QED
  BY <1>4, <1>5, <1>6

\* The entries printed after a location are the locks and unlocks of the placement there.
LEMMA PrintedAfter ==
  ASSUME WellFormed, Placed, NEW x \in Locations
  PROVE  /\ \A e \in PrintedAt(to_place, x, "after") :
              /\ e \in lock_entry /\ e.lock \in Locks
              /\ e.lock_t = "lock" => <<x, e.lock>> \in placement.lock_a
              /\ e.lock_t = "unlock" => <<x, e.lock>> \in placement.unlock_a
         /\ \A l \in Locks :
              /\ <<x, l>> \in placement.lock_a =>
                   \E e \in PrintedAt(to_place, x, "after") : e.lock = l
              /\ <<x, l>> \in placement.unlock_a =>
                   \E e \in PrintedAt(to_place, x, "after") : e.lock = l
<1>1. /\ placement.lock_a \subseteq Locations \X Locks /\ placement.unlock_a \subseteq Locations \X Locks
      /\ to_place = printed(placement)
  BY DEF Placed, placements
<1>2. \A y \in Locations : StateAt(y).lock_after \in Nat
  BY LocationFacts, LocationOfThread DEF cfg_state
<1>3. \A e \in PrintedAt(to_place, x, "after") :
         /\ e.position = "after" /\ e.loc = StateAt(x).lock_after
         /\ \/ \E y \in placement.lock_a :
                 e = [lock |-> y[2], lock_t |-> "lock", position |-> "after",
                      loc |-> StateAt(y[1]).lock_after]
            \/ \E y \in placement.unlock_a :
                 e = [lock |-> y[2], lock_t |-> "unlock", position |-> "after",
                      loc |-> StateAt(y[1]).lock_after]
  BY <1>1 DEF PrintedAt, printed, result_to_locklist
<1>4. ASSUME NEW e \in PrintedAt(to_place, x, "after")
      PROVE  /\ e \in lock_entry /\ e.lock \in Locks
             /\ e.lock_t = "lock" => <<x, e.lock>> \in placement.lock_a
             /\ e.lock_t = "unlock" => <<x, e.lock>> \in placement.unlock_a
  <2>1. CASE \E y \in placement.lock_a :
                 e = [lock |-> y[2], lock_t |-> "lock", position |-> "after",
                      loc |-> StateAt(y[1]).lock_after]
    <3>1. PICK y \in placement.lock_a :
                 e = [lock |-> y[2], lock_t |-> "lock", position |-> "after",
                      loc |-> StateAt(y[1]).lock_after]
      BY <2>1
    <3>2. y[1] \in Locations /\ y[2] \in Locks /\ y = <<y[1], y[2]>>
      BY <1>1
    <3>3. StateAt(y[1]).lock_after = StateAt(x).lock_after
      BY <1>3, <3>1
    <3>4. StateAt(y[1]).lock_after # NoLocation
      BY <3>2, Constraints DEF cons_loc
    <3>5. <<x, y[2]>> \in placement.lock_a
      BY <3>2, <3>3, <3>4, Constraints DEF cons_sameinstr
    <3> QED
      BY <1>2, <3>1, <3>2, <3>5, LocksAreNumbers DEF lock_entry, lock_type, position_type
  <2>2. CASE \E y \in placement.unlock_a :
                 e = [lock |-> y[2], lock_t |-> "unlock", position |-> "after",
                      loc |-> StateAt(y[1]).lock_after]
    <3>1. PICK y \in placement.unlock_a :
                 e = [lock |-> y[2], lock_t |-> "unlock", position |-> "after",
                      loc |-> StateAt(y[1]).lock_after]
      BY <2>2
    <3>2. y[1] \in Locations /\ y[2] \in Locks /\ y = <<y[1], y[2]>>
      BY <1>1
    <3>3. StateAt(y[1]).lock_after = StateAt(x).lock_after
      BY <1>3, <3>1
    <3>4. StateAt(y[1]).lock_after # NoLocation
      BY <3>2, Constraints DEF cons_loc
    <3>5. <<x, y[2]>> \in placement.unlock_a
      BY <3>2, <3>3, <3>4, Constraints DEF cons_sameinstr
    <3> QED
      BY <1>2, <3>1, <3>2, <3>5, LocksAreNumbers DEF lock_entry, lock_type, position_type
  <2> QED
    BY <1>3, <2>1, <2>2
<1>5. ASSUME NEW l \in Locks, <<x, l>> \in placement.lock_a
      PROVE  \E e \in PrintedAt(to_place, x, "after") : e.lock = l
  <2> DEFINE e == [lock |-> l, lock_t |-> "lock", position |-> "after",
                   loc |-> StateAt(x).lock_after]
  <2>0. \E y \in placement.lock_a :
          e = [lock |-> y[2], lock_t |-> "lock", position |-> "after",
               loc |-> StateAt(y[1]).lock_after]
    BY <1>5
  <2>1. e \in to_place
    BY <1>1, <2>0 DEF printed, result_to_locklist
  <2>2. e \in PrintedAt(to_place, x, "after") /\ e.lock = l
    BY <2>1 DEF PrintedAt
  <2> QED
    BY <2>2
<1>6. ASSUME NEW l \in Locks, <<x, l>> \in placement.unlock_a
      PROVE  \E e \in PrintedAt(to_place, x, "after") : e.lock = l
  <2> DEFINE e == [lock |-> l, lock_t |-> "unlock", position |-> "after",
                   loc |-> StateAt(x).lock_after]
  <2>0. \E y \in placement.unlock_a :
          e = [lock |-> y[2], lock_t |-> "unlock", position |-> "after",
               loc |-> StateAt(y[1]).lock_after]
    BY <1>6
  <2>1. e \in to_place
    BY <1>1, <2>0 DEF printed, result_to_locklist
  <2>2. e \in PrintedAt(to_place, x, "after") /\ e.lock = l
    BY <2>1 DEF PrintedAt
  <2> QED
    BY <2>2
<1> QED
  BY <1>4, <1>5, <1>6

\* A lock is printed at most once at a place.
LEMMA PrintedOnce ==
  ASSUME WellFormed, Placed, NEW x \in Locations, NEW p \in position_type,
         NEW e \in PrintedAt(to_place, x, p), NEW f \in PrintedAt(to_place, x, p),
         e.lock = f.lock
  PROVE  e = f
<1>1. e \in lock_entry /\ f \in lock_entry /\ e.lock \in Locks
  BY PrintedBefore, PrintedAfter DEF position_type
<1>2. e.position = f.position /\ e.loc = f.loc
  BY DEF PrintedAt
<1>3. e.lock_t = f.lock_t
  <2>1. cons_basic(placement, x, e.lock)
    BY <1>1, Constraints
  <2> QED
    BY <1>1, <2>1, PrintedBefore, PrintedAfter DEF position_type, cons_basic, lock_entry, lock_type
<1> QED
  BY <1>1, <1>2, <1>3 DEF lock_entry

\* The lock is held as planned once an entry of it is executed.
LEMMA PrintedAsPlanned ==
  ASSUME WellFormed, Placed, NEW a \in thread_state, a.x \in Locations,
         NEW e \in PrintedAt(to_place, a.x, a.phase)
  PROVE  Planned(a, e.lock) <=> e.lock_t = "lock"
<1>1. a.phase \in position_type
  BY DEF thread_state
<1>2. e \in lock_entry /\ e.lock \in Locks
  BY <1>1, PrintedBefore, PrintedAfter DEF position_type
<1>3. inl_def(placement, a.x, e.lock) /\ cons_basic(placement, a.x, e.lock)
  BY <1>2, Constraints
<1>4. CASE a.phase = "before"
  BY <1>2, <1>3, <1>4, PrintedBefore DEF Planned, inl_def, cons_basic, lock_entry, lock_type
<1>5. CASE a.phase = "after"
  BY <1>2, <1>3, <1>5, PrintedAfter DEF Planned, inle, cons_basic, lock_entry, lock_type
<1> QED
  BY <1>1, <1>4, <1>5 DEF position_type

\* What the constraints say of a location x that is entered from q.
LEMMA EnteredFrom ==
  ASSUME WellFormed, Placed, NEW x \in Locations, ForwardPredecessors(x) # {},
         NEW q \in Predecessors(x), NEW l \in Locks
  PROVE  /\ <<x, l>> \in placement.inl <=>
              \/ <<x, l>> \in placement.lock_b
              \/ <<x, l>> \notin placement.unlock_b /\ inle(placement, q, l)
         /\ <<x, l>> \in placement.lock_b => \A lb \in free_for(l) : ~inle(placement, q, lb)
         /\ <<x, l>> \in placement.unlock_b => inle(placement, q, l)
<1> DEFINE f == CHOOSE f \in ForwardPredecessors(x) : TRUE
<1>1. f \in ForwardPredecessors(x) /\ f \in Predecessors(x)
  BY LocationOfThread, LocationFacts
<1>2. \A lb \in Locks : inle(placement, f, lb) <=> inle(placement, q, lb)
  BY <1>1, Constraints DEF cons_join
<1>3. inl_def(placement, x, l) /\ cons_unl(placement, x, l) /\ cons_lockorder(placement, x, l)
  BY Constraints
<1> HIDE DEF f
<1>4. <<x, l>> \in placement.inl <=>
        \/ <<x, l>> \in placement.lock_b
        \/ <<x, l>> \notin placement.unlock_b /\ inle(placement, q, l)
  BY <1>2, <1>3 DEF inl_def, f
<1>5. ASSUME <<x, l>> \in placement.lock_b, NEW lb \in free_for(l)
      PROVE  ~inle(placement, q, lb)
  <2>1. lb \in Locks
    BY DEF free_for
  <2>2. <<f, lb>> \notin placement.inl /\ <<f, lb>> \notin placement.lock_a
    BY <1>1, <1>3, <1>5 DEF cons_lockorder, Visited
  <2> QED
    BY <1>2, <2>1, <2>2 DEF inle
<1>6. <<x, l>> \in placement.unlock_b => inle(placement, q, l)
  <2>1. <<x, l>> \in placement.unlock_b => <<f, l>> \in placement.inl /\ <<f, l>> \notin placement.unlock_a
    BY <1>1, <1>3 DEF cons_unl, Visited
  <2> QED
    BY <1>2, <2>1 DEF inle
<1> QED
  BY <1>4, <1>5, <1>6

----------------------------------------------------------------------------
(* The printed program *)

\* The program, its locks and what is printed stay the same while it runs.
LEMMA SameProgram ==
  ASSUME UNCHANGED <<problem, solution>>,
         owner' \in [Locks -> Thread \cup {no_thread}], at' \in [Thread -> thread_state],
         \A t \in Thread : AsPlanned(t, at'[t], owner')
  PROVE  Running'
<1>1. /\ threads' = threads /\ locks_to_place' = locks_to_place
      /\ placement' = placement /\ to_place' = to_place
  BY DEF problem, solution
<1>2. max_locks' = max_locks /\ Locks' = Locks
  BY <1>1 DEF Locks, max_locks
<1>3. ASSUME NEW t \in Thread PROVE AsPlanned(t, at[t], owner)'
  <2>1. AsPlanned(t, at'[t], owner')
    BY <1>3
  <2>2. \A l : free_for(l)' = free_for(l)
    BY <1>2 DEF free_for
  <2>3. LocationsOf(t)' = LocationsOf(t)
    BY <1>1 DEF LocationsOf
  <2>4. PrintedAt(to_place, at[t].x, at[t].phase)' = PrintedAt(to_place', at'[t].x, at'[t].phase)
    BY <1>1 DEF PrintedAt, StateAt
  <2>5. \A l : Planned(at[t], l)' <=> Planned(at'[t], l)
    BY <1>1 DEF Planned, inle
  <2> QED
    BY <1>1, <1>2, <2>1, <2>2, <2>3, <2>4, <2>5 DEF AsPlanned
<1> QED
  BY <1>2, <1>3 DEF Running, thread_state

\* Executing a printed lock or unlock, with the ones of higher locks executed before.
LEMMA ExecuteLockKeepsPlan ==
  ASSUME WellFormed, Placed, Running, NEW t \in Thread, ExecuteLock(t) PROVE Running'
<1>1. PICK e \in FirstPrinted(at[t].todo) :
        /\ e.lock_t = "lock" => owner[e.lock] = no_thread
        /\ owner' = [owner EXCEPT ![e.lock] = IF e.lock_t = "lock" THEN t ELSE no_thread]
        /\ at' = [at EXCEPT ![t].todo = @ \ {e}]
  BY DEF ExecuteLock
<1>2. /\ owner \in [Locks -> Thread \cup {no_thread}] /\ at \in [Thread -> thread_state]
      /\ \A u \in Thread : AsPlanned(u, at[u], owner)
  BY DEF Running
<1> DEFINE a == at[t]
<1>3. /\ a \in thread_state /\ a.x \in Locations /\ a.phase \in position_type
      /\ e \in a.todo /\ a.todo \subseteq PrintedAt(to_place, a.x, a.phase)
      /\ \A f \in a.todo : f.lock <= e.lock
  BY <1>1, <1>2, LocationFacts DEF AsPlanned, FirstPrinted, thread_state
<1>4. \A f \in a.todo : f \in lock_entry /\ f.lock \in Locks /\ f.lock \in Nat
  BY <1>3, PrintedBefore, PrintedAfter, LocksAreNumbers DEF position_type
<1>5. e.lock_t = "lock" \/ e.lock_t = "unlock"
  BY <1>3, <1>4 DEF lock_entry, lock_type
<1>6. \A f \in a.todo \ {e} : f.lock < e.lock
  <2> SUFFICES ASSUME NEW f \in a.todo \ {e} PROVE f.lock < e.lock
    OBVIOUS
  <2>1. f.lock # e.lock
    BY <1>3, PrintedOnce
  <2> QED
    BY <1>3, <1>4, <2>1
<1>7. owner' \in [Locks -> Thread \cup {no_thread}]
  BY <1>1, <1>2
<1>8. at'[t] = [a EXCEPT !.todo = a.todo \ {e}] /\ \A u \in Thread \ {t} : at'[u] = at[u]
  BY <1>1, <1>2
<1>9. at' \in [Thread -> thread_state]
  BY <1>1, <1>2 DEF thread_state
<1>10. \A l \in Locks : l # e.lock => owner'[l] = owner[l]
  BY <1>1, <1>2
<1>11. owner'[e.lock] = IF e.lock_t = "lock" THEN t ELSE no_thread
  BY <1>1, <1>2, <1>3, <1>4
<1>12. AsPlanned(t, at'[t], owner')
  <2>1. AsPlanned(t, a, owner)
    BY <1>2
  <2>2. at'[t].x = a.x /\ at'[t].phase = a.phase /\ at'[t].todo = a.todo \ {e}
    BY <1>3, <1>8 DEF thread_state
  <2>3. ASSUME NEW f \in a.todo \ {e}
        PROVE  /\ f.lock_t = "lock" => \A lb \in free_for(f.lock) : owner'[lb] # t
               /\ f.lock_t = "unlock" => owner'[f.lock] = t
    <3>1. f.lock < e.lock /\ f.lock \in Locks
      BY <1>4, <1>6
    <3>2. \A lb \in free_for(f.lock) : lb \in Locks /\ lb # e.lock
      BY <1>3, <1>4, <3>1, LocksAreNumbers DEF free_for
    <3>3. /\ f.lock_t = "lock" => \A lb \in free_for(f.lock) : owner[lb] # t
          /\ f.lock_t = "unlock" => owner[f.lock] = t
      BY <2>1 DEF AsPlanned
    <3>4. f.lock # e.lock
      BY <1>3, <1>4, <3>1
    <3> QED
      BY <1>10, <3>1, <3>2, <3>3, <3>4
  <2>4. ASSUME NEW l \in Locks, \A f \in a.todo \ {e} : f.lock # l
        PROVE  owner'[l] = t <=> Planned(a, l)
    <3>1. CASE l = e.lock
      <4>1. Planned(a, l) <=> e.lock_t = "lock"
        BY <1>3, <3>1, PrintedAsPlanned
      <4> QED
        BY <1>11, <3>1, <4>1, ThreadsAreNumbers
    <3>2. CASE l # e.lock
      <4>1. \A f \in a.todo : f.lock # l
        BY <2>4, <3>2
      <4> QED
        BY <1>10, <2>1, <3>2, <4>1 DEF AsPlanned
    <3> QED
      BY <3>1, <3>2
  <2>5. \A l : Planned(at'[t], l) <=> Planned(a, l)
    BY <2>2 DEF Planned
  <2> QED
    BY <2>1, <2>2, <2>3, <2>4, <2>5 DEF AsPlanned
<1>13. ASSUME NEW u \in Thread \ {t} PROVE AsPlanned(u, at'[u], owner')
  <2>1. AsPlanned(u, at[u], owner) /\ at'[u] = at[u]
    BY <1>2, <1>8
  <2>2. e.lock_t = "unlock" => owner[e.lock] = t
    BY <1>2, <1>3 DEF AsPlanned
  <2>3. \A l \in Locks : owner'[l] = u <=> owner[l] = u
    BY <1>1, <1>5, <1>10, <1>11, <2>2, ThreadsAreNumbers
  <2>4. at[u].x \in Locations /\ at[u].phase \in position_type
    BY <1>2, <2>1, LocationFacts DEF AsPlanned, thread_state
  <2>5. \A f \in at[u].todo : f.lock \in Locks
    BY <2>1, <2>4, PrintedBefore, PrintedAfter DEF AsPlanned, position_type
  <2>6. \A f \in at[u].todo : \A lb \in free_for(f.lock) : lb \in Locks
    BY DEF free_for
  <2> QED
    BY <2>1, <2>3, <2>5, <2>6 DEF AsPlanned
<1>14. UNCHANGED <<problem, solution>>
  BY DEF ExecuteLock
<1> QED
  BY <1>7, <1>9, <1>12, <1>13, <1>14, SameProgram

\* From the locks printed before an instruction to those printed after it.
LEMMA ExecuteKeepsPlan ==
  ASSUME WellFormed, Placed, Running, NEW t \in Thread, Execute(t) PROVE Running'
<1> DEFINE a == at[t]  x == a.x
<1>1. /\ owner \in [Locks -> Thread \cup {no_thread}] /\ at \in [Thread -> thread_state]
      /\ \A u \in Thread : AsPlanned(u, at[u], owner)
  BY DEF Running
<1>2. /\ a.phase = "before" /\ a.todo = {} /\ owner' = owner
      /\ UNCHANGED <<problem, solution>>
      /\ at' = [u \in Thread |->
           CASE u = t -> [at[t] EXCEPT !.phase = "after", !.todo = PrintedAt(to_place, x, "after"),
                                       !.last = IF IsInstruction(x) THEN x.state ELSE @,
                                       !.via = IF IsInstruction(x) THEN {} ELSE @ \cup {x.state},
                                       !.looped = @ /\ ~IsInstruction(x),
                                       !.meanwhile = IF IsInstruction(x) THEN {} ELSE @]
             [] u # t -> [at[u] EXCEPT !.meanwhile = IF IsInstruction(x) THEN @ \cup {x} ELSE @]]
  BY DEF Execute
<1>3. x \in LocationsOf(t) /\ x \in Locations /\ x \in location /\ x.state \in Nat
  BY <1>1, LocationFacts DEF AsPlanned, location
<1>4. PrintedAt(to_place, x, "after") \subseteq lock_entry
  BY <1>3, PrintedAfter
<1>5. /\ at'[t].x = x /\ at'[t].phase = "after" /\ at'[t].todo = PrintedAt(to_place, x, "after")
      /\ at'[t] \in thread_state
  <2>1. at[t] \in thread_state
    BY <1>1
  <2>2. IsInstruction(x) \in BOOLEAN
    BY DEF IsInstruction, HasAction
  <2>3. at'[t] = [at[t] EXCEPT !.phase = "after", !.todo = PrintedAt(to_place, x, "after"),
                               !.last = IF IsInstruction(x) THEN x.state ELSE @,
                               !.via = IF IsInstruction(x) THEN {} ELSE @ \cup {x.state},
                               !.looped = @ /\ ~IsInstruction(x),
                               !.meanwhile = IF IsInstruction(x) THEN {} ELSE @]
    BY <1>2
  <2> DEFINE looped == a.looped /\ ~IsInstruction(x)
  <2>4. looped \in BOOLEAN
    OBVIOUS
  <2>5. at'[t] = [a EXCEPT !.phase = "after", !.todo = PrintedAt(to_place, x, "after"),
                           !.last = IF IsInstruction(x) THEN x.state ELSE a.last,
                           !.via = IF IsInstruction(x) THEN {} ELSE a.via \cup {x.state},
                           !.looped = looped,
                           !.meanwhile = IF IsInstruction(x) THEN {} ELSE a.meanwhile]
    BY <2>3, Zenon
  <2>6. /\ a.last \in Nat /\ a.via \subseteq Nat /\ a.meanwhile \subseteq location
    BY <2>1 DEF thread_state
  <2>7. /\ (IF IsInstruction(x) THEN x.state ELSE a.last) \in Nat
        /\ (IF IsInstruction(x) THEN {} ELSE a.via \cup {x.state}) \in SUBSET Nat
        /\ (IF IsInstruction(x) THEN {} ELSE a.meanwhile) \in SUBSET location
    BY <1>3, <2>6
  <2> DEFINE last == IF IsInstruction(x) THEN x.state ELSE a.last
             via == IF IsInstruction(x) THEN {} ELSE a.via \cup {x.state}
             meanwhile == IF IsInstruction(x) THEN {} ELSE a.meanwhile
             todo == PrintedAt(to_place, x, "after")
  <2>8. at'[t] = [a EXCEPT !.phase = "after", !.todo = todo, !.last = last, !.via = via,
                           !.looped = looped, !.meanwhile = meanwhile]
    BY <2>5
  <2>9. last \in Nat /\ via \in SUBSET Nat /\ meanwhile \in SUBSET location /\ todo \in SUBSET lock_entry
    BY <1>4, <2>7
  <2> HIDE DEF looped, x, last, via, meanwhile, todo
  <2>10. /\ at'[t].x = a.x /\ at'[t].phase = "after" /\ at'[t].todo = todo
         /\ at'[t] \in thread_state
    BY <2>1, <2>4, <2>8, <2>9 DEF thread_state, position_type
  <2> QED
    BY <2>10 DEF x, todo
<1>6. ASSUME NEW u \in Thread \ {t}
      PROVE  /\ at'[u].x = at[u].x /\ at'[u].phase = at[u].phase /\ at'[u].todo = at[u].todo
             /\ at'[u] \in thread_state
  <2>1. at[u] \in thread_state
    BY <1>1
  <2>2. at'[u] = [at[u] EXCEPT !.meanwhile = IF IsInstruction(x) THEN @ \cup {x} ELSE @]
    BY <1>2
  <2> QED
    BY <1>3, <2>1, <2>2 DEF thread_state
<1>7. at' \in [Thread -> thread_state]
  <2>1. \A u \in Thread : at'[u] \in thread_state
    BY <1>5, <1>6
  <2> HIDE DEF a
  <2> QED
    BY <1>2, <2>1
<1>8. AsPlanned(t, at'[t], owner')
  <2>1. \A l \in Locks : owner[l] = t <=> <<x, l>> \in placement.inl
    BY <1>1, <1>2 DEF AsPlanned, Planned
  <2>2. ASSUME NEW e \in PrintedAt(to_place, x, "after")
        PROVE  /\ e.lock_t = "lock" => \A lb \in free_for(e.lock) : owner[lb] # t
               /\ e.lock_t = "unlock" => owner[e.lock] = t
    <3>1. e.lock \in Locks
      BY <1>3, PrintedAfter
    <3>2. cons_lockorder(placement, x, e.lock) /\ cons_unl(placement, x, e.lock)
      BY <1>3, <3>1, Constraints
    <3>3. e.lock_t = "lock" => \A lb \in free_for(e.lock) : <<x, lb>> \notin placement.inl
      BY <1>3, <3>2, PrintedAfter DEF cons_lockorder
    <3>4. e.lock_t = "unlock" => <<x, e.lock>> \in placement.inl
      BY <1>3, <3>2, PrintedAfter DEF cons_unl
    <3>5. \A lb \in free_for(e.lock) : lb \in Locks
      BY DEF free_for
    <3> QED
      BY <2>1, <3>1, <3>3, <3>4, <3>5
  <2>3. ASSUME NEW l \in Locks, \A e \in PrintedAt(to_place, x, "after") : e.lock # l
        PROVE  owner[l] = t <=> inle(placement, x, l)
    <3>1. <<x, l>> \notin placement.lock_a /\ <<x, l>> \notin placement.unlock_a
      BY <1>3, <2>3, PrintedAfter
    <3> QED
      BY <2>1, <3>1 DEF inle
  <2>4. at'[t].x \in LocationsOf(t) /\ at'[t].todo \subseteq PrintedAt(to_place, x, "after")
    BY <1>3, <1>5
  <2>5. \A e \in at'[t].todo :
          /\ e.lock_t = "lock" => \A lb \in free_for(e.lock) : owner[lb] # t
          /\ e.lock_t = "unlock" => owner[e.lock] = t
    BY <1>5, <2>2
  <2>6. \A l \in Locks : (\A e \in at'[t].todo : e.lock # l) => (owner[l] = t <=> Planned(at'[t], l))
    BY <1>5, <2>3 DEF Planned
  <2> HIDE DEF x
  <2> QED
    BY <1>2, <1>5, <2>4, <2>5, <2>6 DEF AsPlanned
<1>9. ASSUME NEW u \in Thread \ {t} PROVE AsPlanned(u, at'[u], owner')
  BY <1>1, <1>2, <1>6 DEF AsPlanned, Planned
<1> QED
  BY <1>1, <1>2, <1>7, <1>8, <1>9, SameProgram

\* To the locks printed before the next location.
LEMMA FollowKeepsPlan ==
  ASSUME WellFormed, Placed, Running, NEW t \in Thread, Follow(t) PROVE Running'
<1> DEFINE a == at[t]  x == a.x
<1>1. /\ owner \in [Locks -> Thread \cup {no_thread}] /\ at \in [Thread -> thread_state]
      /\ \A u \in Thread : AsPlanned(u, at[u], owner)
  BY DEF Running
<1>2. /\ a.phase = "after" /\ a.todo = {} /\ owner' = owner
      /\ UNCHANGED <<problem, solution>>
  BY DEF Follow
<1>3. PICK e \in EdgesOf(threads[t], x.state) :
        at' = [at EXCEPT ![t] =
                 Entering([x EXCEPT !.state = e.to], [a EXCEPT !.looped = a.looped \/ e.back_edge])]
  BY Zenon DEF Follow
<1>4. x \in LocationsOf(t) /\ x \in Locations /\ x \in location /\ x.thread = t
  BY <1>1, LocationFacts DEF AsPlanned
<1> DEFINE y == [x EXCEPT !.state = e.to]
<1>5. y = [thread |-> t, state |-> e.to] /\ y.state = e.to /\ y.thread = t
  BY <1>4 DEF location
<1>6. /\ y \in LocationsOf(t) /\ y \in Locations /\ y \in location
      /\ x \in Predecessors(y) /\ ForwardPredecessors(y) # {}
  <2>1. UsableGraph(threads[t]) /\ x.state \in States(threads[t])
    BY <1>4, LocationFacts DEF WellFormed
  <2>2. e.to \in get_successors(threads[t], x.state)
    BY <1>3 DEF get_successors
  <2>3. e.to \in States(threads[t]) /\ predecessors_forward(threads[t], e.to) # {}
    BY <2>1, <2>2 DEF UsableGraph
  <2>4. x.state \in predecessors(threads[t], e.to)
    BY <2>1, <2>2 DEF predecessors
  <2>5. y \in LocationsOf(t)
    BY <1>5, <2>3 DEF LocationsOf
  <2>6. x = [thread |-> t, state |-> x.state]
    BY <1>4 DEF location
  <2> HIDE DEF x, y
  <2>7. x \in Predecessors(y)
    BY <1>5, <2>4, <2>6 DEF Predecessors, With
  <2>8. ForwardPredecessors(y) # {}
    BY <1>5, <2>3 DEF ForwardPredecessors, With
  <2> QED
    BY <2>5, <2>7, <2>8, LocationFacts
<1>7. PrintedAt(to_place, y, "before") \subseteq lock_entry
  BY <1>6, PrintedBefore
<1>8. \A u \in Thread \ {t} : at'[u] = at[u]
  BY <1>1, <1>3
<1>9. /\ at'[t].x = y /\ at'[t].phase = "before" /\ at'[t].todo = PrintedAt(to_place, y, "before")
      /\ at'[t] \in thread_state
  <2>1. at[t] \in thread_state
    BY <1>1
  <2>2. at'[t] = Entering(y, [a EXCEPT !.looped = a.looped \/ e.back_edge])
    <3> DEFINE next == Entering(y, [a EXCEPT !.looped = a.looped \/ e.back_edge])
    <3>1. at' = [at EXCEPT ![t] = next]
      BY <1>3, Zenon
    <3> HIDE DEF next
    <3>2. at'[t] = next
      BY <1>1, <3>1
    <3> QED
      BY <3>2 DEF next
  <2>3. e.back_edge \in BOOLEAN
    <3>1. StateAt(x) \in cfg_state
      BY <1>4, LocationFacts
    <3>2. StateAt(x).edges \in Seq(edge)
      BY <3>1 DEF cfg_state
    <3>3. \E i \in DOMAIN StateAt(x).edges : e = StateAt(x).edges[i]
      BY <1>3, <1>4 DEF StateAt, EdgesOf
    <3>4. e \in edge
      BY <3>2, <3>3
    <3> QED
      BY <3>4 DEF edge
  <2>4. /\ at'[t].x = y /\ at'[t].phase = "before" /\ at'[t].todo = PrintedAt(to_place, y, "before")
        /\ at'[t].last = a.last /\ at'[t].via = a.via /\ at'[t].meanwhile = a.meanwhile
        /\ at'[t].looped = (a.looped \/ e.back_edge)
    BY <2>1, <2>2 DEF Entering, thread_state
  <2> HIDE DEF y
  <2>5. at'[t] = [x |-> y, phase |-> "before", todo |-> PrintedAt(to_place, y, "before"),
                  last |-> a.last, via |-> a.via, looped |-> a.looped \/ e.back_edge,
                  meanwhile |-> a.meanwhile]
    BY <2>1, <2>2 DEF Entering, thread_state
  <2>6. a.last \in Nat /\ a.via \in SUBSET Nat /\ a.meanwhile \in SUBSET location /\ a.looped \in BOOLEAN
    BY <2>1 DEF thread_state
  <2> HIDE DEF a
  <2>7. (a.looped \/ e.back_edge) \in BOOLEAN
    BY <2>3, <2>6
  <2> QED
    BY <1>6, <1>7, <2>4, <2>5, <2>6, <2>7 DEF thread_state, position_type
<1>10. at' \in [Thread -> thread_state]
  <2> HIDE DEF y
  <2> QED
    BY <1>1, <1>3, <1>9
<1>11. AsPlanned(t, at'[t], owner')
  <2>1. \A l \in Locks : owner[l] = t <=> inle(placement, x, l)
    BY <1>1, <1>2 DEF AsPlanned, Planned
  <2> HIDE DEF x, y
  <2>2. ASSUME NEW f \in PrintedAt(to_place, y, "before")
        PROVE  /\ f.lock_t = "lock" => \A lb \in free_for(f.lock) : owner[lb] # t
               /\ f.lock_t = "unlock" => owner[f.lock] = t
    <3>1. f.lock \in Locks
      BY <1>6, PrintedBefore
    <3>2. f.lock_t = "lock" => \A lb \in free_for(f.lock) : ~inle(placement, x, lb)
      BY <1>6, <3>1, EnteredFrom, PrintedBefore
    <3>3. f.lock_t = "unlock" => inle(placement, x, f.lock)
      BY <1>6, <3>1, EnteredFrom, PrintedBefore
    <3>4. \A lb \in free_for(f.lock) : lb \in Locks
      BY DEF free_for
    <3> QED
      BY <2>1, <3>1, <3>2, <3>3, <3>4
  <2>3. ASSUME NEW l \in Locks, \A f \in PrintedAt(to_place, y, "before") : f.lock # l
        PROVE  owner[l] = t <=> <<y, l>> \in placement.inl
    <3>1. <<y, l>> \notin placement.lock_b /\ <<y, l>> \notin placement.unlock_b
      BY <1>6, <2>3, PrintedBefore
    <3> QED
      BY <1>6, <2>1, <3>1, EnteredFrom
  <2> QED
    BY <1>2, <1>6, <1>9, <2>2, <2>3 DEF AsPlanned, Planned
<1>12. ASSUME NEW u \in Thread \ {t} PROVE AsPlanned(u, at'[u], owner')
  BY <1>1, <1>2, <1>8
<1> QED
  BY <1>1, <1>2, <1>10, <1>11, <1>12, SameProgram

\* No lock is printed before the first state of a thread and none is planned there.
LEMMA NothingAtStart ==
  ASSUME WellFormed, Placed, NEW t \in Thread
  PROVE  /\ Start(t) \in LocationsOf(t) /\ Start(t) \in Locations /\ Start(t) \in location
         /\ PrintedAt(to_place, Start(t), "before") = {}
         /\ \A l \in Locks : <<Start(t), l>> \notin placement.inl
<1>1. UsableGraph(threads[t])
  BY DEF WellFormed
<1>2. Start(t) \in LocationsOf(t)
  BY <1>1 DEF UsableGraph, LocationsOf, Start
<1>3. Start(t) \in Locations /\ Start(t) \in location
  BY <1>2, LocationFacts
<1>4. ForwardPredecessors(Start(t)) = {}
  <2>1. predecessors(threads[t], 1) = {}
    BY <1>1 DEF UsableGraph, predecessors
  <2>2. Predecessors(Start(t)) = {}
    BY <2>1 DEF Predecessors, With, Start
  <2> QED
    BY <1>2, <2>2, LocationFacts
<1>5. StateAt(Start(t)).lock_before = NoLocation
  BY <1>1 DEF UsableGraph, StateAt, Start
<1>6. ASSUME NEW l \in Locks
      PROVE  /\ <<Start(t), l>> \notin placement.inl
             /\ <<Start(t), l>> \notin placement.lock_b /\ <<Start(t), l>> \notin placement.unlock_b
  <2>1. inl_def(placement, Start(t), l) /\ cons_loc(placement, Start(t), l)
    BY <1>3, Constraints
  <2> QED
    BY <1>4, <1>5, <2>1 DEF inl_def, cons_loc
<1>7. PrintedAt(to_place, Start(t), "before") = {}
  <2> SUFFICES ASSUME NEW e \in PrintedAt(to_place, Start(t), "before") PROVE FALSE
    OBVIOUS
  <2> QED
    BY <1>3, <1>6, PrintedBefore DEF lock_entry, lock_type
<1> QED
  BY <1>2, <1>3, <1>6, <1>7

LEMMA StartAsPlanned ==
  ASSUME WellFormed, Placed, StartProgram PROVE Running'
<1>1. /\ at' = [t \in Thread |-> Entering(Start(t), NothingYet)]
      /\ owner' = [l \in Locks |-> no_thread] /\ UNCHANGED <<problem, solution>>
  BY DEF StartProgram
<1>2. ASSUME NEW t \in Thread
      PROVE  /\ at'[t] \in thread_state /\ at'[t].x = Start(t)
             /\ at'[t].phase = "before" /\ at'[t].todo = {}
  <2>1. at'[t] = Entering(Start(t), NothingYet)
    BY <1>1
  <2> QED
    BY <2>1, NothingAtStart DEF Entering, NothingYet, thread_state, position_type, no_state
<1>3. ASSUME NEW t \in Thread PROVE AsPlanned(t, at'[t], owner')
  <2>1. \A l \in Locks : owner'[l] # t
    BY <1>1, ThreadsAreNumbers
  <2> QED
    BY <1>2, <2>1, NothingAtStart DEF AsPlanned, Planned
<1>4. at' \in [Thread -> thread_state] /\ owner' \in [Locks -> Thread \cup {no_thread}]
  BY <1>1, <1>2
<1> QED
  BY <1>1, <1>3, <1>4, SameProgram

----------------------------------------------------------------------------
(* The invariant *)

LEMMA InitEstablishes == Init => PInv
<1> SUFFICES ASSUME Init PROVE PInv
  OBVIOUS
<1>1. WellFormed
  BY PlacementAssumption DEF Init, WellFormed
<1> QED
  BY <1>1 DEF Init, PInv

\* The constraints are the same as long as the program is.
LEMMA SameConstraints ==
  ASSUME UNCHANGED problem
  PROVE  /\ placements' = placements
         /\ add_constraints(placement)' <=> add_constraints(placement')
         /\ printed(placement)' = printed(placement')
<1>1. threads' = threads /\ locks_to_place' = locks_to_place
  BY DEF problem
<1>2. Locks' = Locks /\ Locations' = Locations
  BY <1>1 DEF Locks, max_locks, Locations, LocationsOf
<1>3. placements' = placements
  BY <1>2 DEF placements
<1>4. \A x : /\ StateAt(x)' = StateAt(x) /\ Predecessors(x)' = Predecessors(x)
             /\ ForwardPredecessors(x)' = ForwardPredecessors(x) /\ Visited(x)' = Visited(x)
  BY <1>1 DEF StateAt, Predecessors, ForwardPredecessors, Visited
<1>5. \A x, l : inl_def(placement, x, l)' <=> inl_def(placement', x, l)
  BY <1>4 DEF inl_def, inle
<1>6. \A x, l : /\ cons_loc(placement, x, l)' <=> cons_loc(placement', x, l)
                /\ cons_basic(placement, x, l)' <=> cons_basic(placement', x, l)
                /\ cons_preemption(placement, x, l)' <=> cons_preemption(placement', x, l)
  BY <1>4 DEF cons_loc, cons_basic, cons_preemption
<1>7. \A x, l : cons_join(placement, x, l)' <=> cons_join(placement', x, l)
  BY <1>4 DEF cons_join, inle
<1>8. \A x, l : cons_unl(placement, x, l)' <=> cons_unl(placement', x, l)
  BY <1>4 DEF cons_unl
<1>9. \A x, l : cons_functions(placement, x, l)' <=> cons_functions(placement', x, l)
  BY <1>4 DEF cons_functions
<1>10. \A x, l : cons_lockorder(placement, x, l)' <=> cons_lockorder(placement', x, l)
  BY <1>2, <1>4 DEF cons_lockorder, free_for
<1>11. \A x, l : cons_sameinstr(placement, x, l)' <=> cons_sameinstr(placement', x, l)
  BY <1>2, <1>4 DEF cons_sameinstr
<1>12. add_constraints(placement)' <=> add_constraints(placement')
  BY <1>2, <1>5, <1>6, <1>7, <1>8, <1>9, <1>10, <1>11 DEF add_constraints, lock_consistancy
<1>13. printed(placement)' = printed(placement')
  BY <1>1 DEF printed, result_to_locklist, StateAt
<1> QED
  BY <1>3, <1>12, <1>13

\* What find_locks leaves is a solution of the constraints, and what is printed of it.
LEMMA FindLocksPlaces ==
  ASSUME find_locks PROVE Placed'
<1>1. /\ UNCHANGED problem
      /\ \E S \in {Solutions} : \E cf \in cost_type : \E s \in Optimal(cf, S) :
           placement' = s.placement /\ to_place' = printed(s.placement)
  BY DEF find_locks
<1>2. PICK s \in Solutions : placement' = s.placement /\ to_place' = printed(s.placement)
  BY <1>1 DEF Optimal
<1>3. s.placement \in placements /\ add_constraints(s.placement)
  BY <1>2 DEF Solutions
<1> QED
  BY <1>1, <1>2, <1>3, SameConstraints DEF Placed

\* It is one as long as neither it nor the program changes.
LEMMA PlacedStays ==
  ASSUME Placed, UNCHANGED <<problem, solution>> PROVE Placed'
<1>1. placement' = placement /\ to_place' = to_place /\ UNCHANGED problem
  BY DEF solution
<1> QED
  BY <1>1, SameConstraints DEF Placed

LEMMA WellFormedStays ==
  ASSUME WellFormed, UNCHANGED problem PROVE WellFormed'
BY DEF WellFormed, problem

LEMMA StepKeepsPlan == PInv /\ [Next]_vars => PInv'
<1> SUFFICES ASSUME PInv, [Next]_vars PROVE PInv'
  OBVIOUS
<1>1. UNCHANGED problem
  BY DEF Next, vars, find_locks, PlacementFails, StartProgram, ExecuteLock, Execute, Follow, problem
<1>2. WellFormed /\ WellFormed'
  BY <1>1, WellFormedStays DEF PInv
<1>3. CASE find_locks
  BY <1>2, <1>3, FindLocksPlaces DEF PInv, find_locks
<1>4. CASE PlacementFails
  BY <1>2, <1>4 DEF PInv, PlacementFails
<1>5. CASE StartProgram
  BY <1>2, <1>5, PlacedStays, StartAsPlanned DEF PInv, StartProgram
<1>6. CASE \E t \in Thread : ExecuteLock(t) \/ Execute(t) \/ Follow(t)
  <2>1. status = "running" /\ UNCHANGED <<problem, solution, status>>
    BY <1>6 DEF ExecuteLock, Execute, Follow
  <2>2. Placed /\ Running
    BY <2>1 DEF PInv
  <2>3. Running'
    BY <1>2, <1>6, <2>2, ExecuteLockKeepsPlan, ExecuteKeepsPlan, FollowKeepsPlan
  <2> QED
    BY <1>2, <2>1, <2>2, <2>3, PlacedStays DEF PInv
<1>7. CASE UNCHANGED vars
  <2>1. UNCHANGED <<problem, solution>> /\ UNCHANGED <<status, at, owner>>
    BY <1>7 DEF vars
  <2>2. ASSUME status = "running" PROVE Running'
    BY <2>1, <2>2, SameProgram DEF PInv, Running
  <2> QED
    BY <1>2, <2>1, <2>2, PlacedStays DEF PInv
<1> QED
  BY <1>3, <1>4, <1>5, <1>6, <1>7 DEF Next

----------------------------------------------------------------------------
(* The properties *)

LEMMA PlanGivesHeldAsPlanned == PInv => HeldAsPlanned
<1> SUFFICES ASSUME PInv, status = "running", NEW t \in Thread, NEW l \in Locks
             PROVE  /\ Executing(t) => (Holds(t, l) <=> <<at[t].x, l>> \in placement.inl)
                    /\ \A e \in FirstPrinted(at[t].todo) :
                         e.lock = l => (Holds(t, l) <=> e.lock_t = "unlock")
  BY DEF HeldAsPlanned
<1>1. Placed /\ WellFormed /\ AsPlanned(t, at[t], owner) /\ at[t] \in thread_state
  BY DEF PInv, Running
<1>2. Executing(t) => (Holds(t, l) <=> <<at[t].x, l>> \in placement.inl)
  BY <1>1 DEF Executing, Holds, AsPlanned, Planned
<1>3. ASSUME NEW e \in FirstPrinted(at[t].todo), e.lock = l
      PROVE  Holds(t, l) <=> e.lock_t = "unlock"
  <2>1. e \in at[t].todo /\ e \in PrintedAt(to_place, at[t].x, at[t].phase)
    BY <1>1 DEF FirstPrinted, AsPlanned
  <2>2. e \in lock_entry /\ at[t].phase \in position_type
    BY <1>1, <2>1, LocationFacts, PrintedBefore, PrintedAfter DEF AsPlanned, thread_state, position_type
  <2>3. l \in free_for(l)
    BY <1>1, LocksAreNumbers DEF free_for
  <2> QED
    BY <1>1, <1>3, <2>1, <2>2, <2>3 DEF AsPlanned, Holds, lock_entry, lock_type
<1> QED
  BY <1>2, <1>3

\* A non-empty set of locks has one with the least number.
LEMMA LeastLock ==
  ASSUME NEW S \in SUBSET Nat, S # {} PROVE \E x \in S : \A y \in S : x <= y
<1>1. IsWellFoundedOn(OpToRel(<, Nat), Nat)
  BY NatLessThanWellFounded
<1>2. PICK x \in S : \A y \in S : ~(<<y, x>> \in OpToRel(<, Nat))
  BY <1>1, WFMin
<1>3. ASSUME NEW y \in S, y < x PROVE FALSE
  <2>1. <<y, x>> \in Nat \X Nat /\ <<y, x>>[1] < <<y, x>>[2]
    BY <1>3
  <2>2. <<y, x>> \in OpToRel(<, Nat)
    BY <2>1, Zenon DEF OpToRel
  <2> QED
    BY <1>2, <2>2
<1> QED
  BY <1>3

\* A thread that waits for a lock waits for one that another thread holds, and holds
\* none with that number or a lower one.
LEMMA WaiterHoldsHigher ==
  ASSUME PInv, status = "running", NEW t \in Thread, Waiting(t)
  PROVE  \E l \in Locks : /\ owner[l] # no_thread
                          /\ \A lb \in Locks : lb <= l => owner[lb] # t
<1>1. Placed /\ WellFormed /\ AsPlanned(t, at[t], owner) /\ at[t] \in thread_state
  BY DEF PInv, Running
<1>2. PICK e \in at[t].todo : e.lock_t = "lock" /\ owner[e.lock] # no_thread
  BY DEF Waiting, FirstPrinted
<1>3. e.lock \in Locks
  BY <1>1, LocationFacts, PrintedBefore, PrintedAfter DEF AsPlanned, thread_state, position_type
<1>4. \A lb \in free_for(e.lock) : owner[lb] # t
  BY <1>1, <1>2 DEF AsPlanned
<1> QED
  BY <1>2, <1>3, <1>4 DEF free_for

LEMMA PlanGivesNoCircularWait == PInv => NoCircularWait
<1> SUFFICES ASSUME PInv, status = "running", NEW t \in Thread, Waiting(t)
             PROVE  \E u \in Thread :
                      /\ \E l \in Locks : Holds(u, l)
                      /\ ~Waiting(u)
                      /\ ~(Executing(u) /\ is_unlockable_point(StateAt(at[u].x)))
  BY DEF NoCircularWait
<1>1. Placed /\ WellFormed /\ owner \in [Locks -> Thread \cup {no_thread}] /\ Locks \subseteq Nat
  BY LocksAreNumbers DEF PInv, Running
<1> DEFINE held == {l \in Locks : owner[l] # no_thread}
<1>2. PICK l \in held : \A k \in held : l <= k
  <2>1. held # {} /\ held \in SUBSET Nat
    BY <1>1, WaiterHoldsHigher
  <2> HIDE DEF held
  <2> QED
    BY <2>1, LeastLock
<1> DEFINE u == owner[l]
<1>3. u \in Thread /\ l \in Locks /\ Holds(u, l)
  BY <1>1, <1>2 DEF Holds
<1>4. ~Waiting(u)
  <2> SUFFICES ASSUME Waiting(u) PROVE FALSE
    OBVIOUS
  <2>1. PICK k \in Locks : owner[k] # no_thread /\ \A lb \in Locks : lb <= k => owner[lb] # u
    BY <1>3, WaiterHoldsHigher
  <2>2. l <= k
    BY <1>2, <2>1
  <2> QED
    BY <1>3, <2>1, <2>2
<1>5. ASSUME Executing(u), is_unlockable_point(StateAt(at[u].x)) PROVE FALSE
  <2>1. <<at[u].x, l>> \in placement.inl
    BY <1>3, <1>5, PlanGivesHeldAsPlanned DEF HeldAsPlanned
  <2>2. at[u].x \in Locations
    BY <1>1, <1>3, LocationFacts DEF PInv, Running, AsPlanned
  <2>3. cons_preemption(placement, at[u].x, l)
    BY <1>1, <1>3, <2>2, Constraints
  <2> QED
    BY <1>5, <2>1, <2>3 DEF cons_preemption
<1> QED
  BY <1>3, <1>4, <1>5

LEMMA PlanGivesReleasedAtEnd == PInv => ReleasedAtEnd
<1> SUFFICES ASSUME PInv, status = "running", NEW t \in Thread,
                    StateAt(at[t].x).final, Executing(t), NEW l \in Locks
             PROVE  ~Holds(t, l)
  BY DEF ReleasedAtEnd
<1> DEFINE x == at[t].x
<1>1. Placed /\ WellFormed /\ AsPlanned(t, at[t], owner)
  BY DEF PInv, Running
<1>2. x \in LocationsOf(t) /\ x \in location /\ x.thread = t /\ x.state \in States(threads[t])
  BY <1>1, LocationFacts DEF AsPlanned
<1>3. UsableGraph(threads[t])
  BY <1>1 DEF WellFormed
<1>4. StateAt(Start(t)).return_state = x.state /\ x.state # no_state
  <2>1. threads[t] \in Seq(cfg_state) /\ threads[t][x.state].final
    BY <1>2, <1>3 DEF UsableGraph, StateAt
  <2>2. threads[t][1].return_state = x.state
    BY <1>2, <1>3, <2>1 DEF UsableGraph
  <2>3. x.state # 0
    BY <1>2, <2>1 DEF States
  <2> QED
    BY <2>2, <2>3 DEF StateAt, Start, no_state
<1>5. [Start(t) EXCEPT !.state = x.state] = x
  BY <1>2 DEF Start, location
<1>6. <<Start(t), l>> \notin placement.inl /\ cons_functions(placement, Start(t), l)
  BY <1>1, NothingAtStart, Constraints
<1>7. <<x, l>> \notin placement.inl
  BY <1>4, <1>5, <1>6 DEF cons_functions
<1> QED
  BY <1>7, PlanGivesHeldAsPlanned DEF HeldAsPlanned

----------------------------------------------------------------------------
(* Sections under a lock                                                 *)

\* A lock that covers what the thread has executed and is planned where it is has been
\* held all the time: it is not taken anew at this place.
LEMMA HeldSince ==
  ASSUME WellFormed, Placed, Running, NEW t \in Thread, NEW l \in Locks,
         CameFrom(t, at[t]), Covered(t, at[t], l), Planned(at[t], l)
  PROVE  owner[l] = t
<1> DEFINE a == at[t]
<1>1. /\ AsPlanned(t, a, owner) /\ a \in thread_state /\ a.phase \in position_type
      /\ a.x \in Locations /\ a.x \in location /\ a.x.thread = t
  BY LocationFacts DEF Running, AsPlanned, thread_state
<1> HIDE DEF a
<1>2. CASE \A e \in a.todo : e.lock # l
  BY <1>1, <1>2 DEF AsPlanned, a
<1>3. ASSUME NEW e \in a.todo, e.lock = l PROVE FALSE
  <2>1. e \in PrintedAt(to_place, a.x, a.phase)
    BY <1>1, <1>3 DEF AsPlanned
  <2>2. e.lock_t = "lock"
    BY <1>1, <1>3, <2>1, PrintedAsPlanned DEF a
  <2>3. cons_lockorder(placement, a.x, l) /\ l \in free_for(l)
    BY <1>1, Constraints, LocksAreNumbers DEF free_for
  <2>4. CASE a.phase = "before"
    <3>1. <<a.x, l>> \in placement.lock_b
      BY <1>1, <1>3, <2>1, <2>2, <2>4, PrintedBefore
    <3>2. PICK s \in {a.last} \cup a.via : [thread |-> t, state |-> s] \in ForwardPredecessors(a.x)
      BY <2>4 DEF CameFrom, Covered, a
    <3>3. <<[thread |-> t, state |-> s], l>> \in placement.inl
      BY <3>2 DEF Covered, a
    <3> QED
      BY <2>3, <3>1, <3>2, <3>3 DEF cons_lockorder, Visited
  <2>5. CASE a.phase = "after"
    <3>1. <<a.x, l>> \in placement.lock_a
      BY <1>1, <1>3, <2>1, <2>2, <2>5, PrintedAfter
    <3>2. a.x.state \in {a.last} \cup a.via /\ a.x = [thread |-> t, state |-> a.x.state]
      BY <1>1, <2>5 DEF CameFrom, Covered, location, a
    <3>3. <<a.x, l>> \in placement.inl
      BY <3>2 DEF Covered, a
    <3> QED
      BY <2>3, <3>1, <3>3 DEF cons_lockorder
  <2> QED
    BY <1>1, <2>4, <2>5 DEF position_type
<1> QED
  BY <1>2, <1>3

\* CameFrom and GaveUp depend on the program, the placement and these parts of a thread.
LEMMA SameSection ==
  ASSUME NEW t, NEW a, NEW b,
         a.x = b.x, a.phase = b.phase, a.last = b.last, a.via = b.via, a.looped = b.looped,
         a.meanwhile = b.meanwhile, CameFrom(t, a), GaveUp(t, a)
  PROVE  CameFrom(t, b) /\ GaveUp(t, b)
BY DEF CameFrom, GaveUp, Covered, Planned

\* The step of Execute for the thread that executes its location and for another one.
LEMMA ExecuteKeepsSections ==
  ASSUME WellFormed, Placed, Running, NEW t \in Thread, Execute(t), NEW u \in Thread,
         CameFrom(u, at[u]), GaveUp(u, at[u])
  PROVE  CameFrom(u, at'[u]) /\ GaveUp(u, at'[u])
<1> DEFINE a == at[t]  x == a.x  i == IsInstruction(x)  b == at'[u]
<1>1. /\ owner \in [Locks -> Thread \cup {no_thread}] /\ at \in [Thread -> thread_state]
      /\ \A v \in Thread : AsPlanned(v, at[v], owner)
  BY DEF Running
<1>2. x \in LocationsOf(t) /\ x \in Locations /\ x \in location /\ x.thread = t
  BY <1>1, LocationFacts DEF AsPlanned
<1>3. a.phase = "before" /\ a.todo = {}
  BY DEF Execute
<1>4. i \in BOOLEAN
  BY DEF IsInstruction, HasAction
<1>5. CASE u = t
  <2>1. at'[t] = [at[t] EXCEPT !.phase = "after", !.todo = PrintedAt(to_place, x, "after"),
                               !.last = IF i THEN x.state ELSE @,
                               !.via = IF i THEN {} ELSE @ \cup {x.state},
                               !.looped = @ /\ ~i,
                               !.meanwhile = IF i THEN {} ELSE @]
    BY DEF Execute
  <2> HIDE DEF i, x
  <2>2. /\ b.x = a.x /\ b.phase = "after"
        /\ b.last = (IF i THEN x.state ELSE a.last)
        /\ b.via = (IF i THEN {} ELSE a.via \cup {x.state})
        /\ b.looped = (a.looped /\ ~i)
        /\ b.meanwhile = (IF i THEN {} ELSE a.meanwhile)
    BY <1>1, <1>5, <2>1 DEF thread_state
  <2> HIDE DEF a, b
  <2>3. CASE i
    <3>1. b.phase = "after" /\ b.x.state \in {b.last} /\ b.meanwhile = {}
      BY <2>2, <2>3 DEF x
    <3>2. CameFrom(u, b)
      BY <3>1 DEF CameFrom
    <3>3. GaveUp(u, b)
      BY <3>1 DEF GaveUp
    <3> QED
      BY <3>2, <3>3 DEF b
  <2>4. CASE ~i
    <3>1. /\ b.last = a.last /\ b.via = a.via \cup {x.state} /\ (b.looped <=> a.looped)
          /\ b.meanwhile = a.meanwhile
      BY <2>2, <2>4
    <3>2. CameFrom(t, b)
      BY <2>2, <3>1 DEF CameFrom, x
    <3>3. ASSUME NEW l \in Locks, Covered(t, b, l), NEW y \in b.meanwhile, <<y, l>> \in placement.inl
          PROVE  FALSE
      <4>1. Covered(t, a, l)
        BY <3>1, <3>3 DEF Covered
      <4>2. ~Planned(a, l)
        BY <1>5, <3>1, <3>3, <4>1 DEF GaveUp, a
      <4>3. x = [thread |-> t, state |-> x.state]
        BY <1>2 DEF location
      <4>4. <<x, l>> \in placement.inl
        BY <3>1, <3>3, <4>3 DEF Covered
      <4> QED
        BY <1>3, <4>2, <4>4 DEF Planned, x
    <3> QED
      BY <1>5, <3>2, <3>3 DEF GaveUp, b
  <2> QED
    BY <1>4, <1>5, <2>3, <2>4 DEF b
<1>6. CASE u # t
  <2>1. at'[u] = [at[u] EXCEPT !.meanwhile = IF i THEN @ \cup {x} ELSE @]
    BY <1>6 DEF Execute
  <2> HIDE DEF i, x
  <2> DEFINE o == at[u]
  <2>2. /\ b.x = o.x /\ b.phase = o.phase /\ b.last = o.last /\ b.via = o.via
        /\ b.looped = o.looped
        /\ b.meanwhile = (IF i THEN o.meanwhile \cup {x} ELSE o.meanwhile)
    BY <1>1, <2>1 DEF thread_state
  <2> HIDE DEF o, b
  <2>3. CameFrom(u, b)
    BY <2>2 DEF CameFrom, o
  <2>4. ASSUME NEW l \in Locks, Covered(u, b, l), NEW y \in b.meanwhile, <<y, l>> \in placement.inl,
               Planned(b, l)
        PROVE  FALSE
    <3>1. Covered(u, o, l) /\ Planned(o, l)
      BY <2>2, <2>4 DEF Covered, Planned
    <3>2. CASE y \in o.meanwhile
      BY <2>4, <3>1, <3>2 DEF GaveUp, o
    <3>3. CASE y = x
      <4>1. Planned(a, l)
        BY <1>3, <2>4, <3>3 DEF Planned, x
      <4>2. owner[l] = t
        BY <1>1, <1>3, <4>1 DEF AsPlanned
      <4>3. owner[l] = u
        BY <3>1, HeldSince DEF o
      <4> QED
        BY <1>6, <4>2, <4>3
    <3> QED
      BY <1>4, <2>2, <2>4, <3>2, <3>3
  <2> QED
    BY <2>3, <2>4 DEF GaveUp, b
<1> QED
  BY <1>5, <1>6

\* The step of Follow for the thread that goes on.
LEMMA FollowKeepsSections ==
  ASSUME WellFormed, Placed, Running, NEW t \in Thread, Follow(t),
         CameFrom(t, at[t]), GaveUp(t, at[t])
  PROVE  CameFrom(t, at'[t]) /\ GaveUp(t, at'[t])
<1> DEFINE a == at[t]  x == a.x  b == at'[t]
<1>1. /\ at \in [Thread -> thread_state] /\ a \in thread_state /\ AsPlanned(t, a, owner)
      /\ a.phase = "after"
  BY DEF Running, Follow
<1>2. x \in LocationsOf(t) /\ x \in location /\ x.thread = t /\ x.state \in States(threads[t])
  BY <1>1, LocationFacts DEF AsPlanned
<1>3. PICK e \in EdgesOf(threads[t], x.state) :
        at' = [at EXCEPT ![t] =
                 Entering([x EXCEPT !.state = e.to], [a EXCEPT !.looped = a.looped \/ e.back_edge])]
  BY Zenon DEF Follow
<1> DEFINE y == [x EXCEPT !.state = e.to]
<1>4. y = [thread |-> t, state |-> e.to] /\ x = [thread |-> t, state |-> x.state]
  BY <1>2 DEF location
<1> HIDE DEF x
<1>5. /\ b.x = y /\ b.phase = "before" /\ b.last = a.last /\ b.via = a.via
      /\ b.looped = (a.looped \/ e.back_edge) /\ b.meanwhile = a.meanwhile
  <2> DEFINE next == Entering(y, [a EXCEPT !.looped = a.looped \/ e.back_edge])
  <2>1. at' = [at EXCEPT ![t] = next]
    BY <1>3, Zenon
  <2> HIDE DEF next
  <2>2. at'[t] = next
    BY <1>1, <2>1
  <2> QED
    BY <1>1, <2>2 DEF next, Entering, thread_state
<1>6. ASSUME ~e.back_edge PROVE x \in ForwardPredecessors(y)
  <2>1. x.state \in predecessors_forward(threads[t], e.to)
    BY <1>2, <1>3, <1>6 DEF predecessors_forward
  <2> QED
    BY <1>4, <2>1 DEF ForwardPredecessors, With
<1>7. y \in Locations
  <2>1. UsableGraph(threads[t]) /\ e.to \in get_successors(threads[t], x.state)
    BY <1>3 DEF WellFormed, get_successors
  <2>2. e.to \in States(threads[t])
    BY <1>2, <2>1 DEF UsableGraph
  <2> QED
    BY <1>4, <2>2 DEF Locations, LocationsOf
<1> HIDE DEF y, b
<1>8. CameFrom(t, b)
  <2> SUFFICES ASSUME b.last # no_state, ~b.looped
               PROVE  \E s \in {b.last} \cup b.via : [thread |-> t, state |-> s] \in ForwardPredecessors(b.x)
    BY <1>5 DEF CameFrom
  <2>1. ~a.looped /\ ~e.back_edge
    BY <1>5
  <2>2. x.state \in {a.last} \cup a.via
    BY <1>1, <1>5, <2>1 DEF CameFrom, x
  <2> QED
    BY <1>4, <1>5, <1>6, <2>1, <2>2
<1>9. ASSUME NEW l \in Locks, Covered(t, b, l), NEW z \in b.meanwhile, <<z, l>> \in placement.inl
      PROVE  <<y, l>> \notin placement.inl
  <2>1. ~a.looped /\ ~e.back_edge /\ Covered(t, a, l)
    BY <1>5, <1>9 DEF Covered
  <2>2. ~inle(placement, x, l)
    BY <1>1, <1>5, <1>9, <2>1 DEF GaveUp, Planned, x
  <2>3. x.state \in {a.last} \cup a.via
    BY <1>1, <2>1 DEF CameFrom, Covered, x
  <2>4. <<x, l>> \in placement.inl
    BY <1>4, <2>1, <2>3 DEF Covered
  <2>5. x \in ForwardPredecessors(y) /\ x \in Predecessors(y) /\ ForwardPredecessors(y) # {}
    BY <1>6, <1>7, <2>1, LocationFacts, LocationOfThread
  <2>6. <<y, l>> \notin placement.lock_b
    <3>1. cons_lockorder(placement, y, l) /\ l \in free_for(l)
      BY <1>7, Constraints, LocksAreNumbers DEF free_for
    <3> QED
      BY <2>4, <2>5, <3>1 DEF cons_lockorder, Visited
  <2> QED
    BY <1>7, <2>2, <2>5, <2>6, EnteredFrom
<1>10. GaveUp(t, b)
  BY <1>5, <1>9 DEF GaveUp, Planned
<1> QED
  BY <1>8, <1>10 DEF b

\* The invariant is about the same program and the same placement after a step.
LEMMA SameSections ==
  ASSUME UNCHANGED <<problem, solution>>,
         \A t \in Thread : CameFrom(t, at'[t]) /\ GaveUp(t, at'[t])
  PROVE  SectionInv'
<1>1. /\ threads' = threads /\ locks_to_place' = locks_to_place /\ placement' = placement
  BY DEF problem, solution
<1>2. max_locks' = max_locks /\ Locks' = Locks
  BY <1>1 DEF Locks, max_locks
<1>3. \A y : ForwardPredecessors(y)' = ForwardPredecessors(y)
  BY <1>1 DEF ForwardPredecessors
<1>4. ASSUME NEW t \in Thread PROVE CameFrom(t, at[t])' /\ GaveUp(t, at[t])'
  <2>1. CameFrom(t, at'[t]) /\ GaveUp(t, at'[t])
    BY <1>4
  <2>2. CameFrom(t, at[t])' <=> CameFrom(t, at'[t])
    BY <1>1, <1>3 DEF CameFrom, ForwardPredecessors
  <2>3. \A l : /\ Planned(at[t], l)' <=> Planned(at'[t], l)
               /\ Covered(t, at[t], l)' <=> Covered(t, at'[t], l)
    BY <1>1 DEF Planned, inle, Covered
  <2>4. GaveUp(t, at[t])' <=> GaveUp(t, at'[t])
    BY <1>1, <1>2, <2>3 DEF GaveUp
  <2> QED
    BY <2>1, <2>2, <2>4
<1> QED
  BY <1>4 DEF SectionInv

LEMMA StepKeepsSections == PInv /\ SectionInv /\ [Next]_vars => SectionInv'
<1> SUFFICES ASSUME PInv, SectionInv, [Next]_vars PROVE SectionInv'
  OBVIOUS
<1>1. CASE find_locks \/ PlacementFails
  BY <1>1 DEF find_locks, PlacementFails, SectionInv
<1>2. CASE StartProgram
  <2>1. \A t \in Thread : at'[t].last = no_state
    BY <1>2 DEF StartProgram, Entering, NothingYet
  <2>2. \A t \in Thread : CameFrom(t, at'[t]) /\ GaveUp(t, at'[t])
    BY <2>1 DEF CameFrom, GaveUp, Covered
  <2> QED
    BY <1>2, <2>2, SameSections DEF StartProgram
<1>3. ASSUME NEW t \in Thread, ExecuteLock(t) \/ Execute(t) \/ Follow(t) PROVE SectionInv'
  <2>1. status = "running" /\ UNCHANGED <<problem, solution>>
    BY <1>3 DEF ExecuteLock, Execute, Follow
  <2>2. /\ WellFormed /\ Placed /\ Running /\ at \in [Thread -> thread_state]
        /\ \A u \in Thread : CameFrom(u, at[u]) /\ GaveUp(u, at[u])
    BY <2>1 DEF PInv, SectionInv, Running
  <2>3. CASE ExecuteLock(t)
    <3>1. PICK e : at' = [at EXCEPT ![t].todo = @ \ {e}]
      BY <2>3 DEF ExecuteLock
    <3>2. ASSUME NEW u \in Thread
          PROVE  /\ at[u].x = at'[u].x /\ at[u].phase = at'[u].phase /\ at[u].last = at'[u].last
                 /\ at[u].via = at'[u].via /\ at[u].looped = at'[u].looped
                 /\ at[u].meanwhile = at'[u].meanwhile
      <4>1. at[u] \in thread_state
        BY <2>2
      <4> QED
        BY <2>2, <3>1, <4>1 DEF thread_state
    <3> QED
      BY <2>1, <2>2, <3>2, SameSection, SameSections
  <2>4. CASE Execute(t)
    BY <2>1, <2>2, <2>4, ExecuteKeepsSections, SameSections
  <2>5. CASE Follow(t)
    <3>1. \A u \in Thread \ {t} : at'[u] = at[u]
      BY <2>2, <2>5 DEF Follow
    <3>2. CameFrom(t, at'[t]) /\ GaveUp(t, at'[t])
      BY <2>2, <2>5, FollowKeepsSections
    <3>3. \A u \in Thread : CameFrom(u, at'[u]) /\ GaveUp(u, at'[u])
      BY <2>2, <3>1, <3>2
    <3> QED
      BY <2>1, <3>3, SameSections
  <2> QED
    BY <1>3, <2>3, <2>4, <2>5
<1>4. CASE UNCHANGED vars
  <2>1. UNCHANGED <<problem, solution>> /\ UNCHANGED <<status, at, owner>>
    BY <1>4 DEF vars
  <2>2. CASE status = "running"
    BY <2>1, <2>2, SameSections DEF SectionInv
  <2> QED
    BY <2>1, <2>2 DEF SectionInv
<1> QED
  BY <1>1, <1>2, <1>3, <1>4 DEF Next

\* A thread that is about to complete what a lock in use forbids has held the lock since
\* its last instruction, so nothing of another list was executed in between.
LEMMA SectionsForbidNothing == PInv /\ SectionInv => NothingForbidden
<1> SUFFICES ASSUME PInv, SectionInv, status = "running", NEW t \in Thread, Forbidden(t),
                    ~at[t].looped
             PROVE  FALSE
  BY DEF NothingForbidden
<1> DEFINE a == at[t]
<1>1. /\ WellFormed /\ Placed /\ GaveUp(t, a) /\ a.last # no_state /\ a.phase = "before"
  BY DEF PInv, SectionInv, Forbidden, Executing
<1>2. PICK e \in EdgesOf(minimised[t], a.last) :
        e.to = a.x.state /\ a.via = {e.in_betweeners[i] : i \in DOMAIN e.in_betweeners}
  BY DEF Forbidden, OnTheWay
<1>3. PICK c \in DOMAIN locks_to_place : \E k \in DOMAIN locks_to_place[c] :
        /\ LockedBy(placement, locks_to_place[c][k], lock_ids[c])
        /\ \E y \in a.meanwhile : Interrupts(locks_to_place[c][k], t, a.last, a.x.state, y)
  BY DEF Forbidden
<1>4. PICK k \in DOMAIN locks_to_place[c] :
        /\ LockedBy(placement, locks_to_place[c][k], lock_ids[c])
        /\ \E y \in a.meanwhile : Interrupts(locks_to_place[c][k], t, a.last, a.x.state, y)
  BY <1>3
<1> DEFINE lists == locks_to_place[c][k]  l == lock_ids[c]
<1>5. lists \in Seq(Seq(location))
  <2>1. locks_to_place[c] \in Seq(Seq(Seq(location)))
    BY <1>1 DEF WellFormed
  <2> QED
    BY <2>1
<1>6. PICK y \in a.meanwhile : Interrupts(lists, t, a.last, a.x.state, y)
  BY <1>4
<1> HIDE DEF a, lists, l
<1>7. PICK i \in DOMAIN lists, j \in DOMAIN lists :
        /\ \E n \in 1 .. Len(lists[i]) - 1 :
             /\ lists[i][n] = [thread |-> t, state |-> a.last]
             /\ lists[i][n + 1] = [thread |-> t, state |-> a.x.state]
        /\ \E n \in DOMAIN lists[j] : lists[j][n] = y
  BY <1>6 DEF Interrupts
<1>8. PICK n \in 1 .. Len(lists[i]) - 1 :
        /\ lists[i][n] = [thread |-> t, state |-> a.last]
        /\ lists[i][n + 1] = [thread |-> t, state |-> a.x.state]
  BY <1>7
<1>9. lists[i] \in Seq(location) /\ n \in DOMAIN lists[i] /\ n + 1 \in DOMAIN lists[i]
  <2>1. lists[i] \in Seq(location) /\ Len(lists[i]) \in Nat
    BY <1>5
  <2> QED
    BY <2>1
<1>10. \A z \in blow_up_trace(lists[i]) \cup blow_up_trace(lists[j]) : <<z, l>> \in placement.inl
  BY <1>4, <1>7 DEF LockedBy, blow_up_lock, lists, l
<1>11. /\ <<[thread |-> t, state |-> a.last], l>> \in placement.inl
       /\ <<[thread |-> t, state |-> a.x.state], l>> \in placement.inl
       /\ <<y, l>> \in placement.inl
  <2>1. \A m \in DOMAIN lists[i] : lists[i][m] \in blow_up_trace(lists[i])
    BY DEF blow_up_trace
  <2>2. \A m \in DOMAIN lists[j] : lists[j][m] \in blow_up_trace(lists[j])
    BY DEF blow_up_trace
  <2> QED
    BY <1>7, <1>8, <1>9, <1>10, <2>1, <2>2
<1>12. ASSUME NEW s \in a.via PROVE <<[thread |-> t, state |-> s], l>> \in placement.inl
  <2> DEFINE list == lists[i]
             between(p, q) == {f \in EdgesOf(minimised[p.thread], p.state) : f.to = q.state}
             removed(m) == UNION {{f.in_betweeners[r] : r \in DOMAIN f.in_betweeners} :
                                    f \in between(list[m], list[m + 1])}
  <2>1. e \in between(list[n], list[n + 1])
    BY <1>2, <1>8
  <2>2. s \in {e.in_betweeners[r] : r \in DOMAIN e.in_betweeners}
    BY <1>2, <1>12
  <2>3. s \in removed(n)
    BY <2>1, <2>2
  <2>4. [thread |-> t, state |-> s] \in With(list[n], removed(n))
    <3> HIDE DEF removed, between
    <3>1. list[n].thread = t
      BY <1>8
    <3> QED
      BY <2>3, <3>1 DEF With
  <2>5. blow_up_trace(list) =
          {list[m] : m \in DOMAIN list} \cup UNION {With(list[m], removed(m)) : m \in 1 .. Len(list) - 1}
    BY DEF blow_up_trace
  <2> HIDE DEF removed, between
  <2>6. [thread |-> t, state |-> s] \in blow_up_trace(list)
    BY <1>8, <2>4, <2>5
  <2> QED
    BY <1>10, <2>6
<1>13. l \in Locks
  <2>1. placement.inl \subseteq Locations \X Locks
    BY <1>1 DEF Placed, placements
  <2> QED
    BY <1>11, <2>1
<1>14. Covered(t, a, l)
  BY <1>1, <1>11, <1>12 DEF Covered, a
<1>15. ~Planned(a, l)
  BY <1>1, <1>6, <1>11, <1>13, <1>14 DEF GaveUp
<1>16. a.x = [thread |-> t, state |-> a.x.state]
  <2>1. a.x \in LocationsOf(t)
    BY DEF PInv, Running, AsPlanned, a
  <2> QED
    BY <2>1 DEF LocationsOf
<1> QED
  BY <1>1, <1>11, <1>15, <1>16 DEF Planned

----------------------------------------------------------------------------
(* The theorems                                                          *)

LEMMA InvariantHolds == Spec => []PInv
BY InitEstablishes, StepKeepsPlan, PTL DEF Spec

\* The locks a thread holds are those the solver promised, for every program, every solution
\* of the constraints and every interleaving (print_program.cpp prints what find_locks found).
THEOREM LocksHeldAsPlanned == Spec => []HeldAsPlanned
BY InvariantHolds, PlanGivesHeldAsPlanned, PTL

\* The printed locks cause no deadlock: cons_lockorder, cons_preemption and the order in which
\* locks are printed are enough, for any number of threads and locks.
THEOREM PrintedLocksDoNotDeadlock == Spec => []NoCircularWait
BY InvariantHolds, PlanGivesNoCircularWait, PTL

\* A thread that has ended holds no lock, by cons_functions for the first state of a thread.
THEOREM LocksReleasedAtEnd == Spec => []ReleasedAtEnd
BY InvariantHolds, PlanGivesReleasedAtEnd, PTL

\* No thread completes two neighbours of a list after another thread executed a symbol of
\* another list, except around a loop: blow_up_lock, locked_together and the constraints on
\* neighbouring locations are enough, for any number of threads, locks and disjunctions.
THEOREM ForbiddenIsNotExecuted == Spec => []NothingForbidden
<1>1. Init => SectionInv
  BY DEF Init, SectionInv
<1> QED
  BY <1>1, InitEstablishes, StepKeepsPlan, StepKeepsSections, SectionsForbidNothing, PTL DEF Spec
=============================================================================
