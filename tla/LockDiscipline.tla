--------------------------- MODULE LockDiscipline ---------------------------
(***************************************************************************)
(* The locks of a program with a lock discipline: at every position of a   *)
(* thread it is known which locks the thread holds.                        *)
(***************************************************************************)
EXTENDS Executions

CONSTANT LocksetAt(_, _)  \* LocksetAt(g, p): the locks held at position p of graph g

\* What executing sigma does to the locks a thread holds.
LocksetAfter(L, sigma) ==
  CASE sigma.operation = "lock" -> L \cup {sigma.variable}
    [] sigma.operation = "unlock" -> L \ {sigma.variable}
    [] OTHER -> L

\* Locks are not taken twice, only held locks are released, every path to a
\* position holds the same locks there, and a thread ends without locks.
WellLocked(t, g) ==
  /\ LocksetAt(g, initial_state) = {}
  /\ \A p \in Positions(g) \ {no_state} :
       /\ is_final_state(g, p) => LocksetAt(g, p) = {}
       /\ \A sigma \in next_symbols(t, g, p) :
            /\ sigma.operation = "lock" => sigma.variable \notin LocksetAt(g, p)
            /\ sigma.operation = "unlock" => sigma.variable \in LocksetAt(g, p)
            /\ LocksetAt(g, successor(t, g, p, sigma)) = LocksetAfter(LocksetAt(g, p), sigma)

\* Every thread of the program obeys the discipline.
WellLockedProgram == \A t \in Thread : WellLocked(t, threads[t])

HeldBy(t) ==
  IF state.threads[t] = no_state THEN {} ELSE LocksetAt(threads[t], state.threads[t])

\* The locks taken are those that threads hold, each by one thread.
LocksAreOwned ==
  /\ state.locks = UNION {HeldBy(t) : t \in Thread}
  /\ \A t, u \in Thread : t # u => HeldBy(t) \cap HeldBy(u) = {}

\* The one bit per lock of concurrent_state stands for an owner: in a program with
\* a discipline a lock is taken exactly if one thread is inside a section of it,
\* and never are two, however the threads are scheduled.
MutualExclusion == WellLockedProgram => LocksAreOwned
=============================================================================
