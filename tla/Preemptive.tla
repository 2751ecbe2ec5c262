----------------------------- MODULE Preemptive -----------------------------
(***************************************************************************)
(* The preemptive semantics of a program: at any time any thread executes  *)
(* its next instruction if the instruction is not blocked.  There is no    *)
(* scheduler.  This is what both automata promise: each generates only     *)
(* executions of this specification.                                       *)
(***************************************************************************)
EXTENDS ThreadAutomaton

CONSTANT MayTerminate  \* may a thread end at an exit state, for good?

VARIABLES
  threads,      \* the program
  position,     \* where each thread is
  held,         \* locks that are taken
  notified      \* conditionals that are set

vars == <<threads, position, held, notified>>

Init ==
  /\ threads \in [Thread -> abstract_cfg]
  /\ position = [t \in Thread |-> initial_state]
  /\ held = {}
  /\ notified = {}

Moves(t, sigma) ==
  LET p == successor(t, threads[t], position[t], sigma) IN
    /\ sigma \in next_symbols(t, threads[t], position[t])
    /\ \/ position' = [position EXCEPT ![t] = p]
       \/ /\ MayTerminate /\ is_final_state(threads[t], p)
          /\ position' = [position EXCEPT ![t] = no_state]

Lock(x) == x \notin held /\ held' = held \cup {x} /\ UNCHANGED notified
Unlock(x) == held' = held \ {x} /\ UNCHANGED notified
Notify(x) == notified' = notified \cup {x} /\ UNCHANGED held
Reset(x) == notified' = notified \ {x} /\ UNCHANGED held
Wait(x) == x \in notified /\ UNCHANGED <<held, notified>>
WaitNot(x) == x \notin notified /\ UNCHANGED <<held, notified>>
WaitReset(x) == x \in notified /\ notified' = notified \ {x} /\ UNCHANGED held
Other == UNCHANGED <<held, notified>>

Effect(op, x) ==
  \/ op = "lock" /\ Lock(x)
  \/ op = "unlock" /\ Unlock(x)
  \/ op = "notify" /\ Notify(x)
  \/ op = "reset" /\ Reset(x)
  \/ op = "wait" /\ Wait(x)
  \/ op = "wait_not" /\ WaitNot(x)
  \/ op = "wait_reset" /\ WaitReset(x)
  \/ op \in {"read", "write", "tag", "yield", "epsilon"} /\ Other

Step(t) ==
  /\ position[t] # no_state
  /\ \E sigma \in next_symbols(t, threads[t], position[t]) :
       /\ Moves(t, sigma)
       /\ Effect(sigma.operation, sigma.variable)
       /\ UNCHANGED threads

Next == \E t \in Thread : Step(t)

Spec == Init /\ [][Next]_vars
=============================================================================
