------------------------------ MODULE Symbols ------------------------------
(***************************************************************************)
(* The alphabet of Liss (abstraction/symbol.h, abstraction/symbol.cpp).    *)
(*                                                                         *)
(* A symbol is one instruction occurrence of one thread: the operation,    *)
(* the variable it works on and its location (thread and CFG state).  A    *)
(* tag is the symbol of a branch: it has a branch number and no variable.  *)
(***************************************************************************)
EXTENDS Integers

CONSTANTS
  Thread,             \* the fixed set of threads of the program
  Var,                \* names of variables, locks and conditionals
  AssumesAllowSwitch  \* options.h: assumes_allow_switch

ASSUME SymbolsAssumption ==
  /\ Thread \subseteq Nat
  /\ AssumesAllowSwitch \in BOOLEAN

\* types.h
no_thread == -1

WaitOps == {"wait", "wait_not", "wait_reset"}
BlockingOps == WaitOps \cup {"lock"}
op_class == BlockingOps \cup
  {"read", "write", "unlock", "notify", "reset", "epsilon", "yield", "tag"}

\* tag_branch is -1 for every symbol that is not a tag.
NoBranch == -1

symbol == [thread : Thread, state : Int, tag_branch : Int, operation : op_class,
           variable : Var, assume : BOOLEAN, synthesised : BOOLEAN]

\* Invisible to the language inclusion, which compares reads, writes and tags.
is_epsilon(s) == s.operation \notin {"read", "write", "tag"}

is_real_epsilon(s) == s.operation = "epsilon"

\* A wait that may hand the processor to another thread: an assume only if
\* assumes_allow_switch.
MayDeschedule(s) ==
  \/ s.operation = "lock" /\ ~s.synthesised
  \/ s.operation \in WaitOps /\ (~s.assume \/ AssumesAllowSwitch)

is_preemption_point(s) == s.operation = "yield" \/ MayDeschedule(s)

\* Limi::independence: may two adjacent symbols of a trace be swapped?
independent(a, b) ==
  /\ a.thread # b.thread
  /\ \/ a.variable # b.variable
     \/ a.operation = "read" /\ b.operation = "read"
     \/ \E s \in {a, b} : is_epsilon(s) \/ s.operation = "tag"
=============================================================================
