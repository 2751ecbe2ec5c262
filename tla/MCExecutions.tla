---------------------------- MODULE MCExecutions ----------------------------
EXTENDS Executions, TestPrograms

Threads2 == {1, 2}
Vars == {"-", "l", "m", "c", "x", "y"}

\* Every statement of langinc.h, on one lock, one conditional and one variable.
Statements ==
  {Stmt("lock", "l"), Stmt("unlock", "l"), LockS("l"),
   Stmt("notify", "c"), Stmt("reset", "c"),
   Stmt("wait", "c"), Stmt("wait_not", "c"), Stmt("wait_reset", "c"), Assume("c"),
   Stmt("yield", "-"), Stmt("write", "x")}

FewStatements ==
  {Stmt("lock", "l"), Stmt("unlock", "l"), Stmt("notify", "c"),
   Stmt("wait_reset", "c"), Assume("c")}

\* All programs of two threads of the same kind.
Programs(kinds) ==
  {p \in [Threads2 -> UNION kinds] : \E S \in kinds : \A t \in Threads2 : p[t] \in S}

\* Threads of two statements in a row, and threads with a loop or a branch.
Kinds == {Lines(2, Statements), Shapes(FewStatements)}

\* A thread that loops for ever without an instruction.
Endless == <<EndlessLoop(Stmt("write", "x")), StraightLine(<<Stmt("notify", "c")>>)>>

\* All these, and a test case.
LinesAndBranching == NoLocks(Programs(Kinds) \cup {ex1, Endless})
=============================================================================
