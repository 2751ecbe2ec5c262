--------------------------- MODULE MCDeadlockAlgo ---------------------------
EXTENDS DeadlockAlgo, TestPrograms

Threads2 == {1, 2}
Vars == {"-", "c", "x"}

\* while (nondet) { x = 1; notify(c); }  ||  wait(c);
LoopThatNotifies ==
  NoLocks({<<NondetLoop(Stmt("write", "x"), Stmt("notify", "c")), StraightLine(<<Stmt("wait", "c")>>)>>})
=============================================================================
