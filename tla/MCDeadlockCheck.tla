--------------------------- MODULE MCDeadlockCheck ---------------------------
EXTENDS DeadlockCheck, TestPrograms

Threads2 == {1, 2}
Vars == {"-", "l", "m", "c", "x", "y"}

Statements ==
  {Stmt("lock", "l"), Stmt("unlock", "l"), Stmt("notify", "c"), Stmt("wait", "c"),
   Stmt("wait_reset", "c"), Assume("c"), Stmt("write", "x")}

Blocking == {Stmt("lock", "l"), Stmt("wait_not", "c"), Stmt("notify", "c")}

\* Two locks taken in different orders.
CrossedLocks ==
  << StraightLine(<<Stmt("lock", "l"), Stmt("lock", "m"), Stmt("unlock", "m"), Stmt("unlock", "l")>>),
     StraightLine(<<Stmt("lock", "m"), Stmt("lock", "l"), Stmt("unlock", "l"), Stmt("unlock", "m")>>) >>

\* A thread that loops for ever without an instruction beside one that does not end, and a
\* printed program whose lock_s is held by a thread that waits.
Endless == <<EndlessLoop(Stmt("write", "x")), ForEver(Stmt("notify", "c"))>>
Resynthesised ==
  << StraightLine(<<LockS("l"), Stmt("wait", "c"), Stmt("unlock", "l")>>),
     StraightLine(<<Stmt("notify", "c"), LockS("l"), Stmt("unlock", "l")>>) >>

SearchConfigurations ==
  NoLocks({ex1, test_deadlock, CrossedLocks, Endless, Resynthesised})
    \cup NoLocks([Threads2 -> Lines(2, Statements)])
    \cup NoLocks([Threads2 -> Shapes(Blocking)])
=============================================================================
