---------------------------- MODULE MCPreemptive ----------------------------
EXTENDS LockDiscipline, MCExecutions

\* In a graph whose states are numbered in program order: the locks taken and not
\* released up to position p.
LocksTakenBefore(g, p) ==
  LET done == 1..(IF p < 0 THEN -p ELSE p - 1) IN
    {x \in {"l", "m"} : \E i \in done :
       /\ g[i].operation = "lock" /\ g[i].variable = x
       /\ \A j \in done : j > i => ~(g[j].operation = "unlock" /\ g[j].variable = x)}

LockStatements ==
  {Stmt("lock", "l"), Stmt("unlock", "l"), Stmt("lock", "m"), Stmt("unlock", "m"),
   LockS("l"), Stmt("write", "x")}

Pairs == LockStatements \X LockStatements

Candidates ==
  Lines(4, LockStatements)
    \cup {NondetLoop(p[1], p[2]) : p \in Pairs} \cup {NondetIf(p[1], p[2]) : p \in Pairs}

WellLockedThreads == {g \in Candidates : WellLocked(1, g)}

\* The same programs, and all of four statements that use two locks in pairs.
WithLocks == NoLocks(Programs(Kinds \cup {WellLockedThreads}) \cup {ex1})
=============================================================================
