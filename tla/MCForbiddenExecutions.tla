------------------------ MODULE MCForbiddenExecutions ------------------------
EXTENDS ForbiddenExecutions, TestPrograms

Threads2 == {1, 2}
Vars == {"-", "x", "y", "c"}

\* Thread 1 writes three variables, thread 2 reads, notifies and writes; an
\* epsilon stands in the middle of the first.
Program ==
  << StraightLine(<<Stmt("write", "x"), Stmt("epsilon", "-"), Stmt("write", "y"), Stmt("write", "x")>>),
     StraightLine(<<Stmt("read", "y"), Stmt("notify", "c"), Stmt("write", "x")>>) >>

\* Thread 2 loops.
LoopProgram ==
  << StraightLine(<<Stmt("write", "x"), Stmt("write", "y")>>),
     NondetLoop(Stmt("read", "y"), Stmt("write", "x")) >>

\* All contiguous pieces of a thread, states first to last.
Pieces(p, t, first, last) ==
  {[i \in 1..(b - a + 1) |-> ActionSymbol(t, p[t], a + i - 1)] :
     <<a, b>> \in {ab \in (first..last) \X (first..last) : ab[1] <= ab[2]}}

\* trim_list leaves no epsilon at the ends.
Trimmed(list) == ~is_real_epsilon(list[1]) /\ ~is_real_epsilon(list[Len(list)])

\* Locks over one piece of code of each thread.
LineLocks ==
  {<<a, b>> : a \in {l \in Pieces(Program, 1, 2, 5) : Trimmed(l)}, b \in Pieces(Program, 2, 2, 4)}

\* In a loop a piece of code may go round the loop.
Round ==
  LET s == [i \in 2..3 |-> ActionSymbol(2, LoopProgram[2], i)] IN
    {<<s[3], s[2]>>, <<s[2], s[3], s[2]>>, <<s[3], s[2], s[3]>>}

LoopLocks ==
  {<<a, b>> : a \in Pieces(LoopProgram, 1, 2, 3), b \in Pieces(LoopProgram, 2, 2, 3) \cup Round}

With(p, lockss) == {[threads |-> p, new_locks |-> ls] : ls \in lockss}

OneLock(ls) == {<<<<l>>>> : l \in ls}
Disjunctions(ls) == {<<<<l, m>>>> : l \in ls, m \in ls}
Conjunctions(ls) == {<<<<l>>, <<m>>>> : l \in ls, m \in ls}

\* A lock over three pieces of code, two of them of one thread.
SplitLock ==
  {<<<<<<a, b, c>>>>>> :
     a \in {l \in Pieces(Program, 1, 2, 5) : Trimmed(l)},
     b \in Pieces(Program, 2, 2, 2), c \in Pieces(Program, 2, 3, 4)}

AllConfigurations ==
  With(Program, OneLock(LineLocks) \cup Conjunctions(LineLocks) \cup Disjunctions(LineLocks)
                  \cup SplitLock)
    \cup With(LoopProgram, OneLock(LoopLocks) \cup Disjunctions(LoopLocks)
                             \cup Conjunctions(LoopLocks))
=============================================================================
