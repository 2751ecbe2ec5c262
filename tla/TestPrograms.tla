---------------------------- MODULE TestPrograms ----------------------------
(***************************************************************************)
(* Small programs to instantiate the automata with: programs of tests/ as  *)
(* the front end abstracts them, and all programs of a given size.         *)
(***************************************************************************)
EXTENDS ThreadAutomaton

\* Statements of langinc.h.
Stmt(op, x) ==
  [operation |-> op, variable |-> x, assume |-> FALSE, synthesised |-> FALSE]
Assume(c) == [Stmt("wait", c) EXCEPT !.assume = TRUE]
AssumeNot(c) == [Stmt("wait_not", c) EXCEPT !.assume = TRUE]
LockS(l) == [Stmt("lock", l) EXCEPT !.synthesised = TRUE]

\* A state of a graph: a statement and the states that follow it.
Node(s, targets) ==
  [operation |-> s.operation, variable |-> s.variable, assume |-> s.assume,
   synthesised |-> s.synthesised, final |-> FALSE,
   edges |-> [i \in DOMAIN targets |-> [to |-> targets[i], tagged |-> FALSE]]]

\* The same for a deterministic branch: its edges carry tags.
Branch(s, targets) ==
  [Node(s, targets) EXCEPT
     !.edges = [i \in DOMAIN targets |-> [to |-> targets[i], tagged |-> TRUE]]]

Null == Stmt(NullAction, "-")
Entry(targets) == Node(Null, targets)
Exit == [Node(Null, <<>>) EXCEPT !.final = TRUE]

\* A thread without branches: the entry state, the statements, the exit state.
StraightLine(body) ==
  [s \in 1..(Len(body) + 2) |->
     IF s = 1 THEN Entry(<<2>>)
     ELSE IF s = Len(body) + 2 THEN Exit
     ELSE Node(body[s - 1], <<s + 1>>)]

\* while (nondet) { a; b }
NondetLoop(a, b) == <<Entry(<<2, 4>>), Node(a, <<3>>), Node(b, <<2, 4>>), Exit>>

\* a; if (nondet) b
NondetIf(a, b) == <<Entry(<<2>>), Node(a, <<3, 4>>), Node(b, <<4>>), Exit>>

\* if (x) a; else b
IfElse(a, b) ==
  <<Entry(<<2>>), Branch(Stmt("read", "x"), <<3, 4>>), Node(a, <<5>>), Node(b, <<5>>), Exit>>

\* a; while (true) ;
EndlessLoop(a) == <<Entry(<<2>>), Node(a, <<>>)>>

\* while (true) a;
ForEver(a) == <<Entry(<<2>>), Node(a, <<2>>)>>

NoLocks(programs) == {[threads |-> p, new_locks |-> <<>>] : p \in programs}

\* All threads of n statements in a row, and all branching ones of two statements.
Lines(n, stmts) == {StraightLine(b) : b \in [1..n -> stmts]}

Shapes(stmts) ==
  LET pairs == stmts \X stmts IN
    {NondetLoop(p[1], p[2]) : p \in pairs}
      \cup {NondetIf(p[1], p[2]) : p \in pairs}
      \cup {IfElse(p[1], p[2]) : p \in pairs}

----------------------------------------------------------------------------
\* tests/cav13/ex1.c
ex1 == <<
  << Entry(<<2>>), Node(Stmt("wait", "c"), <<3>>), Branch(Stmt("read", "x"), <<4, 5>>),
     Node(Stmt("write", "y"), <<6>>), Node(Stmt("write", "y"), <<6>>), Exit >>,
  StraightLine(<<Stmt("notify", "c"), Stmt("write", "x")>>) >>

\* tests/cases/test_deadlock.c
test_deadlock ==
  << <<Entry(<<2, 3>>), Node(Stmt("write", "x"), <<2, 3>>), Exit>>, StraightLine(<<Stmt("wait", "c")>>) >>

=============================================================================
