---------------------------- MODULE MCSynthLoop ----------------------------
(***************************************************************************)
(* The synthesis for small programs without loops.                         *)
(***************************************************************************)
EXTENDS SynthLoop, TestPrograms

Threads2 == {1, 2}
Threads3 == {1, 2, 3}
Vars == {"-", "x", "y", "z", "c", "l"}

R(v) == Stmt("read", v)
W(v) == Stmt("write", v)
Yield == Stmt("yield", "-")
Lock == Stmt("lock", "l")
Unlock == Stmt("unlock", "l")
Notify == Stmt("notify", "c")
Reset == Stmt("reset", "c")

Pair(a, b) == <<StraightLine(a), StraightLine(b)>>

\* Up to three accesses, with and without a yield.
Accesses ==
  {Pair(<<R("x"), a, b>>, <<c, W("x")>>) : a, b \in {R("x"), W("x"), Yield}, c \in {R("x"), W("x")}}
    \cup {Pair(<<R("x"), a, W("y")>>, <<W("x"), b, W("y")>>) : a, b \in {R("x"), Yield}}

\* A lock of the program around a part of the code.
Locking ==
  {Pair(<<Lock, a, Unlock, b>>, c) : a, b \in {R("x"), W("x")},
     c \in {<<Lock, W("x"), Unlock, R("x")>>, <<W("x"), R("x")>>}}

Signals(ops) ==
  {Pair(<<a, W("x"), b>>, <<c, R("x"), W("x")>>) : a, b \in {R("x"), Notify, Reset}, c \in ops}

Assuming == Signals({Assume("c"), AssumeNot("c")})

\* The thread may be descheduled at these.
MCWaits == Signals({Stmt("wait", "c"), Stmt("wait_not", "c"), Stmt("wait_reset", "c")})

\* No thread is at its end before a branch: the preemption-free automaton lets it
\* be interrupted there, and process_trace does not know of that.
Branching ==
  {<<IfElse(a, b), g>> : a, b \in {R("x"), W("x")},
     g \in {IfElse(W("x"), R("y")), StraightLine(<<W("x"), R("x")>>)}}

MCPrograms == Accesses \cup Locking \cup Assuming \cup Branching \cup MCWaits

\* Three threads, each before the next.
Cycle == {<<StraightLine(<<W("x"), W("y")>>), StraightLine(<<W("y"), W("z")>>),
            StraightLine(<<W("z"), W("x")>>)>>}
=============================================================================
