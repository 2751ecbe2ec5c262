----------------------------- MODULE MCFrontEnd -----------------------------
(***************************************************************************)
(* Threads of two statements out of a list that has every kind of element, *)
(* branch and loop, and the calls of two functions, one with an early      *)
(* return.  Blocks are as clang builds them: an empty one for the entry,   *)
(* the exit and the way back of a loop, a new one behind every branch.     *)
(***************************************************************************)
EXTENDS FrontEnd

\* The elements of statement n, which has the places 2n and 2n + 1, or none (0).
Place(n) == [stmt |-> n, before |-> IF n = 0 THEN NoLocation ELSE 2 * n,
             after |-> IF n = 0 THEN NoLocation ELSE 2 * n + 1]
Base(kind, n) ==
  Place(n) @@ [kind |-> kind, reads |-> <<>>, writes |-> <<>>, operation |-> NullAction,
               variable |-> "x", assume |-> FALSE, synthesised |-> FALSE, callee |-> ""]
Assign(n, reads, writes) == [Base("assignment", n) EXCEPT !.reads = reads, !.writes = writes]
Reads(n, reads) == [Base("expression", n) EXCEPT !.reads = reads]
Increment(n, x) == [Reads(n, <<x>>) EXCEPT !.writes = <<x>>]
Nondet == Base("nondet", 0)
Op(n, operation, x) == [Base("operation", n) EXCEPT !.operation = operation, !.variable = x]
Call(n, f, reads) == [Base("call", n) EXCEPT !.callee = f, !.reads = reads]
Return(n, reads) == [Base("return", n) EXCEPT !.reads = reads]
StartMarker(n) == [Base("marker", n) EXCEPT !.before = NoLocation]
EndMarker(n) == [Base("marker", n) EXCEPT !.after = NoLocation]

Block(elements, terminator, next) ==
  [elements |-> elements, terminator |-> terminator, successors |-> next]
Exit == <<9, 0>>

\* The blocks of the statements, at position i, numbered from n, before block next.
Statements(i, n, next) ==
  LET at(j) == <<i, j>>
      one(elements) == at(0) :> Block(elements, "", <<next>>)
      branch(kind, condition, then, else) ==
        at(0) :> Block(condition, kind, <<at(1), else>>) @@ at(1) :> Block(then, "", <<next>>)
          @@ at(2) :> Block(<<>>, "", <<next>>)
      loop(condition, body) ==
        at(0) :> Block(condition, "while", <<at(1), next>>) @@ at(1) :> Block(body, "", <<at(2)>>)
          @@ at(2) :> Block(<<>>, "", <<at(0)>>)
  IN  {one(<<Assign(n, <<"y">>, <<"x">>), Assign(n + 1, <<>>, <<"y">>)>>),
       one(<<Op(n, "lock", "l"), Reads(n + 1, <<"x", "y">>), Op(n + 2, "unlock", "l")>>),
       one(<<Call(n, "f", <<"y">>)>>),
       one(<<Call(n, "f", <<>>), Assign(n, <<>>, <<"x">>)>>),
       one(<<Call(n, "g", <<>>), Call(n + 1, "f", <<>>), Call(n + 1, "f", <<>>)>>),
       at(0) :> Block(<<Return(n, <<"x">>)>>, "", <<Exit>>),
       branch("if", <<Nondet>>, <<Assign(n, <<>>, <<"x">>)>>, next),
       branch("if", <<Reads(0, <<"x">>)>>, <<Op(n, "wait", "c")>>, at(2)),
       branch("if", <<Reads(0, <<"x">>)>>, <<>>, at(2)),
       branch("switch", <<Reads(0, <<"y">>)>>, <<Assign(n, <<>>, <<"x">>)>>, next),
       loop(<<Nondet>>, <<Assign(n, <<"x">>, <<"y">>)>>),
       loop(<<Nondet>>, <<>>),
       loop(<<Reads(0, <<"x">>)>>, <<Call(n, "g", <<>>), Op(n + 1, "yield", "x")>>)}

Function(n, blocks, first) ==
  [entry |-> <<0, 0>>, exit |-> Exit,
   blocks |-> blocks @@ <<0, 0>> :> Block(<<>>, "", <<<<0, 1>>>>)
                     @@ <<0, 1>> :> Block(<<StartMarker(n)>>, "", <<first>>)
                     @@ <<8, 0>> :> Block(<<EndMarker(n + 1)>>, "", <<Exit>>)
                     @@ Exit :> Block(<<>>, "", <<>>)]

\* int f() { if (nondet) { x = ..; return y; } } and void g() { notify(c); }
F == Function(21, <<1, 0>> :> Block(<<Nondet>>, "if", <<<<1, 1>>, <<8, 0>>>>)
               @@ <<1, 1>> :> Block(<<Assign(23, <<>>, <<"x">>), Return(24, <<"y">>)>>, "", <<Exit>>),
              <<1, 0>>)
G == Function(31, <<1, 0>> :> Block(<<Op(33, "notify", "c")>>, "", <<<<8, 0>>>>), <<1, 0>>)
\* void h() { while (1) x = ..; }
H == Function(41, <<1, 0>> :> Block(<<>>, "while", <<<<1, 1>>>>)
               @@ <<1, 1>> :> Block(<<Assign(43, <<>>, <<"x">>)>>, "", <<<<1, 0>>>>), <<1, 0>>)

Threads(first, second) ==
  {[functions |-> "thread_1" :> Function(11, s1 @@ s2, <<1, 0>>) @@ "thread_2" :> G @@ "f" :> F @@ "g" :> G,
    threads |-> <<"thread_1", "thread_2">>] : s1 \in first, s2 \in second}

\* One block of these elements, and behind it one of the list.
Beginning(elements) == {<<1, 0>> :> Block(elements, "", <<<<2, 0>>>>)}
Second == Statements(2, 5, <<8, 0>>)

\* What is not understood: two variables on the left, ++, and a call without end.
NotUnderstood ==
  {<<Assign(1, <<>>, <<"x", "y">>)>>, <<Increment(1, "x")>>, <<Assign(1, <<>>, <<"x">>), Call(2, "h", <<>>)>>}
WithEndless(s) == [s EXCEPT !.functions = "h" :> H @@ @]

MCSources ==
  Threads(Statements(1, 1, <<2, 0>>), Second)
    \cup {WithEndless(s) : s \in UNION {Threads(Beginning(e), Second) : e \in NotUnderstood}}
    \cup Threads(Beginning(<<Assign(1, <<"y">>, <<"z">>), Assign(2, <<>>, <<"x">>)>>), Second)
    \cup {[s EXCEPT !.threads = @ \o @] : s \in Threads(Beginning(<<Op(1, "lock", "l")>>), Second)}
=============================================================================
