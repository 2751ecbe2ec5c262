--------------------------- MODULE MCLockPlacement ---------------------------
(***************************************************************************)
(* Small programs to place locks in: nested sections, waits in a loop,     *)
(* branches, a function called from several places, and one without a      *)
(* solution.  Statement i has the places 2i and 2i + 1 in the source.      *)
(***************************************************************************)
EXTENDS LockPlacement, Minimise

Plain ==
  [operation |-> NullAction, variable |-> "x", assume |-> FALSE, synthesised |-> FALSE,
   final |-> FALSE, non_det |-> FALSE, return_state |-> no_state, stmt |-> no_stmt,
   lock_before |-> NoLocation, lock_after |-> NoLocation, edges |-> <<>>]

To(s) == [to |-> s, back_edge |-> FALSE, tagged |-> FALSE, in_betweeners |-> <<>>]
Back(s) == [To(s) EXCEPT !.back_edge = TRUE]

Begin(exit) == [Plain EXCEPT !.return_state = exit, !.edges = <<To(2)>>]
End == [Plain EXCEPT !.final = TRUE]

\* A statement with a place before and behind it, and one in a condition.
Statement(op, v, i, edges) ==
  [Plain EXCEPT !.operation = op, !.variable = v, !.stmt = i, !.lock_before = 2 * i,
                !.lock_after = 2 * i + 1, !.edges = edges]
Condition(v, i, edges) ==
  [Plain EXCEPT !.operation = "read", !.variable = v, !.stmt = i, !.edges = edges]
Empty(i, edges) == [Statement(NullAction, "x", i, edges) EXCEPT !.stmt = no_stmt]

TwoStatements(i) ==
  <<Begin(4), Statement("write", "x", i, <<To(3)>>), Statement("write", "y", i + 1, <<To(4)>>), End>>

Loop(op) ==
  <<Begin(4), Statement("write", "x", 1, <<To(3)>>), Statement(op, "y", 2, <<To(4), Back(2)>>), End>>

\* The path of x, an empty state and y, and a way round the empty state.
Diamond ==
  <<Begin(6), Statement("write", "x", 1, <<To(3), To(4)>>), Empty(2, <<To(5)>>),
    Statement("wait", "c", 3, <<To(5)>>), Statement("write", "y", 4, <<To(6)>>), End>>

\* A call of f twice, and once.
CallState(i, return, next) ==
  [Plain EXCEPT !.lock_before = 2 * i, !.return_state = return, !.edges = <<To(next)>>]
ReturnedState(i, next) == [Plain EXCEPT !.lock_after = 2 * i + 1, !.edges = <<To(next)>>]
CallTwice ==
  <<Begin(8), CallState(2, 4, 3), Statement("write", "x", 1, <<To(4)>>), ReturnedState(2, 5),
    CallState(3, 7, 6), Statement("write", "x", 1, <<To(7)>>), ReturnedState(3, 8), End>>
CallOnce ==
  <<Begin(5), CallState(4, 4, 3), Statement("write", "x", 1, <<To(4)>>), ReturnedState(4, 5), End>>

\* return x at the end of a thread.
ReturnRead ==
  <<Begin(4), [Empty(1, <<To(3)>>) EXCEPT !.lock_before = NoLocation], Condition("x", 2, <<To(4)>>), End>>

Program(g, h, locks) ==
  LET threads_ == 0 :> g @@ 1 :> h IN
    [threads |-> threads_, minimised |-> [t \in {0, 1} |-> minimise(threads_[t], FALSE)],
     locks_to_place |-> locks]

List(t, states) == [i \in DOMAIN states |-> [thread |-> t, state |-> states[i]]]

MCThread == {0, 1}

MCProblems ==
  {Program(TwoStatements(1), TwoStatements(3),
           << <<<<List(0, <<2, 3>>), List(1, <<2>>)>>>>, <<<<List(0, <<2>>), List(1, <<2, 3>>)>>>> >>),
   Program(TwoStatements(1), TwoStatements(3),
           << <<<<List(0, <<2>>), List(1, <<2>>)>>, <<List(0, <<3>>), List(1, <<3>>)>>>>,
              <<<<List(0, <<2>>), List(1, <<2>>)>>>> >>),
   Program(Loop("wait"), TwoStatements(3), << <<<<List(0, <<2>>), List(1, <<2, 3>>)>>>> >>),
   Program(Loop("write"), TwoStatements(3), << <<<<List(0, <<3, 2>>), List(1, <<2>>)>>>> >>),
   Program(Diamond, TwoStatements(5), << <<<<List(0, <<2, 5>>), List(1, <<2, 3>>)>>>> >>),
   Program(CallTwice, CallOnce, << <<<<List(0, <<3>>), List(1, <<3>>)>>>> >>),
   Program(ReturnRead, TwoStatements(3), << <<<<List(0, <<3>>), List(1, <<2>>)>>>> >>)}
=============================================================================
