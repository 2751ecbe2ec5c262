--------------------------- MODULE MCProcessTrace ---------------------------
(***************************************************************************)
(* process_trace on every execution of small programs of two threads.      *)
(***************************************************************************)
EXTENDS ProcessTrace, TestPrograms

Threads == {1, 2}
Vars == {"x", "c", "l"}

Code(t, body) ==
  [i \in DOMAIN body |-> ActionSymbol(t, [s \in DOMAIN body |-> Node(body[s], <<>>)], i)]

\* The symbols of a trace in the order m.
Reordered(tr, m) == [p \in DOMAIN tr |-> tr[CHOOSE i \in DOMAIN tr : m[i] = p]]

\* The executions of a program that no sequential one is equivalent to, of which
\* one is enough: the others number the same symbols differently.
Counterexample(one, two, lists) ==
  LET code == Code(1, one) \o Code(2, two)
      lock == <<SubSeq(code, 1, lists[1]), SubSeq(code, Len(one) + 1, Len(one) + lists[2])>>
      locks == IF lists = <<0, 0>> THEN <<>> ELSE <<<<lock>>>>
      sequential_ones == {m \in bad(code, locks) : sequential(code, m)}
      bad_ones == {m \in bad(code, locks) : \A n \in sequential_ones : ~SameConflicts(code, m, n)}
  IN IF bad_ones = {} THEN {}
     ELSE {[trace |-> Reordered(code, CHOOSE m \in bad_ones : TRUE), synthesised_locks |-> locks]}

Read == Stmt("read", "x")
Write == Stmt("write", "x")
Lock == Stmt("lock", "l")
Unlock == Stmt("unlock", "l")

Accesses == {Read, Write, Stmt("yield", "x")}
Signals == {Stmt("notify", "c"), Stmt("reset", "c"), Read}
Waits == {Stmt("wait", "c"), Stmt("wait_not", "c"), Stmt("wait_reset", "c"), Assume("c"), AssumeNot("c")}

\* Two threads and the lengths of the code that a lock protects.  Three writes of one
\* variable in a row are left out: they multiply the orders, of which two show the kinds.
Programs ==
  {<<<<a[1], a[2], Read>>, <<Read, Write>>, <<2, 2>>>> : a \in [1..2 -> Accesses]}
    \cup {<<<<Write, a[1], a[2]>>, <<Read, Write>>, <<0, 0>>>> :
             a \in [1..2 -> Accesses] \ {<<Write, Write>>}}
    \cup {<<<<Lock, a[1], Unlock, a[2]>>, b, <<0, 0>>>> : a \in [1..2 -> {Read, Write}],
             b \in {<<Lock, Write, Unlock, Read>>, <<Write, Read>>}}
    \cup {<<<<a[1], Write, a[2]>>, <<w, Read, Write>>, <<0, 0>>>> : a \in [1..2 -> Signals], w \in Waits}
    \cup {<<<<a[1], Write, a[2]>>, <<Write, w>>, <<0, 0>>>> : a \in [1..2 -> Signals], w \in Waits}

MCInputs == UNION {Counterexample(p[1], p[2], p[3]) : p \in Programs}
=============================================================================
