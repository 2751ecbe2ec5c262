---------------------------- MODULE Instructions ----------------------------
(***************************************************************************)
(* The instruction sequences of a source and of a control flow graph, and  *)
(* their comparison: what the front end promises.  An instruction is an    *)
(* operation and the variable it works on.                                 *)
(*                                                                         *)
(* Both are finite automata: init is a set of positions, silent gives the  *)
(* positions reached without an instruction, moves the instructions at a   *)
(* position with the position after each, and ended where it may end.      *)
(***************************************************************************)
EXTENDS CfgBuilder, Minimise

Instruction(operation, x) == <<operation, x>>

GraphAutomaton(g) ==
  [init |-> {1},
   silent |-> [s \in States(g) |-> IF HasAction(g, s) THEN {} ELSE get_successors(g, s)],
   moves |-> [s \in States(g) |->
                IF HasAction(g, s)
                  THEN {<<Instruction(g[s].operation, g[s].variable), v>> : v \in get_successors(g, s)}
                  ELSE {}],
   ended |-> {s \in States(g) : g[s].final}]

----------------------------------------------------------------------------
(* The source.  A position is the stack of calls: for each the function, the *)
(* block, the element and the next of its instructions.                      *)

InstructionsOf(e) ==
  LET each(operation, xs) == [i \in DOMAIN xs |-> Instruction(operation, xs[i])]
  IN  IF e.kind = "operation" THEN <<Instruction(e.operation, e.variable)>>
      ELSE each("read", e.reads) \o each("write", e.writes)

FrameAt(functions, f) == [f |-> f, b |-> functions[f].entry, i |-> 1, k |-> 1]

Advanced(stack) ==
  Append(Front(stack), [Last(stack) EXCEPT !.i = @ + 1, !.k = 1])

InBlock(functions, stack) ==
  Last(stack).i <= Len(functions[Last(stack).f].blocks[Last(stack).b].elements)

Element(functions, stack) ==
  functions[Last(stack).f].blocks[Last(stack).b].elements[Last(stack).i]

\* In front of an instruction.
AtInstruction(functions, stack) ==
  /\ InBlock(functions, stack)
  /\ Last(stack).k <= Len(InstructionsOf(Element(functions, stack)))

SourceMoves(functions, stack) ==
  IF AtInstruction(functions, stack)
    THEN {<<InstructionsOf(Element(functions, stack))[Last(stack).k],
            Append(Front(stack), [Last(stack) EXCEPT !.k = @ + 1])>>}
    ELSE {}

AtExit(functions, stack) ==
  Last(stack).b = functions[Last(stack).f].exit /\ ~InBlock(functions, stack)

SourceSilent(functions, stack) ==
  IF AtInstruction(functions, stack) THEN {}
  ELSE IF InBlock(functions, stack)
    THEN LET e == Element(functions, stack) IN
           {IF e.kind = "call" THEN Append(stack, FrameAt(functions, e.callee)) ELSE Advanced(stack)}
  ELSE IF AtExit(functions, stack)
    THEN IF Len(stack) > 1 THEN {Advanced(Front(stack))} ELSE {}
  ELSE LET block == functions[Last(stack).f].blocks[Last(stack).b] IN
         {Append(Front(stack), [Last(stack) EXCEPT !.b = b, !.i = 1, !.k = 1]) : b \in ToSet(block.successors)}

RECURSIVE SourcePositions(_, _, _)
SourcePositions(functions, new, seen) ==
  IF new = {} THEN seen
  ELSE LET next == UNION {SourceSilent(functions, p) \cup {m[2] : m \in SourceMoves(functions, p)} : p \in new}
       IN  SourcePositions(functions, next \ (seen \cup new), seen \cup new)

SourceAutomaton(functions, f) ==
  LET start == <<FrameAt(functions, f)>>
      P == SourcePositions(functions, {start}, {})
  IN  [init |-> {start},
       silent |-> [p \in P |-> SourceSilent(functions, p)],
       moves |-> [p \in P |-> SourceMoves(functions, p)],
       ended |-> {p \in P : Len(p) = 1 /\ AtExit(functions, p)}]

----------------------------------------------------------------------------

Closed(A, S) == ReachableBy(A.silent, S)

AfterInstruction(A, S, a) ==
  Closed(A, {m[2] : m \in {m \in UNION {A.moves[p] : p \in S} : m[1] = a}})

Enabled(A, S) == {m[1] : m \in UNION {A.moves[p] : p \in S}}

\* Wherever the same instructions lead, the automata allow the same next ones and may end
\* both or neither.
RECURSIVE Agree(_, _, _, _)
Agree(A, B, new, seen) ==
  \/ new = {}
  \/ /\ \A x \in new : /\ Enabled(A, x[1]) = Enabled(B, x[2])
                       /\ (x[1] \cap A.ended # {}) <=> (x[2] \cap B.ended # {})
     /\ LET next == UNION {{<<AfterInstruction(A, x[1], a), AfterInstruction(B, x[2], a)>> :
                              a \in Enabled(A, x[1])} : x \in new}
        IN  Agree(A, B, next \ (seen \cup new), seen \cup new)

SameInstructions(A, B) == Agree(A, B, {<<Closed(A, A.init), Closed(B, B.init)>>}, {})
=============================================================================
