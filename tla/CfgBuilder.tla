----------------------------- MODULE CfgBuilder -----------------------------
(***************************************************************************)
(* statement_visitor and cfg_visitor: the control flow graph of a thread,  *)
(* with the functions it calls in place of the calls.                      *)
(*                                                                         *)
(* The source is what clang makes of it: a function is a graph of basic    *)
(* blocks, and a block a sequence of elements.  An element names what the  *)
(* visitor finds in it, in the order it is found:                          *)
(*   "expression"  reads of global variables (x++ is one as well)          *)
(*   "assignment"  reads on the right, then the variables on the left      *)
(*   "operation"   a call of a function of langinc.h                       *)
(*   "call"        the arguments, then a call of another function          *)
(*   "return", "marker" (the artificial start and end of a function),      *)
(*   "nondet"      the variable nondet                                     *)
(* and has the places before and after the statement it belongs to, or     *)
(* none in a condition and under a return.                                 *)
(***************************************************************************)
EXTENDS AbstractCfg, SequencesExt

EmptyState ==
  [operation |-> NullAction, variable |-> CHOOSE v \in Var : TRUE, assume |-> FALSE,
   synthesised |-> FALSE, final |-> FALSE, non_det |-> FALSE, return_state |-> no_state,
   stmt |-> no_stmt, lock_before |-> NoLocation, lock_after |-> NoLocation, edges |-> <<>>]

\* lock_locations
Placed(s, e, allow_before, allow_after) ==
  [s EXCEPT !.lock_before = IF allow_before THEN e.before ELSE @,
            !.lock_after = IF allow_after THEN e.after ELSE @]

\* abstract_cfg::add_edge: the edges of a state with several are tagged, unless it
\* branches non-deterministically.
add_edge(g, from, to, back_edge) ==
  LET new == [to |-> to, back_edge |-> back_edge, tagged |-> FALSE, in_betweeners |-> <<>>]
      tag(edges) == [i \in DOMAIN edges |->
                       IF i \in {1, Len(edges)} /\ Len(edges) > 1 /\ ~g[from].non_det
                         THEN [edges[i] EXCEPT !.tagged = TRUE] ELSE edges[i]]
  IN  [g EXCEPT ![from].edges = tag(Append(@, new))]

----------------------------------------------------------------------------
(* statement_visitor: the states of one block *)

Visitor(g) == [g |-> g, start_state |-> no_state, end_state |-> no_state, last_nondet |-> FALSE]

progress(v) == v.start_state # no_state

\* Fault: the place in front of the second state stays.
SeparateBehind(g, prev, next) ==
  IF g[prev].lock_after = g[next].lock_after THEN [g EXCEPT ![prev].lock_after = NoLocation] ELSE g

\* States of the same statement, or two without a place: no lock between them.
SeparateLocks(g, prev, next) ==
  IF g[prev].lock_after = g[next].lock_after
    THEN [g EXCEPT ![prev].lock_after = NoLocation, ![next].lock_before = NoLocation]
    ELSE g

add_successor(v, s) ==
  IF v.end_state = no_state
    THEN [v EXCEPT !.start_state = s, !.end_state = s]
    ELSE [v EXCEPT !.g = SeparateLocks(add_edge(@, v.end_state, s, FALSE), v.end_state, s),
                   !.end_state = s]

AddState(v, s) == add_successor([v EXCEPT !.g = Append(@, s)], Len(v.g) + 1)

Accessing(operation, x, e) ==
  Placed([EmptyState EXCEPT !.operation = operation, !.variable = x, !.stmt = e.stmt], e, TRUE, TRUE)

\* VisitDeclRefExpr, for each variable in turn.
VisitDeclRefExprs(v, operation, xs, e) ==
  FoldLeft(LAMBDA w, x : AddState(w, Accessing(operation, x, e)), v, xs)

\* Fault: the variable on the left comes first.
TraverseBinAssignLeftFirst(v, e) ==
  VisitDeclRefExprs(VisitDeclRefExprs(v, "write", e.writes, e), "read", e.reads, e)

\* TraverseBinAssign: the left side has a visitor of its own, of which only the last state
\* is attached.
TraverseBinAssign(v, e) ==
  LET right == VisitDeclRefExprs(v, "read", e.reads, e)
      left == VisitDeclRefExprs(Visitor(right.g), "write", e.writes, e)
  IN  IF progress(left)
        THEN add_successor([right EXCEPT !.g = left.g], left.end_state)
        ELSE [right EXCEPT !.g = left.g]

TraverseReturnStmt(v, e) ==
  AddState(VisitDeclRefExprs(v, "read", e.reads, [e EXCEPT !.before = NoLocation, !.after = NoLocation]),
           Placed(EmptyState, e, TRUE, FALSE))

Operation(e) ==
  [Accessing(e.operation, e.variable, e) EXCEPT !.assume = e.assume, !.synthesised = e.synthesised]

----------------------------------------------------------------------------
(* cfg_visitor: the blocks of one function *)

RECURSIVE process_block(_, _, _, _, _), process_function(_, _, _)

\* The state after a call follows the exit of the body.
ReturnedFrom(body, v, e) ==
  AddState([v EXCEPT !.end_state = body.exit_state], Placed(EmptyState, e, FALSE, TRUE))

\* The call knows the state it returns to.
WithReturn(call, returned) ==
  [returned EXCEPT !.g[call.end_state].return_state = returned.end_state]

\* The graph of a body is appended behind the call.
AttachBody(call, body, e) ==
  WithReturn(call,
    ReturnedFrom(body, add_successor([call EXCEPT !.g = body.g], body.entry_state), e))

VisitBody(functions, call, e) == AttachBody(call, process_function(functions, call.g, e.callee), e)

\* TraverseCallExpr, for a function with a body.
TraverseCallExpr(functions, v, e) ==
  VisitBody(functions,
            AddState(VisitDeclRefExprs(v, "read", e.reads, e), Placed(EmptyState, e, TRUE, FALSE)), e)

TraverseStmt(functions, v, e) ==
  LET visited ==
        CASE e.kind \in {"expression", "nondet"} -> VisitDeclRefExprs(v, "read", e.reads, e)
          [] e.kind = "assignment" -> TraverseBinAssign(v, e)
          [] e.kind = "operation" -> AddState(v, Operation(e))
          [] e.kind = "return" -> TraverseReturnStmt(v, e)
          [] e.kind = "marker" -> AddState(v, Placed(EmptyState, e, TRUE, TRUE))
          [] e.kind = "call" -> TraverseCallExpr(functions, v, e)
  IN  [visited EXCEPT !.last_nondet = (e.kind = "nondet")]

\* add_dummy_state, for a block without states.
NotEmpty(v) == IF progress(v) THEN v ELSE AddState(v, EmptyState)

VisitElements(functions, g, elements) ==
  NotEmpty(FoldLeft(LAMBDA v, e : TraverseStmt(functions, v, e), Visitor(g), elements))

\* c is the visitor of the function, [g, f, block_map, entry_state, exit_state], and v that
\* of its block b, which is attached behind last_state.
AttachBlock(functions, c, b, last_state, v) ==
  LET block == functions[c.f].blocks[b]
      linked == IF last_state = no_state THEN v.g ELSE add_edge(v.g, last_state, v.start_state, FALSE)
  IN  [c EXCEPT !.g = IF block.terminator \in {"while", "if"}
                        THEN [linked EXCEPT ![v.end_state].non_det = v.last_nondet] ELSE linked,
                !.block_map = (b :> v.start_state) @@ @,
                !.entry_state = IF @ = no_state THEN v.end_state ELSE @,
                !.exit_state = IF b = functions[c.f].exit THEN v.end_state ELSE @]

process_successors(functions, c, b, last_state, parent_blocks, v) ==
  FoldLeft(LAMBDA d, s : process_block(functions, d, s, v.end_state, parent_blocks \cup {b}),
           AttachBlock(functions, c, b, last_state, v), functions[c.f].blocks[b].successors)

process_block(functions, c, b, last_state, parent_blocks) ==
  IF b \in DOMAIN c.block_map
    THEN [c EXCEPT !.g = add_edge(@, last_state, c.block_map[b], b \in parent_blocks)]
    ELSE process_successors(functions, c, b, last_state, parent_blocks,
                            VisitElements(functions, c.g, functions[c.f].blocks[b].elements))

process_function(functions, g, f) ==
  process_block(functions,
                [g |-> g, f |-> f, block_map |-> <<>>, entry_state |-> no_state, exit_state |-> no_state],
                functions[f].entry, no_state, {})

\* The exit is final, and the entry counts as a call that returns there.  Marking the state
\* "No state" as final changes nothing.
WithExit(c) ==
  LET marked == IF c.exit_state = no_state THEN c.g ELSE [c.g EXCEPT ![c.exit_state].final = TRUE]
  IN  [marked EXCEPT ![c.entry_state].return_state = c.exit_state]

\* clang_interf::parse_thread
parse_thread(functions, f) == WithExit(process_function(functions, <<>>, f))
=============================================================================
