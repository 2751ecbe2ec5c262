----------------------------- MODULE AbstractCfg -----------------------------
(***************************************************************************)
(* The data of cfg::abstract_cfg: the control flow graph of one thread as  *)
(* the front end builds it and as the placement of locks reads it.         *)
(*                                                                         *)
(* A graph is the sequence of its states; the edges of a state are kept    *)
(* with it.  State 0, "No state", is left out.                             *)
(***************************************************************************)
EXTENDS Symbols, Sequences

no_state == 0
NullAction == "null"

\* clang::SourceLocation(): locks can not be placed here.  Statements and places of the
\* source are numbered from 1.
NoLocation == 0
no_stmt == 0

edge == [to : Nat, back_edge : BOOLEAN, tagged : BOOLEAN, in_betweeners : Seq(Nat)]

cfg_state ==
  [operation : (op_class \ {"tag"}) \cup {NullAction}, variable : Var,
   assume : BOOLEAN, synthesised : BOOLEAN,
   final : BOOLEAN, non_det : BOOLEAN, return_state : Nat, stmt : Nat,
   lock_before : Nat, lock_after : Nat, edges : Seq(edge)]

States(g) == DOMAIN g

HasAction(g, s) == g[s].operation # NullAction

\* Locks can be placed before or after this state.
Lockable(g, s) == g[s].lock_before # NoLocation \/ g[s].lock_after # NoLocation

EdgesOf(g, s) == {g[s].edges[i] : i \in DOMAIN g[s].edges}

get_successors(g, s) == {e.to : e \in EdgesOf(g, s)}

predecessors(g, s) == {p \in States(g) : s \in get_successors(g, p)}

\* The predecessors along edges that do not close a loop.
predecessors_forward(g, s) ==
  {p \in States(g) : \E e \in EdgesOf(g, p) : e.to = s /\ ~e.back_edge}
=============================================================================
