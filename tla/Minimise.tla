------------------------------ MODULE Minimise ------------------------------
(***************************************************************************)
(* abstract_cfg::minimise and abstract_cfg::compact: states that do        *)
(* nothing are taken out of a graph, the edges around them lead past them, *)
(* and what can no longer be reached is dropped and the rest renumbered.   *)
(* Costs and distances are left out.                                       *)
(***************************************************************************)
EXTENDS AbstractCfg, SequencesExt

\* States that minimise leaves alone.  The initial state stays too, but only because
\* the search starts there.
remain(g, leave_lockables) ==
  {s \in States(g) : HasAction(g, s) \/ g[s].final \/ (leave_lockables /\ Lockable(g, s))}

\* The edge that takes e and then e2, past the state between them.
Past(e, e2) ==
  [e2 EXCEPT !.tagged = @ \/ e.tagged, !.in_betweeners = e.in_betweeners \o <<e.to>> \o @]

\* Works through the edges of a state, in front of which those of removed states are
\* appended; an edge found for a state is not replaced by a later one.
RECURSIVE successors(_, _, _, _, _)
successors(g, stay, queue, seen, found) ==
  IF queue = <<>> THEN found
  ELSE LET e == Head(queue)
           seen_inner == seen \cup {e.to}
           unseen(e2) == e2.to \notin seen_inner
           through == SelectSeq(g[e.to].edges, unseen)
       IN  IF e.to \in stay
             THEN successors(g, stay, Tail(queue), seen_inner,
                             IF \E f \in found : f.to = e.to THEN found ELSE found \cup {e})
             ELSE successors(g, stay,
                             Tail(queue) \o [i \in DOMAIN through |-> Past(e, through[i])],
                             seen_inner, found)

RECURSIVE ReachableBy(_, _)
\* Closes a set of states under next, a function to sets of states.
ReachableBy(next, S) ==
  LET T == S \cup UNION {next[s] : s \in S} IN IF T = S THEN S ELSE ReachableBy(next, T)

\* All ways from the state at the end of path that visit no state twice.
RECURSIVE SimplePaths(_, _)
SimplePaths(next, path) ==
  {path} \cup UNION {SimplePaths(next, Append(path, v)) : v \in next[Last(path)] \ ToSet(path)}

\* Fault: loops are not looked for.
MarkNoBackEdges(g) == g

\* An edge is a back edge if it leads to a state that some way to it has come through.
MarkBackEdges(g) ==
  LET next == [s \in States(g) |-> get_successors(g, s)]
      paths == SimplePaths(next, <<1>>)
      back(s, v) == \E p \in paths : Last(p) = s /\ v \in ToSet(p)
  IN  [s \in States(g) |->
        [g[s] EXCEPT !.edges =
           [i \in DOMAIN @ |-> IF back(s, @[i].to) THEN [@[i] EXCEPT !.back_edge = TRUE] ELSE @[i]]]]

minimise(g, leave_lockables) ==
  LET stay == remain(g, leave_lockables)
      forward(e) == [e EXCEPT !.back_edge = FALSE]
      by_target(e, f) == e.to < f.to
      new == [s \in States(g) |->
                SetToSortSeq({forward(e) : e \in successors(g, stay, g[s].edges, {}, {})}, by_target)]
      seen == ReachableBy([s \in States(g) |-> {new[s][i].to : i \in DOMAIN new[s]}], {1})
  IN  MarkBackEdges([s \in States(g) |-> IF s \in seen THEN [g[s] EXCEPT !.edges = new[s]] ELSE g[s]])

\* The number of a state that is kept; that of a dropped state is not translated.
renumber(number, s) == IF s \in DOMAIN number THEN number[s] ELSE s

\* Fault: the position where a call returns keeps its old number.
stale_return(number, s) == s

return_position(number, s) == IF s = no_state THEN s ELSE renumber(number, s)

compact(g) ==
  LET forward == [s \in States(g) |-> {e.to : e \in {f \in EdgesOf(g, s) : ~f.back_edge}}]
      active == ReachableBy(forward, {1})
      number == [s \in active |-> Cardinality({t \in active : t <= s})]
      at(i) == CHOOSE s \in active : number[s] = i
  IN  [i \in 1..Cardinality(active) |->
        [g[at(i)] EXCEPT
           !.return_state = return_position(number, @),
           !.edges = [j \in DOMAIN @ |->
                        [@[j] EXCEPT !.to = renumber(number, @), !.in_betweeners = <<>>]]]]
=============================================================================
