-------------------------- MODULE ThreadAutomaton --------------------------
(***************************************************************************)
(* cfg::automaton: one thread's control flow graph read as an automaton.   *)
(*                                                                         *)
(* A CFG is a sequence of states; state 1 is the initial one.  A state has *)
(* an optional action and a list of successor edges; an edge that belongs  *)
(* to a deterministic branch is tagged.  The position of a thread is       *)
(*    s   the action of state s is still to be executed,                   *)
(*   -s   state s is done and the branch to take is still open,            *)
(*    0   no_state: the thread has terminated (deadlock automaton only).   *)
(***************************************************************************)
EXTENDS Symbols, Sequences, FiniteSets

no_state == 0
NullAction == "null"

edge == [to : Nat \ {0}, tagged : BOOLEAN]

cfg_state == [operation : (op_class \ {"tag"}) \cup {NullAction}, variable : Var,
              assume : BOOLEAN, synthesised : BOOLEAN,
              final : BOOLEAN, edges : Seq(edge)]

HasAction(g, s) == g[s].operation # NullAction

\* What minimise and compact leave: every edge leads to a state of the graph, and
\* (the assertion of minimise) to one that does something or is the exit.
abstract_cfg ==
  {g \in Seq(cfg_state) :
     /\ g # <<>>
     /\ \A s \in DOMAIN g : \A i \in DOMAIN g[s].edges :
          /\ g[s].edges[i].to \in DOMAIN g
          /\ HasAction(g, g[s].edges[i].to) \/ g[g[s].edges[i].to].final}

ActionSymbol(t, g, s) ==
  [thread |-> t, state |-> s, tag_branch |-> NoBranch, operation |-> g[s].operation,
   variable |-> g[s].variable, assume |-> g[s].assume, synthesised |-> g[s].synthesised]

\* The symbol abstract_cfg::tag_edge gives edge i of state s; its variable is the
\* default of class symbol and never looked at.
TagSymbol(t, g, s, i) ==
  [thread |-> t, state |-> s, tag_branch |-> i, operation |-> "tag",
   variable |-> g[s].variable, assume |-> FALSE, synthesised |-> FALSE]

\* The symbols that lead along edge i of state s once s is done.
EdgeSymbols(t, g, s, i) ==
  LET e == g[s].edges[i] IN
    IF e.tagged THEN {TagSymbol(t, g, s, i)}
    ELSE IF HasAction(g, e.to) THEN {ActionSymbol(t, g, e.to)} ELSE {}

next_symbols(t, g, p) ==
  IF p < 0
    THEN UNION {EdgeSymbols(t, g, -p, i) : i \in DOMAIN g[-p].edges}
    ELSE IF HasAction(g, p) THEN {ActionSymbol(t, g, p)} ELSE {}

\* Fault: a single successor is not entered.
StayAfterAction(g, s) == -s

\* The position after the action of state s: a single successor is entered at once.
AfterAction(g, s) == IF Len(g[s].edges) = 1 THEN g[s].edges[1].to ELSE -s

\* int_successors for a symbol of next_symbols.  The edges of a state differ in
\* their targets, so a symbol leads to one position.
successor(t, g, p, sigma) ==
  IF sigma.tag_branch # NoBranch
    THEN g[-p].edges[sigma.tag_branch].to
    ELSE AfterAction(g, sigma.state)

is_final_state(g, p) ==
  IF p < 0
    THEN \E i \in DOMAIN g[-p].edges :
           ~g[-p].edges[i].tagged /\ g[g[-p].edges[i].to].final
    ELSE g[p].final

initial_state == -1

\* The positions a thread can be at.  It is after a state only if the state has
\* several successors (or none), and in front of one only if that has an action
\* or is the exit.
Positions(g) ==
  {no_state, initial_state}
    \cup {s \in DOMAIN g : HasAction(g, s) \/ g[s].final}
    \cup {-s : s \in {s \in DOMAIN g : Len(g[s].edges) # 1}}
=============================================================================
