------------------------------ MODULE FrontEnd ------------------------------
(***************************************************************************)
(* thread_visitor and cfg::program: the functions of the source that are   *)
(* threads become the graphs the rest of the program works on, the one to  *)
(* place locks in and the smaller one to search.                           *)
(***************************************************************************)
EXTENDS Instructions

CONSTANTS
  Sources,       \* the programs: functions, and the names of those that are threads
  max_states, max_threads,
  max_names      \* of variables, of locks, and of conditionals

VARIABLES
  source,
  to_parse,           \* thread functions that are still to be visited
  threads_, minimised_threads_,
  identifier_store,   \* the names of each kind in the order of their numbers
  status

vars == <<source, to_parse, threads_, minimised_threads_, identifier_store, status>>

empty_store == [kind \in {"variable", "lock", "conditional"} |-> <<>>]

Init ==
  /\ source \in Sources
  /\ to_parse = source.threads
  /\ threads_ = <<>> /\ minimised_threads_ = <<>>
  /\ identifier_store = empty_store
  /\ status = "parsing"

KindOf(operation) ==
  CASE operation \in {"read", "write"} -> "variable"
    [] operation \in {"lock", "unlock"} -> "lock"
    [] operation \in WaitOps \cup {"notify", "reset"} -> "conditional"

\* The names in the order the visitor meets them: that of the states it adds.
NamesIn(g, kind) ==
  LET named(s) == s.operation \notin {NullAction, "yield"} /\ KindOf(s.operation) = kind
      states == SelectSeq(g, named)
  IN  [i \in DOMAIN states |-> states[i].variable]

Insert(names, x) == IF x \in ToSet(names) THEN names ELSE Append(names, x)

\* identifier_store::insert_variable, insert_lock and insert_conditonal.
Inserted(names, new) == FoldLeft(Insert, names, new)

\* They throw if the store is full, even if the name has a number.
StoreFull(names, new) ==
  \E i \in DOMAIN new : Len(Inserted(names, SubSeq(new, 1, i - 1))) = max_names

Throw(what) == status' = what /\ UNCHANGED <<source, to_parse, threads_, minimised_threads_, identifier_store>>

\* program::add_thread: the graph to place locks in, and the smaller one to search.
add_thread(g) ==
  LET thread == compact(minimise(g, TRUE))
  IN  /\ threads_' = Append(threads_, thread)
      /\ minimised_threads_' = Append(minimised_threads_, minimise(thread, FALSE))

\* thread_visitor::TraverseFunctionDecl, for a function with the name of a thread.
TraverseFunctionDecl ==
  /\ status = "parsing" /\ to_parse # <<>>
  /\ \E g \in {parse_thread(source.functions, Head(to_parse))} :
       IF Len(g) + 1 > max_states THEN Throw("Maximum number of states reached")
       ELSE IF \E kind \in DOMAIN identifier_store :
                 StoreFull(identifier_store[kind], NamesIn(g, kind)) THEN Throw("Too many names in program")
       ELSE IF Len(threads_) = max_threads THEN Throw("Too many threads in program")
       ELSE /\ add_thread(g)
            /\ identifier_store' = [kind \in DOMAIN identifier_store |->
                                      Inserted(identifier_store[kind], NamesIn(g, kind))]
            /\ to_parse' = Tail(to_parse)
            /\ UNCHANGED <<source, status>>

\* abstraction_consumer::HandleTranslationUnit runs the actions.
RunActions ==
  /\ status = "parsing" /\ to_parse = <<>>
  /\ status' = "running"
  /\ UNCHANGED <<source, to_parse, threads_, minimised_threads_, identifier_store>>

Next == TraverseFunctionDecl \/ RunActions

Spec == Init /\ [][Next]_vars

----------------------------------------------------------------------------
(* Properties *)

\* What the visitors understand: one variable on the left of an assignment, no ++ (an
\* expression that writes), and only calls that can return.
Understood(functions) ==
  \A f \in DOMAIN functions :
    LET blocks == functions[f].blocks
        next == [b \in DOMAIN blocks |-> ToSet(blocks[b].successors)]
    IN  /\ functions[f].exit \in ReachableBy(next, {functions[f].entry})
        /\ \A b \in DOMAIN blocks : \A e \in ToSet(blocks[b].elements) :
             Len(e.writes) <= (IF e.kind = "assignment" THEN 1 ELSE 0)

SameAsSource(g, f) == SameInstructions(GraphAutomaton(g), SourceAutomaton(source.functions, f))

\* Both graphs of a thread have the instruction sequences of its function with all calls,
\* no more and no fewer, after everything that minimise and compact took out, and end
\* where the function ends.
InstructionsKept ==
  Understood(source.functions) =>
    \A i \in DOMAIN threads_ :
      /\ SameAsSource(threads_[i], source.threads[i])
      /\ SameAsSource(minimised_threads_[i], source.threads[i])

\* What the thread automaton and the placement of locks take for granted of the graphs:
\* edges lead to states that do something, or can be locked, or are the exit, and differ in
\* their targets; the first state does nothing, takes no lock and is not entered again; all
\* other states are reached without closing a loop, and every loop is closed by a back edge.
Usable(g, stay) ==
  LET forward == [s \in States(g) |-> {e.to : e \in {f \in EdgesOf(g, s) : ~f.back_edge}}]
  IN  /\ ~HasAction(g, 1) /\ ~Lockable(g, 1) /\ predecessors(g, 1) = {}
      /\ \A s \in stay \cup {1} :
           /\ get_successors(g, s) \subseteq stay
           /\ Cardinality(get_successors(g, s)) = Len(g[s].edges)
           /\ s \notin ReachableBy(forward, forward[s])
      /\ ReachableBy(forward, {1}) = stay \cup {1}

GraphsAreUsable ==
  \A i \in DOMAIN threads_ :
    /\ Usable(threads_[i], remain(threads_[i], TRUE))
    /\ States(threads_[i]) = remain(threads_[i], TRUE) \cup {1}
    /\ Usable(minimised_threads_[i], remain(minimised_threads_[i], FALSE))

\* "if this is a function call, then it contains the position where the function call
\* returns" (abstract_cfg.h): every way from the call to the end of the thread comes through
\* that state.  The constraint on the locks of functions rests on it.
Returns(g, s, r) ==
  LET avoiding == [v \in States(g) |-> get_successors(g, v) \ {r}]
  IN  /\ r \in States(g)
      /\ r \in ReachableBy([v \in States(g) |-> get_successors(g, v)], {s})
      /\ \A v \in ReachableBy(avoiding, {s}) : ~g[v].final

PositionsOfReturn ==
  Understood(source.functions) =>
    \A i \in DOMAIN threads_ : \A s \in States(threads_[i]) :
      threads_[i][s].return_state # no_state => Returns(threads_[i], s, threads_[i][s].return_state)

\* No statement goes on after a call, as that of x = f() does.
CallsEndStatements(functions) ==
  \A f \in DOMAIN functions : \A b \in DOMAIN functions[f].blocks :
    LET elements == functions[f].blocks[b].elements IN
    \A i \in 2..Len(elements) :
      elements[i - 1].kind = "call" => elements[i].after \notin {elements[i - 1].after} \ {NoLocation}

\* As long as calls end their statements, the position where a call returns is known.
CallsReturn == CallsEndStatements(source.functions) => PositionsOfReturn

\* The state does something for the statement of e, or is a call in it or the return from one.
PartOf(s, e) ==
  \/ s.stmt = e.stmt /\ e.stmt # no_stmt
  \/ s.lock_before = e.before /\ e.before # NoLocation
  \/ s.lock_after = e.after /\ e.after # NoLocation

ElementsOf(functions) ==
  UNION {UNION {ToSet(functions[f].blocks[b].elements) : b \in DOMAIN functions[f].blocks} :
           f \in DOMAIN functions}

\* The places of a state are printed in front of and behind its statement.  Between two states
\* "part of the same statement" (add_successor) there is thus none: not behind the first and
\* not in front of the second.
NoLockInside(g, e) ==
  \A s \in States(g) : \A d \in EdgesOf(g, s) :
    PartOf(g[s], e) /\ PartOf(g[d.to], e) /\ ~d.back_edge =>
      g[s].lock_after = NoLocation /\ g[d.to].lock_before = NoLocation

\* A call is the first thing the statement does, as in x = f(), but not in f(y) or f() + f().
CallsBegin(functions, stmt) ==
  \A f \in DOMAIN functions : \A b \in DOMAIN functions[f].blocks :
    LET elements == functions[f].blocks[b].elements IN
    \A i \in {i \in DOMAIN elements : elements[i].kind = "call" /\ elements[i].stmt = stmt} :
      elements[i].reads = <<>> /\ \A j \in 1..(i - 1) : elements[j].stmt # stmt

\* No lock is placed inside a statement, also not around the calls in it, unless something
\* of the statement comes before a call.
NoLockInsideStatement ==
  \A i \in DOMAIN threads_ : \A e \in ElementsOf(source.functions) :
    CallsBegin(source.functions, e.stmt) => NoLockInside(threads_[i], e)
=============================================================================
