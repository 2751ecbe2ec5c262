------------------------- MODULE DeadlockAlgoProofs -------------------------
(***************************************************************************)
(* Theorems about the deadlock search: it visits every state, and a        *)
(* counterexample it reports is an execution, and a shortest one, to a     *)
(* deadlock.                                                               *)
(***************************************************************************)
EXTENDS DeadlockAlgo, ConcurrentAutomatonProofs, FiniteSetTheorems, WellFoundedInduction

----------------------------------------------------------------------------
(* Natural numbers *)

\* Induction, for a set of numbers.
LEMMA NatSetInduction ==
  ASSUME NEW S, 0 \in S, \A n \in Nat : n \in S => n + 1 \in S
  PROVE  Nat \subseteq S
<1> DEFINE T == {n \in Nat : n \notin S}
<1>1. SUFFICES ASSUME T # {} PROVE FALSE
  OBVIOUS
<1>2. PICK x \in T : \A y \in T : ~(<<y, x>> \in OpToRel(<, Nat))
  <2>1. T \subseteq Nat
    OBVIOUS
  <2> HIDE DEF T
  <2> QED
    BY <1>1, <2>1, NatLessThanWellFounded, WFMin
<1>3. x \in Nat /\ x # 0 /\ x - 1 \in Nat /\ x - 1 < x /\ x = (x - 1) + 1
  OBVIOUS
<1>4. x - 1 \in T
  BY <1>3
<1>5. <<x - 1, x>> \in OpToRel(<, Nat)
  <2>1. <<x - 1, x>> \in Nat \X Nat /\ <<x - 1, x>>[1] < <<x - 1, x>>[2]
    BY <1>3
  <2> QED
    BY <2>1, Zenon DEF OpToRel
<1> QED
  BY <1>2, <1>4, <1>5

\* What follows value number n, for every n.
IsStep(D, F) == F \in [Nat -> [D -> D]]

\* f begins with a and continues with F.
Continues(f, a, F) == f[0] = a /\ \A n \in Nat : f[n + 1] = F[n][f[n]]

\* A sequence of values is determined by the first and by what follows each.
LEMMA PrimitiveRecursion ==
  ASSUME NEW D, NEW a \in D, NEW F, IsStep(D, F)
  PROVE  \E f \in [Nat -> D] : Continues(f, a, F)
<1> USE DEF IsStep, Continues
<1> DEFINE Solves(g, n) == g[0] = a /\ \A m \in Nat : m < n => g[m + 1] = F[m][g[m]]
           S == {n \in Nat : \E g \in [Nat -> D] : Solves(g, n)}
<1>1. 0 \in S
  <2>1. [m \in Nat |-> a] \in [Nat -> D] /\ Solves([m \in Nat |-> a], 0)
    OBVIOUS
  <2> QED
    BY <2>1, Zenon
<1>2. ASSUME NEW n \in Nat, n \in S PROVE n + 1 \in S
  <2>1. PICK g \in [Nat -> D] : Solves(g, n)
    BY <1>2
  <2> DEFINE h == [g EXCEPT ![n + 1] = F[n][g[n]]]
  <2>2. h \in [Nat -> D]
    OBVIOUS
  <2>3. Solves(h, n + 1)
    <3>1. h[0] = a
      BY <2>1
    <3>2. ASSUME NEW m \in Nat, m < n + 1 PROVE h[m + 1] = F[m][h[m]]
      <4>1. CASE m = n
        BY <4>1
      <4>2. CASE m # n
        BY <2>1, <3>2, <4>2
      <4> QED
        BY <4>1, <4>2
    <3> QED
      BY <3>1, <3>2
  <2> HIDE DEF h, Solves
  <2> QED
    BY <2>2, <2>3
<1>3. \A n \in Nat : \E g \in [Nat -> D] : Solves(g, n)
  <2>1. Nat \subseteq S
    <3> HIDE DEF S
    <3> QED
      BY <1>1, <1>2, NatSetInduction
  <2> QED
    BY <2>1
<1> DEFINE G(n) == CHOOSE g \in [Nat -> D] : Solves(g, n)
           f == [n \in Nat |-> G(n)[n]]
<1>4. \A n \in Nat : G(n) \in [Nat -> D] /\ Solves(G(n), n)
  BY <1>3
<1> HIDE DEF G
<1>5. ASSUME NEW n \in Nat PROVE G(n + 1)[n] = G(n)[n]
  <2> DEFINE T == {m \in Nat : m <= n => G(n + 1)[m] = G(n)[m]}
  <2>1. /\ G(n)[0] = a /\ \A m \in Nat : m < n => G(n)[m + 1] = F[m][G(n)[m]]
        /\ G(n + 1)[0] = a /\ \A m \in Nat : m < n + 1 => G(n + 1)[m + 1] = F[m][G(n + 1)[m]]
    <3>1. n + 1 \in Nat
      OBVIOUS
    <3> QED
      BY <1>4, <3>1
  <2>2. 0 \in T
    BY <2>1
  <2>3. \A m \in Nat : m \in T => m + 1 \in T
    BY <2>1
  <2>4. Nat \subseteq T
    <3> HIDE DEF T
    <3> QED
      BY <2>2, <2>3, NatSetInduction
  <2> QED
    BY <2>4
<1>6. f \in [Nat -> D] /\ f[0] = a
  BY <1>4
<1>7. ASSUME NEW n \in Nat PROVE f[n + 1] = F[n][f[n]]
  <2>1. n + 1 \in Nat /\ n < n + 1
    OBVIOUS
  <2>2. G(n + 1)[n + 1] = F[n][G(n + 1)[n]]
    BY <1>4, <2>1
  <2> QED
    BY <1>5, <2>1, <2>2
<1> QED
  BY <1>6, <1>7

----------------------------------------------------------------------------
(* The successors of a state as a sequence                                *)

LEMMA FiniteImage ==
  ASSUME NEW S, IsFiniteSet(S), NEW f
  PROVE  IsFiniteSet({f[x] : x \in S})
<1>1. [x \in S |-> f[x]] \in Surjection(S, {f[x] : x \in S})
  BY DEF Surjection
<1> QED
  BY <1>1, FS_Surjection

\* SetToSeq gives every element of a finite set a place.
LEMMA SetToSeqFacts ==
  ASSUME NEW S, IsFiniteSet(S)
  PROVE  /\ SetToSeq(S) \in Seq(S)
         /\ \A x \in S : \E i \in DOMAIN SetToSeq(S) : SetToSeq(S)[i] = x
<1> DEFINE n == Cardinality(S)
<1>1. n \in Nat /\ ExistsBijection(1..n, S)
  BY FS_CardinalityType
<1>2. PICK g \in Injection(1..n, S) : TRUE
  BY <1>1 DEF ExistsBijection, Bijection
<1>3. SetToSeq(S) \in Injection(1..n, S)
  BY <1>2 DEF SetToSeq, Injection
<1>4. IsFiniteSet(1..n) /\ Cardinality(1..n) = n
  BY <1>1, FS_Interval
<1>5. SetToSeq(S) \in Surjection(1..n, S)
  <2> HIDE DEF n
  <2>1. Cardinality(S) = n
    BY DEF n
  <2> QED
    BY <1>3, <1>4, <2>1, FS_Injection
<1>6. SetToSeq(S) \in [1..n -> S]
  BY <1>3 DEF Injection
<1> HIDE DEF n
<1> QED
  BY <1>1, <1>5, <1>6 DEF Surjection

\* A thread has finitely many symbols to go on with.
LEMMA FiniteSymbols ==
  ASSUME AutomatonOK, NEW st, StateOK(st)
  PROVE  IsFiniteSet(int_next_symbols(st))
<1>1. ASSUME NEW t \in Thread PROVE IsFiniteSet(next_single(st, t))
  <2> DEFINE g == threads[t]
             p == st.threads[t]
  <2>1. g \in abstract_cfg /\ p \in Positions(g)
    BY DEF AutomatonOK, StateOK
  <2>2. CASE p < 0
    <3>1. -p \in DOMAIN g
      <4>1. 1 \in DOMAIN g /\ \A s \in DOMAIN g : s \in Nat \ {0}
        BY <2>1 DEF abstract_cfg
      <4> HIDE DEF g, p
      <4> QED
        BY <2>1, <2>2, <4>1 DEF Positions, initial_state, no_state
    <3> DEFINE I == DOMAIN g[-p].edges
               f == [i \in I |-> EdgeSymbols(t, g, -p, i)]
    <3>2. IsFiniteSet(I)
      <4>1. Len(g[-p].edges) \in Nat /\ I = 1..Len(g[-p].edges)
        BY <2>1, <3>1, GraphState
      <4> HIDE DEF I
      <4> QED
        BY <4>1, FS_Interval
    <3>3. \A i \in I : IsFiniteSet(f[i])
      BY FS_Singleton, FS_EmptySet DEF EdgeSymbols
    <3>4. IsFiniteSet({f[i] : i \in I})
      <4> HIDE DEF I, f
      <4> QED
        BY <3>2, FiniteImage
    <3>5. IsFiniteSet(UNION {f[i] : i \in I})
      <4> HIDE DEF I, f
      <4> QED
        BY <3>3, <3>4, FS_UNION
    <3>6. next_symbols(t, g, p) = UNION {f[i] : i \in I}
      BY <2>2 DEF next_symbols
    <3> QED
      BY <3>5, <3>6, FS_EmptySet DEF next_single
  <2>3. CASE ~(p < 0)
    BY <2>3, FS_Singleton, FS_EmptySet DEF next_single, next_symbols
  <2> QED
    BY <2>2, <2>3
<1> DEFINE T == IF st.current = no_thread THEN Thread ELSE {st.current}
           f == [t \in T |-> next_single(st, t)]
<1>2. IsFiniteSet(T) /\ T \subseteq Thread
  BY FS_Singleton, ConcurrentAutomatonAssumption DEF StateOK, concurrent_state
<1>3. \A t \in T : IsFiniteSet(f[t])
  BY <1>1, <1>2
<1>4. IsFiniteSet({f[t] : t \in T})
  <2> HIDE DEF T, f
  <2> QED
    BY <1>2, FiniteImage
<1>5. IsFiniteSet(UNION {f[t] : t \in T})
  <2> HIDE DEF T, f
  <2> QED
    BY <1>3, <1>4, FS_UNION
<1>6. int_next_symbols(st) = UNION {f[t] : t \in T}
  BY DEF int_next_symbols
<1> QED
  BY <1>5, <1>6

\* The states of the automaton.
States == {st \in concurrent_state : StateOK(st)}

\* What is queued: a state and the symbols that lead to it.
queue_item == [s : States, cex_chain : Seq(symbol)]

LEMMA FiniteSuccessors ==
  ASSUME AutomatonOK, NEW item \in queue_item
  PROVE  IsFiniteSet(SuccessorItems(item))
<1> DEFINE S == int_next_symbols(item.s)
           items(sigma) == {[s |-> st, cex_chain |-> Append(item.cex_chain, sigma)] :
                              st \in int_successors(item.s, sigma)}
           f == [sigma \in S |-> items(sigma)]
<1>1. IsFiniteSet(S)
  BY FiniteSymbols DEF queue_item, States
<1>2. ASSUME NEW sigma \in S PROVE IsFiniteSet(f[sigma])
  <2> DEFINE X == int_successors(item.s, sigma)
             g == [st \in X |-> [s |-> st, cex_chain |-> Append(item.cex_chain, sigma)]]
  <2>1. IsFiniteSet(X)
    <3>1. IsFiniteSet({Executed(item.s, sigma)} \cup {Terminated(item.s, sigma)}
                        \cup {Descheduled(item.s, sigma)})
      BY FS_Singleton, FS_Union
    <3>2. X \subseteq {Executed(item.s, sigma)} \cup {Terminated(item.s, sigma)}
                        \cup {Descheduled(item.s, sigma)}
      BY DEF int_successors
    <3> HIDE DEF X
    <3> QED
      BY <3>1, <3>2, FS_Subset
  <2>2. IsFiniteSet({g[st] : st \in X})
    <3> HIDE DEF X, g
    <3> QED
      BY <2>1, FiniteImage
  <2>3. f[sigma] = {g[st] : st \in X}
    <3>1. items(sigma) = {g[st] : st \in X}
      OBVIOUS
    <3> HIDE DEF X, g, items
    <3> QED
      BY <3>1
  <2> QED
    BY <2>2, <2>3
<1>3. IsFiniteSet({f[sigma] : sigma \in S})
  <2> HIDE DEF S, f
  <2> QED
    BY <1>1, FiniteImage
<1>4. IsFiniteSet(UNION {f[sigma] : sigma \in S})
  <2> HIDE DEF S, f
  <2> QED
    BY <1>2, <1>3, FS_UNION
<1>5. SuccessorItems(item) = UNION {f[sigma] : sigma \in S}
  BY DEF SuccessorItems
<1> QED
  BY <1>4, <1>5

----------------------------------------------------------------------------
(* Executions of the automaton                                            *)

LEMMA SuccessorStates ==
  ASSUME AutomatonOK, NEW st \in States, NEW sigma \in int_next_symbols(st),
         NEW s \in int_successors(st, sigma)
  PROVE  s \in States /\ sigma \in symbol
<1>1. StateOK(st)
  BY DEF States
<1>2. StateOK(s)
  BY <1>1, SuccessorsOK DEF int_successors
<1> QED
  BY <1>1, <1>2, NextSymbol DEF States, StateOK

LEMMA InitialStates == int_initial_state \in States
BY InitialStateOK DEF States, StateOK

\* The defining equations of Within.
LEMMA WithinEquations ==
  ASSUME AutomatonOK
  PROVE  /\ Within[0] = {int_initial_state}
         /\ \A n \in Nat :
              Within[n + 1] = Within[n] \cup UNION {Followers(st) : st \in Within[n]}
<1> DEFINE D == SUBSET States
           Step(X) == X \cup UNION {Followers(st) : st \in X}
           F == [n \in Nat |-> [X \in D |-> Step(X)]]
<1>1. \A X \in D : Step(X) \in D
  BY SuccessorStates DEF Followers
<1>2. IsStep(D, F) /\ {int_initial_state} \in D
  BY <1>1, InitialStates DEF IsStep
<1>3. PICK f \in [Nat -> D] : Continues(f, {int_initial_state}, F)
  <2> HIDE DEF D, F
  <2> QED
    BY <1>2, PrimitiveRecursion
<1>4. f[0] = {int_initial_state} /\ \A n \in Nat : f[n + 1] = Step(f[n])
  <2> HIDE DEF Step
  <2> QED
    BY <1>3 DEF Continues
<1> DEFINE Def(g) == [n \in Nat |-> IF n = 0 THEN {int_initial_state} ELSE Step(g[n - 1])]
<1>5. f = Def(f)
  <2> HIDE DEF Step
  <2>1. ASSUME NEW n \in Nat, n # 0 PROVE f[n] = Step(f[n - 1])
    <3>1. n - 1 \in Nat /\ (n - 1) + 1 = n
      BY <2>1
    <3>2. f[(n - 1) + 1] = Step(f[n - 1])
      BY <1>4, <3>1
    <3> QED
      BY <3>1, <3>2
  <2> QED
    BY <1>4, <2>1
<1>6. Within = CHOOSE g : g = Def(g)
  BY DEF Within
<1>7. Within = Def(Within)
  <2> HIDE DEF Def
  <2> QED
    BY <1>5, <1>6
<1>8. Within[0] = {int_initial_state}
  BY <1>7
<1>9. ASSUME NEW n \in Nat PROVE Within[n + 1] = Step(Within[n])
  <2>1. n + 1 \in Nat /\ n + 1 # 0 /\ (n + 1) - 1 = n
    OBVIOUS
  <2>2. Within[n + 1] = Def(Within)[n + 1]
    BY <1>7
  <2> HIDE DEF Step
  <2> QED
    BY <2>1, <2>2
<1> QED
  BY <1>8, <1>9

\* The symbols lead from the initial state to st, through the states of run.
Follows(run, symbols, st) ==
  /\ run[0] = int_initial_state
  /\ \A i \in DOMAIN symbols :
       /\ symbols[i] \in int_next_symbols(run[i - 1])
       /\ run[i] \in int_successors(run[i - 1], symbols[i])
  /\ run[Len(symbols)] = st

LeadsTo(symbols, st) == \E run \in [Nat -> States] : Follows(run, symbols, st)

LEMMA LeadsNowhere == LeadsTo(<<>>, int_initial_state)
<1>1. [n \in Nat |-> int_initial_state] \in [Nat -> States]
  BY InitialStates
<1>2. Follows([n \in Nat |-> int_initial_state], <<>>, int_initial_state)
  BY DEF Follows
<1> QED
  BY <1>1, <1>2 DEF LeadsTo

LEMMA LeadsOn ==
  ASSUME AutomatonOK, NEW symbols \in Seq(symbol), NEW st \in States, LeadsTo(symbols, st),
         NEW sigma \in int_next_symbols(st), NEW s \in int_successors(st, sigma)
  PROVE  LeadsTo(Append(symbols, sigma), s)
<1>1. PICK run \in [Nat -> States] : Follows(run, symbols, st)
  BY DEF LeadsTo
<1> DEFINE n == Len(symbols)
           longer == [run EXCEPT ![n + 1] = s]
<1>2. n \in Nat /\ DOMAIN symbols = 1..n
  OBVIOUS
<1>3. longer \in [Nat -> States] /\ s \in States /\ sigma \in symbol
  BY SuccessorStates
<1>4. /\ Append(symbols, sigma) \in Seq(symbol)
      /\ Len(Append(symbols, sigma)) = n + 1
      /\ Append(symbols, sigma)[n + 1] = sigma
      /\ \A i \in 1..n : Append(symbols, sigma)[i] = symbols[i]
      /\ DOMAIN Append(symbols, sigma) = 1..(n + 1)
  BY <1>3
<1>5. /\ longer[0] = int_initial_state
      /\ longer[n + 1] = s
      /\ \A i \in 0..n : longer[i] = run[i]
  BY <1>1, <1>2 DEF Follows
<1>6. ASSUME NEW i \in 1..(n + 1)
      PROVE  /\ Append(symbols, sigma)[i] \in int_next_symbols(longer[i - 1])
             /\ longer[i] \in int_successors(longer[i - 1], Append(symbols, sigma)[i])
  <2> HIDE DEF longer
  <2>1. CASE i = n + 1
    <3>1. i - 1 = n /\ longer[n] = st
      BY <1>1, <1>2, <1>5, <2>1 DEF Follows
    <3> QED
      BY <1>4, <1>5, <2>1, <3>1
  <2>2. CASE i # n + 1
    <3>1. i \in 1..n /\ i - 1 \in 0..n /\ i \in 0..n
      BY <1>2, <2>2
    <3> QED
      BY <1>1, <1>2, <1>4, <1>5, <3>1 DEF Follows
  <2> QED
    BY <2>1, <2>2
<1>7. Follows(longer, Append(symbols, sigma), s)
  BY <1>4, <1>5, <1>6 DEF Follows
<1> QED
  BY <1>3, <1>7 DEF LeadsTo

\* What an execution leads to is among the states of its replay.
LEMMA ReplayFollows ==
  ASSUME AutomatonOK, NEW symbols \in Seq(symbol), NEW st, LeadsTo(symbols, st)
  PROVE  st \in Replay(symbols)
<1>1. PICK run \in [Nat -> States] : Follows(run, symbols, st)
  BY DEF LeadsTo
<1> DEFINE L == Len(symbols)
           D == SUBSET States
           Step(X, n) == UNION {int_successors(s, symbols[n]) :
                                  s \in {s \in X : symbols[n] \in int_next_symbols(s)}}
           F == [n \in Nat |-> [X \in D |-> Step(X, n + 1)]]
<1>2. ASSUME NEW X \in D, NEW n \in Nat PROVE Step(X, n) \in D
  BY SuccessorStates
<1>3. IsStep(D, F) /\ {int_initial_state} \in D
  <2> HIDE DEF Step
  <2>1. \A n \in Nat : [X \in D |-> Step(X, n + 1)] \in [D -> D]
    BY <1>2
  <2> HIDE DEF D
  <2>2. IsStep(D, F)
    BY <2>1 DEF IsStep
  <2> QED
    BY <2>2, InitialStates DEF D
<1>4. PICK f \in [Nat -> D] : Continues(f, {int_initial_state}, F)
  <2> HIDE DEF D, F
  <2> QED
    BY <1>3, PrimitiveRecursion
<1>5. f[0] = {int_initial_state} /\ \A n \in Nat : f[n + 1] = Step(f[n], n + 1)
  <2> HIDE DEF Step
  <2> QED
    BY <1>4 DEF Continues
<1> DEFINE Def(g) == [n \in 0..L |-> IF n = 0 THEN {int_initial_state} ELSE Step(g[n - 1], n)]
           after == CHOOSE g : g = Def(g)
<1>6. L \in Nat /\ DOMAIN symbols = 1..L
  OBVIOUS
<1> HIDE DEF L
<1>7. [n \in 0..L |-> f[n]] = Def([n \in 0..L |-> f[n]])
  <2> HIDE DEF Step
  <2>1. ASSUME NEW n \in 0..L, n # 0 PROVE f[n] = Step([m \in 0..L |-> f[m]][n - 1], n)
    <3>1. n - 1 \in Nat /\ n - 1 \in 0..L /\ (n - 1) + 1 = n
      BY <1>6, <2>1
    <3>2. f[(n - 1) + 1] = Step(f[n - 1], (n - 1) + 1)
      BY <1>5, <3>1
    <3> QED
      BY <3>1, <3>2
  <2> QED
    BY <1>5, <2>1
<1>8. after = Def(after)
  <2> HIDE DEF Def
  <2> QED
    BY <1>7
<1>9. Replay(symbols) = after[L]
  BY DEF Replay, L
<1> HIDE DEF after
<1>10. run[0] \in after[0]
  BY <1>1, <1>6, <1>8 DEF Follows
<1>11. ASSUME NEW n \in 0..(L - 1), run[n] \in after[n] PROVE run[n + 1] \in after[n + 1]
  <2>1. n + 1 \in DOMAIN symbols /\ (n + 1) - 1 = n /\ n + 1 # 0 /\ n + 1 \in 0..L
    BY <1>6
  <2>2. after[n + 1] = Step(after[n], n + 1)
    <3> HIDE DEF Step
    <3> QED
      BY <1>8, <2>1
  <2>3. /\ symbols[n + 1] \in int_next_symbols(run[n])
        /\ run[n + 1] \in int_successors(run[n], symbols[n + 1])
    BY <1>1, <2>1 DEF Follows
  <2> QED
    BY <1>11, <2>2, <2>3
<1>12. \A n \in 0..L : run[n] \in after[n]
  <2> DEFINE T == {n \in Nat : n <= L => run[n] \in after[n]}
  <2>1. 0 \in T
    BY <1>10
  <2>2. \A n \in Nat : n \in T => n + 1 \in T
    BY <1>6, <1>11
  <2>3. Nat \subseteq T
    <3> HIDE DEF T
    <3> QED
      BY <2>1, <2>2, NatSetInduction
  <2> QED
    BY <1>6, <2>3
<1> QED
  BY <1>1, <1>6, <1>9, <1>12 DEF Follows, L

----------------------------------------------------------------------------
(* The invariant of the search                                            *)

\* The number of symbols that lead to the state of an item.
Depth(item) == Len(item.cex_chain)

Queued(queue) == {queue[i].s : i \in DOMAIN queue}

\* Every queued state is reached by the symbols queued with it.
Reached(queue) == \A i \in DOMAIN queue : LeadsTo(queue[i].cex_chain, queue[i].s)

\* The queue is sorted by depth, and no two of its depths differ by more than one.
ByDepth(queue) ==
  \A i, j \in DOMAIN queue :
    i <= j => Depth(queue[i]) <= Depth(queue[j]) /\ Depth(queue[j]) <= Depth(queue[i]) + 1

\* FrontierCoversRest while no deadlock is reported.
CoversRest(queue, visited) ==
  /\ int_initial_state \in visited \cup Queued(queue)
  /\ \A st \in visited : Followers(st) \subseteq visited \cup Queued(queue) /\ ~is_deadlock(st)

\* All states less deep than the head of the queue are visited, and all as deep as it
\* are visited or queued with that depth.
CoversDepths(queue, visited) ==
  queue # <<>> =>
    \A n \in Nat :
      /\ n < Depth(queue[1]) => Within[n] \subseteq visited
      /\ n = Depth(queue[1]) =>
           \A st \in Within[n] :
             st \in visited \/ \E i \in DOMAIN queue : queue[i].s = st /\ Depth(queue[i]) = n

\* The places of a queue f whose head is taken off and to which the items new are added.
QueueStep(f, new, g) ==
  /\ 1 \in DOMAIN f
  /\ \A i \in DOMAIN g :
       \/ i + 1 \in DOMAIN f /\ g[i] = f[i + 1]
       \/ i + 1 > Len(f) /\ \E k \in DOMAIN new : g[i] = new[k]
  /\ \A j \in DOMAIN f : j # 1 => j - 1 \in DOMAIN g /\ g[j - 1] = f[j]
  /\ \A k \in DOMAIN new : \E i \in DOMAIN g : g[i] = new[k]

LEMMA QueueFacts ==
  ASSUME NEW S, NEW f \in Seq(S), f # <<>>, NEW new \in Seq(S), NEW g, g = Tail(f) \o new
  PROVE  g \in Seq(S) /\ QueueStep(f, new, g)
<1> DEFINE n == Len(f) - 1
<1>1. /\ n \in Nat /\ DOMAIN f = 1..(n + 1) /\ Len(f) = n + 1
      /\ Len(new) \in Nat /\ DOMAIN new = 1..Len(new)
  OBVIOUS
<1>2. Tail(f) \in Seq(S) /\ Len(Tail(f)) = n /\ \A i \in 1..n : Tail(f)[i] = f[i + 1]
  BY <1>1
<1>3. g \in Seq(S) /\ Len(g) = n + Len(new) /\ DOMAIN g = 1..(n + Len(new))
  BY <1>1, <1>2
<1>4. \A i \in 1..n : g[i] = f[i + 1]
  BY <1>1, <1>2
<1>5. \A k \in 1..Len(new) : g[n + k] = new[k]
  BY <1>1, <1>2
<1>6. 1 \in DOMAIN f
  BY <1>1
<1> HIDE DEF n
<1>7. ASSUME NEW i \in DOMAIN g
      PROVE  \/ i + 1 \in DOMAIN f /\ g[i] = f[i + 1]
             \/ i + 1 > Len(f) /\ \E k \in DOMAIN new : g[i] = new[k]
  <2>1. CASE i <= n
    BY <1>1, <1>3, <1>4, <2>1
  <2>2. CASE i > n
    <3>1. i - n \in 1..Len(new) /\ n + (i - n) = i
      BY <1>1, <1>3, <2>2
    <3>2. g[i] = new[i - n]
      BY <1>5, <3>1
    <3> QED
      BY <1>1, <1>3, <2>2, <3>1, <3>2
  <2> QED
    BY <1>1, <1>3, <2>1, <2>2
<1>8. ASSUME NEW j \in DOMAIN f, j # 1 PROVE j - 1 \in DOMAIN g /\ g[j - 1] = f[j]
  <2>1. j - 1 \in 1..n /\ (j - 1) + 1 = j
    BY <1>1, <1>8
  <2>2. g[j - 1] = f[(j - 1) + 1]
    BY <1>4, <2>1
  <2> QED
    BY <1>1, <1>3, <2>1, <2>2
<1>9. ASSUME NEW k \in DOMAIN new PROVE \E i \in DOMAIN g : g[i] = new[k]
  <2>1. n + k \in DOMAIN g
    BY <1>1, <1>3
  <2> QED
    BY <1>1, <1>5, <2>1
<1> QED
  BY <1>3, <1>6, <1>7, <1>8, <1>9 DEF QueueStep

\* Taking the head off the queue once it is visited, and queueing states one deeper,
\* its successors among them, keeps the queue in order and everything covered.
LEMMA Advance ==
  ASSUME AutomatonOK, NEW f \in Seq(queue_item), f # <<>>, NEW r \in SUBSET States,
         Reached(f), ByDepth(f), CoversRest(f, r), CoversDepths(f, r),
         NEW new \in Seq(queue_item), Reached(new),
         \A k \in DOMAIN new : Depth(new[k]) = Depth(f[1]) + 1,
         Followers(f[1].s) \subseteq r \cup {f[1].s} \cup Queued(f) \cup Queued(new),
         ~is_deadlock(f[1].s)
  PROVE  LET g == Tail(f) \o new
             v == r \cup {f[1].s}
         IN  /\ g \in Seq(queue_item) /\ v \in SUBSET States
             /\ Reached(g) /\ ByDepth(g) /\ CoversRest(g, v) /\ CoversDepths(g, v)
<1> DEFINE g == Tail(f) \o new
           v == r \cup {f[1].s}
           d == Depth(f[1])
<1>0. g = Tail(f) \o new
  OBVIOUS
<1> HIDE DEF g
<1>1. /\ g \in Seq(queue_item)
      /\ 1 \in DOMAIN f
      /\ \A i \in DOMAIN g :
           \/ i + 1 \in DOMAIN f /\ g[i] = f[i + 1]
           \/ i + 1 > Len(f) /\ \E k \in DOMAIN new : g[i] = new[k]
      /\ \A j \in DOMAIN f : j # 1 => j - 1 \in DOMAIN g /\ g[j - 1] = f[j]
      /\ \A k \in DOMAIN new : \E i \in DOMAIN g : g[i] = new[k]
  <2>1. g \in Seq(queue_item) /\ QueueStep(f, new, g)
    BY <1>0, QueueFacts
  <2> QED
    BY <2>1, Zenon DEF QueueStep
<1>2. /\ DOMAIN f = 1..Len(f) /\ Len(f) \in Nat
      /\ DOMAIN g \subseteq Nat \ {0} /\ (g # <<>> => 1 \in DOMAIN g)
  BY <1>1
<1>3. /\ \A i \in DOMAIN f : f[i] \in queue_item
      /\ \A i \in DOMAIN g : g[i] \in queue_item
  BY <1>1, <1>2
<1>4. \A item \in queue_item : Depth(item) \in Nat /\ item.s \in States
  BY DEF Depth, queue_item
<1>5. v \in SUBSET States /\ d \in Nat
  BY <1>1, <1>3, <1>4
<1>6. Reached(g)
  BY <1>1 DEF Reached
<1>7. ASSUME NEW i \in DOMAIN f
      PROVE  Depth(f[i]) \in Nat /\ d <= Depth(f[i]) /\ Depth(f[i]) <= d + 1
  <2>1. 1 <= i /\ f[i] \in queue_item
    BY <1>2, <1>3
  <2>2. Depth(f[i]) \in Nat
    BY <1>4, <2>1
  <2> QED
    BY <1>1, <2>1, <2>2 DEF ByDepth
<1>8. ASSUME NEW i \in DOMAIN g
      PROVE  Depth(g[i]) \in Nat /\ d <= Depth(g[i]) /\ Depth(g[i]) <= d + 1
  <2>1. CASE i + 1 \in DOMAIN f /\ g[i] = f[i + 1]
    BY <1>7, <2>1
  <2>2. CASE \E k \in DOMAIN new : g[i] = new[k]
    <3>1. Depth(g[i]) = d + 1
      BY <2>2
    <3> QED
      BY <1>5, <3>1
  <2> QED
    BY <1>1, <2>1, <2>2
<1>9. ByDepth(g)
  <2> SUFFICES ASSUME NEW i \in DOMAIN g, NEW j \in DOMAIN g, i <= j
               PROVE  Depth(g[i]) <= Depth(g[j]) /\ Depth(g[j]) <= Depth(g[i]) + 1
    BY DEF ByDepth
  <2>1. CASE j + 1 \in DOMAIN f /\ g[j] = f[j + 1]
    <3>1. i + 1 \in DOMAIN f /\ g[i] = f[i + 1] /\ i + 1 <= j + 1
      BY <1>1, <1>2, <2>1
    <3> QED
      BY <2>1, <3>1 DEF ByDepth
  <2>2. CASE \E k \in DOMAIN new : g[j] = new[k]
    <3>1. Depth(g[j]) = d + 1
      BY <2>2
    <3> QED
      BY <1>5, <1>8, <3>1
  <2> QED
    BY <1>1, <2>1, <2>2
<1>10. /\ Queued(f) \subseteq v \cup Queued(g)
       /\ Queued(new) \subseteq Queued(g)
  BY <1>1 DEF Queued
<1>11. CoversRest(g, v)
  <2>1. Followers(f[1].s) \subseteq v \cup Queued(g)
    BY <1>10
  <2> QED
    BY <1>10, <2>1 DEF CoversRest
<1>12. ASSUME g # <<>> PROVE Depth(g[1]) \in {d, d + 1}
  BY <1>2, <1>5, <1>8, <1>12
<1>13. ASSUME NEW n \in Nat, n < d PROVE Within[n] \subseteq v
  BY <1>13 DEF CoversDepths
<1>14. ASSUME NEW st \in Within[d]
       PROVE  st \in v \/ \E i \in DOMAIN g : g[i].s = st /\ Depth(g[i]) = d
  <2>1. st \in r \/ \E j \in DOMAIN f : f[j].s = st /\ Depth(f[j]) = d
    BY <1>5 DEF CoversDepths
  <2>2. ASSUME NEW j \in DOMAIN f, f[j].s = st, Depth(f[j]) = d
        PROVE  st \in v \/ \E i \in DOMAIN g : g[i].s = st /\ Depth(g[i]) = d
    <3>1. CASE j = 1
      BY <2>2, <3>1
    <3>2. CASE j # 1
      <4>1. j - 1 \in DOMAIN g /\ g[j - 1] = f[j]
        BY <1>1, <3>2
      <4> QED
        BY <2>2, <4>1
    <3> QED
      BY <3>1, <3>2
  <2> QED
    BY <2>1, <2>2
<1>15. CoversDepths(g, v)
  <2> SUFFICES ASSUME g # <<>>, NEW n \in Nat
               PROVE  /\ n < Depth(g[1]) => Within[n] \subseteq v
                      /\ n = Depth(g[1]) =>
                           \A st \in Within[n] :
                             st \in v \/ \E i \in DOMAIN g : g[i].s = st /\ Depth(g[i]) = n
    BY DEF CoversDepths
  <2>1. CASE Depth(g[1]) = d
    BY <1>13, <1>14, <2>1
  <2>2. CASE Depth(g[1]) = d + 1
    <3>1. \A i \in DOMAIN g : Depth(g[i]) = d + 1
      BY <1>2, <1>5, <1>8, <1>9, <2>2 DEF ByDepth
    <3>2. Within[d] \subseteq v
      BY <1>5, <1>14, <3>1
    <3>3. ASSUME NEW st \in Within[d + 1] PROVE st \in v \cup Queued(g)
      <4>1. Within[d + 1] = Within[d] \cup UNION {Followers(s) : s \in Within[d]}
        BY <1>5, WithinEquations
      <4>2. CASE st \in Within[d]
        BY <3>2, <4>2
      <4>3. CASE \E s \in Within[d] : st \in Followers(s)
        BY <1>11, <3>2, <4>3 DEF CoversRest
      <4> QED
        BY <3>3, <4>1, <4>2, <4>3
    <3>4. \A st \in Within[d + 1] :
            st \in v \/ \E i \in DOMAIN g : g[i].s = st /\ Depth(g[i]) = d + 1
      BY <3>1, <3>3 DEF Queued
    <3>5. n < d + 1 => n < d \/ n = d
      BY <1>5
    <3> QED
      BY <1>13, <2>2, <3>2, <3>4, <3>5
  <2> QED
    BY <1>12, <2>1, <2>2
<1> QED
  BY <1>1, <1>5, <1>6, <1>9, <1>11, <1>15 DEF g

----------------------------------------------------------------------------
(* The automaton stays as it is built                                     *)

LEMMA SameSymbols ==
  ASSUME UNCHANGED automaton
  PROVE  /\ AutomatonOK' <=> AutomatonOK
         /\ States' = States
         /\ \A st : int_next_symbols(st)' = int_next_symbols(st)
<1> USE DEF automaton
<1>1. AutomatonOK' <=> AutomatonOK
  BY DEF AutomatonOK
<1>2. concurrent_state' = concurrent_state
  BY DEF concurrent_state, conflict_t
<1>3. \A st : StateOK(st)' <=> StateOK(st)
  BY <1>2 DEF StateOK
<1>4. States' = States
  BY <1>2, <1>3 DEF States
<1>5. \A st, t : next_single(st, t)' = next_single(st, t)
  BY DEF next_single
<1>6. \A st : int_next_symbols(st)' = int_next_symbols(st)
  BY <1>5 DEF int_next_symbols
<1> QED
  BY <1>1, <1>4, <1>6

LEMMA SameSuccessors ==
  ASSUME UNCHANGED automaton
  PROVE  \A st, sigma : int_successors(st, sigma)' = int_successors(st, sigma)
<1> USE DEF automaton
<1>1. \A st, sigma : /\ position_after(st, sigma)' = position_after(st, sigma)
                     /\ at_exit(st, sigma)' <=> at_exit(st, sigma)
                     /\ current_after(st, sigma)' = current_after(st, sigma)
  BY DEF position_after, at_exit, current_after
<1>2. \A st, sigma : /\ conflicts_after(st, sigma)' = conflicts_after(st, sigma)
                     /\ Rejected(st, sigma)' <=> Rejected(st, sigma)
  BY DEF conflicts_after, Rejected
<1>3. \A st, sigma : Monitored(st, sigma)' = Monitored(st, sigma)
  BY <1>2 DEF Monitored
<1>4. \A st, sigma : /\ Executed(st, sigma)' = Executed(st, sigma)
                     /\ Descheduled(st, sigma)' = Descheduled(st, sigma)
  BY <1>1, <1>3 DEF Executed, Descheduled
<1>5. \A st, sigma : Terminated(st, sigma)' = Terminated(st, sigma)
  BY <1>4 DEF Terminated
<1>6. \A st, sigma : /\ CanExecute(st, sigma)' <=> CanExecute(st, sigma)
                     /\ CanTerminate(st, sigma)' <=> CanTerminate(st, sigma)
                     /\ CanDeschedule(st, sigma)' <=> CanDeschedule(st, sigma)
  BY <1>1, <1>2 DEF CanExecute, CanTerminate, CanDeschedule, DescheduleRejected
<1> QED
  BY <1>4, <1>5, <1>6 DEF int_successors

LEMMA SameGraph ==
  ASSUME UNCHANGED automaton
  PROVE  \A st : /\ Followers(st)' = Followers(st)
                 /\ is_deadlock(st)' <=> is_deadlock(st)
<1>1. \A st : int_is_final_state(st)' <=> int_is_final_state(st)
  BY DEF int_is_final_state, automaton
<1>2. \A st : one_assumes(st)' <=> one_assumes(st)
  BY SameSymbols DEF one_assumes
<1> QED
  BY <1>1, <1>2, SameSymbols, SameSuccessors DEF Followers, is_deadlock

LEMMA SameDepths ==
  ASSUME AutomatonOK, UNCHANGED automaton
  PROVE  \A n \in Nat : Within[n]' = Within[n]
<1>1. /\ Within[0] = {int_initial_state}
      /\ \A n \in Nat : Within[n + 1] = Within[n] \cup UNION {Followers(st) : st \in Within[n]}
  BY WithinEquations
<1>2. AutomatonOK'
  BY SameSymbols
<1>3. (/\ Within[0] = {int_initial_state}
       /\ \A n \in Nat : Within[n + 1] = Within[n] \cup UNION {Followers(st) : st \in Within[n]})'
  BY <1>2, WithinEquations, PTL
<1>4. int_initial_state' = int_initial_state /\ \A st : Followers(st)' = Followers(st)
  BY SameGraph DEF int_initial_state
<1> DEFINE S == {n \in Nat : Within[n]' = Within[n]}
<1>5. 0 \in S
  BY <1>1, <1>3, <1>4
<1>6. ASSUME NEW n \in Nat, n \in S PROVE n + 1 \in S
  <2>1. Within[n]' = Within[n]
    BY <1>6
  <2>2. Within[n + 1]' = Within[n]' \cup UNION {Followers(st)' : st \in Within[n]'}
    BY <1>3
  <2>3. Within[n + 1]' = Within[n] \cup UNION {Followers(st)' : st \in Within[n]}
    BY <2>1, <2>2
  <2>4. {Followers(st)' : st \in Within[n]} = {Followers(st) : st \in Within[n]}
    BY <1>4
  <2>5. Within[n + 1]' = Within[n + 1]
    BY <1>1, <2>3, <2>4
  <2> QED
    BY <2>5
<1>7. Nat \subseteq S
  <2> HIDE DEF S
  <2> QED
    BY <1>5, <1>6, NatSetInduction
<1> QED
  BY <1>7

----------------------------------------------------------------------------
(* The search                                                             *)

SearchTypeOK ==
  /\ AutomatonOK
  /\ frontier \in Seq(queue_item)
  /\ reachable \subseteq States
  /\ running \in BOOLEAN

\* No deadlock was met, and the search ends only when nothing is left to visit.
Searching ==
  /\ result = no_result
  /\ Reached(frontier) /\ ByDepth(frontier)
  /\ CoversRest(frontier, reachable) /\ CoversDepths(frontier, reachable)
  /\ ~running => frontier = <<>>

\* A deadlock is reported, and none is less deep.
Reported ==
  /\ ~running
  /\ result.deadlock_found
  /\ result.counter_example \in Seq(symbol)
  /\ LeadsTo(result.counter_example, result.dead_state)
  /\ is_deadlock(result.dead_state)
  /\ \A n \in Nat :
       n < Len(result.counter_example) => \A st \in Within[n] : ~is_deadlock(st)

\* The inductive invariant.
SearchInv == SearchTypeOK /\ (Searching \/ Reported)

LEMMA SearchBegins == Init => SearchInv
<1> SUFFICES ASSUME Init PROVE SearchInv
  OBVIOUS
<1>1. AutomatonOK
  BY ConstructOK DEF Init
<1> DEFINE item == [s |-> int_initial_state, cex_chain |-> <<>>]
<1>2. item \in queue_item /\ frontier = <<item>>
  BY InitialStates DEF Init, queue_item
<1> HIDE DEF item
<1>3. frontier \in Seq(queue_item) /\ DOMAIN frontier = {1} /\ frontier[1] = item
  BY <1>2
<1>4. item.s = int_initial_state /\ item.cex_chain = <<>> /\ Depth(item) = 0
  BY DEF item, Depth
<1>5. Reached(frontier)
  BY <1>3, <1>4, LeadsNowhere DEF Reached
<1>6. ByDepth(frontier)
  BY <1>3, <1>4 DEF ByDepth
<1>7. CoversRest(frontier, reachable)
  BY <1>3, <1>4 DEF CoversRest, Queued, Init
<1>8. CoversDepths(frontier, reachable)
  BY <1>1, <1>3, <1>4, WithinEquations DEF CoversDepths
<1> QED
  BY <1>1, <1>3, <1>5, <1>6, <1>7, <1>8 DEF SearchInv, SearchTypeOK, Searching, Init

\* What is queued for the successors of a state.
LEMMA NewItems ==
  ASSUME AutomatonOK, NEW item \in queue_item, LeadsTo(item.cex_chain, item.s)
  PROVE  LET new == SetToSeq(SuccessorItems(item)) IN
         /\ new \in Seq(queue_item)
         /\ Reached(new)
         /\ \A k \in DOMAIN new : Depth(new[k]) = Depth(item) + 1
         /\ Followers(item.s) \subseteq Queued(new)
<1> DEFINE new == SetToSeq(SuccessorItems(item))
<1>1. item.s \in States /\ item.cex_chain \in Seq(symbol)
  BY DEF queue_item
<1>2. ASSUME NEW i \in SuccessorItems(item)
      PROVE  /\ i \in queue_item /\ LeadsTo(i.cex_chain, i.s)
             /\ Depth(i) = Depth(item) + 1
  <2>1. PICK sigma \in int_next_symbols(item.s) :
          \E s \in int_successors(item.s, sigma) :
            i = [s |-> s, cex_chain |-> Append(item.cex_chain, sigma)]
    BY DEF SuccessorItems
  <2>2. PICK s \in int_successors(item.s, sigma) :
          i = [s |-> s, cex_chain |-> Append(item.cex_chain, sigma)]
    BY <2>1
  <2>3. s \in States /\ sigma \in symbol
    BY <1>1, SuccessorStates
  <2>4. LeadsTo(Append(item.cex_chain, sigma), s)
    BY <1>1, LeadsOn
  <2>5. /\ Append(item.cex_chain, sigma) \in Seq(symbol)
        /\ Len(Append(item.cex_chain, sigma)) = Len(item.cex_chain) + 1
    BY <1>1, <2>3
  <2> QED
    BY <2>2, <2>3, <2>4, <2>5 DEF queue_item, Depth
<1>3. /\ new \in Seq(SuccessorItems(item))
      /\ \A i \in SuccessorItems(item) : \E k \in DOMAIN new : new[k] = i
  BY FiniteSuccessors, SetToSeqFacts
<1> HIDE DEF new
<1>4. \A k \in DOMAIN new : new[k] \in SuccessorItems(item)
  BY <1>3
<1>5. new \in Seq(queue_item)
  BY <1>2, <1>3, <1>4
<1>6. ASSUME NEW s \in Followers(item.s) PROVE s \in Queued(new)
  <2>1. PICK sigma \in int_next_symbols(item.s) : s \in int_successors(item.s, sigma)
    BY DEF Followers
  <2>2. [s |-> s, cex_chain |-> Append(item.cex_chain, sigma)] \in SuccessorItems(item)
    BY <2>1 DEF SuccessorItems
  <2> QED
    BY <1>3, <2>2 DEF Queued
<1> QED
  BY <1>2, <1>4, <1>5, <1>6 DEF Reached, new

LEMMA SameExecutions ==
  ASSUME UNCHANGED automaton
  PROVE  \A symbols, st : LeadsTo(symbols, st)' <=> LeadsTo(symbols, st)
<1>1. States' = States /\ int_initial_state' = int_initial_state
  BY SameSymbols DEF int_initial_state
<1>2. \A st, sigma : /\ int_next_symbols(st)' = int_next_symbols(st)
                     /\ int_successors(st, sigma)' = int_successors(st, sigma)
  BY SameSymbols, SameSuccessors
<1>3. \A run, symbols, st : Follows(run, symbols, st)' <=> Follows(run, symbols, st)
  BY <1>1, <1>2 DEF Follows
<1> QED
  BY <1>1, <1>3 DEF LeadsTo

\* The invariant speaks of the automaton, which no step changes.
LEMMA SearchingGoesOn ==
  ASSUME AutomatonOK, UNCHANGED automaton, running' \in BOOLEAN, result' = no_result,
         frontier' \in Seq(queue_item), reachable' \in SUBSET States,
         Reached(frontier'), ByDepth(frontier'),
         CoversRest(frontier', reachable'), CoversDepths(frontier', reachable'),
         ~running' => frontier' = <<>>
  PROVE  SearchInv'
<1>1. AutomatonOK' /\ States' = States
  BY SameSymbols
<1>2. SearchTypeOK'
  BY <1>1 DEF SearchTypeOK, queue_item
<1>3. /\ \A st : Followers(st)' = Followers(st) /\ (is_deadlock(st)' <=> is_deadlock(st))
      /\ int_initial_state' = int_initial_state
  BY SameGraph DEF int_initial_state
<1>4. \A symbols, st : LeadsTo(symbols, st)' <=> LeadsTo(symbols, st)
  BY SameExecutions
<1>5. Reached(frontier)'
  BY <1>4 DEF Reached
<1>6. ByDepth(frontier)'
  BY DEF ByDepth, Depth
<1>7. CoversRest(frontier, reachable)'
  BY <1>3 DEF CoversRest, Queued
<1>8. CoversDepths(frontier, reachable)'
  BY SameDepths DEF CoversDepths, Depth
<1> QED
  BY <1>2, <1>5, <1>6, <1>7, <1>8 DEF SearchInv, Searching, no_result

LEMMA SkipKeeps ==
  ASSUME SearchTypeOK, Searching, Skip
  PROVE  SearchInv'
<1>1. /\ AutomatonOK /\ UNCHANGED automaton /\ running' \in BOOLEAN /\ result' = no_result
      /\ frontier \in Seq(queue_item) /\ frontier # <<>> /\ reachable' = reachable
      /\ reachable \in SUBSET States /\ running' = running /\ running
  BY DEF SearchTypeOK, Searching, Skip
<1>2. frontier[1].s \in reachable /\ frontier' = Tail(frontier)
  BY <1>1 DEF Skip, current_item, was_visited
<1>3. /\ Reached(frontier) /\ ByDepth(frontier)
      /\ CoversRest(frontier, reachable) /\ CoversDepths(frontier, reachable)
  BY DEF Searching
<1>4. /\ Followers(frontier[1].s) \subseteq reachable \cup Queued(frontier)
      /\ ~is_deadlock(frontier[1].s)
  BY <1>2, <1>3 DEF CoversRest
<1> DEFINE none == <<>>
<1>5. none \in Seq(queue_item) /\ DOMAIN none = {} /\ Reached(none)
  BY DEF Reached
<1>6. Tail(frontier) \in Seq(queue_item) /\ Tail(frontier) \o none = Tail(frontier)
  BY <1>1
<1>7. reachable \cup {frontier[1].s} = reachable
  BY <1>2
<1> HIDE DEF none
<1>8. /\ Reached(Tail(frontier) \o none) /\ ByDepth(Tail(frontier) \o none)
      /\ CoversRest(Tail(frontier) \o none, reachable \cup {frontier[1].s})
      /\ CoversDepths(Tail(frontier) \o none, reachable \cup {frontier[1].s})
  <2>1. Followers(frontier[1].s)
          \subseteq reachable \cup {frontier[1].s} \cup Queued(frontier) \cup Queued(none)
    BY <1>4
  <2> QED
    BY <1>1, <1>3, <1>4, <1>5, <2>1, Advance
<1> QED
  BY <1>1, <1>2, <1>6, <1>7, <1>8, SearchingGoesOn

LEMMA ExpandKeeps ==
  ASSUME SearchTypeOK, Searching, Expand
  PROVE  SearchInv'
<1> DEFINE item == frontier[1]
           new == SetToSeq(SuccessorItems(item))
<1>1. /\ AutomatonOK /\ UNCHANGED automaton /\ running' \in BOOLEAN /\ result' = no_result
      /\ frontier \in Seq(queue_item) /\ frontier # <<>>
      /\ reachable \in SUBSET States /\ running' = running /\ running
  BY DEF SearchTypeOK, Searching, Expand
<1>2. item \in queue_item /\ Head(frontier) = item /\ 1 \in DOMAIN frontier
  BY <1>1
<1>3. /\ frontier' = Tail(frontier) \o new /\ reachable' = reachable \cup {item.s}
      /\ ~is_deadlock(item.s)
  BY <1>2 DEF Expand, current_item
<1>4. /\ Reached(frontier) /\ ByDepth(frontier)
      /\ CoversRest(frontier, reachable) /\ CoversDepths(frontier, reachable)
  BY DEF Searching
<1>5. LeadsTo(item.cex_chain, item.s)
  BY <1>2, <1>4 DEF Reached
<1>6. /\ new \in Seq(queue_item) /\ Reached(new)
      /\ \A k \in DOMAIN new : Depth(new[k]) = Depth(item) + 1
      /\ Followers(item.s) \subseteq Queued(new)
  BY <1>1, <1>2, <1>5, NewItems
<1> HIDE DEF new
<1>7. /\ Tail(frontier) \o new \in Seq(queue_item)
      /\ reachable \cup {item.s} \in SUBSET States
      /\ Reached(Tail(frontier) \o new) /\ ByDepth(Tail(frontier) \o new)
      /\ CoversRest(Tail(frontier) \o new, reachable \cup {item.s})
      /\ CoversDepths(Tail(frontier) \o new, reachable \cup {item.s})
  <2>1. Followers(frontier[1].s)
          \subseteq reachable \cup {frontier[1].s} \cup Queued(frontier) \cup Queued(new)
    BY <1>6
  <2> QED
    BY <1>1, <1>3, <1>4, <1>6, <2>1, Advance
<1> QED
  BY <1>1, <1>3, <1>7, SearchingGoesOn

LEMMA ReportDeadlockKeeps ==
  ASSUME SearchTypeOK, Searching, ReportDeadlock
  PROVE  SearchInv'
<1> DEFINE item == frontier[1]
<1>1. /\ AutomatonOK /\ UNCHANGED automaton
      /\ frontier \in Seq(queue_item) /\ frontier # <<>> /\ reachable \subseteq States
  BY DEF SearchTypeOK, ReportDeadlock
<1>2. item \in queue_item /\ Head(frontier) = item /\ 1 \in DOMAIN frontier
  BY <1>1
<1>3. /\ result' = deadlock_result(item) /\ is_deadlock(item.s)
      /\ reachable' = reachable \cup {item.s} /\ frontier' = Tail(frontier) /\ running' = FALSE
  BY <1>2 DEF ReportDeadlock, current_item
<1>4. /\ result'.deadlock_found /\ result'.dead_state = item.s
      /\ result'.counter_example = item.cex_chain
  BY <1>3 DEF deadlock_result
<1>5. AutomatonOK' /\ States' = States
  BY <1>1, SameSymbols
<1>6. item.s \in States /\ item.cex_chain \in Seq(symbol) /\ Len(item.cex_chain) \in Nat
  BY <1>2 DEF queue_item
<1>7. SearchTypeOK'
  <2>1. Tail(frontier) \in Seq(queue_item)
    BY <1>1
  <2> QED
    BY <1>3, <1>5, <1>6, <2>1 DEF SearchTypeOK, queue_item
<1>8. LeadsTo(item.cex_chain, item.s)
  BY <1>2 DEF Searching, Reached
<1>9. LeadsTo(result.counter_example, result.dead_state)'
  BY <1>1, <1>4, <1>8, SameExecutions
<1>10. ASSUME NEW n \in Nat, n < Len(item.cex_chain), NEW st \in Within[n]
       PROVE  ~is_deadlock(st)
  <2>1. CoversRest(frontier, reachable) /\ CoversDepths(frontier, reachable)
    BY DEF Searching
  <2>2. Within[n] \subseteq reachable
    BY <1>1, <1>10, <2>1 DEF CoversDepths, Depth
  <2> QED
    BY <1>10, <2>1, <2>2 DEF CoversRest
<1>11. \A st : is_deadlock(st)' <=> is_deadlock(st)
  BY <1>1, SameGraph
<1>12. \A n \in Nat : Within[n]' = Within[n]
  BY <1>1, SameDepths
<1>13. (\A n \in Nat :
          n < Len(result.counter_example) => \A st \in Within[n] : ~is_deadlock(st))'
  BY <1>4, <1>10, <1>11, <1>12
<1>14. is_deadlock(result.dead_state)'
  BY <1>3, <1>4, <1>11
<1>15. Reported'
  BY <1>3, <1>4, <1>6, <1>9, <1>13, <1>14 DEF Reported
<1> QED
  BY <1>7, <1>15 DEF SearchInv

LEMMA ReportNoneKeeps ==
  ASSUME SearchTypeOK, Searching, ReportNone
  PROVE  SearchInv'
<1>1. /\ AutomatonOK /\ UNCHANGED automaton /\ running' \in BOOLEAN /\ result' = no_result
      /\ frontier \in Seq(queue_item) /\ reachable \in SUBSET States
      /\ frontier' = frontier /\ reachable' = reachable /\ frontier = <<>>
  BY DEF SearchTypeOK, Searching, ReportNone
<1>2. /\ Reached(frontier) /\ ByDepth(frontier)
      /\ CoversRest(frontier, reachable) /\ CoversDepths(frontier, reachable)
  BY DEF Searching
<1> QED
  BY <1>1, <1>2, SearchingGoesOn

LEMMA StutterKeeps ==
  ASSUME SearchInv, UNCHANGED vars
  PROVE  SearchInv'
<1>1. /\ AutomatonOK /\ UNCHANGED automaton /\ running' = running /\ result' = result
      /\ frontier' = frontier /\ reachable' = reachable
      /\ running \in BOOLEAN /\ frontier \in Seq(queue_item) /\ reachable \in SUBSET States
  BY DEF SearchInv, SearchTypeOK, vars, automaton
<1>2. CASE Searching
  BY <1>1, <1>2, SearchingGoesOn DEF Searching
<1>3. CASE Reported
  <2>1. SearchTypeOK'
    BY <1>1, SameSymbols DEF SearchTypeOK, queue_item
  <2>2. /\ \A symbols, st : LeadsTo(symbols, st)' <=> LeadsTo(symbols, st)
        /\ \A st : is_deadlock(st)' <=> is_deadlock(st)
        /\ \A n \in Nat : Within[n]' = Within[n]
    BY <1>1, SameExecutions, SameGraph, SameDepths
  <2>3. Reported'
    BY <1>1, <1>3, <2>2 DEF Reported
  <2> QED
    BY <2>1, <2>3 DEF SearchInv
<1> QED
  BY <1>2, <1>3 DEF SearchInv

LEMMA SearchStep == SearchInv /\ [Next]_vars => SearchInv'
<1> SUFFICES ASSUME SearchInv, [Next]_vars PROVE SearchInv'
  OBVIOUS
<1>1. CASE UNCHANGED vars
  BY <1>1, StutterKeeps
<1>2. CASE Next
  <2>1. running
    BY <1>2 DEF Next, Skip, Expand, ReportDeadlock, ReportNone
  <2>2. SearchTypeOK /\ Searching
    BY <2>1 DEF SearchInv, Reported
  <2>3. CASE Skip
    BY <2>2, <2>3, SkipKeeps
  <2>4. CASE Expand
    BY <2>2, <2>4, ExpandKeeps
  <2>5. CASE ReportDeadlock
    BY <2>2, <2>5, ReportDeadlockKeeps
  <2>6. CASE ReportNone
    BY <2>2, <2>6, ReportNoneKeeps
  <2> QED
    BY <1>2, <2>3, <2>4, <2>5, <2>6 DEF Next
<1> QED
  BY <1>1, <1>2

THEOREM SearchInvariant == Spec => []SearchInv
<1> QED
  BY SearchBegins, SearchStep, PTL DEF Spec

----------------------------------------------------------------------------
(* What the search promises                                               *)

LEMMA CoversRestInvariant == SearchInv => FrontierCoversRest
<1> SUFFICES ASSUME SearchInv, ~result.deadlock_found PROVE FrontierCoversRest
  BY DEF FrontierCoversRest
<1>1. CoversRest(frontier, reachable)
  BY DEF SearchInv, Searching, Reported
<1> QED
  BY <1>1 DEF CoversRest, FrontierCoversRest, Queued

LEMMA NoneMissedInvariant == SearchInv => NoneMissed
<1> SUFFICES ASSUME SearchInv, ~running, ~result.deadlock_found PROVE NoneMissed
  BY DEF NoneMissed
<1>1. CoversRest(frontier, reachable) /\ frontier = <<>>
  BY DEF SearchInv, Searching, Reported
<1>2. Queued(frontier) = {}
  BY <1>1 DEF Queued
<1> QED
  BY <1>1, <1>2 DEF CoversRest, NoneMissed

LEMMA ShortestInvariant == SearchInv => CounterexampleIsShortest
<1> SUFFICES ASSUME SearchInv, result.deadlock_found PROVE CounterexampleIsShortest
  BY DEF CounterexampleIsShortest
<1>1. AutomatonOK /\ Reported
  BY DEF SearchInv, SearchTypeOK, Searching, no_result
<1> DEFINE cex == result.counter_example
<1>2. cex \in Seq(symbol) /\ LeadsTo(cex, result.dead_state) /\ is_deadlock(result.dead_state)
  BY <1>1 DEF Reported
<1>3. result.dead_state \in Replay(cex)
  BY <1>1, <1>2, ReplayFollows
<1>4. ASSUME cex # <<>> PROVE \A st \in Within[Len(cex) - 1] : ~is_deadlock(st)
  <2>1. Len(cex) - 1 \in Nat /\ Len(cex) - 1 < Len(cex)
    BY <1>2, <1>4
  <2> QED
    BY <1>1, <2>1 DEF Reported
<1> QED
  BY <1>2, <1>3, <1>4 DEF CounterexampleIsShortest

\* deadlock_algo::run: whatever is not yet visited is still to be visited.
THEOREM SearchCoversRest == Spec => []FrontierCoversRest
<1> QED
  BY SearchInvariant, CoversRestInvariant, PTL

\* A search that reports nothing has visited every state, and none is a deadlock.
THEOREM SearchMissesNone == Spec => []NoneMissed
<1> QED
  BY SearchInvariant, NoneMissedInvariant, PTL

\* A reported deadlock is reached by the counterexample and by nothing shorter.
THEOREM ShortestCounterexample == Spec => []CounterexampleIsShortest
<1> QED
  BY SearchInvariant, ShortestInvariant, PTL

----------------------------------------------------------------------------
(* Who is running when nothing can happen                                 *)

\* A thread that is running has not terminated and is not at an exit.
KeepsOn(st) ==
  st.current # no_thread =>
    /\ st.threads[st.current] # no_state
    /\ ~is_final_state(threads[st.current], st.threads[st.current])

\* No thread is where no branch leads on.
HasBranches(st) ==
  \A t \in Thread : st.threads[t] < 0 => threads[t][-st.threads[t]].edges # <<>>

LEMMA ThreadsKeepOn ==
  ASSUME AutomatonOK, NEW st \in States, KeepsOn(st),
         NEW sigma \in int_next_symbols(st), NEW s \in int_successors(st, sigma)
  PROVE  KeepsOn(s)
<1>1. StateOK(st)
  BY DEF States
<1>2. /\ sigma.thread \in Thread /\ DOMAIN st.threads = Thread
      /\ position_after(st, sigma) # no_state
  BY <1>1, NextSymbol DEF StateOK, concurrent_state
<1>3. /\ Executed(st, sigma).current = current_after(st, sigma)
      /\ Executed(st, sigma).threads =
           [st.threads EXCEPT ![sigma.thread] = position_after(st, sigma)]
      /\ Terminated(st, sigma).current = Executed(st, sigma).current
      /\ Descheduled(st, sigma).current = no_thread
  <2>1. Executed(st, sigma).current = current_after(st, sigma)
    BY <1>1, StepFields
  <2>2. Executed(st, sigma).threads =
          [st.threads EXCEPT ![sigma.thread] = position_after(st, sigma)]
    BY <1>1, StepPositions
  <2>3. Terminated(st, sigma).current = Executed(st, sigma).current
    BY <1>1, TerminatedFields
  <2>4. Descheduled(st, sigma).current = no_thread
    BY <1>1, DescheduledFields
  <2> QED
    BY <2>1, <2>2, <2>3, <2>4
<1>4. current_after(st, sigma) # no_thread =>
        current_after(st, sigma) = sigma.thread /\ ~at_exit(st, sigma)
  BY DEF current_after
<1>5. CASE s = Executed(st, sigma)
  BY <1>2, <1>3, <1>4, <1>5 DEF KeepsOn, at_exit
<1>6. CASE CanTerminate(st, sigma) /\ s = Terminated(st, sigma)
  BY <1>3, <1>4, <1>6 DEF KeepsOn, CanTerminate
<1>7. CASE s = Descheduled(st, sigma)
  BY <1>3, <1>7 DEF KeepsOn
<1> QED
  BY <1>5, <1>6, <1>7 DEF int_successors

\* Where a symbol leads, a branch leads on.
LEMMA BranchAfter ==
  ASSUME AutomatonOK, \A t \in Thread : GivesWay(threads[t]), NEW st \in States,
         NEW sigma \in int_next_symbols(st), position_after(st, sigma) < 0
  PROVE  threads[sigma.thread][-position_after(st, sigma)].edges # <<>>
<1> DEFINE t == sigma.thread
           g == threads[t]
           p == st.threads[t]
<1>1. /\ t \in Thread /\ g \in abstract_cfg /\ p \in Positions(g)
      /\ sigma \in next_symbols(t, g, p) /\ GivesWay(g)
      /\ position_after(st, sigma) = successor(t, g, p, sigma)
  BY NextSymbol DEF States, StateOK, AutomatonOK, position_after
<1> HIDE DEF t, g, p
<1>2. 1 \in DOMAIN g /\ \A s \in DOMAIN g : s \in Nat \ {0}
  BY <1>1 DEF abstract_cfg
<1>3. CASE \E s \in DOMAIN g : HasAction(g, s) /\ sigma = ActionSymbol(t, g, s)
  <2>1. PICK s \in DOMAIN g : HasAction(g, s) /\ sigma = ActionSymbol(t, g, s)
    BY <1>3
  <2>2. position_after(st, sigma) = AfterAction(g, s) /\ s \in Nat
    BY <1>1, <1>2, <2>1 DEF successor, ActionSymbol
  <2>3. CASE Len(g[s].edges) = 1
    <3>1. g[s].edges[1].to \in Nat \ {0}
      BY <1>1, <1>2, <2>3, GraphState
    <3> QED
      BY <2>2, <2>3, <3>1 DEF AfterAction
  <2>4. CASE Len(g[s].edges) # 1
    BY <1>1, <2>1, <2>2, <2>4 DEF AfterAction, GivesWay, t, g
  <2> QED
    BY <2>3, <2>4
<1>4. CASE \E s \in DOMAIN g : \E i \in DOMAIN g[s].edges :
             p = -s /\ sigma = TagSymbol(t, g, s, i)
  <2>1. PICK s \in DOMAIN g : \E i \in DOMAIN g[s].edges :
                                p = -s /\ sigma = TagSymbol(t, g, s, i)
    BY <1>4
  <2>2. PICK i \in DOMAIN g[s].edges : p = -s /\ sigma = TagSymbol(t, g, s, i)
    BY <2>1
  <2>3. g[s].edges[i].to \in Nat \ {0} /\ i \in Nat
    BY <1>1, <1>2, GraphState
  <2>4. sigma.tag_branch # NoBranch /\ sigma.tag_branch = i
    BY <2>2, <2>3 DEF TagSymbol, NoBranch
  <2>5. -p = s
    BY <1>2, <2>2
  <2> QED
    BY <1>1, <2>3, <2>4, <2>5 DEF successor
<1>5. p < 0 => -p \in DOMAIN g
  BY <1>1, <1>2 DEF Positions, initial_state, no_state
<1>6. ASSUME p < 0 PROVE \/ \E s \in DOMAIN g : HasAction(g, s) /\ sigma = ActionSymbol(t, g, s)
                         \/ \E i \in DOMAIN g[-p].edges : sigma = TagSymbol(t, g, -p, i)
  <2>1. PICK i \in DOMAIN g[-p].edges : sigma \in EdgeSymbols(t, g, -p, i)
    BY <1>1, <1>6 DEF next_symbols
  <2>2. g[-p].edges[i].to \in DOMAIN g
    BY <1>1, <1>5, <1>6, GraphState
  <2> QED
    BY <2>1, <2>2 DEF EdgeSymbols
<1>7. ASSUME ~(p < 0), p # no_state
      PROVE  \E s \in DOMAIN g : HasAction(g, s) /\ sigma = ActionSymbol(t, g, s)
  <2>1. p \in DOMAIN g
    BY <1>1, <1>2, <1>7 DEF Positions, initial_state, no_state
  <2> QED
    BY <1>1, <1>7, <2>1 DEF next_symbols
<1>8. p # no_state
  BY NextSymbol DEF States, p, t
<1>9. p < 0 => p = -(-p)
  BY <1>1, <1>2 DEF Positions, initial_state, no_state
<1> QED
  BY <1>3, <1>4, <1>5, <1>6, <1>7, <1>8, <1>9

LEMMA BranchesRemain ==
  ASSUME AutomatonOK, \A t \in Thread : GivesWay(threads[t]), NEW st \in States, HasBranches(st),
         NEW sigma \in int_next_symbols(st), NEW s \in int_successors(st, sigma)
  PROVE  HasBranches(s)
<1>1. StateOK(st)
  BY DEF States
<1>2. /\ sigma.thread \in Thread /\ DOMAIN st.threads = Thread
  BY <1>1, NextSymbol DEF StateOK, concurrent_state
<1>3. /\ Executed(st, sigma).threads =
           [st.threads EXCEPT ![sigma.thread] = position_after(st, sigma)]
      /\ Terminated(st, sigma).threads = [st.threads EXCEPT ![sigma.thread] = no_state]
      /\ Descheduled(st, sigma).threads = st.threads
  BY <1>1, StepPositions
<1>4. position_after(st, sigma) < 0 =>
        threads[sigma.thread][-position_after(st, sigma)].edges # <<>>
  BY BranchAfter
<1>5. CASE s = Executed(st, sigma)
  BY <1>2, <1>3, <1>4, <1>5 DEF HasBranches
<1>6. CASE s = Terminated(st, sigma)
  BY <1>2, <1>3, <1>6 DEF HasBranches, no_state
<1>7. CASE s = Descheduled(st, sigma)
  BY <1>3, <1>7 DEF HasBranches
<1> QED
  BY <1>5, <1>6, <1>7 DEF int_successors

\* What holds at first and after every step holds all along an execution.
LEMMA AlongExecution ==
  ASSUME AutomatonOK, \A t \in Thread : GivesWay(threads[t]),
         NEW symbols \in Seq(symbol), NEW st, NEW run \in [Nat -> States],
         Follows(run, symbols, st)
  PROVE  KeepsOn(st) /\ HasBranches(st)
<1> DEFINE L == Len(symbols)
           S == {n \in Nat : n <= L => KeepsOn(run[n]) /\ HasBranches(run[n])}
<1>1. 0 \in S
  <2>1. run[0] = int_initial_state
    BY DEF Follows
  <2>2. KeepsOn(int_initial_state)
    BY DEF KeepsOn, int_initial_state
  <2>3. HasBranches(int_initial_state)
    <3>1. ASSUME NEW t \in Thread PROVE threads[t][1].edges # <<>>
      <4>1. 1 \in DOMAIN threads[t]
        <5>1. threads[t] \in abstract_cfg
          BY DEF AutomatonOK
        <5>2. Len(threads[t]) \in Nat /\ DOMAIN threads[t] = 1..Len(threads[t])
              /\ Len(threads[t]) # 0
          BY <5>1 DEF abstract_cfg
        <5> QED
          BY <5>2
      <4> QED
        BY <4>1 DEF GivesWay
    <3> QED
      BY <3>1 DEF HasBranches, int_initial_state, initial_state
  <2> QED
    BY <2>1, <2>2, <2>3
<1>2. ASSUME NEW n \in Nat, n \in S PROVE n + 1 \in S
  <2>1. SUFFICES ASSUME n + 1 <= L PROVE KeepsOn(run[n + 1]) /\ HasBranches(run[n + 1])
    OBVIOUS
  <2>2. n + 1 \in DOMAIN symbols /\ (n + 1) - 1 = n /\ n <= L
    BY <2>1
  <2>3. KeepsOn(run[n]) /\ HasBranches(run[n]) /\ run[n] \in States
    BY <1>2, <2>2
  <2>4. /\ symbols[n + 1] \in int_next_symbols(run[n])
        /\ run[n + 1] \in int_successors(run[n], symbols[n + 1])
    BY <2>2 DEF Follows
  <2> QED
    BY <2>3, <2>4, ThreadsKeepOn, BranchesRemain
<1>3. Nat \subseteq S
  <2> HIDE DEF S
  <2> QED
    BY <1>1, <1>2, NatSetInduction
<1>4. L \in Nat
  OBVIOUS
<1> QED
  BY <1>3, <1>4 DEF Follows

LEMMA NotSynthesised ==
  ASSUME AutomatonOK, NEW st \in States, NEW t \in Thread, GivesWay(threads[t]),
         NEW sigma \in next_symbols(t, threads[t], st.threads[t]), st.threads[t] # no_state
  PROVE  ~sigma.synthesised
<1> DEFINE g == threads[t]
           p == st.threads[t]
<1>1. g \in abstract_cfg /\ p \in Positions(g) /\ GivesWay(g) /\ sigma \in next_symbols(t, g, p)
  BY DEF States, StateOK, AutomatonOK
<1> HIDE DEF g
<1>2. 1 \in DOMAIN g /\ \A s \in DOMAIN g : s \in Nat \ {0}
  BY <1>1 DEF abstract_cfg
<1>3. \A s \in DOMAIN g : ~ActionSymbol(t, g, s).synthesised
  BY <1>1 DEF GivesWay, ActionSymbol
<1>4. CASE p < 0
  <2>1. -p \in DOMAIN g
    BY <1>1, <1>2, <1>4 DEF Positions, initial_state, no_state
  <2>2. PICK i \in DOMAIN g[-p].edges : sigma \in EdgeSymbols(t, g, -p, i)
    BY <1>1, <1>4 DEF next_symbols
  <2>3. g[-p].edges[i].to \in DOMAIN g
    BY <1>1, <2>1, GraphState
  <2> QED
    BY <1>3, <2>2, <2>3 DEF EdgeSymbols, TagSymbol
<1>5. CASE ~(p < 0)
  <2>1. p \in DOMAIN g
    BY <1>1, <1>2, <1>5 DEF Positions, initial_state, no_state
  <2> QED
    BY <1>1, <1>3, <1>5, <2>1 DEF next_symbols
<1> QED
  BY <1>4, <1>5

\* As long as nothing is forbidden, nobody is running in a deadlock: the thread could
\* give up the processor.
LEMMA NobodyRuns ==
  ASSUME AutomatonOK, conflicts = {}, \A t \in Thread : GivesWay(threads[t]),
         NEW symbols \in Seq(symbol), NEW st, LeadsTo(symbols, st), is_deadlock(st)
  PROVE  st \in States /\ st.current = no_thread
<1>1. PICK run \in [Nat -> States] : Follows(run, symbols, st)
  BY DEF LeadsTo
<1>2. KeepsOn(st) /\ HasBranches(st)
  BY <1>1, AlongExecution
<1>3. st \in States
  <2>1. Len(symbols) \in Nat
    OBVIOUS
  <2> QED
    BY <1>1, <2>1 DEF Follows
<1> SUFFICES ASSUME st.current # no_thread PROVE FALSE
  BY <1>3
<1> DEFINE t == st.current
           g == threads[t]
           p == st.threads[t]
<1>4. /\ t \in Thread /\ g \in abstract_cfg /\ p \in Positions(g) /\ StateOK(st)
      /\ GivesWay(g) /\ p # no_state /\ ~is_final_state(g, p)
  BY <1>2, <1>3 DEF States, StateOK, AutomatonOK, concurrent_state, KeepsOn
<1>5. int_next_symbols(st) = next_symbols(t, g, p)
  BY <1>4 DEF int_next_symbols, next_single
<1>6. ASSUME NEW sigma \in next_symbols(t, g, p) PROVE FALSE
  <2>1. int_successors(st, sigma) = {} /\ ~sigma.assume
    BY <1>5 DEF is_deadlock, one_assumes
  <2>2. ~sigma.synthesised
    BY <1>3, <1>4, <1>5, <1>6, NotSynthesised
  <2>3. MayYield(st, sigma)
    BY <2>1, <2>2 DEF MayYield
  <2>4. ~Rejected(st, sigma)
    BY <1>4, NeverRejected
  <2>5. CanExecute(st, sigma) \/ CanDeschedule(st, sigma)
    BY <2>3, <2>4 DEF CanExecute, CanDeschedule, Deschedules, DescheduleRejected
  <2> QED
    BY <2>1, <2>5 DEF int_successors
<1> HIDE DEF t, g, p
<1>7. 1 \in DOMAIN g /\ \A s \in DOMAIN g : s \in Nat \ {0}
  BY <1>4 DEF abstract_cfg
<1>8. CASE p < 0
  <2>1. -p \in DOMAIN g
    BY <1>4, <1>7, <1>8 DEF Positions, initial_state, no_state
  <2>2. g[-p].edges # <<>>
    BY <1>2, <1>4, <1>8 DEF HasBranches, t, g, p
  <2>3. 1 \in DOMAIN g[-p].edges
    <3>1. Len(g[-p].edges) \in Nat /\ DOMAIN g[-p].edges = 1..Len(g[-p].edges)
      BY <1>4, <2>1, GraphState
    <3>2. g[-p].edges \in Seq(edge)
      BY <1>4, <2>1, GraphState DEF cfg_state
    <3> QED
      BY <2>2, <3>1, <3>2
  <2>4. EdgeSymbols(t, g, -p, 1) = {}
    BY <1>6, <1>8, <2>3 DEF next_symbols
  <2>5. ~g[-p].edges[1].tagged /\ ~HasAction(g, g[-p].edges[1].to)
    BY <2>4 DEF EdgeSymbols
  <2>6. g[g[-p].edges[1].to].final
    BY <1>4, <2>1, <2>3, <2>5, GraphState
  <2> QED
    BY <1>4, <1>8, <2>3, <2>5, <2>6 DEF is_final_state
<1>9. CASE ~(p < 0)
  <2>1. p \in DOMAIN g /\ (HasAction(g, p) \/ g[p].final)
    BY <1>4, <1>7, <1>9 DEF Positions, initial_state, no_state
  <2>2. ~HasAction(g, p)
    BY <1>6, <1>9 DEF next_symbols
  <2> QED
    BY <1>4, <1>9, <2>1, <2>2 DEF is_final_state
<1> QED
  BY <1>8, <1>9
=============================================================================
