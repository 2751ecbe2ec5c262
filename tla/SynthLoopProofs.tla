-------------------------- MODULE SynthLoopProofs --------------------------
(***************************************************************************)
(* Theorems about the inclusion test inside the synthesis: it answers      *)
(* right, and gives up only when it must, for all programs without loops,  *)
(* any number of threads and any maximum bound.                            *)
(***************************************************************************)
EXTENDS SynthLoop, FiniteSetTheorems, TLAPS, WellFoundedInduction

----------------------------------------------------------------------------
(* Natural numbers *)

\* Induction, for a set of numbers.
LEMMA NatSetInduction ==
  ASSUME NEW S, 0 \in S, \A n \in Nat : n \in S => n + 1 \in S
  PROVE  Nat \subseteq S
<1> DEFINE T == {n \in Nat : n \notin S}
<1>1. SUFFICES ASSUME T # {} PROVE FALSE
  OBVIOUS
<1>2. PICK x \in T : \A y \in T : ~(<<y, x>> \in OpToRel(<, Nat))
  <2>1. T \subseteq Nat
    OBVIOUS
  <2> HIDE DEF T
  <2> QED
    BY <1>1, <2>1, NatLessThanWellFounded, WFMin
<1>3. x \in Nat /\ x # 0 /\ x - 1 \in Nat /\ x - 1 < x /\ x = (x - 1) + 1
  OBVIOUS
<1>4. x - 1 \in T
  BY <1>3
<1>5. <<x - 1, x>> \in OpToRel(<, Nat)
  <2>1. <<x - 1, x>> \in Nat \X Nat /\ <<x - 1, x>>[1] < <<x - 1, x>>[2]
    BY <1>3
  <2> QED
    BY <2>1, Zenon DEF OpToRel
<1> QED
  BY <1>2, <1>4, <1>5

\* What follows value number n, for every n.
IsStep(D, F) == F \in [Nat -> [D -> D]]

\* f begins with a and continues with F.
Continues(f, a, F) == f[0] = a /\ \A n \in Nat : f[n + 1] = F[n][f[n]]

\* A sequence of values is determined by the first and by what follows each.
LEMMA PrimitiveRecursion ==
  ASSUME NEW D, NEW a \in D, NEW F, IsStep(D, F)
  PROVE  \E f \in [Nat -> D] : Continues(f, a, F)
<1> USE DEF IsStep, Continues
<1> DEFINE Solves(g, n) == g[0] = a /\ \A m \in Nat : m < n => g[m + 1] = F[m][g[m]]
           S == {n \in Nat : \E g \in [Nat -> D] : Solves(g, n)}
<1>1. 0 \in S
  <2>1. [m \in Nat |-> a] \in [Nat -> D] /\ Solves([m \in Nat |-> a], 0)
    OBVIOUS
  <2> QED
    BY <2>1, Zenon
<1>2. ASSUME NEW n \in Nat, n \in S PROVE n + 1 \in S
  <2>1. PICK g \in [Nat -> D] : Solves(g, n)
    BY <1>2
  <2> DEFINE h == [g EXCEPT ![n + 1] = F[n][g[n]]]
  <2>2. h \in [Nat -> D]
    OBVIOUS
  <2>3. Solves(h, n + 1)
    <3>1. h[0] = a
      BY <2>1
    <3>2. ASSUME NEW m \in Nat, m < n + 1 PROVE h[m + 1] = F[m][h[m]]
      <4>1. CASE m = n
        BY <4>1
      <4>2. CASE m # n
        BY <2>1, <3>2, <4>2
      <4> QED
        BY <4>1, <4>2
    <3> QED
      BY <3>1, <3>2
  <2> HIDE DEF h, Solves
  <2> QED
    BY <2>2, <2>3
<1>3. \A n \in Nat : \E g \in [Nat -> D] : Solves(g, n)
  <2>1. Nat \subseteq S
    <3> HIDE DEF S
    <3> QED
      BY <1>1, <1>2, NatSetInduction
  <2> QED
    BY <2>1
<1> DEFINE G(n) == CHOOSE g \in [Nat -> D] : Solves(g, n)
           f == [n \in Nat |-> G(n)[n]]
<1>4. \A n \in Nat : G(n) \in [Nat -> D] /\ Solves(G(n), n)
  BY <1>3
<1> HIDE DEF G
<1>5. ASSUME NEW n \in Nat PROVE G(n + 1)[n] = G(n)[n]
  <2> DEFINE T == {m \in Nat : m <= n => G(n + 1)[m] = G(n)[m]}
  <2>1. /\ G(n)[0] = a /\ \A m \in Nat : m < n => G(n)[m + 1] = F[m][G(n)[m]]
        /\ G(n + 1)[0] = a /\ \A m \in Nat : m < n + 1 => G(n + 1)[m + 1] = F[m][G(n + 1)[m]]
    <3>1. n + 1 \in Nat
      OBVIOUS
    <3> QED
      BY <1>4, <3>1
  <2>2. 0 \in T
    BY <2>1
  <2>3. \A m \in Nat : m \in T => m + 1 \in T
    BY <2>1
  <2>4. Nat \subseteq T
    <3> HIDE DEF T
    <3> QED
      BY <2>2, <2>3, NatSetInduction
  <2> QED
    BY <2>4
<1>6. f \in [Nat -> D] /\ f[0] = a
  BY <1>4
<1>7. ASSUME NEW n \in Nat PROVE f[n + 1] = F[n][f[n]]
  <2>1. n + 1 \in Nat /\ n < n + 1
    OBVIOUS
  <2>2. G(n + 1)[n + 1] = F[n][G(n + 1)[n]]
    BY <1>4, <2>1
  <2> QED
    BY <1>5, <2>1, <2>2
<1> QED
  BY <1>6, <1>7
----------------------------------------------------------------------------
(* Executions *)

\* A set of finitely many values of a function.
LEMMA FiniteImage ==
  ASSUME NEW S, IsFiniteSet(S), NEW f
  PROVE  IsFiniteSet({f[x] : x \in S})
<1>1. [x \in S |-> f[x]] \in Surjection(S, {f[x] : x \in S})
  BY DEF Surjection
<1> QED
  BY <1>1, FS_Surjection

\* The bound on the executions is a number.
LEMMA LongestRunIsNat ==
  ASSUME threads \in Programs
  PROVE  LongestRun \in Nat
<1> DEFINE placesOf(t) == {t} \X DOMAIN threads[t]
           f == [t \in Thread |-> placesOf(t)]
<1>1. ASSUME NEW t \in Thread PROVE IsFiniteSet(placesOf(t))
  <2> DEFINE n == Len(threads[t])
             g == [i \in 1..n |-> <<t, i>>]
  <2>1. n \in Nat /\ DOMAIN threads[t] = 1..n
    <3>1. threads[t] \in Sequential!abstract_cfg
      BY InclusionTestAssumption
    <3>2. threads[t] \in Seq(Sequential!cfg_state)
      BY <3>1 DEF Sequential!abstract_cfg
    <3> QED
      BY <3>2
  <2>2. IsFiniteSet(1..n)
    <3> HIDE DEF n
    <3> QED
      BY <2>1, FS_Interval
  <2>3. IsFiniteSet({g[i] : i \in 1..n})
    <3> HIDE DEF g, n
    <3> QED
      BY <2>2, FiniteImage
  <2>4. placesOf(t) = {<<t, i>> : i \in 1..n}
    <3> HIDE DEF n
    <3>1. placesOf(t) = {t} \X (1..n)
      BY <2>1
    <3> QED
      BY <3>1
  <2>5. {g[i] : i \in 1..n} = {<<t, i>> : i \in 1..n}
    <3> HIDE DEF n
    <3> QED
      OBVIOUS
  <2> QED
    BY <2>3, <2>4, <2>5
<1>2. IsFiniteSet({f[t] : t \in Thread})
  <2> HIDE DEF f
  <2> QED
    BY InclusionTestAssumption, FiniteImage
<1>3. \A S \in {f[t] : t \in Thread} : IsFiniteSet(S)
  BY <1>1
<1>4. IsFiniteSet(UNION {f[t] : t \in Thread})
  <2> HIDE DEF f
  <2> QED
    BY <1>2, <1>3, FS_UNION
<1>5. UNION {f[t] : t \in Thread} = UNION {{t} \X DOMAIN threads[t] : t \in Thread}
  OBVIOUS
<1>6. Cardinality(UNION {{t} \X DOMAIN threads[t] : t \in Thread}) \in Nat
  BY <1>4, <1>5, FS_CardinalityType
<1> QED
  BY <1>6 DEF LongestRun

\* The words of an automaton are sequences of what its transitions take.
LEMMA WordsAreSequences ==
  ASSUME LongestRun \in Nat, NEW ca, NEW A, \A tr \in ca.transitions : tr[2] \in Seq(A)
  PROVE  WordsOf(ca) \subseteq Seq(A)
<1> DEFINE B == {ca.initial} \cup {tr[3] : tr \in ca.transitions}
           R == SUBSET (Seq(A) \X B)
           D == [open : R, closed : R]
           a == [open |-> {<<<<>>, ca.initial>>}, closed |-> {}]
           F == [n \in Nat |-> [X \in D |-> Extend(ca, X)]]
           Def(g) == [n \in Nat |-> IF n = 0 THEN a ELSE Extend(ca, g[n - 1])]
           runs == CHOOSE g : g = Def(g)
<1>1. a \in D
  <2>1. <<<<>>, ca.initial>> \in Seq(A) \X B
    <3>1. <<>> \in Seq(A) /\ ca.initial \in B
      OBVIOUS
    <3> HIDE DEF B
    <3> QED
      BY <3>1, Zenon
  <2>2. {<<<<>>, ca.initial>>} \in R /\ {} \in R
    <3> HIDE DEF B
    <3> QED
      BY <2>1
  <2> HIDE DEF R
  <2> QED
    BY <2>2
<1>2. ASSUME NEW X \in D PROVE Extend(ca, X) \in D
  <2>1. ASSUME NEW r \in X.open, NEW tr \in ca.transitions
        PROVE  <<r[1] \o tr[2], tr[3]>> \in Seq(A) \X B
    <3>1. r[1] \in Seq(A)
      OBVIOUS
    <3>2. r[1] \o tr[2] \in Seq(A)
      <4> HIDE DEF D, B
      <4> QED
        BY <3>1
    <3> QED
      BY <3>2
  <2> DEFINE more == UNION {{<<r[1] \o tr[2], tr[3]>> : tr \in {tr \in ca.transitions : tr[1] = r[2]}} :
                              r \in X.open}
  <2>2. more \in R
    <3>1. ASSUME NEW x \in more PROVE x \in Seq(A) \X B
      <4>1. PICK r \in X.open : x \in {<<r[1] \o tr[2], tr[3]>> : tr \in {tr \in ca.transitions : tr[1] = r[2]}}
        OBVIOUS
      <4>2. PICK tr \in ca.transitions : x = <<r[1] \o tr[2], tr[3]>>
        BY <4>1
      <4> HIDE DEF B, D, more
      <4> QED
        BY <2>1, <4>2
    <3> HIDE DEF more, B
    <3> QED
      BY <3>1
  <2>3. X.closed \cup X.open \in R
    OBVIOUS
  <2>4. Extend(ca, X) = [open |-> more, closed |-> X.closed \cup X.open]
    BY DEF Extend
  <2> HIDE DEF R, more
  <2> QED
    BY <2>2, <2>3, <2>4
<1>3. IsStep(D, F)
  <2> HIDE DEF D
  <2> QED
    BY <1>2 DEF IsStep
<1>4. PICK f \in [Nat -> D] : Continues(f, a, F)
  <2> HIDE DEF D, F, a
  <2> QED
    BY <1>1, <1>3, PrimitiveRecursion
<1>5. f = Def(f)
  <2> HIDE DEF D, a
  <2>1. f[0] = a /\ \A n \in Nat : f[n + 1] = Extend(ca, f[n])
    BY <1>4 DEF Continues
  <2>2. ASSUME NEW n \in Nat, n # 0 PROVE f[n] = Extend(ca, f[n - 1])
    <3>1. n - 1 \in Nat /\ (n - 1) + 1 = n
      BY <2>2
    <3> QED
      BY <2>1, <3>1
  <2> QED
    BY <2>1, <2>2
<1>6. runs = Def(runs)
  <2> HIDE DEF Def
  <2> QED
    BY <1>5
<1> HIDE DEF runs, D
<1> DEFINE S == {n \in Nat : runs[n] \in D}
<1>7. Nat \subseteq S
  <2>1. 0 \in S
    BY <1>1, <1>6
  <2>2. ASSUME NEW n \in S PROVE n + 1 \in S
    <3>1. n + 1 \in Nat /\ n + 1 # 0 /\ (n + 1) - 1 = n
      OBVIOUS
    <3>2. runs[n + 1] = Extend(ca, runs[n])
      BY <1>6, <3>1
    <3> QED
      BY <1>2, <3>1, <3>2
  <2> HIDE DEF S
  <2> QED
    BY <2>1, <2>2, NatSetInduction
<1>8. runs[LongestRun + 1].closed \in R
  BY <1>7 DEF D
<1>9. WordsOf(ca) = {r[1] : r \in {r \in runs[LongestRun + 1].closed : r[2] \in ca.final}}
  BY DEF WordsOf, runs
<1> QED
  BY <1>8, <1>9

\* A sequence of some symbols.
IsWord(w) == w \in Seq({w[n] : n \in Nat})

LEMMA WordOver ==
  ASSUME NEW A, NEW w \in Seq(A)
  PROVE  IsWord(w)
<1> DEFINE B == {w[n] : n \in Nat}
<1>1. Len(w) \in Nat /\ w \in [1..Len(w) -> A]
  OBVIOUS
<1>2. \A n \in 1..Len(w) : w[n] \in B
  BY <1>1
<1>3. w \in [1..Len(w) -> B]
  <2> HIDE DEF B
  <2> QED
    BY <1>1, <1>2
<1>4. w \in Seq(B)
  <2> HIDE DEF B
  <2> QED
    BY <1>1, <1>3
<1> QED
  BY <1>4 DEF IsWord

\* The words of an automaton whose transitions take one symbol or none.
LEMMA WordsAreWords ==
  ASSUME LongestRun \in Nat, NEW ca,
         \A tr \in ca.transitions : tr[2] = <<>> \/ \E s : tr[2] = <<s>>,
         NEW w \in WordsOf(ca)
  PROVE  IsWord(w)
<1> DEFINE A == {tr[2][1] : tr \in ca.transitions}
<1>1. ASSUME NEW tr \in ca.transitions PROVE tr[2] \in Seq(A)
  <2>1. CASE tr[2] = <<>>
    BY <2>1
  <2>2. ASSUME NEW s, tr[2] = <<s>> PROVE tr[2] \in Seq(A)
    <3>1. s \in A
      BY <2>2
    <3> HIDE DEF A
    <3> QED
      BY <2>2, <3>1
  <2> QED
    BY <2>1, <2>2
<1>2. w \in Seq(A)
  <2> HIDE DEF A
  <2> QED
    BY <1>1, WordsAreSequences
<1> QED
  BY <1>2, WordOver

\* The executions are sequences, as are those without preemption.
LEMMA ExecutionsAreWords ==
  ASSUME threads \in Programs
  PROVE  /\ \A w \in Executions : IsWord(w)
         /\ \A w \in WordsOf(from_concurrent_automaton) : IsWord(w)
<1>1. LongestRun \in Nat
  BY LongestRunIsNat
<1>2. \A tr \in concurrent_automaton.transitions : tr[2] = <<>> \/ \E s : tr[2] = <<s>>
  <2>1. \A st : \A step \in PreemptiveSteps(st) : step[1] = <<>> \/ \E s : step[1] = <<s>>
    BY DEF PreemptiveSteps
  <2>2. \A tr \in concurrent_automaton.transitions :
          \E st : \E step \in PreemptiveSteps(st) : tr = <<st, step[1], step[2]>>
    BY DEF concurrent_automaton, Automaton
  <2> QED
    BY <2>1, <2>2
<1>3. \A tr \in from_concurrent_automaton.transitions : tr[2] = <<>> \/ \E s : tr[2] = <<s>>
  <2>1. \A st : \A step \in SequentialSteps(st) : step[1] = <<>> \/ \E s : step[1] = <<s>>
    BY DEF SequentialSteps
  <2>2. \A tr \in from_concurrent_automaton.transitions :
          \E st : \E step \in SequentialSteps(st) : tr = <<st, step[1], step[2]>>
    BY DEF from_concurrent_automaton, Automaton
  <2> QED
    BY <2>1, <2>2
<1>4. Executions = WordsOf(concurrent_automaton)
  BY DEF Executions
<1> QED
  BY <1>1, <1>2, <1>3, <1>4, WordsAreWords

\* Leaving out epsilons makes no execution longer.
LEMMA VisibleIsShorter ==
  ASSUME NEW w, IsWord(w)
  PROVE  IsWord(VisibleOf(w)) /\ Len(VisibleOf(w)) <= Len(w)
<1> DEFINE A == {w[n] : n \in Nat}
           D == Seq(A)
           next(n) == IF is_epsilon(w[n]) THEN <<>> ELSE <<w[n]>>
           F == [n \in Nat |-> [X \in D |-> X \o next(n + 1)]]
           Def(g) == [n \in Nat |-> IF n = 0 THEN <<>> ELSE g[n - 1] \o next(n)]
           visible == CHOOSE g : g = Def(g)
<1>1. Len(w) \in Nat
  BY DEF IsWord
<1>2. ASSUME NEW n \in Nat PROVE next(n) \in D /\ Len(next(n)) <= 1
  <2>1. w[n] \in A
    OBVIOUS
  <2> HIDE DEF A
  <2>2. <<w[n]>> \in Seq(A) /\ <<>> \in Seq(A) /\ Len(<<w[n]>>) = 1 /\ Len(<<>>) = 0
    BY <2>1
  <2> QED
    BY <2>2
<1> HIDE DEF next, A
<1>3. ASSUME NEW X \in D, NEW n \in Nat
      PROVE  X \o next(n) \in D /\ Len(X \o next(n)) <= Len(X) + 1
  BY <1>2
<1>11. \A X \in D : Len(X) \in Nat
  OBVIOUS
<1>4. IsStep(D, F) /\ <<>> \in D
  <2>1. \A n \in Nat : n + 1 \in Nat
    OBVIOUS
  <2>2. <<>> \in D
    OBVIOUS
  <2> HIDE DEF D
  <2> QED
    BY <1>3, <2>1, <2>2 DEF IsStep
<1>5. PICK f \in [Nat -> D] : Continues(f, <<>>, F)
  <2> HIDE DEF D, F
  <2> QED
    BY <1>4, PrimitiveRecursion
<1>6. f = Def(f)
  <2> HIDE DEF D
  <2>1. f[0] = <<>> /\ \A n \in Nat : f[n + 1] = f[n] \o next(n + 1)
    BY <1>5 DEF Continues
  <2>2. ASSUME NEW n \in Nat, n # 0 PROVE f[n] = f[n - 1] \o next(n)
    <3>1. n - 1 \in Nat /\ (n - 1) + 1 = n
      BY <2>2
    <3>2. f[(n - 1) + 1] = f[n - 1] \o next((n - 1) + 1)
      BY <2>1, <3>1
    <3> QED
      BY <3>1, <3>2
  <2> QED
    BY <2>1, <2>2
<1>7. visible = Def(visible)
  <2> HIDE DEF Def
  <2> QED
    BY <1>6
<1>8. VisibleOf(w) = visible[Len(w)]
  BY DEF VisibleOf, next
<1> HIDE DEF visible
<1> DEFINE S == {n \in Nat : visible[n] \in D /\ Len(visible[n]) <= n}
<1>9. Nat \subseteq S
  <2>1. 0 \in S
    BY <1>7
  <2>2. ASSUME NEW n \in S PROVE n + 1 \in S
    <3>1. n + 1 \in Nat /\ n + 1 # 0 /\ (n + 1) - 1 = n
      OBVIOUS
    <3> DEFINE X == visible[n]
               Y == visible[n + 1]
    <3>2. X \in D /\ Len(X) <= n
      OBVIOUS
    <3>3. Y = X \o next(n + 1)
      BY <1>7, <3>1
    <3>4. Y \in D /\ Len(Y) <= Len(X) + 1
      BY <1>3, <3>1, <3>2, <3>3
    <3> HIDE DEF X, Y
    <3>5. Len(X) \in Nat /\ Len(Y) \in Nat
      BY <1>11, <3>2, <3>4
    <3>6. Y \in D /\ Len(Y) <= n + 1
      BY <3>1, <3>2, <3>4, <3>5
    <3> QED
      BY <3>1, <3>6 DEF Y
  <2> HIDE DEF S
  <2> QED
    BY <2>1, <2>2, NatSetInduction
<1>10. VisibleOf(w) \in Seq(A) /\ Len(VisibleOf(w)) <= Len(w)
  BY <1>1, <1>8, <1>9
<1> QED
  BY <1>10, WordOver

\* As long as threads and the forbidden traces stay, so do the executions.
LEMMA SameExecutions ==
  ASSUME UNCHANGED <<threads, conflicts, patterns>>
  PROVE  UNCHANGED Executions
BY DEF Executions, concurrent_automaton, WordsOf, Automaton, LongestRun, Explore, PreemptiveSteps,
  Preemptive!int_initial_state, Preemptive!int_is_final_state, Preemptive!int_next_symbols,
  Preemptive!next_single, Preemptive!Executed, Preemptive!CanExecute, Preemptive!Monitored,
  Preemptive!conflicts_after, Preemptive!position_after, Preemptive!at_exit,
  Preemptive!current_after, Preemptive!Rejected

----------------------------------------------------------------------------
(* Equivalence *)

\* A symbol has fewer of a thread before it than it has symbols before it.
LEMMA CountIsBounded ==
  ASSUME NEW u, IsWord(u), NEW i \in DOMAIN u, NEW t
  PROVE  CountBefore(u, i, t) \in Nat /\ CountBefore(u, i, t) <= Len(u)
<1> DEFINE S == {j \in 1..(i - 1) : u[j].thread = t}
<1>1. Len(u) \in Nat /\ i \in 1..Len(u)
  BY DEF IsWord
<1>2. IsFiniteSet(1..(i - 1)) /\ Cardinality(1..(i - 1)) = i - 1
  <2>1. i - 1 \in Int /\ 1 \in Int /\ ~(1 > i - 1 /\ i - 1 # 0)
    BY <1>1
  <2>2. /\ IsFiniteSet(1..(i - 1))
        /\ Cardinality(1..(i - 1)) = IF 1 > i - 1 THEN 0 ELSE (i - 1) - 1 + 1
    BY <2>1, FS_Interval
  <2> QED
    BY <1>1, <2>2
<1>3. IsFiniteSet(S) /\ Cardinality(S) <= Cardinality(1..(i - 1))
  <2>1. S \in SUBSET (1..(i - 1))
    OBVIOUS
  <2> HIDE DEF S
  <2> QED
    BY <1>2, <2>1, FS_Subset
<1>4. Cardinality(S) \in Nat
  BY <1>3, FS_CardinalityType
<1>5. CountBefore(u, i, t) = Cardinality(S)
  BY DEF CountBefore
<1> HIDE DEF S
<1> QED
  BY <1>1, <1>2, <1>3, <1>4, <1>5

\* With a bound as long as the execution the algorithm has no reason not to decide.
LEMMA NothingPutOffLonger ==
  ASSUME NEW v, IsWord(v), NEW u, IsWord(u), Equivalent(v, u), NEW k \in Nat, Len(u) <= k,
         NEW i \in DOMAIN u, NEW t
  PROVE  PutOff(v, u, i, t) <= k
<1>1. PlaceIn(v, u, i) \in DOMAIN v
  BY DEF PlaceIn, Equivalent
<1>2. CountBefore(v, PlaceIn(v, u, i), t) \in Nat
  BY <1>1, CountIsBounded
<1>3. CountBefore(u, i, t) \in Nat /\ CountBefore(u, i, t) <= Len(u)
  BY CountIsBounded
<1>4. Len(u) \in Nat
  BY DEF IsWord
<1> QED
  BY <1>2, <1>3, <1>4 DEF PutOff

\* check_trace decides whether its candidate is a counterexample.
LEMMA CheckDecides ==
  ASSUME NEW w, IsWord(w), \A v \in compressed_sequential : IsWord(v),
         NEW filter, filter = ToSet(VisibleOf(w))
  PROVE  CheckIncluded(w, filter) <=> EquivalentToOne(compressed_sequential, w)
<1> DEFINE u == VisibleOf(w)
<1>1. IsWord(u) /\ Len(u) <= Len(w) /\ Len(w) \in Nat
  <2>1. Len(w) \in Nat
    BY DEF IsWord
  <2> QED
    BY <2>1, VisibleIsShorter
<1>2. CheckIncluded(w, filter) => EquivalentToOne(compressed_sequential, w)
  BY DEF CheckIncluded, Answered, EquivalentToOne, Filtered
<1>3. ASSUME NEW v \in compressed_sequential, Equivalent(v, u)
      PROVE  CheckIncluded(w, filter)
  <2>1. \A p \in DOMAIN v : v[p] \in filter
    BY <1>3 DEF Equivalent, SamePlace, ToSet
  <2>2. v \in Filtered(filter)
    BY <2>1 DEF Filtered
  <2>3. \A i \in DOMAIN u, t \in Thread : PutOff(v, u, i, t) <= Len(w)
    <3> HIDE DEF u
    <3> QED
      BY <1>1, <1>3, NothingPutOffLonger
  <2> QED
    BY <1>3, <2>2, <2>3 DEF CheckIncluded, Answered, check_bound
<1> QED
  BY <1>2, <1>3 DEF EquivalentToOne

----------------------------------------------------------------------------
(* The test *)

\* What the test can answer does not change while it runs.
LEMMA SameVerdicts ==
  ASSUME UNCHANGED <<compressed_sequential, threads, conflicts, patterns>>
  PROVE  /\ UNCHANGED Counterexamples
         /\ \A k : Unanswered(compressed_sequential, k)' = Unanswered(compressed_sequential, k)
<1>1. UNCHANGED Executions
  BY SameExecutions
<1> QED
  BY <1>1 DEF Counterexamples, Unanswered

\* With no bound does the algorithm answer for a counterexample.
LEMMA CounterexamplesAreUnanswered ==
  ASSUME NEW k
  PROVE  Counterexamples \subseteq Unanswered(compressed_sequential, k)
BY DEF Counterexamples, Unanswered, EquivalentToOne, Answered

\* The bounds before this one were too small for some execution.
LowerBoundsFail ==
  bound > 1 => Unanswered(compressed_sequential, bound - 1) # {}

\* Where the test is, and what it knows there.
Progressed ==
  \/ pc = "inclusion" /\ LowerBoundsFail
  \/ /\ pc = "check" /\ bound <= max_bound
     /\ counter_example \in Unanswered(compressed_sequential, bound)
  \/ pc = "answer" /\ counter_example \in Counterexamples
  \/ pc = "success" /\ Counterexamples = {}
  \/ pc = "bound" /\ GivesUpBeyondBound
  \/ pc \in {"sequential", "bad", "return", "no more locks"} /\ bound = 1

\* The inductive invariant.
TestInv ==
  /\ threads \in Programs
  /\ \A v \in compressed_sequential : IsWord(v)
  /\ bound \in 1..(max_bound + 1)
  /\ successor_filter = {}
  /\ Progressed

LEMMA TestBegins == Init => TestInv
<1> SUFFICES ASSUME Init PROVE TestInv
  OBVIOUS
<1>1. threads \in Programs /\ pc = "inclusion" /\ bound = 1 /\ successor_filter = {}
  BY DEF Init, TestInit
<1>2. compressed_sequential = {VisibleOf(w) : w \in WordsOf(from_concurrent_automaton)}
  BY DEF Init
<1>3. \A v \in compressed_sequential : IsWord(v)
  BY <1>1, <1>2, ExecutionsAreWords, VisibleIsShorter
<1>4. bound \in 1..(max_bound + 1)
  BY <1>1, InclusionTestAssumption
<1> QED
  BY <1>1, <1>3, <1>4 DEF TestInv, Progressed, LowerBoundsFail

\* What the algorithm reports is right: without a filter it sees all executions without
\* preemption.
LEMMA RunKeeps ==
  ASSUME TestInv, run, UNCHANGED <<compressed_sequential, concurrent>>
  PROVE  TestInv'
<1>1. /\ pc = "inclusion" /\ bound <= max_bound
      /\ UNCHANGED <<compressed_sequential, threads, conflicts, patterns, bound, successor_filter>>
  BY DEF run, tried, concurrent
<1>2. Filtered(successor_filter) = compressed_sequential
  BY DEF TestInv, Filtered
<1> DEFINE unanswered == Unanswered(compressed_sequential, bound)
<1>3. \/ Included(unanswered) \/ Found(compressed_sequential, unanswered)
      \/ Candidate(unanswered)
  BY <1>2 DEF run
<1>4. UNCHANGED Counterexamples /\ UNCHANGED unanswered
  BY <1>1, SameVerdicts
<1>5. CASE Included(unanswered)
  <2>1. pc' = "success" /\ Counterexamples = {}
    BY <1>5, CounterexamplesAreUnanswered DEF Included
  <2> QED
    BY <1>1, <1>4, <2>1 DEF TestInv, Progressed
<1>6. CASE Found(compressed_sequential, unanswered)
  <2>1. pc' = "answer" /\ counter_example' \in Counterexamples
    BY <1>6 DEF Found, Counterexamples, Unanswered
  <2> QED
    BY <1>1, <1>4, <2>1 DEF TestInv, Progressed
<1>7. CASE Candidate(unanswered)
  <2>1. pc' = "check" /\ counter_example' \in unanswered
    BY <1>7 DEF Candidate
  <2>2. counter_example' \in Unanswered(compressed_sequential, bound)'
    BY <1>4, <2>1
  <2> QED
    BY <1>1, <2>1, <2>2 DEF TestInv, Progressed
<1> QED
  BY <1>3, <1>5, <1>6, <1>7

\* The check of the candidate decides: it is an answer, or shows the bound to be too small.
LEMMA CheckKeeps ==
  ASSUME TestInv, check_trace, UNCHANGED <<compressed_sequential, concurrent>>
  PROVE  TestInv'
<1>1. /\ pc = "check" /\ bound <= max_bound /\ bound \in Nat \ {0} /\ max_bound \in Nat
      /\ counter_example \in Unanswered(compressed_sequential, bound)
      /\ UNCHANGED <<compressed_sequential, threads, conflicts, patterns>>
  BY InclusionTestAssumption DEF check_trace, concurrent, TestInv, Progressed
<1>2. UNCHANGED Counterexamples
  BY <1>1, SameVerdicts
<1> DEFINE filter == ToSet(VisibleOf(counter_example))
<1>3. /\ successor_filter' = {}
      /\ IF CheckIncluded(counter_example, filter)
           THEN pc' = "inclusion" /\ bound' = bound + 1
           ELSE pc' = "answer" /\ UNCHANGED <<bound, counter_example>>
  <2>1. successor_filter \cup filter = filter
    BY DEF TestInv
  <2> QED
    BY <2>1 DEF check_trace, clear
<1>4. counter_example \in Executions
  BY <1>1 DEF Unanswered
<1>5. CheckIncluded(counter_example, filter)
        <=> EquivalentToOne(compressed_sequential, counter_example)
  BY <1>4, ExecutionsAreWords, CheckDecides DEF TestInv
<1>6. CASE CheckIncluded(counter_example, filter)
  <2>1. pc' = "inclusion" /\ bound' \in 1..(max_bound + 1) /\ bound' - 1 = bound
    BY <1>1, <1>3, <1>6
  <2>2. (Unanswered(compressed_sequential, bound - 1) # {})'
    BY <1>1, <2>1, SameVerdicts
  <2> QED
    BY <1>1, <1>3, <2>1, <2>2 DEF TestInv, Progressed, LowerBoundsFail
<1>7. CASE ~CheckIncluded(counter_example, filter)
  <2>1. pc' = "answer" /\ UNCHANGED <<bound, counter_example>>
    BY <1>3, <1>7
  <2>2. counter_example' \in Counterexamples'
    BY <1>2, <1>4, <1>5, <1>7, <2>1 DEF Counterexamples
  <2> QED
    BY <1>1, <1>3, <2>1, <2>2 DEF TestInv, Progressed
<1> QED
  BY <1>6, <1>7

\* The last bound tried was the maximum.
LEMMA GiveUpKeeps ==
  ASSUME TestInv, GiveUp, UNCHANGED <<compressed_sequential, concurrent>>
  PROVE  TestInv'
<1>1. /\ pc = "inclusion" /\ pc' = "bound" /\ ~(bound <= max_bound) /\ LowerBoundsFail
      /\ UNCHANGED <<compressed_sequential, threads, conflicts, patterns, bound, successor_filter>>
  BY DEF GiveUp, tried, testing, concurrent, TestInv, Progressed
<1>2. bound = max_bound + 1 /\ max_bound \in Nat
  BY <1>1, InclusionTestAssumption DEF TestInv
<1>3. max_bound > 0 => Unanswered(compressed_sequential, max_bound) # {}
  BY <1>1, <1>2 DEF LowerBoundsFail
<1>4. GivesUpBeyondBound'
  BY <1>1, <1>3, SameVerdicts DEF GivesUpBeyondBound
<1> QED
  BY <1>1, <1>4 DEF TestInv, Progressed

\* The rest of a round begins with an answer and ends with the first bound.
LEMMA RoundKeeps ==
  ASSUME TestInv,
         \/ PrepareTrace \/ FindSequential \/ SequentialDone \/ FindBad \/ BadDone
         \/ AddLocks \/ NoMoreLocks
  PROVE  TestInv'
<1>1. UNCHANGED <<compressed_sequential, threads, successor_filter>>
  BY DEF PrepareTrace, FindSequential, SequentialDone, FindBad, BadDone, Within, AddLocks,
    NoMoreLocks, concurrent, testing
<1>2. bound' = 1 /\ pc' \in {"inclusion", "sequential", "bad", "return", "no more locks"}
  BY DEF PrepareTrace, FindSequential, SequentialDone, FindBad, BadDone, Within, AddLocks,
    NoMoreLocks, testing, TestInv, Progressed, PT!FindSequential, PT!SequentialDone, PT!FindBad,
    PT!BadDone
<1>3. bound' = 1
  BY <1>2
<1>4. ~(bound' > 1)
  BY <1>3
<1>5. Progressed'
  BY <1>2, <1>4 DEF Progressed, LowerBoundsFail
<1>6. bound' \in 1..(max_bound + 1)
  BY <1>3, InclusionTestAssumption
<1> QED
  BY <1>1, <1>5, <1>6 DEF TestInv

LEMMA TestStep == TestInv /\ [Next]_vars => TestInv'
<1> SUFFICES ASSUME TestInv, [Next]_vars PROVE TestInv'
  OBVIOUS
<1>1. CASE TestInclusion
  BY <1>1, RunKeeps, CheckKeeps, GiveUpKeeps DEF TestInclusion, test_inclusion
<1>2. CASE \/ PrepareTrace \/ FindSequential \/ SequentialDone \/ FindBad \/ BadDone
           \/ AddLocks \/ NoMoreLocks
  BY <1>2, RoundKeeps
<1>3. CASE UNCHANGED vars
  <2>1. UNCHANGED <<compressed_sequential, threads, conflicts, patterns, pc, bound,
                    successor_filter, counter_example>>
    BY <1>3 DEF vars, concurrent, testing
  <2> QED
    BY <2>1, SameVerdicts DEF TestInv, Progressed, LowerBoundsFail, GivesUpBeyondBound
<1> QED
  BY <1>1, <1>2, <1>3 DEF Next

\* The inductive invariant holds of every state of the synthesis.
THEOREM TestInvariant == Spec => []TestInv
<1> QED
  BY TestBegins, TestStep, PTL DEF Spec

\* test_inclusion gives up only on a program for which an execution needs more
\* reorderings than the maximum bound.
THEOREM GivesUpOnlyBeyondBound == Spec => []GivesUpBeyondBound
<1>1. TestInv => GivesUpBeyondBound
  BY DEF TestInv, Progressed, GivesUpBeyondBound
<1> QED
  BY <1>1, TestInvariant, PTL

\* With success there is no counterexample, and an answer is one: check_trace decides.
THEOREM TestIsRight == Spec => []VerdictIsRight
<1>1. TestInv => VerdictIsRight
  BY DEF TestInv, Progressed, VerdictIsRight
<1> QED
  BY <1>1, TestInvariant, PTL
=============================================================================
