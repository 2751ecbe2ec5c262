---------------------- MODULE ForbiddenExecutionsProofs ----------------------
(***************************************************************************)
(* The monitor of concurrent_automaton is exact, for all programs and all  *)
(* locks: what it remembers of an execution (the pairs under observation   *)
(* and the bits of the violated locks) determines which executions the     *)
(* locks exclude, although the execution itself is forgotten.              *)
(***************************************************************************)
EXTENDS ForbiddenExecutions, ExecutionsProofs, NaturalsInduction, WellFoundedInduction

----------------------------------------------------------------------------
(* Executions, symbol by symbol                                          *)

\* The monitored symbols: what a history consists of.
monitored == {s \in symbol : ~Unmonitored(s)}

\* What the monitor is to know of a conflict after execution h: the thread of ci has
\* executed ci.pred and nothing since, and b says if a symbol of ci.conflict followed.
Watches(h, ci, b) ==
  \E i \in DOMAIN h :
    /\ h[i] = ci.pred
    /\ \A k \in DOMAIN h : i < k => h[k].thread # h[i].thread
    /\ b <=> \E k \in DOMAIN h : i < k /\ h[k] \in ci.conflict

\* Executing s after h makes the thread of a list complete two neighbours between
\* which a symbol of another list was executed.
Completes(lock, h, s) ==
  \E a, b \in DOMAIN lock :
    /\ lock[a][1].thread # lock[b][1].thread
    /\ \E m, n \in DOMAIN lock[a] : \E i \in DOMAIN h :
         /\ Neighbours(lock[a], m, n)
         /\ h[i] = lock[a][m] /\ s = lock[a][n]
         /\ \A k \in DOMAIN h : i < k => h[k].thread # h[i].thread
         /\ \E k \in DOMAIN h : i < k /\ h[k] \in ToSet(lock[b])

\* The positions of an execution that is one symbol longer.
LEMMA OneSymbolMore ==
  ASSUME NEW h \in Seq(monitored), NEW s \in monitored
  PROVE  /\ Len(h) \in Nat
         /\ DOMAIN h = 1..Len(h)
         /\ DOMAIN Append(h, s) = 1..(Len(h) + 1)
         /\ \A k \in 1..Len(h) : Append(h, s)[k] = h[k]
         /\ Append(h, s)[Len(h) + 1] = s
OBVIOUS

\* What is watched after one more symbol: a conflict that begins with it, or one
\* that was watched before and that is not the thread's own.
LEMMA WatchStep ==
  ASSUME NEW h \in Seq(monitored), NEW s \in monitored, NEW ci \in conflict_info,
         NEW b \in BOOLEAN
  PROVE  Watches(Append(h, s), ci, b) <=>
           \/ s = ci.pred /\ ~b
           \/ /\ s.thread # ci.pred.thread
              /\ \E old \in BOOLEAN : /\ Watches(h, ci, old)
                                      /\ b <=> old \/ s \in ci.conflict
<1> DEFINE h2 == Append(h, s)
           N == Len(h)
<1>1. /\ N \in Nat /\ DOMAIN h = 1..N /\ DOMAIN h2 = 1..(N + 1)
      /\ (\A k \in 1..N : h2[k] = h[k]) /\ h2[N + 1] = s
  BY OneSymbolMore
<1> HIDE DEF h2, N
<1>2. ASSUME Watches(h2, ci, b)
      PROVE  \/ s = ci.pred /\ ~b
             \/ /\ s.thread # ci.pred.thread
                /\ \E old \in BOOLEAN : Watches(h, ci, old) /\ (b <=> old \/ s \in ci.conflict)
  <2>1. PICK i \in DOMAIN h2 :
          /\ h2[i] = ci.pred
          /\ \A k \in DOMAIN h2 : i < k => h2[k].thread # h2[i].thread
          /\ b <=> \E k \in DOMAIN h2 : i < k /\ h2[k] \in ci.conflict
    BY <1>2 DEF Watches
  <2>2. CASE i = N + 1
    <3>1. ~\E k \in DOMAIN h2 : i < k
      BY <1>1, <2>2
    <3> QED
      BY <1>1, <2>1, <2>2, <3>1
  <2>3. CASE i # N + 1
    <3>1. i \in 1..N /\ N + 1 \in DOMAIN h2 /\ i < N + 1
      BY <1>1, <2>3
    <3>2. s.thread # ci.pred.thread
      BY <1>1, <2>1, <3>1
    <3>3. PICK old \in BOOLEAN : old <=> \E k \in DOMAIN h : i < k /\ h[k] \in ci.conflict
      OBVIOUS
    <3>4. Watches(h, ci, old)
      <4>1. h[i] = ci.pred /\ \A k \in DOMAIN h : i < k => h[k].thread # h[i].thread
        BY <1>1, <2>1, <3>1
      <4> QED
        BY <1>1, <3>1, <3>3, <4>1 DEF Watches
    <3>5. (\E k \in DOMAIN h2 : i < k /\ h2[k] \in ci.conflict)
            <=> (\E k \in DOMAIN h : i < k /\ h[k] \in ci.conflict) \/ s \in ci.conflict
      BY <1>1, <3>1
    <3>6. b <=> old \/ s \in ci.conflict
      BY <2>1, <3>3, <3>5
    <3> QED
      BY <3>2, <3>4, <3>6
  <2> QED
    BY <2>2, <2>3
<1>3. ASSUME s = ci.pred, ~b PROVE Watches(h2, ci, b)
  <2>1. N + 1 \in DOMAIN h2 /\ ~\E k \in DOMAIN h2 : N + 1 < k
    BY <1>1
  <2> QED
    BY <1>1, <1>3, <2>1 DEF Watches
<1>4. ASSUME s.thread # ci.pred.thread,
             NEW old \in BOOLEAN, Watches(h, ci, old), b <=> old \/ s \in ci.conflict
      PROVE  Watches(h2, ci, b)
  <2>1. PICK i \in DOMAIN h :
          /\ h[i] = ci.pred
          /\ \A k \in DOMAIN h : i < k => h[k].thread # h[i].thread
          /\ old <=> \E k \in DOMAIN h : i < k /\ h[k] \in ci.conflict
    BY <1>4 DEF Watches
  <2>2. i \in DOMAIN h2 /\ h2[i] = ci.pred /\ i < N + 1
    BY <1>1, <2>1
  <2>3. \A k \in DOMAIN h2 : i < k => h2[k].thread # h2[i].thread
    BY <1>1, <1>4, <2>1, <2>2
  <2>4. (\E k \in DOMAIN h2 : i < k /\ h2[k] \in ci.conflict)
          <=> (\E k \in DOMAIN h : i < k /\ h[k] \in ci.conflict) \/ s \in ci.conflict
    BY <1>1, <2>2
  <2>5. b <=> \E k \in DOMAIN h2 : i < k /\ h2[k] \in ci.conflict
    BY <1>4, <2>1, <2>4
  <2> QED
    BY <2>2, <2>3, <2>5 DEF Watches
<1> QED
  BY <1>2, <1>3, <1>4 DEF h2

\* A lock that an execution interrupts was interrupted before its last symbol, or
\* the last symbol completes the interruption.
LEMMA InterruptedStep ==
  ASSUME NEW h \in Seq(monitored), NEW s \in monitored, NEW lock
  PROVE  Interrupted(lock, Append(h, s)) <=> Interrupted(lock, h) \/ Completes(lock, h, s)
<1> DEFINE h2 == Append(h, s)
           N == Len(h)
<1>1. /\ N \in Nat /\ DOMAIN h = 1..N /\ DOMAIN h2 = 1..(N + 1)
      /\ (\A k \in 1..N : h2[k] = h[k]) /\ h2[N + 1] = s
  BY OneSymbolMore
<1> HIDE DEF h2, N
<1> DEFINE Cut(g, a, b, m, n, i, j) ==
             /\ Neighbours(lock[a], m, n)
             /\ g[i] = lock[a][m] /\ g[j] = lock[a][n]
             /\ i < j
             /\ \A k \in (i + 1)..(j - 1) : g[k].thread # g[i].thread
             /\ \E k \in (i + 1)..(j - 1) : g[k] \in ToSet(lock[b])
           CutNow(a, b, m, n, i) ==
             /\ Neighbours(lock[a], m, n)
             /\ h[i] = lock[a][m] /\ s = lock[a][n]
             /\ \A k \in DOMAIN h : i < k => h[k].thread # h[i].thread
             /\ \E k \in DOMAIN h : i < k /\ h[k] \in ToSet(lock[b])
<1>2. ASSUME NEW a, NEW b, NEW m, NEW n, NEW i \in DOMAIN h, NEW j \in DOMAIN h
      PROVE  Cut(h2, a, b, m, n, i, j) <=> Cut(h, a, b, m, n, i, j)
  <2>1. /\ i \in 1..N /\ j \in 1..N
        /\ h2[i] = h[i] /\ h2[j] = h[j]
        /\ \A k \in (i + 1)..(j - 1) : h2[k] = h[k]
    BY <1>1
  <2> QED
    BY <2>1
<1>3. ASSUME NEW a, NEW b, NEW m, NEW n, NEW i \in DOMAIN h
      PROVE  Cut(h2, a, b, m, n, i, N + 1) <=> CutNow(a, b, m, n, i)
  <2>1. /\ i \in 1..N /\ i < N + 1 /\ h2[i] = h[i] /\ h2[N + 1] = s
        /\ \A k : k \in (i + 1)..((N + 1) - 1) <=> k \in DOMAIN h /\ i < k
        /\ \A k \in (i + 1)..((N + 1) - 1) : h2[k] = h[k]
    BY <1>1
  <2> QED
    BY <2>1
<1>4. ASSUME NEW a, NEW b, NEW m, NEW n, NEW i \in DOMAIN h2, NEW j \in DOMAIN h2,
             Cut(h2, a, b, m, n, i, j)
      PROVE  i \in DOMAIN h /\ (j \in DOMAIN h \/ j = N + 1)
  BY <1>1, <1>4
<1>5. DOMAIN h \subseteq DOMAIN h2 /\ N + 1 \in DOMAIN h2
  BY <1>1
<1>6. ASSUME NEW g
      PROVE  Interrupted(lock, g) <=>
               \E a, b \in DOMAIN lock :
                 /\ lock[a][1].thread # lock[b][1].thread
                 /\ \E m, n \in DOMAIN lock[a] : \E i, j \in DOMAIN g : Cut(g, a, b, m, n, i, j)
  BY DEF Interrupted
<1>7. Completes(lock, h, s) <=>
        \E a, b \in DOMAIN lock :
          /\ lock[a][1].thread # lock[b][1].thread
          /\ \E m, n \in DOMAIN lock[a] : \E i \in DOMAIN h : CutNow(a, b, m, n, i)
  BY DEF Completes
<1> HIDE DEF Cut, CutNow
<1>8. ASSUME NEW a, NEW b, NEW m, NEW n
      PROVE  (\E i, j \in DOMAIN h2 : Cut(h2, a, b, m, n, i, j)) <=>
               \/ \E i, j \in DOMAIN h : Cut(h, a, b, m, n, i, j)
               \/ \E i \in DOMAIN h : CutNow(a, b, m, n, i)
  <2>1. ASSUME NEW i \in DOMAIN h2, NEW j \in DOMAIN h2, Cut(h2, a, b, m, n, i, j)
        PROVE  \/ \E k, l \in DOMAIN h : Cut(h, a, b, m, n, k, l)
               \/ \E k \in DOMAIN h : CutNow(a, b, m, n, k)
    <3>1. i \in DOMAIN h /\ (j \in DOMAIN h \/ j = N + 1)
      BY <2>1, <1>4
    <3> QED
      BY <2>1, <3>1, <1>2, <1>3
  <2>2. ASSUME NEW i \in DOMAIN h, NEW j \in DOMAIN h, Cut(h, a, b, m, n, i, j)
        PROVE  \E k, l \in DOMAIN h2 : Cut(h2, a, b, m, n, k, l)
    BY <2>2, <1>2, <1>5
  <2>3. ASSUME NEW i \in DOMAIN h, CutNow(a, b, m, n, i)
        PROVE  \E k, l \in DOMAIN h2 : Cut(h2, a, b, m, n, k, l)
    BY <2>3, <1>3, <1>5
  <2> QED
    BY <2>1, <2>2, <2>3
<1>9. Interrupted(lock, h2) <=>
        \E a, b \in DOMAIN lock :
          /\ lock[a][1].thread # lock[b][1].thread
          /\ \E m, n \in DOMAIN lock[a] :
               \/ \E i, j \in DOMAIN h : Cut(h, a, b, m, n, i, j)
               \/ \E i \in DOMAIN h : CutNow(a, b, m, n, i)
  BY <1>6, <1>8, Zenon
<1>10. Interrupted(lock, h) <=>
         \E a, b \in DOMAIN lock :
           /\ lock[a][1].thread # lock[b][1].thread
           /\ \E m, n \in DOMAIN lock[a] : \E i, j \in DOMAIN h : Cut(h, a, b, m, n, i, j)
  BY <1>6, Zenon
<1>11. Interrupted(lock, h2) <=> Interrupted(lock, h) \/ Completes(lock, h, s)
  BY <1>7, <1>9, <1>10, Zenon
<1> QED
  BY <1>11 DEF h2

----------------------------------------------------------------------------
(* What the monitor watches for                                          *)

\* The conflicts of a lock are made of neighbours in one of its lists.
LEMMA ConflictsOfLock ==
  ASSUME NEW lock \in lock_lists, NEW id, NEW ci
  PROVE  ci \in LockConflicts(lock, id) <=>
           \E a, b \in DOMAIN lock :
             /\ lock[a][1].thread # lock[b][1].thread
             /\ VisibleSymbols(lock[b]) # {}
             /\ \E m, n \in DOMAIN lock[a] :
                  /\ Neighbours(lock[a], m, n)
                  /\ ci = [pred |-> lock[a][m], next |-> lock[a][n],
                           conflict |-> VisibleSymbols(lock[b]), lock_id |-> id]
<1>1. ASSUME NEW a \in DOMAIN lock, NEW b \in DOMAIN lock
      PROVE  ci \in ListConflicts(lock[a], lock[b], id) <=>
               /\ VisibleSymbols(lock[b]) # {}
               /\ \E m, n \in DOMAIN lock[a] :
                    /\ Neighbours(lock[a], m, n)
                    /\ ci = [pred |-> lock[a][m], next |-> lock[a][n],
                             conflict |-> VisibleSymbols(lock[b]), lock_id |-> id]
  <2> DEFINE list == lock[a]
             Info(m, n) == [pred |-> list[m], next |-> list[n],
                            conflict |-> VisibleSymbols(lock[b]), lock_id |-> id]
  <2>1. list \in Seq(symbol)
    BY DEF lock_lists, lock_list
  <2> HIDE DEF list
  <2>2. Len(list) \in Nat /\ DOMAIN list = 1..Len(list)
    BY <2>1
  <2>3. ASSUME NEW m \in DOMAIN list, NEW n \in DOMAIN list
        PROVE  <<m, n>> \in Consecutive(list) <=> Neighbours(list, m, n)
    BY <2>2 DEF Consecutive, Neighbours
  <2>4. Consecutive(list) \subseteq (DOMAIN list) \X (DOMAIN list)
    BY DEF Consecutive
  <2>5. ci \in ListConflicts(list, lock[b], id) <=>
          \E ij \in Consecutive(list) : VisibleSymbols(lock[b]) # {} /\ ci = Info(ij[1], ij[2])
    BY DEF ListConflicts
  <2> HIDE DEF Info
  <2>6. ci \in ListConflicts(list, lock[b], id) <=>
          /\ VisibleSymbols(lock[b]) # {}
          /\ \E m, n \in DOMAIN list : Neighbours(list, m, n) /\ ci = Info(m, n)
    <3>1. ASSUME NEW ij \in Consecutive(list), ci = Info(ij[1], ij[2])
          PROVE  \E m, n \in DOMAIN list : Neighbours(list, m, n) /\ ci = Info(m, n)
      <4>1. ij[1] \in DOMAIN list /\ ij[2] \in DOMAIN list /\ ij = <<ij[1], ij[2]>>
        BY <2>4
      <4> QED
        BY <3>1, <4>1, <2>3
    <3>2. ASSUME NEW m \in DOMAIN list, NEW n \in DOMAIN list, Neighbours(list, m, n),
                 ci = Info(m, n)
          PROVE  \E ij \in Consecutive(list) : ci = Info(ij[1], ij[2])
      <4>1. <<m, n>> \in Consecutive(list)
        BY <2>3, <3>2
      <4>2. ci = Info(<<m, n>>[1], <<m, n>>[2])
        BY <3>2
      <4> QED
        BY <4>1, <4>2
    <3> QED
      BY <2>5, <3>1, <3>2
  <2> QED
    BY <2>6 DEF Info, list
<1>2. ci \in LockConflicts(lock, id) <=>
        \E a, b \in DOMAIN lock :
          /\ lock[a][1].thread # lock[b][1].thread
          /\ ci \in ListConflicts(lock[a], lock[b], id)
  <2> DEFINE Protected == {ab \in (DOMAIN lock) \X (DOMAIN lock) :
                             lock[ab[1]][1].thread # lock[ab[2]][1].thread}
             Of(ab) == ListConflicts(lock[ab[1]], lock[ab[2]], id)
  <2>1. ci \in LockConflicts(lock, id) <=> \E ab \in Protected : ci \in Of(ab)
    BY DEF LockConflicts
  <2>2. ASSUME NEW ab \in Protected
        PROVE  /\ ab[1] \in DOMAIN lock /\ ab[2] \in DOMAIN lock
               /\ lock[ab[1]][1].thread # lock[ab[2]][1].thread
    OBVIOUS
  <2>3. ASSUME NEW a \in DOMAIN lock, NEW b \in DOMAIN lock,
               lock[a][1].thread # lock[b][1].thread
        PROVE  <<a, b>> \in Protected /\ Of(<<a, b>>) = ListConflicts(lock[a], lock[b], id)
    BY <2>3
  <2> HIDE DEF Protected
  <2> QED
    BY <2>1, <2>2, <2>3
<1> QED
  BY <1>1, <1>2

\* A symbol completes an interruption of a lock exactly if a conflict of the lock
\* that is watched, and was seen, waits for it.
LEMMA CompletesIsWatched ==
  ASSUME NEW lock \in lock_lists, NEW id, NEW h \in Seq(monitored), NEW s \in monitored
  PROVE  Completes(lock, h, s) <=>
           \E ci \in LockConflicts(lock, id) : ci.next = s /\ Watches(h, ci, TRUE)
<1>1. ASSUME NEW b \in DOMAIN lock, NEW k \in DOMAIN h
      PROVE  h[k] \in ToSet(lock[b]) <=> h[k] \in VisibleSymbols(lock[b])
  <2>1. h[k] \in symbol /\ ~is_real_epsilon(h[k])
    BY DEF monitored, Unmonitored
  <2> QED
    BY <2>1 DEF ToSet, VisibleSymbols
<1>2. ASSUME Completes(lock, h, s)
      PROVE  \E ci \in LockConflicts(lock, id) : ci.next = s /\ Watches(h, ci, TRUE)
  <2>1. PICK a \in DOMAIN lock, b \in DOMAIN lock :
          /\ lock[a][1].thread # lock[b][1].thread
          /\ \E m, n \in DOMAIN lock[a] : \E i \in DOMAIN h :
               /\ Neighbours(lock[a], m, n)
               /\ h[i] = lock[a][m] /\ s = lock[a][n]
               /\ \A k \in DOMAIN h : i < k => h[k].thread # h[i].thread
               /\ \E k \in DOMAIN h : i < k /\ h[k] \in ToSet(lock[b])
    BY <1>2 DEF Completes
  <2>2. PICK m \in DOMAIN lock[a], n \in DOMAIN lock[a] : \E i \in DOMAIN h :
          /\ Neighbours(lock[a], m, n)
          /\ h[i] = lock[a][m] /\ s = lock[a][n]
          /\ \A k \in DOMAIN h : i < k => h[k].thread # h[i].thread
          /\ \E k \in DOMAIN h : i < k /\ h[k] \in ToSet(lock[b])
    BY <2>1
  <2> DEFINE ci == [pred |-> lock[a][m], next |-> lock[a][n],
                    conflict |-> VisibleSymbols(lock[b]), lock_id |-> id]
  <2>3. ci.next = s /\ Watches(h, ci, TRUE)
    BY <1>1, <2>2 DEF Watches
  <2>4. ci \in LockConflicts(lock, id)
    <3>1. VisibleSymbols(lock[b]) # {}
      BY <1>1, <2>2
    <3>2. Neighbours(lock[a], m, n)
      BY <2>2
    <3> QED
      BY <2>1, <3>1, <3>2, ConflictsOfLock
  <2> QED
    BY <2>3, <2>4
<1>3. ASSUME NEW ci \in LockConflicts(lock, id), ci.next = s, Watches(h, ci, TRUE)
      PROVE  Completes(lock, h, s)
  <2>1. \E a, b \in DOMAIN lock :
          /\ lock[a][1].thread # lock[b][1].thread
          /\ \E m, n \in DOMAIN lock[a] :
               /\ Neighbours(lock[a], m, n)
               /\ ci = [pred |-> lock[a][m], next |-> lock[a][n],
                        conflict |-> VisibleSymbols(lock[b]), lock_id |-> id]
    BY ConflictsOfLock
  <2>2. PICK a \in DOMAIN lock, b \in DOMAIN lock :
          /\ lock[a][1].thread # lock[b][1].thread
          /\ \E m, n \in DOMAIN lock[a] :
               /\ Neighbours(lock[a], m, n)
               /\ ci = [pred |-> lock[a][m], next |-> lock[a][n],
                        conflict |-> VisibleSymbols(lock[b]), lock_id |-> id]
    BY <2>1
  <2>3. PICK m \in DOMAIN lock[a], n \in DOMAIN lock[a] :
               /\ Neighbours(lock[a], m, n)
               /\ ci = [pred |-> lock[a][m], next |-> lock[a][n],
                        conflict |-> VisibleSymbols(lock[b]), lock_id |-> id]
    BY <2>2
  <2>4. PICK i \in DOMAIN h :
          /\ h[i] = ci.pred
          /\ \A k \in DOMAIN h : i < k => h[k].thread # h[i].thread
          /\ \E k \in DOMAIN h : i < k /\ h[k] \in ci.conflict
    BY <1>3 DEF Watches
  <2>5. /\ h[i] = lock[a][m] /\ s = lock[a][n]
        /\ \E k \in DOMAIN h : i < k /\ h[k] \in ToSet(lock[b])
    BY <1>1, <1>3, <2>3, <2>4
  <2> QED
    BY <2>2, <2>3, <2>4, <2>5 DEF Completes
<1> QED
  BY <1>2, <1>3

----------------------------------------------------------------------------
(* The monitor knows enough                                              *)

\* The pairs under observation are those that the execution says are watched.
PendingExact ==
  \A ci \in conflicts : \A b \in BOOLEAN :
    [info |-> ci, seen |-> b] \in state.conflicts <=> Watches(history, ci, b)

MonitorInv ==
  /\ TypeOK
  /\ new_locks \in Seq(Seq(lock_lists))
  /\ conflicts = conflict_infos(new_locks)
  /\ locks = lock_masks(new_locks)
  /\ history \in Seq(monitored)
  /\ PendingExact
  /\ BitsAreExact

\* One symbol more keeps the observations exact.
LEMMA PendingStep ==
  ASSUME TypeOK, history \in Seq(monitored), PendingExact,
         NEW sigma \in monitored, NEW ci \in conflicts, NEW b \in BOOLEAN
  PROVE  [info |-> ci, seen |-> b] \in conflicts_after(state, sigma)
           <=> Watches(Append(history, sigma), ci, b)
<1> DEFINE c == [info |-> ci, seen |-> b]
           was(old) == [info |-> ci, seen |-> old]
<1>1. /\ state.conflicts \subseteq conflict_t
      /\ ci \in conflict_info /\ ci.pred.thread = ci.next.thread
  BY DEF TypeOK, AutomatonOK, StateOK, concurrent_state, conflict_info
<1>2. conflicts_after(state, sigma) = Observed(state.conflicts, sigma) \cup Started(conflicts, sigma)
  BY DEF conflicts_after, monitored
<1>3. c \in Started(conflicts, sigma) <=> sigma = ci.pred /\ ~b
  <2>1. c \in Started(conflicts, sigma) <=>
          \E other \in conflicts : c = [info |-> other, seen |-> FALSE] /\ other.pred = sigma
    BY DEF Started
  <2>2. ASSUME NEW other \in conflicts
        PROVE  c = [info |-> other, seen |-> FALSE] <=> other = ci /\ b = FALSE
    OBVIOUS
  <2>3. ~b <=> b = FALSE
    OBVIOUS
  <2> HIDE DEF c
  <2> QED
    BY <2>1, <2>2, <2>3
<1>4. c \in Observed(state.conflicts, sigma) <=>
        /\ sigma.thread # ci.pred.thread
        /\ \E old \in BOOLEAN : was(old) \in state.conflicts /\ (b <=> old \/ sigma \in ci.conflict)
  <2>1. c \in Observed(state.conflicts, sigma) <=>
          \E e \in state.conflicts :
            /\ next_thread(e) # sigma.thread
            /\ c = [e EXCEPT !.seen = @ \/ sigma \in e.info.conflict]
    BY DEF Observed
  <2>2. ASSUME NEW e \in state.conflicts,
               next_thread(e) # sigma.thread,
               c = [e EXCEPT !.seen = @ \/ sigma \in e.info.conflict]
        PROVE  /\ sigma.thread # ci.pred.thread
               /\ \E old \in BOOLEAN : /\ was(old) \in state.conflicts
                                       /\ b <=> old \/ sigma \in ci.conflict
    <3>1. e \in conflict_t
      BY <1>1
    <3>2. e.info = ci /\ b = (e.seen \/ sigma \in ci.conflict) /\ e.seen \in BOOLEAN
      BY <2>2, <3>1 DEF conflict_t
    <3>3. e = was(e.seen)
      BY <3>1, <3>2 DEF conflict_t
    <3>4. sigma.thread # ci.pred.thread
      BY <1>1, <2>2, <3>2 DEF next_thread
    <3>5. b <=> e.seen \/ sigma \in ci.conflict
      BY <3>2
    <3>6. was(e.seen) \in state.conflicts
      BY <3>3
    <3> HIDE DEF was
    <3> QED
      BY <3>2, <3>4, <3>5, <3>6
  <2>3. ASSUME sigma.thread # ci.pred.thread, NEW old \in BOOLEAN,
               was(old) \in state.conflicts, b <=> old \/ sigma \in ci.conflict
        PROVE  \E e \in state.conflicts :
                 /\ next_thread(e) # sigma.thread
                 /\ c = [e EXCEPT !.seen = @ \/ sigma \in e.info.conflict]
    <3>1. next_thread(was(old)) # sigma.thread
      BY <1>1, <2>3 DEF next_thread
    <3>2. b = (old \/ sigma \in ci.conflict)
      BY <2>3
    <3>3. c = [was(old) EXCEPT !.seen = @ \/ sigma \in was(old).info.conflict]
      BY <3>2
    <3> HIDE DEF was, c
    <3> QED
      BY <2>3, <3>1, <3>3
  <2> HIDE DEF c, was
  <2> QED
    BY <2>1, <2>2, <2>3
<1>5. \A old \in BOOLEAN : was(old) \in state.conflicts <=> Watches(history, ci, old)
  BY DEF PendingExact
<1>6. Watches(Append(history, sigma), ci, b) <=>
        \/ sigma = ci.pred /\ ~b
        \/ /\ sigma.thread # ci.pred.thread
           /\ \E old \in BOOLEAN : /\ Watches(history, ci, old)
                                   /\ b <=> old \/ sigma \in ci.conflict
  BY <1>1, WatchStep
<1> HIDE DEF was
<1>7. c \in conflicts_after(state, sigma) <=> Watches(Append(history, sigma), ci, b)
  BY <1>2, <1>3, <1>4, <1>5, <1>6
<1> QED
  BY <1>7

\* The numbers of the locks, and the locks.
LEMMA Locks ==
  ASSUME new_locks \in Seq(Seq(lock_lists))
  PROVE  /\ \A dk \in LockIndex(new_locks) :
              /\ dk[1] \in DOMAIN new_locks
              /\ dk[2] \in DOMAIN new_locks[dk[1]]
              /\ dk = <<dk[1], dk[2]>>
              /\ dk # no_lock
              /\ new_locks[dk[1]][dk[2]] \in lock_lists
         /\ \A d \in DOMAIN new_locks :
              /\ Len(new_locks[d]) \in Nat
              /\ DOMAIN new_locks[d] = 1..Len(new_locks[d])
              /\ new_locks[d] = <<>> <=> Len(new_locks[d]) = 0
              /\ \A k \in DOMAIN new_locks[d] : <<d, k>> \in LockIndex(new_locks)
<1>1. \A d \in DOMAIN new_locks : d \in Nat \ {0} /\ new_locks[d] \in Seq(lock_lists)
  OBVIOUS
<1>2. ASSUME NEW dk \in LockIndex(new_locks)
      PROVE  /\ dk[1] \in DOMAIN new_locks
             /\ dk[2] \in DOMAIN new_locks[dk[1]]
             /\ dk = <<dk[1], dk[2]>>
             /\ dk # no_lock
             /\ new_locks[dk[1]][dk[2]] \in lock_lists
  <2>1. PICK d \in DOMAIN new_locks : \E k \in DOMAIN new_locks[d] : dk = <<d, k>>
    BY DEF LockIndex
  <2>2. PICK k \in DOMAIN new_locks[d] : dk = <<d, k>>
    BY <2>1
  <2>3. dk[1] = d /\ dk[2] = k /\ d \in Nat \ {0} /\ new_locks[d][k] \in lock_lists
    BY <1>1, <2>2
  <2> QED
    BY <2>2, <2>3 DEF no_lock
<1>3. ASSUME NEW d \in DOMAIN new_locks
      PROVE  /\ Len(new_locks[d]) \in Nat
             /\ DOMAIN new_locks[d] = 1..Len(new_locks[d])
             /\ new_locks[d] = <<>> <=> Len(new_locks[d]) = 0
             /\ \A k \in DOMAIN new_locks[d] : <<d, k>> \in LockIndex(new_locks)
  BY <1>1 DEF LockIndex
<1> QED
  BY <1>2, <1>3

\* A symbol ticks off the locks whose interruption it completes.
LEMMA TickedExactly ==
  ASSUME MonitorInv, NEW sigma \in monitored, NEW id
  PROVE  id \in Ticked(state.conflicts, sigma) <=>
           \E dk \in LockIndex(new_locks) :
             /\ LockId(new_locks, dk) = id
             /\ Completes(new_locks[dk[1]][dk[2]], history, sigma)
<1> DEFINE lock(dk) == new_locks[dk[1]][dk[2]]
<1>1. id \in Ticked(state.conflicts, sigma) <=>
        \E ci \in conflicts : ci.lock_id = id /\ ci.next = sigma /\ Watches(history, ci, TRUE)
  <2>1. state.conflicts \subseteq conflict_t
    BY DEF MonitorInv, TypeOK, AutomatonOK, StateOK, concurrent_state
  <2>2. ASSUME NEW c \in state.conflicts, c.seen, c.info.next = sigma, c.info.lock_id = id
        PROVE  \E ci \in conflicts : ci.lock_id = id /\ ci.next = sigma /\ Watches(history, ci, TRUE)
    <3>1. c.info \in conflicts /\ c = [info |-> c.info, seen |-> TRUE]
      BY <2>1, <2>2 DEF conflict_t
    <3>2. Watches(history, c.info, TRUE)
      BY <3>1 DEF MonitorInv, PendingExact
    <3> QED
      BY <2>2, <3>1, <3>2
  <2>3. ASSUME NEW ci \in conflicts, ci.lock_id = id, ci.next = sigma, Watches(history, ci, TRUE)
        PROVE  \E c \in state.conflicts : c.seen /\ c.info.next = sigma /\ c.info.lock_id = id
    <3>1. [info |-> ci, seen |-> TRUE] \in state.conflicts
      BY <2>3 DEF MonitorInv, PendingExact
    <3> QED
      BY <2>3, <3>1
  <2>4. id \in Ticked(state.conflicts, sigma) <=>
          \E c \in state.conflicts : c.seen /\ c.info.next = sigma /\ c.info.lock_id = id
    BY DEF Ticked
  <2> QED
    BY <2>2, <2>3, <2>4
<1>2. \A ci : ci \in conflicts <=>
        \E dk \in LockIndex(new_locks) : ci \in LockConflicts(lock(dk), LockId(new_locks, dk))
  BY DEF MonitorInv, conflict_infos
<1>3. ASSUME NEW dk \in LockIndex(new_locks)
      PROVE  /\ \A ci \in LockConflicts(lock(dk), LockId(new_locks, dk)) :
                  ci.lock_id = LockId(new_locks, dk)
             /\ Completes(lock(dk), history, sigma) <=>
                  \E ci \in LockConflicts(lock(dk), LockId(new_locks, dk)) :
                    ci.next = sigma /\ Watches(history, ci, TRUE)
  <2> DEFINE its == lock(dk)
             number == LockId(new_locks, dk)
  <2>1. its \in lock_lists /\ history \in Seq(monitored)
    BY Locks DEF MonitorInv
  <2> HIDE DEF its, number
  <2>2. ASSUME NEW ci \in LockConflicts(its, number)
        PROVE  ci.lock_id = number
    <3>1. PICK a \in DOMAIN its, b \in DOMAIN its :
            \E m, n \in DOMAIN its[a] :
              ci = [pred |-> its[a][m], next |-> its[a][n],
                    conflict |-> VisibleSymbols(its[b]), lock_id |-> number]
      BY <2>1, ConflictsOfLock
    <3> QED
      BY <3>1
  <2>3. Completes(its, history, sigma) <=>
          \E ci \in LockConflicts(its, number) : ci.next = sigma /\ Watches(history, ci, TRUE)
    BY <2>1, CompletesIsWatched
  <2> QED
    BY <2>2, <2>3 DEF its, number
<1> HIDE DEF lock
<1>4. id \in Ticked(state.conflicts, sigma) <=>
        \E dk \in LockIndex(new_locks) :
          LockId(new_locks, dk) = id /\ Completes(lock(dk), history, sigma)
  BY <1>1, <1>2, <1>3
<1> QED
  BY <1>4 DEF lock

\* One symbol more keeps the bits exact.
LEMMA BitsStep ==
  ASSUME MonitorInv, NEW sigma \in monitored,
         NEW dk \in LockIndex(new_locks), multiple(new_locks, dk[1])
  PROVE  dk \in locksviolated_after(state, sigma)
           <=> Interrupted(new_locks[dk[1]][dk[2]], Append(history, sigma))
<1> DEFINE lock == new_locks[dk[1]][dk[2]]
<1>1. dk # no_lock
  BY Locks DEF MonitorInv
<1>2. dk \in locksviolated_after(state, sigma) <=>
        dk \in state.locksviolated \/ dk \in Ticked(state.conflicts, sigma)
  BY <1>1 DEF locksviolated_after, monitored
<1>3. dk \in state.locksviolated <=> Interrupted(lock, history)
  BY DEF MonitorInv, BitsAreExact
<1>4. dk \in Ticked(state.conflicts, sigma) <=> Completes(lock, history, sigma)
  <2>1. \A other \in LockIndex(new_locks) : LockId(new_locks, other) = dk <=> other = dk
    BY <1>1 DEF LockId
  <2>2. dk \in Ticked(state.conflicts, sigma) <=>
          \E other \in LockIndex(new_locks) :
            /\ LockId(new_locks, other) = dk
            /\ Completes(new_locks[other[1]][other[2]], history, sigma)
    BY TickedExactly
  <2> QED
    BY <2>1, <2>2
<1>5. Interrupted(lock, Append(history, sigma)) <=>
        Interrupted(lock, history) \/ Completes(lock, history, sigma)
  <2> HIDE DEF lock
  <2> QED
    BY InterruptedStep DEF MonitorInv
<1> QED
  BY <1>2, <1>3, <1>4, <1>5

\* The monitor rejects exactly the symbol that violates the last lock of a
\* disjunction.
LEMMA RejectedExactly ==
  ASSUME MonitorInv, ~Refuted(history), NEW sigma \in monitored
  PROVE  Rejected(state, sigma) <=> Refuted(Append(history, sigma))
<1> DEFINE after == locksviolated_after(state, sigma)
           h2 == Append(history, sigma)
           mask(d) == {dk \in LockIndex(new_locks) : dk[1] = d}
<1>1. /\ new_locks \in Seq(Seq(lock_lists))
      /\ \A bad : bad \in locks <=>
           \E d \in DOMAIN new_locks : multiple(new_locks, d) /\ bad = mask(d)
  BY DEF MonitorInv, lock_masks
<1>2. Rejected(state, sigma) <=>
        \/ no_lock \in Ticked(state.conflicts, sigma)
        \/ after # state.locksviolated /\ \E bad \in locks : bad \subseteq after
  BY DEF Rejected, monitored
<1>3. ASSUME NEW d \in DOMAIN new_locks, multiple(new_locks, d)
      PROVE  /\ new_locks[d] # <<>>
             /\ mask(d) \subseteq after <=>
                  \A k \in DOMAIN new_locks[d] : Interrupted(new_locks[d][k], h2)
             /\ mask(d) \subseteq state.locksviolated <=>
                  \A k \in DOMAIN new_locks[d] : Interrupted(new_locks[d][k], history)
  <2>1. new_locks[d] # <<>>
    BY <1>1, <1>3, Locks DEF multiple
  <2>2. /\ \A dk \in mask(d) : /\ dk[1] = d /\ dk \in LockIndex(new_locks)
                              /\ dk[2] \in DOMAIN new_locks[d] /\ dk = <<d, dk[2]>>
        /\ \A k \in DOMAIN new_locks[d] : <<d, k>> \in mask(d)
    BY <1>1, Locks
  <2>3. \A dk \in mask(d) :
          /\ dk \in after <=> Interrupted(new_locks[d][dk[2]], h2)
          /\ dk \in state.locksviolated <=> Interrupted(new_locks[d][dk[2]], history)
    BY <1>3, <2>2, BitsStep DEF MonitorInv, BitsAreExact
  <2> HIDE DEF mask, after, h2
  <2>4. \A k \in DOMAIN new_locks[d] : <<d, k>>[2] = k
    OBVIOUS
  <2> QED
    BY <2>1, <2>2, <2>3, <2>4
<1>4. no_lock \in Ticked(state.conflicts, sigma) <=>
        \E dk \in LockIndex(new_locks) :
          /\ ~multiple(new_locks, dk[1])
          /\ Completes(new_locks[dk[1]][dk[2]], history, sigma)
  <2>1. \A dk \in LockIndex(new_locks) :
          LockId(new_locks, dk) = no_lock <=> ~multiple(new_locks, dk[1])
    BY <1>1, Locks DEF LockId
  <2>2. no_lock \in Ticked(state.conflicts, sigma) <=>
          \E dk \in LockIndex(new_locks) :
            /\ LockId(new_locks, dk) = no_lock
            /\ Completes(new_locks[dk[1]][dk[2]], history, sigma)
    BY TickedExactly
  <2> QED
    BY <2>1, <2>2
<1>5. \A lock : Interrupted(lock, h2) <=>
        Interrupted(lock, history) \/ Completes(lock, history, sigma)
  BY InterruptedStep DEF MonitorInv
<1>6. ASSUME NEW d \in DOMAIN new_locks, new_locks[d] # <<>>, ~multiple(new_locks, d)
      PROVE  DOMAIN new_locks[d] = {1} /\ <<d, 1>> \in LockIndex(new_locks)
  <2>0. Len(new_locks[d]) \in Nat /\ Len(new_locks[d]) # 0
    BY <1>1, <1>6, Locks
  <2>1. Len(new_locks[d]) = 1
    BY <1>6, <2>0 DEF multiple
  <2> QED
    BY <1>1, <2>1, Locks
<1> HIDE DEF after, h2, mask
<1>7. ASSUME no_lock \in Ticked(state.conflicts, sigma) PROVE Refuted(h2)
  <2>1. PICK dk \in LockIndex(new_locks) :
          ~multiple(new_locks, dk[1]) /\ Completes(new_locks[dk[1]][dk[2]], history, sigma)
    BY <1>4, <1>7
  <2>2. dk[1] \in DOMAIN new_locks /\ dk[2] \in DOMAIN new_locks[dk[1]]
    BY <1>1, Locks
  <2>3. new_locks[dk[1]] # <<>>
    BY <1>1, <2>2, Locks
  <2>4. DOMAIN new_locks[dk[1]] = {dk[2]}
    BY <1>6, <2>1, <2>2, <2>3
  <2> QED
    BY <1>5, <2>1, <2>2, <2>3, <2>4 DEF Refuted
<1>8. ASSUME NEW bad \in locks, bad \subseteq after PROVE Refuted(h2)
  BY <1>1, <1>3, <1>8 DEF Refuted
<1>9. ASSUME Refuted(h2) PROVE Rejected(state, sigma)
  <2>1. PICK d \in DOMAIN new_locks :
          /\ new_locks[d] # <<>>
          /\ \A k \in DOMAIN new_locks[d] : Interrupted(new_locks[d][k], h2)
    BY <1>9 DEF Refuted
  <2>2. ~\A k \in DOMAIN new_locks[d] : Interrupted(new_locks[d][k], history)
    BY <2>1 DEF Refuted
  <2>3. CASE multiple(new_locks, d)
    <3>1. mask(d) \in locks /\ mask(d) \subseteq after /\ ~(mask(d) \subseteq state.locksviolated)
      BY <1>1, <1>3, <2>1, <2>2, <2>3
    <3> QED
      BY <1>2, <3>1
  <2>4. CASE ~multiple(new_locks, d)
    <3>1. DOMAIN new_locks[d] = {1} /\ <<d, 1>> \in LockIndex(new_locks)
      BY <1>6, <2>1, <2>4
    <3>2. Completes(new_locks[d][1], history, sigma)
      BY <1>5, <2>1, <2>2, <3>1
    <3>3. <<d, 1>>[1] = d /\ <<d, 1>>[2] = 1
      OBVIOUS
    <3> QED
      BY <1>2, <1>4, <2>4, <3>1, <3>2, <3>3
  <2> QED
    BY <2>3, <2>4
<1>10. Rejected(state, sigma) <=> Refuted(h2)
  BY <1>2, <1>7, <1>8, <1>9
<1> QED
  BY <1>10 DEF h2

----------------------------------------------------------------------------
(* Executions with their history                                         *)

\* The history only watches: the executions are executions of the automaton.
LEMMA HistoryWatches == (HInit => Init) /\ ([HNext]_hvars => [Next]_vars)
BY DEF HInit, Init, Construct, HNext, Next, hvars

\* No symbol is executed in the empty history.
LEMMA NothingInterrupted ==
  ASSUME NEW lock PROVE ~Interrupted(lock, <<>>)
BY DEF Interrupted

LEMMA InitMonitor == HInit => MonitorInv /\ ~Refuted(history)
<1> SUFFICES ASSUME HInit PROVE MonitorInv /\ ~Refuted(history)
  OBVIOUS
<1>1. TypeOK
  BY HistoryWatches, InitTypeOK
<1>2. PICK c \in Configurations :
        /\ conflicts = conflict_infos(c.new_locks)
        /\ locks = lock_masks(c.new_locks)
        /\ new_locks = c.new_locks
  BY DEF HInit
<1>3. new_locks \in Seq(Seq(lock_lists))
  BY <1>2, ConcurrentAutomatonAssumption
<1>4. history = <<>> /\ history \in Seq(monitored) /\ state = int_initial_state
  BY DEF HInit
<1>5. PendingExact
  BY <1>4 DEF PendingExact, int_initial_state, Watches
<1>6. \A lock : ~Interrupted(lock, history)
  BY <1>4, NothingInterrupted
<1>7. BitsAreExact
  BY <1>4, <1>6 DEF BitsAreExact, int_initial_state
<1>8. ~Refuted(history)
  <2>1. \A d \in DOMAIN new_locks : new_locks[d] # <<>> => 1 \in DOMAIN new_locks[d]
    BY <1>3, Locks
  <2> QED
    BY <1>6, <2>1 DEF Refuted
<1> QED
  BY <1>1, <1>2, <1>3, <1>4, <1>5, <1>7, <1>8 DEF MonitorInv

\* Every step keeps the monitor exact, and no step completes the violation of a
\* disjunction.
LEMMA NextMonitor ==
  MonitorInv /\ ~Refuted(history) /\ [HNext]_hvars => MonitorInv' /\ ~Refuted(history)'
<1> SUFFICES ASSUME MonitorInv, ~Refuted(history), [HNext]_hvars
             PROVE  MonitorInv' /\ ~Refuted(history)'
  OBVIOUS
<1>1. TypeOK'
  BY HistoryWatches, NextTypeOK DEF MonitorInv
<1>2. CASE HNext
  <2>1. PICK sigma \in int_next_symbols(state) :
          Execute(sigma) /\ history' = Extended(history, sigma) /\ UNCHANGED new_locks
    BY <1>2 DEF HNext
  <2>2. /\ sigma \in symbol
        /\ state'.conflicts = conflicts_after(state, sigma)
        /\ state'.locksviolated = locksviolated_after(state, sigma)
        /\ ~Rejected(state, sigma)
        /\ conflicts' = conflicts /\ locks' = locks /\ new_locks' = new_locks
    <3>1. AutomatonOK /\ StateOK(state)
      BY DEF MonitorInv, TypeOK
    <3>2. sigma \in symbol
      BY <3>1, NextSymbol
    <3> QED
      BY <2>1, <3>1, <3>2, StepFields DEF Execute, CanExecute, automaton
  <2>3. CASE Unmonitored(sigma)
    <3>1. /\ history' = history
          /\ state'.conflicts = state.conflicts /\ state'.locksviolated = state.locksviolated
      BY <2>1, <2>2, <2>3 DEF Extended, conflicts_after, locksviolated_after
    <3> QED
      BY <1>1, <2>2, <3>1 DEF MonitorInv, PendingExact, BitsAreExact, Refuted
  <2>4. CASE ~Unmonitored(sigma)
    <3>1. sigma \in monitored /\ history' = Append(history, sigma)
      BY <2>1, <2>2, <2>4 DEF Extended, monitored
    <3>2. history' \in Seq(monitored)
      BY <3>1 DEF MonitorInv
    <3>3. PendingExact'
      <4>1. \A ci \in conflicts : \A b \in BOOLEAN :
              [info |-> ci, seen |-> b] \in state'.conflicts <=> Watches(history', ci, b)
        BY <2>2, <3>1, PendingStep DEF MonitorInv
      <4> QED
        BY <2>2, <4>1 DEF PendingExact
    <3>4. BitsAreExact'
      <4>1. \A dk \in LockIndex(new_locks) : multiple(new_locks, dk[1]) =>
              (dk \in state'.locksviolated <=>
                 Interrupted(new_locks[dk[1]][dk[2]], history'))
        BY <2>2, <3>1, BitsStep
      <4> QED
        BY <2>2, <4>1 DEF BitsAreExact
    <3>5. ~Refuted(history)'
      <4>1. ~Refuted(history')
        BY <2>2, <3>1, RejectedExactly
      <4> QED
        BY <2>2, <4>1 DEF Refuted
    <3> QED
      BY <1>1, <2>2, <3>2, <3>3, <3>4, <3>5 DEF MonitorInv
  <2> QED
    BY <2>3, <2>4
<1>3. CASE UNCHANGED hvars
  BY <1>1, <1>3 DEF hvars, vars, MonitorInv, PendingExact, BitsAreExact, Refuted
<1> QED
  BY <1>2, <1>3

\* The monitor is exact in every state of every execution.
THEOREM MonitorIsExact == HSpec => []MonitorInv
<1> QED
  BY InitMonitor, NextMonitor, PTL DEF HSpec

\* The bit of a lock is set exactly if the execution has violated the lock.
THEOREM BitsExact == HSpec => []BitsAreExact
<1>1. MonitorInv => BitsAreExact
  BY DEF MonitorInv
<1> QED
  BY <1>1, MonitorIsExact, PTL

\* The preemptive automaton rejects a symbol exactly if with it every lock of some
\* disjunction would have been violated.
THEOREM RejectsExactly ==
  ASSUME Concurrent
  PROVE  HSpec => []RejectsExactlyTheForbidden
<1>1. ASSUME MonitorInv, ~Refuted(history), FreeOfScheduler
      PROVE  RejectsExactlyTheForbidden
  <2>1. ASSUME NEW sigma \in int_next_symbols(state), Available(state, sigma)
        PROVE  int_successors(state, sigma) = {} <=> Refuted(Extended(history, sigma))
    <3>1. Progress(state, sigma) /\ ~Deschedules(state, sigma)
      BY <1>1, <2>1 DEF FreeOfScheduler, Progress, Deschedules, MayYield
    <3>2. int_successors(state, sigma) = {} <=> Rejected(state, sigma)
      BY <3>1 DEF int_successors, CanExecute, CanTerminate, CanDeschedule
    <3>3. CASE Unmonitored(sigma)
      BY <1>1, <3>2, <3>3 DEF Rejected, Extended
    <3>4. CASE ~Unmonitored(sigma)
      <4>1. AutomatonOK /\ StateOK(state)
        BY <1>1 DEF MonitorInv, TypeOK
      <4>2. sigma \in monitored
        BY <3>4, <4>1, NextSymbol DEF monitored
      <4> QED
        BY <1>1, <3>2, <3>4, <4>2, RejectedExactly DEF Extended
    <3> QED
      BY <3>3, <3>4
  <2> QED
    BY <1>1, <2>1 DEF RejectsExactlyTheForbidden
<1>2. HInit => FreeOfScheduler
  BY HistoryWatches, FreeInductive
<1>3. MonitorInv /\ FreeOfScheduler /\ [HNext]_hvars => FreeOfScheduler'
  BY HistoryWatches, FreeInductive DEF MonitorInv
<1> QED
  BY <1>1, <1>2, <1>3, InitMonitor, NextMonitor, PTL DEF HSpec

----------------------------------------------------------------------------
(* Locks                                                                 *)

\* A non-empty set of positions has a first one.
LEMMA LeastNumber ==
  ASSUME NEW S \in SUBSET Nat, S # {} PROVE \E x \in S : \A y \in S : x <= y
<1>1. PICK x \in S : \A y \in S : ~(<<y, x>> \in OpToRel(<, Nat))
  BY NatLessThanWellFounded, WFMin
<1>2. ASSUME NEW y \in S, y < x PROVE FALSE
  <2>1. <<y, x>> \in Nat \X Nat /\ <<y, x>>[1] < <<y, x>>[2]
    BY <1>2
  <2>2. <<y, x>> \in OpToRel(<, Nat)
    BY <2>1, Zenon DEF OpToRel
  <2> QED
    BY <1>1, <2>2
<1> QED
  BY <1>2

\* And a last one, if there is one behind all of them.
LEMMA GreatestNumber ==
  ASSUME NEW S \in SUBSET Nat, S # {}, NEW j \in Nat, \A y \in S : y <= j
  PROVE  \E x \in S : \A y \in S : y <= x
<1> DEFINE T == {j - y : y \in S}
<1>1. PICK z \in T : \A y \in T : z <= y
  <2>1. T \in SUBSET Nat /\ T # {}
    <3>1. ASSUME NEW y \in S PROVE j - y \in Nat
      <4>1. y \in Nat /\ y <= j
        OBVIOUS
      <4> QED
        BY <4>1
    <3> QED
      BY <3>1
  <2> HIDE DEF T
  <2> QED
    BY <2>1, LeastNumber
<1>2. PICK x \in S : z = j - x
  BY <1>1
<1>3. ASSUME NEW y \in S PROVE y <= x
  <2>1. j - x <= j - y
    BY <1>1, <1>2
  <2>2. x \in Nat /\ y \in Nat
    OBVIOUS
  <2> QED
    BY <2>1, <2>2
<1> QED
  BY <1>3

\* A section that begins before position x of another thread and ends behind it has two
\* neighbours around x.
LEMMA NeighboursAround ==
  ASSUME NEW list \in lock_list, NEW h \in Seq(monitored), NEW p \in Sections(h, list),
         NEW x \in DOMAIN h, h[x].thread # list[1].thread,
         NEW m \in DOMAIN p, NEW n \in DOMAIN p, p[m] < x, x < p[n]
  PROVE  \E i, j \in DOMAIN p : Neighbours(list, i, j) /\ p[i] < x /\ x < p[j]
<1> DEFINE later == {k \in DOMAIN p : x < p[k]}
           earlier(j) == {k \in DOMAIN p : k < j}
<1>1. /\ DOMAIN p = {k \in DOMAIN list : ~is_real_epsilon(list[k])}
      /\ p \in [DOMAIN p -> DOMAIN h]
      /\ \A k \in DOMAIN p : h[p[k]] = list[k]
      /\ \A k, l \in DOMAIN p : k < l => p[k] < p[l]
  BY DEF Sections
<1>2. /\ DOMAIN list = 1..Len(list) /\ Len(list) \in Nat
      /\ DOMAIN h = 1..Len(h) /\ Len(h) \in Nat
      /\ \A k \in DOMAIN list : list[k].thread = list[1].thread
  BY DEF lock_list
<1>3. DOMAIN p \subseteq Nat /\ \A k \in DOMAIN p : p[k] \in Nat /\ p[k] # x
  BY <1>1, <1>2
<1>4. x \in Nat
  BY <1>2
<1>5. PICK j \in later : \A k \in later : j <= k
  <2>1. n \in later /\ later \subseteq Nat
    BY <1>3
  <2> QED
    BY <2>1, LeastNumber
<1>6. m \in earlier(j)
  BY <1>1, <1>3, <1>4, <1>5
<1>7. PICK i \in earlier(j) : \A k \in earlier(j) : k <= i
  <2>1. earlier(j) \subseteq Nat /\ \A k \in earlier(j) : k <= j
    BY <1>3, <1>5
  <2>2. j \in Nat
    BY <1>3, <1>5
  <2> QED
    BY <1>6, <2>1, <2>2, GreatestNumber
<1>8. i \notin later
  BY <1>3, <1>5, <1>7
<1>9. p[i] < x
  BY <1>3, <1>4, <1>7, <1>8
<1>10. Neighbours(list, i, j)
  <2>1. i < j /\ i \in DOMAIN p /\ j \in DOMAIN p /\ i \in Nat /\ j \in Nat
    BY <1>3, <1>5, <1>7
  <2>2. ASSUME NEW k \in (i + 1)..(j - 1) PROVE is_real_epsilon(list[k])
    <3>1. k \in DOMAIN list /\ k \in Nat /\ i < k /\ k < j
      BY <1>1, <1>2, <2>1
    <3>2. SUFFICES ASSUME k \in DOMAIN p PROVE FALSE
      BY <1>1, <3>1
    <3>3. k \in later \/ k \in earlier(j)
      BY <3>1, <3>2
    <3>4. k \notin earlier(j)
      BY <1>7, <2>1, <3>1
    <3> QED
      BY <1>5, <2>1, <3>1, <3>3, <3>4
  <2> QED
    BY <1>1, <2>1, <2>2 DEF Neighbours
<1> QED
  BY <1>5, <1>7, <1>9, <1>10

\* A section of one list with a symbol of a section of another within it is interrupted.
LEMMA WithinInterrupts ==
  ASSUME NEW lock \in lock_lists, NEW h \in Seq(monitored),
         NEW a \in DOMAIN lock, NEW b \in DOMAIN lock, lock[a][1].thread # lock[b][1].thread,
         NEW p \in Sections(h, lock[a]), NEW q \in Sections(h, lock[b]),
         NEW m \in DOMAIN p, NEW n \in DOMAIN p, NEW l \in DOMAIN q, p[m] < q[l], q[l] < p[n]
  PROVE  Interrupted(lock, h)
<1> DEFINE x == q[l]
<1>1. lock[a] \in lock_list /\ lock[b] \in lock_list
  BY DEF lock_lists
<1>2. /\ l \in DOMAIN lock[b] /\ x \in DOMAIN h /\ h[x] = lock[b][l]
  BY DEF Sections
<1>3. h[x] \in ToSet(lock[b]) /\ h[x].thread = lock[b][1].thread
  BY <1>1, <1>2 DEF ToSet, lock_list
<1>4. PICK i, j \in DOMAIN p : Neighbours(lock[a], i, j) /\ p[i] < x /\ x < p[j]
  <2> HIDE DEF x
  <2>1. p[m] < x /\ x < p[n]
    BY DEF x
  <2> QED
    BY <1>1, <1>2, <1>3, <2>1, NeighboursAround
<1>5. /\ i \in DOMAIN lock[a] /\ j \in DOMAIN lock[a]
      /\ p[i] \in DOMAIN h /\ p[j] \in DOMAIN h
      /\ h[p[i]] = lock[a][i] /\ h[p[j]] = lock[a][j]
      /\ \A k \in (p[i] + 1)..(p[j] - 1) : h[k].thread # lock[a][i].thread
  BY <1>4 DEF Sections
<1>6. x \in (p[i] + 1)..(p[j] - 1) /\ p[i] < p[j]
  <2>1. DOMAIN h = 1..Len(h) /\ Len(h) \in Nat
    OBVIOUS
  <2> HIDE DEF x
  <2> QED
    BY <1>2, <1>4, <1>5, <2>1
<1> HIDE DEF x
<1> QED
  BY <1>3, <1>4, <1>5, <1>6 DEF Interrupted

\* A lock that an execution does not violate would have allowed it.
LEMMA NotInterruptedIsExclusive ==
  ASSUME NEW lock \in lock_lists, NEW h \in Seq(monitored), ~Interrupted(lock, h)
  PROVE  Exclusive(lock, h)
<1> SUFFICES ASSUME NEW a \in DOMAIN lock, NEW b \in DOMAIN lock,
                    lock[a][1].thread # lock[b][1].thread,
                    NEW p \in Sections(h, lock[a]), NEW q \in Sections(h, lock[b]),
                    ~Apart(p, q)
             PROVE  FALSE
  BY DEF Exclusive
<1>1. /\ lock[a] \in lock_list /\ lock[b] \in lock_list
      /\ DOMAIN h \subseteq Int
  BY DEF lock_lists
<1>2. /\ DOMAIN p \subseteq Int /\ \A m \in DOMAIN p : p[m] \in DOMAIN h
      /\ \A m \in DOMAIN p : h[p[m]].thread = lock[a][1].thread
      /\ \A m, n \in DOMAIN p : m < n => p[m] < p[n]
  BY <1>1 DEF Sections, lock_list
<1>3. /\ DOMAIN q \subseteq Int /\ \A m \in DOMAIN q : q[m] \in DOMAIN h
      /\ \A m \in DOMAIN q : h[q[m]].thread = lock[b][1].thread
      /\ \A m, n \in DOMAIN q : m < n => q[m] < q[n]
  BY <1>1 DEF Sections, lock_list
<1>4. \A m \in DOMAIN p, n \in DOMAIN q : p[m] # q[n]
  BY <1>2, <1>3
<1>5. PICK m1 \in DOMAIN p, n1 \in DOMAIN q : q[n1] < p[m1]
  BY <1>1, <1>2, <1>3, <1>4 DEF Apart
<1>6. PICK m2 \in DOMAIN p, n2 \in DOMAIN q : p[m2] < q[n2]
  BY <1>1, <1>2, <1>3, <1>4 DEF Apart
<1>7. ~(p[m2] < q[n1])
  BY <1>5, WithinInterrupts
<1>8. q[n1] < p[m2]
  BY <1>1, <1>2, <1>3, <1>4, <1>7
<1> QED
  BY <1>6, <1>8, WithinInterrupts

\* What the automaton generates is what some lock of each disjunction would have allowed.
THEOREM SectionsExclude == HSpec => []SectionsDoNotOverlap
<1>1. MonitorInv /\ ~Refuted(history) => SectionsDoNotOverlap
  <2> SUFFICES ASSUME MonitorInv, ~Refuted(history), NEW d \in DOMAIN new_locks, new_locks[d] # <<>>
               PROVE  \E k \in DOMAIN new_locks[d] : Exclusive(new_locks[d][k], history)
    BY DEF SectionsDoNotOverlap
  <2>1. PICK k \in DOMAIN new_locks[d] : ~Interrupted(new_locks[d][k], history)
    BY DEF Refuted
  <2>2. new_locks[d][k] \in lock_lists /\ history \in Seq(monitored)
    BY DEF MonitorInv
  <2> QED
    BY <2>1, <2>2, NotInterruptedIsExclusive
<1> QED
  BY <1>1, InitMonitor, NextMonitor, PTL DEF HSpec
=============================================================================
