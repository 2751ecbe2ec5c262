------------------------- MODULE DeadlockCheckProofs -------------------------
(***************************************************************************)
(* Theorems about the -deadlock action: both searches keep their promises, *)
(* and the first finds no deadlock that the second does not find too.      *)
(*                                                                         *)
(* The theorems of DeadlockAlgoProofs speak of one search.  They are taken *)
(* over for each of the two, SP without preemption and PP with it, whose   *)
(* definitions are those of Sequential and Preemptive.                     *)
(***************************************************************************)
EXTENDS DeadlockCheck, Sequences, TLAPS

SP == INSTANCE DeadlockAlgoProofs WITH Concurrent <- FALSE, DeadlockAutomaton <- TRUE
PP == INSTANCE DeadlockAlgoProofs WITH Concurrent <- TRUE, DeadlockAutomaton <- TRUE

----------------------------------------------------------------------------
(* The theorems about a search apply to both                              *)

\* What ConcurrentAutomaton assumes, for the automaton without preemption.
LEMMA SequentialAssumption ==
  /\ {FALSE, TRUE, CondyieldIsAlwaysYield} \subseteq BOOLEAN
  /\ SP!IsFiniteSet(Thread)
  /\ \A c \in Configurations :
       c.threads \in [Thread -> SP!abstract_cfg] /\ c.new_locks \in Seq(Seq(SP!lock_lists))
<1>1. Sequential!abstract_cfg = SP!abstract_cfg
  BY DEF Sequential!abstract_cfg, SP!abstract_cfg, Sequential!cfg_state, SP!cfg_state,
         Sequential!edge, SP!edge, Sequential!HasAction, SP!HasAction,
         Sequential!NullAction, SP!NullAction, Sequential!op_class, SP!op_class,
         Sequential!BlockingOps, SP!BlockingOps, Sequential!WaitOps, SP!WaitOps
<1>2. SP!IsFiniteSet(Thread)
  BY DeadlockCheckAssumption DEF IsFiniteSet, SP!IsFiniteSet
<1>3. \A S : <<>> \in Seq(S)
  OBVIOUS
<1>4. {FALSE, TRUE, CondyieldIsAlwaysYield} \subseteq BOOLEAN
  BY DeadlockCheckAssumption
<1>5. \A c \in Configurations :
        c.threads \in [Thread -> SP!abstract_cfg] /\ c.new_locks \in Seq(Seq(SP!lock_lists))
  BY <1>1, <1>3, DeadlockCheckAssumption, Zenon
<1> QED
  BY <1>2, <1>4, <1>5, Zenon

\* The same for the one with preemption.
LEMMA PreemptiveAssumption ==
  /\ {TRUE, TRUE, CondyieldIsAlwaysYield} \subseteq BOOLEAN
  /\ PP!IsFiniteSet(Thread)
  /\ \A c \in Configurations :
       c.threads \in [Thread -> PP!abstract_cfg] /\ c.new_locks \in Seq(Seq(PP!lock_lists))
<1>1. Sequential!abstract_cfg = PP!abstract_cfg
  BY DEF Sequential!abstract_cfg, PP!abstract_cfg, Sequential!cfg_state, PP!cfg_state,
         Sequential!edge, PP!edge, Sequential!HasAction, PP!HasAction,
         Sequential!NullAction, PP!NullAction, Sequential!op_class, PP!op_class,
         Sequential!BlockingOps, PP!BlockingOps, Sequential!WaitOps, PP!WaitOps
<1>2. PP!IsFiniteSet(Thread)
  BY DeadlockCheckAssumption DEF IsFiniteSet, PP!IsFiniteSet
<1>3. \A S : <<>> \in Seq(S)
  OBVIOUS
<1>4. {TRUE, TRUE, CondyieldIsAlwaysYield} \subseteq BOOLEAN
  BY DeadlockCheckAssumption
<1>5. \A c \in Configurations :
        c.threads \in [Thread -> PP!abstract_cfg] /\ c.new_locks \in Seq(Seq(PP!lock_lists))
  BY <1>1, <1>3, DeadlockCheckAssumption, Zenon
<1> QED
  BY <1>2, <1>4, <1>5, Zenon

\* The automaton of the first search is the one the theorems speak of.
LEMMA SequentialAutomaton ==
  /\ \A st : Sequential!int_next_symbols(st) = SP!int_next_symbols(st)
  /\ Sequential!int_initial_state = SP!int_initial_state
  /\ \A st : Sequential!is_deadlock(st) <=> SP!is_deadlock(st)
  /\ \A st : Sequential!Followers(st) = SP!Followers(st)
  /\ \A item : Sequential!SuccessorItems(item) = SP!SuccessorItems(item)
  /\ \A symbols : Sequential!Replay(symbols) = SP!Replay(symbols)
  /\ Sequential!Within = SP!Within
  /\ \A new_locks : Sequential!conflict_infos(new_locks) = SP!conflict_infos(new_locks)
  /\ \A new_locks : Sequential!lock_masks(new_locks) = SP!lock_masks(new_locks)
  /\ \A S : Sequential!SetToSeq(S) = SP!SetToSeq(S)
<1>1. \A st : Sequential!int_next_symbols(st) = SP!int_next_symbols(st)
  BY ZenonT(60) DEF Sequential!int_next_symbols, SP!int_next_symbols,
         Sequential!no_thread, SP!no_thread, Sequential!next_single, SP!next_single,
         Sequential!next_symbols, SP!next_symbols, Sequential!ActionSymbol,
         SP!ActionSymbol, Sequential!NoBranch, SP!NoBranch, Sequential!HasAction,
         SP!HasAction, Sequential!NullAction, SP!NullAction, Sequential!EdgeSymbols,
         SP!EdgeSymbols, Sequential!TagSymbol, SP!TagSymbol, Sequential!no_state,
         SP!no_state
<1>2. Sequential!int_initial_state = SP!int_initial_state
  BY ZenonT(60) DEF Sequential!int_initial_state, SP!int_initial_state,
         Sequential!no_thread, SP!no_thread, Sequential!initial_state,
         SP!initial_state
<1>3. \A st : Sequential!Followers(st) = SP!Followers(st)
  BY ZenonT(60) DEF Sequential!Followers, SP!Followers, Sequential!int_next_symbols,
         SP!int_next_symbols, Sequential!no_thread, SP!no_thread,
         Sequential!next_single, SP!next_single, Sequential!next_symbols,
         SP!next_symbols, Sequential!ActionSymbol, SP!ActionSymbol,
         Sequential!NoBranch, SP!NoBranch, Sequential!HasAction, SP!HasAction,
         Sequential!NullAction, SP!NullAction, Sequential!EdgeSymbols, SP!EdgeSymbols,
         Sequential!TagSymbol, SP!TagSymbol, Sequential!no_state, SP!no_state,
         Sequential!int_successors, SP!int_successors, Sequential!CanDeschedule,
         SP!CanDeschedule, Sequential!DescheduleRejected, SP!DescheduleRejected,
         Sequential!Rejected, SP!Rejected, Sequential!locksviolated_after,
         SP!locksviolated_after, Sequential!no_lock, SP!no_lock, Sequential!Ticked,
         SP!Ticked, Sequential!Unmonitored, SP!Unmonitored,
         Sequential!is_real_epsilon, SP!is_real_epsilon, Sequential!Deschedules,
         SP!Deschedules, Sequential!Progress, SP!Progress, Sequential!BlockingOps,
         SP!BlockingOps, Sequential!WaitOps, SP!WaitOps, Sequential!MayYield,
         SP!MayYield, Sequential!Available, SP!Available, Sequential!Descheduled,
         SP!Descheduled, Sequential!Monitored, SP!Monitored,
         Sequential!conflicts_after, SP!conflicts_after, Sequential!Started,
         SP!Started, Sequential!Observed, SP!Observed, Sequential!next_thread,
         SP!next_thread, Sequential!CanTerminate, SP!CanTerminate, Sequential!at_exit,
         SP!at_exit, Sequential!position_after, SP!position_after,
         Sequential!successor, SP!successor, Sequential!AfterAction, SP!AfterAction,
         Sequential!is_final_state, SP!is_final_state, Sequential!CanExecute,
         SP!CanExecute, Sequential!Terminated, SP!Terminated, Sequential!Executed,
         SP!Executed, Sequential!conditionals_after, SP!conditionals_after,
         Sequential!locks_after, SP!locks_after, Sequential!current_after,
         SP!current_after
<1>4. \A st : Sequential!is_deadlock(st) <=> SP!is_deadlock(st)
  <2>1. \A st : Sequential!is_deadlock(st) <=>
          Sequential!Followers(st) = {} /\ ~Sequential!int_is_final_state(st) /\ ~Sequential!one_assumes(st)
    BY DEF Sequential!is_deadlock, Sequential!Followers
  <2>2. \A st : SP!is_deadlock(st) <=>
          SP!Followers(st) = {} /\ ~SP!int_is_final_state(st) /\ ~SP!one_assumes(st)
    BY DEF SP!is_deadlock, SP!Followers
  <2>3. \A st : Sequential!one_assumes(st) <=> SP!one_assumes(st)
    BY <1>1 DEF Sequential!one_assumes, SP!one_assumes
  <2>4. \A st : Sequential!int_is_final_state(st) <=> SP!int_is_final_state(st)
    BY DEF Sequential!int_is_final_state, SP!int_is_final_state,
           Sequential!is_final_state, SP!is_final_state, Sequential!no_state,
           SP!no_state
  <2> QED
    BY <1>3, <2>1, <2>2, <2>3, <2>4
<1>5. \A item : Sequential!SuccessorItems(item) = SP!SuccessorItems(item)
  BY ZenonT(60) DEF Sequential!SuccessorItems, SP!SuccessorItems,
         Sequential!int_next_symbols, SP!int_next_symbols, Sequential!no_thread,
         SP!no_thread, Sequential!next_single, SP!next_single,
         Sequential!next_symbols, SP!next_symbols, Sequential!ActionSymbol,
         SP!ActionSymbol, Sequential!NoBranch, SP!NoBranch, Sequential!HasAction,
         SP!HasAction, Sequential!NullAction, SP!NullAction, Sequential!EdgeSymbols,
         SP!EdgeSymbols, Sequential!TagSymbol, SP!TagSymbol, Sequential!no_state,
         SP!no_state, Sequential!int_successors, SP!int_successors,
         Sequential!CanDeschedule, SP!CanDeschedule, Sequential!DescheduleRejected,
         SP!DescheduleRejected, Sequential!Rejected, SP!Rejected,
         Sequential!locksviolated_after, SP!locksviolated_after, Sequential!no_lock,
         SP!no_lock, Sequential!Ticked, SP!Ticked, Sequential!Unmonitored,
         SP!Unmonitored, Sequential!is_real_epsilon, SP!is_real_epsilon,
         Sequential!Deschedules, SP!Deschedules, Sequential!Progress, SP!Progress,
         Sequential!BlockingOps, SP!BlockingOps, Sequential!WaitOps, SP!WaitOps,
         Sequential!MayYield, SP!MayYield, Sequential!Available, SP!Available,
         Sequential!Descheduled, SP!Descheduled, Sequential!Monitored, SP!Monitored,
         Sequential!conflicts_after, SP!conflicts_after, Sequential!Started,
         SP!Started, Sequential!Observed, SP!Observed, Sequential!next_thread,
         SP!next_thread, Sequential!CanTerminate, SP!CanTerminate, Sequential!at_exit,
         SP!at_exit, Sequential!position_after, SP!position_after,
         Sequential!successor, SP!successor, Sequential!AfterAction, SP!AfterAction,
         Sequential!is_final_state, SP!is_final_state, Sequential!CanExecute,
         SP!CanExecute, Sequential!Terminated, SP!Terminated, Sequential!Executed,
         SP!Executed, Sequential!conditionals_after, SP!conditionals_after,
         Sequential!locks_after, SP!locks_after, Sequential!current_after,
         SP!current_after
<1>6. \A symbols : Sequential!Replay(symbols) = SP!Replay(symbols)
  BY ZenonT(60) DEF Sequential!Replay, SP!Replay, Sequential!int_next_symbols,
         SP!int_next_symbols, Sequential!no_thread, SP!no_thread,
         Sequential!next_single, SP!next_single, Sequential!next_symbols,
         SP!next_symbols, Sequential!ActionSymbol, SP!ActionSymbol,
         Sequential!NoBranch, SP!NoBranch, Sequential!HasAction, SP!HasAction,
         Sequential!NullAction, SP!NullAction, Sequential!EdgeSymbols, SP!EdgeSymbols,
         Sequential!TagSymbol, SP!TagSymbol, Sequential!no_state, SP!no_state,
         Sequential!int_successors, SP!int_successors, Sequential!CanDeschedule,
         SP!CanDeschedule, Sequential!DescheduleRejected, SP!DescheduleRejected,
         Sequential!Rejected, SP!Rejected, Sequential!locksviolated_after,
         SP!locksviolated_after, Sequential!no_lock, SP!no_lock, Sequential!Ticked,
         SP!Ticked, Sequential!Unmonitored, SP!Unmonitored,
         Sequential!is_real_epsilon, SP!is_real_epsilon, Sequential!Deschedules,
         SP!Deschedules, Sequential!Progress, SP!Progress, Sequential!BlockingOps,
         SP!BlockingOps, Sequential!WaitOps, SP!WaitOps, Sequential!MayYield,
         SP!MayYield, Sequential!Available, SP!Available, Sequential!Descheduled,
         SP!Descheduled, Sequential!Monitored, SP!Monitored,
         Sequential!conflicts_after, SP!conflicts_after, Sequential!Started,
         SP!Started, Sequential!Observed, SP!Observed, Sequential!next_thread,
         SP!next_thread, Sequential!CanTerminate, SP!CanTerminate, Sequential!at_exit,
         SP!at_exit, Sequential!position_after, SP!position_after,
         Sequential!successor, SP!successor, Sequential!AfterAction, SP!AfterAction,
         Sequential!is_final_state, SP!is_final_state, Sequential!CanExecute,
         SP!CanExecute, Sequential!Terminated, SP!Terminated, Sequential!Executed,
         SP!Executed, Sequential!conditionals_after, SP!conditionals_after,
         Sequential!locks_after, SP!locks_after, Sequential!current_after,
         SP!current_after, Sequential!int_initial_state, SP!int_initial_state,
         Sequential!initial_state, SP!initial_state
<1>7. Sequential!Within = SP!Within
  BY ZenonT(60) DEF Sequential!Within, SP!Within, Sequential!Followers, SP!Followers,
         Sequential!int_next_symbols, SP!int_next_symbols, Sequential!no_thread,
         SP!no_thread, Sequential!next_single, SP!next_single,
         Sequential!next_symbols, SP!next_symbols, Sequential!ActionSymbol,
         SP!ActionSymbol, Sequential!NoBranch, SP!NoBranch, Sequential!HasAction,
         SP!HasAction, Sequential!NullAction, SP!NullAction, Sequential!EdgeSymbols,
         SP!EdgeSymbols, Sequential!TagSymbol, SP!TagSymbol, Sequential!no_state,
         SP!no_state, Sequential!int_successors, SP!int_successors,
         Sequential!CanDeschedule, SP!CanDeschedule, Sequential!DescheduleRejected,
         SP!DescheduleRejected, Sequential!Rejected, SP!Rejected,
         Sequential!locksviolated_after, SP!locksviolated_after, Sequential!no_lock,
         SP!no_lock, Sequential!Ticked, SP!Ticked, Sequential!Unmonitored,
         SP!Unmonitored, Sequential!is_real_epsilon, SP!is_real_epsilon,
         Sequential!Deschedules, SP!Deschedules, Sequential!Progress, SP!Progress,
         Sequential!BlockingOps, SP!BlockingOps, Sequential!WaitOps, SP!WaitOps,
         Sequential!MayYield, SP!MayYield, Sequential!Available, SP!Available,
         Sequential!Descheduled, SP!Descheduled, Sequential!Monitored, SP!Monitored,
         Sequential!conflicts_after, SP!conflicts_after, Sequential!Started,
         SP!Started, Sequential!Observed, SP!Observed, Sequential!next_thread,
         SP!next_thread, Sequential!CanTerminate, SP!CanTerminate, Sequential!at_exit,
         SP!at_exit, Sequential!position_after, SP!position_after,
         Sequential!successor, SP!successor, Sequential!AfterAction, SP!AfterAction,
         Sequential!is_final_state, SP!is_final_state, Sequential!CanExecute,
         SP!CanExecute, Sequential!Terminated, SP!Terminated, Sequential!Executed,
         SP!Executed, Sequential!conditionals_after, SP!conditionals_after,
         Sequential!locks_after, SP!locks_after, Sequential!current_after,
         SP!current_after, Sequential!int_initial_state, SP!int_initial_state,
         Sequential!initial_state, SP!initial_state
<1>8. \A new_locks : Sequential!conflict_infos(new_locks) = SP!conflict_infos(new_locks)
  BY ZenonT(60) DEF Sequential!conflict_infos, SP!conflict_infos,
         Sequential!LockIndex, SP!LockIndex, Sequential!LockId, SP!LockId,
         Sequential!no_lock, SP!no_lock, Sequential!multiple, SP!multiple,
         Sequential!LockConflicts, SP!LockConflicts, Sequential!ListConflicts,
         SP!ListConflicts, Sequential!Consecutive, SP!Consecutive,
         Sequential!is_real_epsilon, SP!is_real_epsilon, Sequential!VisibleSymbols,
         SP!VisibleSymbols
<1>9. \A new_locks : Sequential!lock_masks(new_locks) = SP!lock_masks(new_locks)
  BY ZenonT(60) DEF Sequential!lock_masks, SP!lock_masks, Sequential!multiple,
         SP!multiple, Sequential!LockIndex, SP!LockIndex
<1>10. \A S : Sequential!SetToSeq(S) = SP!SetToSeq(S)
  BY ZenonT(60) DEF Sequential!SetToSeq, SP!SetToSeq, Sequential!Cardinality,
         SP!Cardinality, Sequential!IsInjective, SP!IsInjective
<1> QED
  BY <1>1, <1>2, <1>3, <1>4, <1>5, <1>6, <1>7, <1>8, <1>9, <1>10

\* So are the first search and what is claimed of it.
LEMMA SequentialSearch ==
  /\ Sequential!Init <=> SP!Init
  /\ Sequential!Next <=> SP!Next
  /\ Sequential!FrontierCoversRest <=> SP!FrontierCoversRest
  /\ Sequential!NoneMissed <=> SP!NoneMissed
  /\ Sequential!CounterexampleIsShortest <=> SP!CounterexampleIsShortest
<1>1. Sequential!Init <=> SP!Init
  BY SequentialAutomaton
     DEF Sequential!Init, SP!Init, Sequential!Construct, SP!Construct,
         Sequential!no_result, SP!no_result
<1>2. Sequential!Skip <=> SP!Skip
  BY SequentialAutomaton
     DEF Sequential!Skip, SP!Skip, Sequential!was_visited, SP!was_visited,
         Sequential!current_item, SP!current_item, Sequential!automaton, SP!automaton
<1>3. Sequential!Expand <=> SP!Expand
  BY SequentialAutomaton
     DEF Sequential!Expand, SP!Expand, Sequential!was_visited, SP!was_visited,
         Sequential!current_item, SP!current_item, Sequential!automaton, SP!automaton
<1>4. Sequential!ReportDeadlock <=> SP!ReportDeadlock
  BY SequentialAutomaton
     DEF Sequential!ReportDeadlock, SP!ReportDeadlock, Sequential!was_visited,
         SP!was_visited, Sequential!current_item, SP!current_item, Sequential!automaton,
         SP!automaton, Sequential!deadlock_result, SP!deadlock_result
<1>5. Sequential!ReportNone <=> SP!ReportNone
  BY SequentialAutomaton
     DEF Sequential!ReportNone, SP!ReportNone, Sequential!was_visited, SP!was_visited,
         Sequential!current_item, SP!current_item, Sequential!automaton, SP!automaton
<1>6. Sequential!Next <=> SP!Next
  BY <1>2, <1>3, <1>4, <1>5 DEF Sequential!Next, SP!Next
<1>7. Sequential!FrontierCoversRest <=> SP!FrontierCoversRest
  BY SequentialAutomaton DEF Sequential!FrontierCoversRest, SP!FrontierCoversRest
<1>8. Sequential!NoneMissed <=> SP!NoneMissed
  BY SequentialAutomaton DEF Sequential!NoneMissed, SP!NoneMissed
<1>9. Sequential!CounterexampleIsShortest <=> SP!CounterexampleIsShortest
  BY SequentialAutomaton DEF Sequential!CounterexampleIsShortest, SP!CounterexampleIsShortest
<1> QED
  BY <1>1, <1>6, <1>7, <1>8, <1>9

\* The automaton of the second search is the one the theorems speak of.
LEMMA PreemptiveAutomaton ==
  /\ \A st : Preemptive!int_next_symbols(st) = PP!int_next_symbols(st)
  /\ Preemptive!int_initial_state = PP!int_initial_state
  /\ \A st : Preemptive!is_deadlock(st) <=> PP!is_deadlock(st)
  /\ \A st : Preemptive!Followers(st) = PP!Followers(st)
  /\ \A item : Preemptive!SuccessorItems(item) = PP!SuccessorItems(item)
  /\ \A symbols : Preemptive!Replay(symbols) = PP!Replay(symbols)
  /\ Preemptive!Within = PP!Within
  /\ \A new_locks : Preemptive!conflict_infos(new_locks) = PP!conflict_infos(new_locks)
  /\ \A new_locks : Preemptive!lock_masks(new_locks) = PP!lock_masks(new_locks)
  /\ \A S : Preemptive!SetToSeq(S) = PP!SetToSeq(S)
<1>1. \A st : Preemptive!int_next_symbols(st) = PP!int_next_symbols(st)
  BY ZenonT(60) DEF Preemptive!int_next_symbols, PP!int_next_symbols,
         Preemptive!no_thread, PP!no_thread, Preemptive!next_single, PP!next_single,
         Preemptive!next_symbols, PP!next_symbols, Preemptive!ActionSymbol,
         PP!ActionSymbol, Preemptive!NoBranch, PP!NoBranch, Preemptive!HasAction,
         PP!HasAction, Preemptive!NullAction, PP!NullAction, Preemptive!EdgeSymbols,
         PP!EdgeSymbols, Preemptive!TagSymbol, PP!TagSymbol, Preemptive!no_state,
         PP!no_state
<1>2. Preemptive!int_initial_state = PP!int_initial_state
  BY ZenonT(60) DEF Preemptive!int_initial_state, PP!int_initial_state,
         Preemptive!no_thread, PP!no_thread, Preemptive!initial_state,
         PP!initial_state
<1>3. \A st : Preemptive!Followers(st) = PP!Followers(st)
  BY ZenonT(60) DEF Preemptive!Followers, PP!Followers, Preemptive!int_next_symbols,
         PP!int_next_symbols, Preemptive!no_thread, PP!no_thread,
         Preemptive!next_single, PP!next_single, Preemptive!next_symbols,
         PP!next_symbols, Preemptive!ActionSymbol, PP!ActionSymbol,
         Preemptive!NoBranch, PP!NoBranch, Preemptive!HasAction, PP!HasAction,
         Preemptive!NullAction, PP!NullAction, Preemptive!EdgeSymbols, PP!EdgeSymbols,
         Preemptive!TagSymbol, PP!TagSymbol, Preemptive!no_state, PP!no_state,
         Preemptive!int_successors, PP!int_successors, Preemptive!CanDeschedule,
         PP!CanDeschedule, Preemptive!DescheduleRejected, PP!DescheduleRejected,
         Preemptive!Rejected, PP!Rejected, Preemptive!locksviolated_after,
         PP!locksviolated_after, Preemptive!no_lock, PP!no_lock, Preemptive!Ticked,
         PP!Ticked, Preemptive!Unmonitored, PP!Unmonitored,
         Preemptive!is_real_epsilon, PP!is_real_epsilon, Preemptive!Deschedules,
         PP!Deschedules, Preemptive!Progress, PP!Progress, Preemptive!BlockingOps,
         PP!BlockingOps, Preemptive!WaitOps, PP!WaitOps, Preemptive!MayYield,
         PP!MayYield, Preemptive!Available, PP!Available, Preemptive!Descheduled,
         PP!Descheduled, Preemptive!Monitored, PP!Monitored,
         Preemptive!conflicts_after, PP!conflicts_after, Preemptive!Started,
         PP!Started, Preemptive!Observed, PP!Observed, Preemptive!next_thread,
         PP!next_thread, Preemptive!CanTerminate, PP!CanTerminate, Preemptive!at_exit,
         PP!at_exit, Preemptive!position_after, PP!position_after,
         Preemptive!successor, PP!successor, Preemptive!AfterAction, PP!AfterAction,
         Preemptive!is_final_state, PP!is_final_state, Preemptive!CanExecute,
         PP!CanExecute, Preemptive!Terminated, PP!Terminated, Preemptive!Executed,
         PP!Executed, Preemptive!conditionals_after, PP!conditionals_after,
         Preemptive!locks_after, PP!locks_after, Preemptive!current_after,
         PP!current_after
<1>4. \A st : Preemptive!is_deadlock(st) <=> PP!is_deadlock(st)
  <2>1. \A st : Preemptive!is_deadlock(st) <=>
          Preemptive!Followers(st) = {} /\ ~Preemptive!int_is_final_state(st) /\ ~Preemptive!one_assumes(st)
    BY DEF Preemptive!is_deadlock, Preemptive!Followers
  <2>2. \A st : PP!is_deadlock(st) <=>
          PP!Followers(st) = {} /\ ~PP!int_is_final_state(st) /\ ~PP!one_assumes(st)
    BY DEF PP!is_deadlock, PP!Followers
  <2>3. \A st : Preemptive!one_assumes(st) <=> PP!one_assumes(st)
    BY <1>1 DEF Preemptive!one_assumes, PP!one_assumes
  <2>4. \A st : Preemptive!int_is_final_state(st) <=> PP!int_is_final_state(st)
    BY DEF Preemptive!int_is_final_state, PP!int_is_final_state,
           Preemptive!is_final_state, PP!is_final_state, Preemptive!no_state,
           PP!no_state
  <2> QED
    BY <1>3, <2>1, <2>2, <2>3, <2>4
<1>5. \A item : Preemptive!SuccessorItems(item) = PP!SuccessorItems(item)
  BY ZenonT(60) DEF Preemptive!SuccessorItems, PP!SuccessorItems,
         Preemptive!int_next_symbols, PP!int_next_symbols, Preemptive!no_thread,
         PP!no_thread, Preemptive!next_single, PP!next_single,
         Preemptive!next_symbols, PP!next_symbols, Preemptive!ActionSymbol,
         PP!ActionSymbol, Preemptive!NoBranch, PP!NoBranch, Preemptive!HasAction,
         PP!HasAction, Preemptive!NullAction, PP!NullAction, Preemptive!EdgeSymbols,
         PP!EdgeSymbols, Preemptive!TagSymbol, PP!TagSymbol, Preemptive!no_state,
         PP!no_state, Preemptive!int_successors, PP!int_successors,
         Preemptive!CanDeschedule, PP!CanDeschedule, Preemptive!DescheduleRejected,
         PP!DescheduleRejected, Preemptive!Rejected, PP!Rejected,
         Preemptive!locksviolated_after, PP!locksviolated_after, Preemptive!no_lock,
         PP!no_lock, Preemptive!Ticked, PP!Ticked, Preemptive!Unmonitored,
         PP!Unmonitored, Preemptive!is_real_epsilon, PP!is_real_epsilon,
         Preemptive!Deschedules, PP!Deschedules, Preemptive!Progress, PP!Progress,
         Preemptive!BlockingOps, PP!BlockingOps, Preemptive!WaitOps, PP!WaitOps,
         Preemptive!MayYield, PP!MayYield, Preemptive!Available, PP!Available,
         Preemptive!Descheduled, PP!Descheduled, Preemptive!Monitored, PP!Monitored,
         Preemptive!conflicts_after, PP!conflicts_after, Preemptive!Started,
         PP!Started, Preemptive!Observed, PP!Observed, Preemptive!next_thread,
         PP!next_thread, Preemptive!CanTerminate, PP!CanTerminate, Preemptive!at_exit,
         PP!at_exit, Preemptive!position_after, PP!position_after,
         Preemptive!successor, PP!successor, Preemptive!AfterAction, PP!AfterAction,
         Preemptive!is_final_state, PP!is_final_state, Preemptive!CanExecute,
         PP!CanExecute, Preemptive!Terminated, PP!Terminated, Preemptive!Executed,
         PP!Executed, Preemptive!conditionals_after, PP!conditionals_after,
         Preemptive!locks_after, PP!locks_after, Preemptive!current_after,
         PP!current_after
<1>6. \A symbols : Preemptive!Replay(symbols) = PP!Replay(symbols)
  BY ZenonT(60) DEF Preemptive!Replay, PP!Replay, Preemptive!int_next_symbols,
         PP!int_next_symbols, Preemptive!no_thread, PP!no_thread,
         Preemptive!next_single, PP!next_single, Preemptive!next_symbols,
         PP!next_symbols, Preemptive!ActionSymbol, PP!ActionSymbol,
         Preemptive!NoBranch, PP!NoBranch, Preemptive!HasAction, PP!HasAction,
         Preemptive!NullAction, PP!NullAction, Preemptive!EdgeSymbols, PP!EdgeSymbols,
         Preemptive!TagSymbol, PP!TagSymbol, Preemptive!no_state, PP!no_state,
         Preemptive!int_successors, PP!int_successors, Preemptive!CanDeschedule,
         PP!CanDeschedule, Preemptive!DescheduleRejected, PP!DescheduleRejected,
         Preemptive!Rejected, PP!Rejected, Preemptive!locksviolated_after,
         PP!locksviolated_after, Preemptive!no_lock, PP!no_lock, Preemptive!Ticked,
         PP!Ticked, Preemptive!Unmonitored, PP!Unmonitored,
         Preemptive!is_real_epsilon, PP!is_real_epsilon, Preemptive!Deschedules,
         PP!Deschedules, Preemptive!Progress, PP!Progress, Preemptive!BlockingOps,
         PP!BlockingOps, Preemptive!WaitOps, PP!WaitOps, Preemptive!MayYield,
         PP!MayYield, Preemptive!Available, PP!Available, Preemptive!Descheduled,
         PP!Descheduled, Preemptive!Monitored, PP!Monitored,
         Preemptive!conflicts_after, PP!conflicts_after, Preemptive!Started,
         PP!Started, Preemptive!Observed, PP!Observed, Preemptive!next_thread,
         PP!next_thread, Preemptive!CanTerminate, PP!CanTerminate, Preemptive!at_exit,
         PP!at_exit, Preemptive!position_after, PP!position_after,
         Preemptive!successor, PP!successor, Preemptive!AfterAction, PP!AfterAction,
         Preemptive!is_final_state, PP!is_final_state, Preemptive!CanExecute,
         PP!CanExecute, Preemptive!Terminated, PP!Terminated, Preemptive!Executed,
         PP!Executed, Preemptive!conditionals_after, PP!conditionals_after,
         Preemptive!locks_after, PP!locks_after, Preemptive!current_after,
         PP!current_after, Preemptive!int_initial_state, PP!int_initial_state,
         Preemptive!initial_state, PP!initial_state
<1>7. Preemptive!Within = PP!Within
  BY ZenonT(60) DEF Preemptive!Within, PP!Within, Preemptive!Followers, PP!Followers,
         Preemptive!int_next_symbols, PP!int_next_symbols, Preemptive!no_thread,
         PP!no_thread, Preemptive!next_single, PP!next_single,
         Preemptive!next_symbols, PP!next_symbols, Preemptive!ActionSymbol,
         PP!ActionSymbol, Preemptive!NoBranch, PP!NoBranch, Preemptive!HasAction,
         PP!HasAction, Preemptive!NullAction, PP!NullAction, Preemptive!EdgeSymbols,
         PP!EdgeSymbols, Preemptive!TagSymbol, PP!TagSymbol, Preemptive!no_state,
         PP!no_state, Preemptive!int_successors, PP!int_successors,
         Preemptive!CanDeschedule, PP!CanDeschedule, Preemptive!DescheduleRejected,
         PP!DescheduleRejected, Preemptive!Rejected, PP!Rejected,
         Preemptive!locksviolated_after, PP!locksviolated_after, Preemptive!no_lock,
         PP!no_lock, Preemptive!Ticked, PP!Ticked, Preemptive!Unmonitored,
         PP!Unmonitored, Preemptive!is_real_epsilon, PP!is_real_epsilon,
         Preemptive!Deschedules, PP!Deschedules, Preemptive!Progress, PP!Progress,
         Preemptive!BlockingOps, PP!BlockingOps, Preemptive!WaitOps, PP!WaitOps,
         Preemptive!MayYield, PP!MayYield, Preemptive!Available, PP!Available,
         Preemptive!Descheduled, PP!Descheduled, Preemptive!Monitored, PP!Monitored,
         Preemptive!conflicts_after, PP!conflicts_after, Preemptive!Started,
         PP!Started, Preemptive!Observed, PP!Observed, Preemptive!next_thread,
         PP!next_thread, Preemptive!CanTerminate, PP!CanTerminate, Preemptive!at_exit,
         PP!at_exit, Preemptive!position_after, PP!position_after,
         Preemptive!successor, PP!successor, Preemptive!AfterAction, PP!AfterAction,
         Preemptive!is_final_state, PP!is_final_state, Preemptive!CanExecute,
         PP!CanExecute, Preemptive!Terminated, PP!Terminated, Preemptive!Executed,
         PP!Executed, Preemptive!conditionals_after, PP!conditionals_after,
         Preemptive!locks_after, PP!locks_after, Preemptive!current_after,
         PP!current_after, Preemptive!int_initial_state, PP!int_initial_state,
         Preemptive!initial_state, PP!initial_state
<1>8. \A new_locks : Preemptive!conflict_infos(new_locks) = PP!conflict_infos(new_locks)
  BY ZenonT(60) DEF Preemptive!conflict_infos, PP!conflict_infos,
         Preemptive!LockIndex, PP!LockIndex, Preemptive!LockId, PP!LockId,
         Preemptive!no_lock, PP!no_lock, Preemptive!multiple, PP!multiple,
         Preemptive!LockConflicts, PP!LockConflicts, Preemptive!ListConflicts,
         PP!ListConflicts, Preemptive!Consecutive, PP!Consecutive,
         Preemptive!is_real_epsilon, PP!is_real_epsilon, Preemptive!VisibleSymbols,
         PP!VisibleSymbols
<1>9. \A new_locks : Preemptive!lock_masks(new_locks) = PP!lock_masks(new_locks)
  BY ZenonT(60) DEF Preemptive!lock_masks, PP!lock_masks, Preemptive!multiple,
         PP!multiple, Preemptive!LockIndex, PP!LockIndex
<1>10. \A S : Preemptive!SetToSeq(S) = PP!SetToSeq(S)
  BY ZenonT(60) DEF Preemptive!SetToSeq, PP!SetToSeq, Preemptive!Cardinality,
         PP!Cardinality, Preemptive!IsInjective, PP!IsInjective
<1> QED
  BY <1>1, <1>2, <1>3, <1>4, <1>5, <1>6, <1>7, <1>8, <1>9, <1>10

\* So are the second search and what is claimed of it.
LEMMA PreemptiveSearch ==
  /\ Preemptive!Init <=> PP!Init
  /\ Preemptive!Next <=> PP!Next
  /\ Preemptive!FrontierCoversRest <=> PP!FrontierCoversRest
  /\ Preemptive!NoneMissed <=> PP!NoneMissed
  /\ Preemptive!CounterexampleIsShortest <=> PP!CounterexampleIsShortest
<1>1. Preemptive!Init <=> PP!Init
  BY PreemptiveAutomaton
     DEF Preemptive!Init, PP!Init, Preemptive!Construct, PP!Construct,
         Preemptive!no_result, PP!no_result
<1>2. Preemptive!Skip <=> PP!Skip
  BY PreemptiveAutomaton
     DEF Preemptive!Skip, PP!Skip, Preemptive!was_visited, PP!was_visited,
         Preemptive!current_item, PP!current_item, Preemptive!automaton, PP!automaton
<1>3. Preemptive!Expand <=> PP!Expand
  BY PreemptiveAutomaton
     DEF Preemptive!Expand, PP!Expand, Preemptive!was_visited, PP!was_visited,
         Preemptive!current_item, PP!current_item, Preemptive!automaton, PP!automaton
<1>4. Preemptive!ReportDeadlock <=> PP!ReportDeadlock
  BY PreemptiveAutomaton
     DEF Preemptive!ReportDeadlock, PP!ReportDeadlock, Preemptive!was_visited,
         PP!was_visited, Preemptive!current_item, PP!current_item, Preemptive!automaton,
         PP!automaton, Preemptive!deadlock_result, PP!deadlock_result
<1>5. Preemptive!ReportNone <=> PP!ReportNone
  BY PreemptiveAutomaton
     DEF Preemptive!ReportNone, PP!ReportNone, Preemptive!was_visited, PP!was_visited,
         Preemptive!current_item, PP!current_item, Preemptive!automaton, PP!automaton
<1>6. Preemptive!Next <=> PP!Next
  BY <1>2, <1>3, <1>4, <1>5 DEF Preemptive!Next, PP!Next
<1>7. Preemptive!FrontierCoversRest <=> PP!FrontierCoversRest
  BY PreemptiveAutomaton DEF Preemptive!FrontierCoversRest, PP!FrontierCoversRest
<1>8. Preemptive!NoneMissed <=> PP!NoneMissed
  BY PreemptiveAutomaton DEF Preemptive!NoneMissed, PP!NoneMissed
<1>9. Preemptive!CounterexampleIsShortest <=> PP!CounterexampleIsShortest
  BY PreemptiveAutomaton DEF Preemptive!CounterexampleIsShortest, PP!CounterexampleIsShortest
<1> QED
  BY <1>1, <1>6, <1>7, <1>8, <1>9

\* The two automata differ in who runs next and in nothing else.
LEMMA AutomataAgree ==
  /\ SP!States = PP!States
  /\ SP!AutomatonOK <=> PP!AutomatonOK
  /\ SP!symbol = PP!symbol
  /\ SP!int_initial_state = PP!int_initial_state
  /\ \A st, t : SP!next_single(st, t) = PP!next_single(st, t)
  /\ \A st : SP!int_next_symbols(st) = PP!int_next_symbols(st)
  /\ \A st : SP!int_is_final_state(st) <=> PP!int_is_final_state(st)
  /\ \A st : SP!one_assumes(st) <=> PP!one_assumes(st)
  /\ \A st, sigma : SP!position_after(st, sigma) = PP!position_after(st, sigma)
  /\ \A st, sigma : SP!at_exit(st, sigma) <=> PP!at_exit(st, sigma)
  /\ \A st, sigma : SP!Available(st, sigma) <=> PP!Available(st, sigma)
  /\ \A st, sigma : SP!Progress(st, sigma) <=> PP!Progress(st, sigma)
  /\ \A st, sigma : SP!MayYield(st, sigma) <=> PP!MayYield(st, sigma)
  /\ \A st, sigma : SP!Deschedules(st, sigma) <=> PP!Deschedules(st, sigma)
  /\ \A st, sigma : SP!Rejected(st, sigma) <=> PP!Rejected(st, sigma)
  /\ \A st, sigma : SP!locks_after(st, sigma) = PP!locks_after(st, sigma)
  /\ \A st, sigma : SP!conditionals_after(st, sigma) = PP!conditionals_after(st, sigma)
  /\ \A st, sigma : SP!conflicts_after(st, sigma) = PP!conflicts_after(st, sigma)
  /\ \A st, sigma : SP!locksviolated_after(st, sigma) = PP!locksviolated_after(st, sigma)
  /\ SP!Construct <=> PP!Construct
<1>1. SP!States = PP!States
  BY ZenonT(60) DEF SP!States, PP!States, SP!StateOK, PP!StateOK, SP!Positions,
         PP!Positions, SP!HasAction, PP!HasAction, SP!NullAction, PP!NullAction,
         SP!initial_state, PP!initial_state, SP!no_state, PP!no_state,
         SP!concurrent_state, PP!concurrent_state, SP!conflict_t, PP!conflict_t,
         SP!no_thread, PP!no_thread
<1>2. SP!AutomatonOK <=> PP!AutomatonOK
  BY ZenonT(60) DEF SP!AutomatonOK, PP!AutomatonOK, SP!conflict_info,
         PP!conflict_info, SP!symbol, PP!symbol, SP!op_class, PP!op_class,
         SP!BlockingOps, PP!BlockingOps, SP!WaitOps, PP!WaitOps, SP!abstract_cfg,
         PP!abstract_cfg, SP!HasAction, PP!HasAction, SP!NullAction, PP!NullAction,
         SP!cfg_state, PP!cfg_state, SP!edge, PP!edge
<1>3. SP!symbol = PP!symbol
  BY ZenonT(60) DEF SP!symbol, PP!symbol, SP!op_class, PP!op_class, SP!BlockingOps,
         PP!BlockingOps, SP!WaitOps, PP!WaitOps
<1>4. SP!int_initial_state = PP!int_initial_state
  BY ZenonT(60) DEF SP!int_initial_state, PP!int_initial_state, SP!no_thread,
         PP!no_thread, SP!initial_state, PP!initial_state
<1>5. \A st, t : SP!next_single(st, t) = PP!next_single(st, t)
  BY ZenonT(60) DEF SP!next_single, PP!next_single, SP!next_symbols, PP!next_symbols,
         SP!ActionSymbol, PP!ActionSymbol, SP!NoBranch, PP!NoBranch, SP!HasAction,
         PP!HasAction, SP!NullAction, PP!NullAction, SP!EdgeSymbols, PP!EdgeSymbols,
         SP!TagSymbol, PP!TagSymbol, SP!no_state, PP!no_state
<1>6. \A st : SP!int_next_symbols(st) = PP!int_next_symbols(st)
  BY ZenonT(60) DEF SP!int_next_symbols, PP!int_next_symbols, SP!no_thread,
         PP!no_thread, SP!next_single, PP!next_single, SP!next_symbols,
         PP!next_symbols, SP!ActionSymbol, PP!ActionSymbol, SP!NoBranch, PP!NoBranch,
         SP!HasAction, PP!HasAction, SP!NullAction, PP!NullAction, SP!EdgeSymbols,
         PP!EdgeSymbols, SP!TagSymbol, PP!TagSymbol, SP!no_state, PP!no_state
<1>7. \A st : SP!int_is_final_state(st) <=> PP!int_is_final_state(st)
  BY ZenonT(60) DEF SP!int_is_final_state, PP!int_is_final_state, SP!is_final_state,
         PP!is_final_state, SP!no_state, PP!no_state
<1>8. \A st : SP!one_assumes(st) <=> PP!one_assumes(st)
  BY ZenonT(60) DEF SP!one_assumes, PP!one_assumes, SP!int_next_symbols,
         PP!int_next_symbols, SP!no_thread, PP!no_thread, SP!next_single,
         PP!next_single, SP!next_symbols, PP!next_symbols, SP!ActionSymbol,
         PP!ActionSymbol, SP!NoBranch, PP!NoBranch, SP!HasAction, PP!HasAction,
         SP!NullAction, PP!NullAction, SP!EdgeSymbols, PP!EdgeSymbols, SP!TagSymbol,
         PP!TagSymbol, SP!no_state, PP!no_state
<1>9. \A st, sigma : SP!position_after(st, sigma) = PP!position_after(st, sigma)
  BY ZenonT(60) DEF SP!position_after, PP!position_after, SP!successor, PP!successor,
         SP!AfterAction, PP!AfterAction, SP!NoBranch, PP!NoBranch
<1>10. \A st, sigma : SP!at_exit(st, sigma) <=> PP!at_exit(st, sigma)
  BY ZenonT(60) DEF SP!at_exit, PP!at_exit, SP!position_after, PP!position_after,
         SP!successor, PP!successor, SP!AfterAction, PP!AfterAction, SP!NoBranch,
         PP!NoBranch, SP!is_final_state, PP!is_final_state
<1>11. \A st, sigma : SP!Available(st, sigma) <=> PP!Available(st, sigma)
  BY ZenonT(60) DEF SP!Available, PP!Available
<1>12. \A st, sigma : SP!Progress(st, sigma) <=> PP!Progress(st, sigma)
  BY ZenonT(60) DEF SP!Progress, PP!Progress, SP!BlockingOps, PP!BlockingOps,
         SP!WaitOps, PP!WaitOps, SP!MayYield, PP!MayYield, SP!no_thread, PP!no_thread,
         SP!Available, PP!Available
<1>13. \A st, sigma : SP!MayYield(st, sigma) <=> PP!MayYield(st, sigma)
  BY ZenonT(60) DEF SP!MayYield, PP!MayYield, SP!no_thread, PP!no_thread
<1>14. \A st, sigma : SP!Deschedules(st, sigma) <=> PP!Deschedules(st, sigma)
  BY ZenonT(60) DEF SP!Deschedules, PP!Deschedules, SP!Progress, PP!Progress,
         SP!BlockingOps, PP!BlockingOps, SP!WaitOps, PP!WaitOps, SP!MayYield,
         PP!MayYield, SP!no_thread, PP!no_thread, SP!Available, PP!Available
<1>15. \A st, sigma : SP!Rejected(st, sigma) <=> PP!Rejected(st, sigma)
  BY ZenonT(60) DEF SP!Rejected, PP!Rejected, SP!locksviolated_after,
         PP!locksviolated_after, SP!no_lock, PP!no_lock, SP!Ticked, PP!Ticked,
         SP!Unmonitored, PP!Unmonitored, SP!is_real_epsilon, PP!is_real_epsilon
<1>16. \A st, sigma : SP!locks_after(st, sigma) = PP!locks_after(st, sigma)
  BY ZenonT(60) DEF SP!locks_after, PP!locks_after
<1>17. \A st, sigma : SP!conditionals_after(st, sigma) = PP!conditionals_after(st, sigma)
  BY ZenonT(60) DEF SP!conditionals_after, PP!conditionals_after
<1>18. \A st, sigma : SP!conflicts_after(st, sigma) = PP!conflicts_after(st, sigma)
  BY ZenonT(60) DEF SP!conflicts_after, PP!conflicts_after, SP!Started, PP!Started,
         SP!Observed, PP!Observed, SP!next_thread, PP!next_thread, SP!Unmonitored,
         PP!Unmonitored, SP!is_real_epsilon, PP!is_real_epsilon
<1>19. \A st, sigma : SP!locksviolated_after(st, sigma) = PP!locksviolated_after(st, sigma)
  BY ZenonT(60) DEF SP!locksviolated_after, PP!locksviolated_after, SP!no_lock,
         PP!no_lock, SP!Ticked, PP!Ticked, SP!Unmonitored, PP!Unmonitored,
         SP!is_real_epsilon, PP!is_real_epsilon
<1>20. SP!Construct <=> PP!Construct
  BY ZenonT(60) DEF SP!Construct, PP!Construct, SP!lock_masks, PP!lock_masks,
         SP!multiple, PP!multiple, SP!LockIndex, PP!LockIndex, SP!conflict_infos,
         PP!conflict_infos, SP!LockId, PP!LockId, SP!no_lock, PP!no_lock,
         SP!LockConflicts, PP!LockConflicts, SP!ListConflicts, PP!ListConflicts,
         SP!Consecutive, PP!Consecutive, SP!is_real_epsilon, PP!is_real_epsilon,
         SP!VisibleSymbols, PP!VisibleSymbols
<1> QED
  BY <1>1, <1>2, <1>3, <1>4, <1>5, <1>6, <1>7, <1>8, <1>9, <1>10, <1>11, <1>12, <1>13,
     <1>14, <1>15, <1>16, <1>17, <1>18, <1>19, <1>20


\* deadlock_check builds its automata without forbidden traces.
LEMMA NoConflicts == Sequential!Construct => conflicts = {}
<1> SUFFICES ASSUME Sequential!Construct PROVE conflicts = {}
  OBVIOUS
<1>1. PICK c \in Configurations : conflicts = Sequential!conflict_infos(c.new_locks)
  BY DEF Sequential!Construct
<1>2. c.new_locks = <<>>
  BY DeadlockCheckAssumption
<1>3. Sequential!conflict_infos(<<>>) = {}
  BY DEF Sequential!conflict_infos, Sequential!LockIndex
<1> QED
  BY <1>1, <1>2, <1>3

----------------------------------------------------------------------------
(* An execution without preemption is one with it                         *)

\* The same state with nobody running.
Released(st) == [st EXCEPT !.current = no_thread]

\* Nothing else of the state changes.
LEMMA ReleasedStates ==
  ASSUME NEW st \in SP!States
  PROVE  /\ Released(st) \in SP!States
         /\ Released(st).current = no_thread
         /\ \A f \in {"threads", "locks", "conditionals", "conflicts", "locksviolated"} :
              Released(st)[f] = st[f]
BY DEF Released, SP!States, SP!StateOK, SP!concurrent_state, SP!no_thread, no_thread

\* Only the choice of the next thread looks at who is running.
LEMMA ReleasedActs ==
  ASSUME NEW st \in SP!States, NEW sigma
  PROVE  /\ SP!Available(Released(st), sigma) <=> SP!Available(st, sigma)
         /\ SP!Rejected(Released(st), sigma) <=> SP!Rejected(st, sigma)
         /\ SP!position_after(Released(st), sigma) = SP!position_after(st, sigma)
         /\ SP!at_exit(Released(st), sigma) <=> SP!at_exit(st, sigma)
         /\ SP!locks_after(Released(st), sigma) = SP!locks_after(st, sigma)
         /\ SP!conditionals_after(Released(st), sigma) = SP!conditionals_after(st, sigma)
         /\ SP!conflicts_after(Released(st), sigma) = SP!conflicts_after(st, sigma)
         /\ SP!locksviolated_after(Released(st), sigma) = SP!locksviolated_after(st, sigma)
         /\ SP!Progress(st, sigma) => SP!Progress(Released(st), sigma)
<1>1. /\ Released(st).current = no_thread /\ Released(st).threads = st.threads
      /\ Released(st).locks = st.locks /\ Released(st).conditionals = st.conditionals
      /\ Released(st).conflicts = st.conflicts /\ Released(st).locksviolated = st.locksviolated
  BY ReleasedStates
<1>2. SP!Available(Released(st), sigma) <=> SP!Available(st, sigma)
  BY <1>1 DEF SP!Available
<1>3. SP!locksviolated_after(Released(st), sigma) = SP!locksviolated_after(st, sigma)
  BY <1>1 DEF SP!locksviolated_after
<1>4. SP!Rejected(Released(st), sigma) <=> SP!Rejected(st, sigma)
  BY <1>1, <1>3 DEF SP!Rejected
<1>5. SP!position_after(Released(st), sigma) = SP!position_after(st, sigma)
  BY <1>1 DEF SP!position_after
<1>6. SP!at_exit(Released(st), sigma) <=> SP!at_exit(st, sigma)
  BY <1>5 DEF SP!at_exit
<1>7. /\ SP!locks_after(Released(st), sigma) = SP!locks_after(st, sigma)
      /\ SP!conditionals_after(Released(st), sigma) = SP!conditionals_after(st, sigma)
  BY <1>1 DEF SP!locks_after, SP!conditionals_after
<1>8. SP!conflicts_after(Released(st), sigma) = SP!conflicts_after(st, sigma)
  BY <1>1 DEF SP!conflicts_after
<1>9. SP!Progress(st, sigma) => SP!Progress(Released(st), sigma)
  BY <1>1, <1>2 DEF SP!Progress, SP!MayYield, SP!no_thread, no_thread
<1> QED
  BY <1>2, <1>3, <1>4, <1>5, <1>6, <1>7, <1>8, <1>9

\* What the running thread offers is offered when nobody is running.
LEMMA ReleasedSymbols ==
  ASSUME NEW st \in SP!States, NEW sigma \in SP!int_next_symbols(st)
  PROVE  sigma \in SP!int_next_symbols(Released(st))
<1>1. st.current \in Thread \cup {no_thread}
  BY DEF SP!States, SP!concurrent_state, SP!no_thread, no_thread
<1>2. PICK t \in Thread : sigma \in SP!next_single(st, t)
  BY <1>1 DEF SP!int_next_symbols, SP!no_thread, no_thread
<1>3. sigma \in SP!next_single(Released(st), t)
  BY <1>2, ReleasedStates DEF SP!next_single
<1> QED
  BY <1>2, <1>3, ReleasedStates DEF SP!int_next_symbols, SP!no_thread, no_thread

\* Two states that agree in every field.
LEMMA SameState ==
  ASSUME NEW a \in SP!States, NEW b \in SP!States,
         a.threads = b.threads, a.current = b.current, a.locks = b.locks,
         a.conditionals = b.conditionals, a.conflicts = b.conflicts,
         a.locksviolated = b.locksviolated
  PROVE  a = b
BY DEF SP!States, SP!concurrent_state

\* A step without preemption is a step with it, once nobody is running; a thread that
\* gives up the processor does not move.
LEMMA ReleasedFollows ==
  ASSUME SP!AutomatonOK, conflicts = {}, NEW st \in SP!States,
         NEW sigma \in SP!int_next_symbols(st), NEW s \in SP!int_successors(st, sigma)
  PROVE  \/ Released(s) = Released(st)
         \/ /\ sigma \in PP!int_next_symbols(Released(st))
            /\ Released(s) \in PP!int_successors(Released(st), sigma)
<1> DEFINE r == Released(st)
<1>1. /\ r \in SP!States /\ SP!StateOK(st) /\ SP!StateOK(r) /\ PP!StateOK(r)
      /\ PP!AutomatonOK /\ s \in SP!States
  <2>1. r \in SP!States /\ r \in PP!States /\ PP!AutomatonOK
    BY ReleasedStates, AutomataAgree
  <2>2. s \in SP!States
    BY SequentialAssumption, SymbolsAssumption, SP!SuccessorStates
  <2> QED
    BY <2>1, <2>2 DEF SP!States, PP!States
<1>2. sigma \in SP!int_next_symbols(r) /\ sigma \in PP!int_next_symbols(r)
  BY ReleasedSymbols, AutomataAgree
<1> HIDE DEF r
<1>3. /\ SP!Executed(st, sigma).threads =
           [st.threads EXCEPT ![sigma.thread] = SP!position_after(st, sigma)]
      /\ SP!Terminated(st, sigma).threads = [st.threads EXCEPT ![sigma.thread] = SP!no_state]
      /\ SP!Executed(st, sigma).locks = SP!locks_after(st, sigma)
      /\ SP!Executed(st, sigma).conditionals = SP!conditionals_after(st, sigma)
      /\ SP!Executed(st, sigma).conflicts = SP!conflicts_after(st, sigma)
      /\ SP!Executed(st, sigma).locksviolated = SP!locksviolated_after(st, sigma)
      /\ \A f \in {"current", "locks", "conditionals", "conflicts", "locksviolated"} :
           SP!Terminated(st, sigma)[f] = SP!Executed(st, sigma)[f]
  <2>1. /\ SP!Executed(st, sigma).threads =
             [st.threads EXCEPT ![sigma.thread] = SP!position_after(st, sigma)]
        /\ SP!Terminated(st, sigma).threads = [st.threads EXCEPT ![sigma.thread] = SP!no_state]
    BY <1>1, SequentialAssumption, SymbolsAssumption, SP!StepPositions
  <2>2. /\ SP!Executed(st, sigma).locks = SP!locks_after(st, sigma)
        /\ SP!Executed(st, sigma).conditionals = SP!conditionals_after(st, sigma)
        /\ SP!Executed(st, sigma).conflicts = SP!conflicts_after(st, sigma)
        /\ SP!Executed(st, sigma).locksviolated = SP!locksviolated_after(st, sigma)
    BY <1>1, SequentialAssumption, SymbolsAssumption, SP!StepFields
  <2>3. \A f \in {"current", "locks", "conditionals", "conflicts", "locksviolated"} :
          SP!Terminated(st, sigma)[f] = SP!Executed(st, sigma)[f]
    BY <1>1, SequentialAssumption, SymbolsAssumption, SP!TerminatedFields
  <2> QED
    BY <2>1, <2>2, <2>3
<1>4. /\ PP!Executed(r, sigma).threads =
           [r.threads EXCEPT ![sigma.thread] = PP!position_after(r, sigma)]
      /\ PP!Terminated(r, sigma).threads = [r.threads EXCEPT ![sigma.thread] = PP!no_state]
      /\ PP!Executed(r, sigma).current = PP!current_after(r, sigma)
      /\ PP!Executed(r, sigma).locks = PP!locks_after(r, sigma)
      /\ PP!Executed(r, sigma).conditionals = PP!conditionals_after(r, sigma)
      /\ PP!Executed(r, sigma).conflicts = PP!conflicts_after(r, sigma)
      /\ PP!Executed(r, sigma).locksviolated = PP!locksviolated_after(r, sigma)
      /\ \A f \in {"current", "locks", "conditionals", "conflicts", "locksviolated"} :
           PP!Terminated(r, sigma)[f] = PP!Executed(r, sigma)[f]
  <2>1. /\ PP!Executed(r, sigma).threads =
             [r.threads EXCEPT ![sigma.thread] = PP!position_after(r, sigma)]
        /\ PP!Terminated(r, sigma).threads = [r.threads EXCEPT ![sigma.thread] = PP!no_state]
    BY <1>1, <1>2, PreemptiveAssumption, SymbolsAssumption, PP!StepPositions
  <2>2. /\ PP!Executed(r, sigma).locks = PP!locks_after(r, sigma)
        /\ PP!Executed(r, sigma).conditionals = PP!conditionals_after(r, sigma)
        /\ PP!Executed(r, sigma).conflicts = PP!conflicts_after(r, sigma)
        /\ PP!Executed(r, sigma).locksviolated = PP!locksviolated_after(r, sigma)
        /\ PP!Executed(r, sigma).current = PP!current_after(r, sigma)
    BY <1>1, <1>2, PreemptiveAssumption, SymbolsAssumption, PP!StepFields
  <2>3. \A f \in {"current", "locks", "conditionals", "conflicts", "locksviolated"} :
          PP!Terminated(r, sigma)[f] = PP!Executed(r, sigma)[f]
    BY <1>1, <1>2, PreemptiveAssumption, SymbolsAssumption, PP!TerminatedFields
  <2> QED
    BY <2>1, <2>2, <2>3
<1>5. /\ PP!position_after(r, sigma) = SP!position_after(st, sigma)
      /\ PP!locks_after(r, sigma) = SP!locks_after(st, sigma)
      /\ PP!conditionals_after(r, sigma) = SP!conditionals_after(st, sigma)
      /\ PP!conflicts_after(r, sigma) = SP!conflicts_after(st, sigma)
      /\ PP!locksviolated_after(r, sigma) = SP!locksviolated_after(st, sigma)
      /\ PP!at_exit(r, sigma) <=> SP!at_exit(st, sigma)
      /\ SP!Progress(st, sigma) => PP!Progress(r, sigma)
      /\ PP!Rejected(r, sigma) <=> SP!Rejected(st, sigma)
  BY ReleasedActs, AutomataAgree DEF r
<1>6. PP!current_after(r, sigma) = no_thread /\ PP!no_state = SP!no_state
  BY DEF PP!current_after, PP!no_thread, no_thread, PP!no_state, SP!no_state
<1>7. r.threads = st.threads
  BY ReleasedStates DEF r
<1>8. PP!Executed(r, sigma) \in SP!States /\ PP!Terminated(r, sigma) \in SP!States
  <2>1. PP!StateOK(PP!Executed(r, sigma)) /\ PP!StateOK(PP!Terminated(r, sigma))
    BY <1>1, <1>2, PreemptiveAssumption, SymbolsAssumption, PP!SuccessorsOK
  <2>2. PP!States = SP!States
    BY AutomataAgree
  <2> QED
    BY <2>1, <2>2 DEF PP!States, PP!StateOK
<1>9. /\ Released(s) \in SP!States /\ Released(s).current = no_thread
      /\ Released(s).threads = s.threads /\ Released(s).locks = s.locks
      /\ Released(s).conditionals = s.conditionals /\ Released(s).conflicts = s.conflicts
      /\ Released(s).locksviolated = s.locksviolated
  BY <1>1, ReleasedStates
<1>10. CASE SP!CanExecute(st, sigma) /\ s = SP!Executed(st, sigma)
  <2>1. Released(s) = PP!Executed(r, sigma)
    BY <1>3, <1>4, <1>5, <1>6, <1>7, <1>8, <1>9, <1>10, SameState
  <2>2. PP!CanExecute(r, sigma)
    BY <1>5, <1>10 DEF SP!CanExecute, PP!CanExecute
  <2> QED
    BY <1>2, <2>1, <2>2 DEF PP!int_successors, r
<1>11. CASE SP!CanTerminate(st, sigma) /\ s = SP!Terminated(st, sigma)
  <2>1. Released(s) = PP!Terminated(r, sigma)
    BY <1>3, <1>4, <1>5, <1>6, <1>7, <1>8, <1>9, <1>11, SameState
  <2>2. PP!CanTerminate(r, sigma)
    BY <1>5, <1>11 DEF SP!CanTerminate, PP!CanTerminate, SP!CanExecute, PP!CanExecute
  <2> QED
    BY <1>2, <2>1, <2>2 DEF PP!int_successors, r
<1>12. CASE s = SP!Descheduled(st, sigma)
  <2>1. /\ s.threads = st.threads /\ s.current = no_thread /\ s.locks = st.locks
        /\ s.conditionals = st.conditionals
    BY <1>1, <1>12, SequentialAssumption, SymbolsAssumption, SP!StepPositions, SP!DescheduledFields
    DEF SP!no_thread, no_thread
  <2>2. s.conflicts = st.conflicts /\ s.locksviolated = st.locksviolated
    <3>1. st.conflicts = {} /\ SP!conflicts_after(st, sigma) = {}
          /\ SP!locksviolated_after(st, sigma) = st.locksviolated
      <4>1. st.conflicts = {}
        BY <1>1, SequentialAssumption, SymbolsAssumption, SP!NeverRejected
      <4> QED
        BY <4>1 DEF SP!conflicts_after, SP!locksviolated_after, SP!Observed, SP!Started, SP!Ticked
    <3> QED
      BY <1>1, <1>12, <3>1, SequentialAssumption, SymbolsAssumption, SP!DescheduledFields
  <2>3. /\ r.current = no_thread /\ r.locks = st.locks /\ r.conditionals = st.conditionals
        /\ r.conflicts = st.conflicts /\ r.locksviolated = st.locksviolated
    BY ReleasedStates DEF r
  <2>4. Released(s) = r
    BY <1>1, <1>7, <1>9, <2>1, <2>2, <2>3, SameState
  <2> QED
    BY <2>4 DEF r
<1> QED
  BY <1>10, <1>11, <1>12 DEF SP!int_successors

\* A deadlock without preemption is one with it.
LEMMA SameDeadlock ==
  ASSUME NEW st \in SP!States, st.current = no_thread, SP!is_deadlock(st)
  PROVE  PP!is_deadlock(st)
<1>1. /\ PP!int_next_symbols(st) = SP!int_next_symbols(st)
      /\ PP!int_is_final_state(st) <=> SP!int_is_final_state(st)
      /\ PP!one_assumes(st) <=> SP!one_assumes(st)
  BY AutomataAgree
<1>2. ASSUME NEW sigma \in SP!int_next_symbols(st) PROVE PP!int_successors(st, sigma) = {}
  <2>1. SP!int_successors(st, sigma) = {}
    BY DEF SP!is_deadlock
  <2>2. ~SP!CanExecute(st, sigma)
    BY <2>1 DEF SP!int_successors
  <2>3. ~PP!CanExecute(st, sigma) /\ ~PP!CanTerminate(st, sigma)
    BY <2>2, AutomataAgree DEF SP!CanExecute, PP!CanExecute, PP!CanTerminate
  <2>4. ~PP!CanDeschedule(st, sigma)
    BY DEF PP!CanDeschedule, PP!Deschedules, PP!MayYield, PP!no_thread, no_thread
  <2> QED
    BY <2>3, <2>4 DEF PP!int_successors
<1> QED
  BY <1>1, <1>2 DEF SP!is_deadlock, PP!is_deadlock

\* Whatever contains the initial state and the successors of all its states, with
\* preemption, contains a deadlock if the automaton without preemption has one.
LEMMA DeadlockRemains ==
  ASSUME SP!AutomatonOK, conflicts = {}, \A t \in Thread : Sequential!GivesWay(threads[t]),
         NEW symbols \in Seq(SP!symbol), NEW st, SP!LeadsTo(symbols, st), SP!is_deadlock(st),
         NEW R, PP!int_initial_state \in R, \A s \in R : PP!Followers(s) \subseteq R
  PROVE  \E s \in R : PP!is_deadlock(s)
<1>1. PICK run \in [Nat -> SP!States] : SP!Follows(run, symbols, st)
  BY DEF SP!LeadsTo
<1>2. \A t \in Thread : SP!GivesWay(threads[t])
  BY DEF Sequential!GivesWay, SP!GivesWay, Sequential!HasAction, SP!HasAction,
         Sequential!NullAction, SP!NullAction
<1>3. st \in SP!States /\ st.current = no_thread
  <2>1. st \in SP!States /\ st.current = SP!no_thread
    BY <1>2, SequentialAssumption, SymbolsAssumption, SP!NobodyRuns
  <2> QED
    BY <2>1 DEF SP!no_thread, no_thread
<1> DEFINE L == Len(symbols)
           S == {n \in Nat : n <= L => Released(run[n]) \in R}
<1>4. 0 \in S
  <2>1. run[0] = SP!int_initial_state
    BY <1>1 DEF SP!Follows
  <2>2. Released(SP!int_initial_state) = SP!int_initial_state
    <3>1. SP!int_initial_state \in SP!States
      BY SequentialAssumption, SymbolsAssumption, SP!InitialStates
    <3>2. SP!int_initial_state.current = no_thread
      BY DEF SP!int_initial_state, SP!no_thread, no_thread
    <3> QED
      BY <3>1, <3>2, ReleasedStates, SameState
  <2> QED
    BY <2>1, <2>2, AutomataAgree
<1>5. ASSUME NEW n \in Nat, n \in S PROVE n + 1 \in S
  <2>1. SUFFICES ASSUME n + 1 <= L PROVE Released(run[n + 1]) \in R
    OBVIOUS
  <2>2. n + 1 \in DOMAIN symbols /\ (n + 1) - 1 = n /\ n <= L
    BY <2>1
  <2>3. Released(run[n]) \in R /\ run[n] \in SP!States
    BY <1>5, <2>2
  <2>4. /\ symbols[n + 1] \in SP!int_next_symbols(run[n])
        /\ run[n + 1] \in SP!int_successors(run[n], symbols[n + 1])
    BY <1>1, <2>2 DEF SP!Follows
  <2>5. \/ Released(run[n + 1]) = Released(run[n])
        \/ /\ symbols[n + 1] \in PP!int_next_symbols(Released(run[n]))
           /\ Released(run[n + 1]) \in PP!int_successors(Released(run[n]), symbols[n + 1])
    BY <2>3, <2>4, ReleasedFollows
  <2> QED
    BY <2>3, <2>5 DEF PP!Followers
<1>6. Nat \subseteq S
  <2> HIDE DEF S
  <2> QED
    BY <1>4, <1>5, SequentialAssumption, SymbolsAssumption, SP!NatSetInduction
<1>7. Released(st) \in R
  <2>1. L \in Nat /\ run[L] = st
    BY <1>1 DEF SP!Follows
  <2> QED
    BY <1>6, <2>1
<1>8. Released(st) = st
  BY <1>3, ReleasedStates, SameState
<1> QED
  BY <1>3, <1>7, <1>8, SameDeadlock

----------------------------------------------------------------------------
(* The two searches                                                       *)

\* The automaton without preemption has a deadlock.
SequentialDeadlock ==
  \E symbols \in Seq(SP!symbol) : \E st : SP!LeadsTo(symbols, st) /\ SP!is_deadlock(st)

\* The inductive invariant: that of the search which is under way, and what the first
\* one left behind.
CheckInv ==
  /\ concurrent \in BOOLEAN
  /\ Sequential!Construct
  /\ ~concurrent => SP!SearchInv
  /\ concurrent => PP!SearchInv
  /\ concurrent /\ sequential_result.deadlock_found => SequentialDeadlock

\* It is about the automaton, which no step changes.
LEMMA SameSequentialDeadlock ==
  ASSUME UNCHANGED <<threads, conflicts, locks>>
  PROVE  SequentialDeadlock' <=> SequentialDeadlock
<1>1. UNCHANGED SP!automaton
  BY DEF SP!automaton
<1>2. /\ \A symbols, st : SP!LeadsTo(symbols, st)' <=> SP!LeadsTo(symbols, st)
      /\ \A st : SP!is_deadlock(st)' <=> SP!is_deadlock(st)
  BY <1>1, SequentialAssumption, SymbolsAssumption, SP!SameExecutions, SP!SameGraph
<1> QED
  BY <1>2 DEF SequentialDeadlock

\* Both automata are built from one program.
LEMMA SameConstructs == Sequential!Construct <=> PP!Construct
BY SequentialAutomaton, AutomataAgree DEF Sequential!Construct, SP!Construct

\* Nothing is built anew.
LEMMA SameConstruct ==
  ASSUME UNCHANGED <<threads, conflicts, locks>>
  PROVE  Sequential!Construct' <=> Sequential!Construct
BY DEF Sequential!Construct

\* The second search begins as any search does.
LEMMA PreemptiveBegins == PP!Init => PP!SearchInv
BY PreemptiveAssumption, SymbolsAssumption, PP!SearchBegins

\* The action begins with the first search.
LEMMA CheckBegins == Init => CheckInv
<1> SUFFICES ASSUME Init PROVE CheckInv
  OBVIOUS
<1>1. SP!Init /\ Sequential!Construct /\ concurrent = FALSE
  BY SequentialSearch DEF Init, Sequential!Init
<1>2. SP!SearchInv
  BY <1>1, SequentialAssumption, SymbolsAssumption, SP!SearchBegins
<1> QED
  BY <1>1, <1>2 DEF CheckInv

\* Each search keeps its invariant, and the second starts from a fresh one.
LEMMA CheckStep == CheckInv /\ [Next]_vars => CheckInv'
<1> SUFFICES ASSUME CheckInv, [Next]_vars PROVE CheckInv'
  OBVIOUS
<1>1. CASE SearchSequential
  <2>1. SP!Next /\ ~concurrent /\ concurrent' = concurrent
    BY <1>1, SequentialSearch DEF SearchSequential
  <2>2. SP!SearchInv'
    BY <2>1, SequentialAssumption, SymbolsAssumption, SP!SearchStep DEF CheckInv
  <2>3. UNCHANGED <<threads, conflicts, locks>>
    BY <2>1 DEF SP!Next, SP!Skip, SP!Expand, SP!ReportDeadlock, SP!ReportNone, SP!automaton
  <2> QED
    BY <2>1, <2>2, <2>3, SameConstruct DEF CheckInv
<1>2. CASE SearchPreemptive
  <2>1. /\ PP!Next /\ concurrent /\ concurrent' = concurrent
        /\ sequential_result' = sequential_result
    BY <1>2, PreemptiveSearch DEF SearchPreemptive
  <2>2. PP!SearchInv'
    BY <2>1, PreemptiveAssumption, SymbolsAssumption, PP!SearchStep DEF CheckInv
  <2>3. UNCHANGED <<threads, conflicts, locks>>
    BY <2>1 DEF PP!Next, PP!Skip, PP!Expand, PP!ReportDeadlock, PP!ReportNone, PP!automaton
  <2> QED
    BY <2>1, <2>2, <2>3, SameConstruct, SameSequentialDeadlock DEF CheckInv
<1>3. CASE TestConcurrent
  <2>1. /\ ~concurrent /\ ~running /\ concurrent' = TRUE /\ sequential_result' = result
        /\ UNCHANGED <<threads, conflicts, locks>>
    BY <1>3 DEF TestConcurrent
  <2>2. Sequential!Construct'
    BY <2>1, SameConstruct DEF CheckInv
  <2>3. PP!Init'
    <3>1. PP!Construct'
      BY <2>2, SameConstructs, PTL
    <3>2. /\ frontier' = <<[s |-> PP!int_initial_state, cex_chain |-> <<>>]>>
          /\ reachable' = {} /\ result' = PP!no_result /\ running' = TRUE
      BY <1>3, PreemptiveAutomaton
      DEF TestConcurrent, Preemptive!no_result, PP!no_result
    <3>3. PP!int_initial_state' = PP!int_initial_state /\ PP!no_result' = PP!no_result
      BY DEF PP!int_initial_state, PP!no_result
    <3> QED
      BY <3>1, <3>2, <3>3 DEF PP!Init
  <2>4. PP!SearchInv'
    BY <2>3, PreemptiveBegins, PTL
  <2>5. result.deadlock_found => SequentialDeadlock
    <3>1. SP!SearchInv
      BY <2>1 DEF CheckInv
    <3>2. result.deadlock_found => SP!Reported
      BY <3>1 DEF SP!SearchInv, SP!Searching, SP!no_result
    <3> QED
      BY <3>2 DEF SP!Reported, SequentialDeadlock
  <2> QED
    BY <2>1, <2>2, <2>4, <2>5, SameSequentialDeadlock DEF CheckInv
<1>4. CASE UNCHANGED vars
  <2>1. /\ UNCHANGED <<threads, conflicts, locks>> /\ UNCHANGED SP!vars /\ UNCHANGED PP!vars
        /\ concurrent' = concurrent /\ sequential_result' = sequential_result
    BY <1>4 DEF vars, search, SP!vars, PP!vars
  <2>2. ~concurrent => SP!SearchInv'
    BY <2>1, SequentialAssumption, SymbolsAssumption, SP!SearchStep DEF CheckInv
  <2>3. concurrent => PP!SearchInv'
    BY <2>1, PreemptiveAssumption, SymbolsAssumption, PP!SearchStep DEF CheckInv
  <2> QED
    BY <2>1, <2>2, <2>3, SameConstruct, SameSequentialDeadlock DEF CheckInv
<1> QED
  BY <1>1, <1>2, <1>3, <1>4 DEF Next

\* The searches of deadlock_check::run, one after the other, keep the invariant.
THEOREM CheckInvariant == Spec => []CheckInv
<1> QED
  BY CheckBegins, CheckStep, PTL DEF Spec

\* Both searches keep everything covered.
THEOREM BothCoverRest == Spec => []FrontierCoversRest
<1>1. CheckInv => FrontierCoversRest
  <2>1. SP!SearchInv => Sequential!FrontierCoversRest
    BY SequentialAssumption, SymbolsAssumption, SP!CoversRestInvariant, SequentialSearch
  <2>2. PP!SearchInv => Preemptive!FrontierCoversRest
    BY PreemptiveAssumption, SymbolsAssumption, PP!CoversRestInvariant, PreemptiveSearch
  <2> QED
    BY <2>1, <2>2 DEF CheckInv, FrontierCoversRest
<1> QED
  BY <1>1, CheckInvariant, PTL

\* Neither search misses a deadlock.
THEOREM NeitherMissesOne == Spec => []NoneMissed
<1>1. CheckInv => NoneMissed
  <2>1. SP!SearchInv => Sequential!NoneMissed
    BY SequentialAssumption, SymbolsAssumption, SP!NoneMissedInvariant, SequentialSearch
  <2>2. PP!SearchInv => Preemptive!NoneMissed
    BY PreemptiveAssumption, SymbolsAssumption, PP!NoneMissedInvariant, PreemptiveSearch
  <2> QED
    BY <2>1, <2>2 DEF CheckInv, NoneMissed
<1> QED
  BY <1>1, CheckInvariant, PTL

\* Both searches report executions to a deadlock, and shortest ones.
THEOREM BothReportShortest == Spec => []CounterexampleIsShortest
<1>1. CheckInv => CounterexampleIsShortest
  <2>1. SP!SearchInv => Sequential!CounterexampleIsShortest
    BY SequentialAssumption, SymbolsAssumption, SP!ShortestInvariant, SequentialSearch
  <2>2. PP!SearchInv => Preemptive!CounterexampleIsShortest
    BY PreemptiveAssumption, SymbolsAssumption, PP!ShortestInvariant, PreemptiveSearch
  <2> QED
    BY <2>1, <2>2 DEF CheckInv, CounterexampleIsShortest
<1> QED
  BY <1>1, CheckInvariant, PTL

\* The scheduler without preemption invents no deadlock, unless a thread keeps the
\* processor where it cannot go on.
THEOREM NoDeadlockInvented == Spec => []SequentialDeadlocksArePreemptive
<1>1. CheckInv => SequentialDeadlocksArePreemptive
  <2> SUFFICES ASSUME CheckInv, concurrent, ~running, sequential_result.deadlock_found,
                      \A t \in Thread : Sequential!GivesWay(threads[t]),
                      ~result.deadlock_found
               PROVE  FALSE
    BY DEF SequentialDeadlocksArePreemptive
  <2>1. PP!SearchInv /\ SequentialDeadlock /\ Sequential!Construct
    BY DEF CheckInv
  <2>2. PP!NoneMissed
    BY <2>1, PreemptiveAssumption, SymbolsAssumption, PP!NoneMissedInvariant
  <2>3. /\ PP!int_initial_state \in reachable
        /\ \A st \in reachable : PP!Followers(st) \subseteq reachable /\ ~PP!is_deadlock(st)
    BY <2>2 DEF PP!NoneMissed
  <2>4. conflicts = {}
    BY <2>1, NoConflicts
  <2>5. SP!AutomatonOK
    BY <2>1, AutomataAgree DEF PP!SearchInv, PP!SearchTypeOK
  <2>6. PICK symbols \in Seq(SP!symbol) : \E st : SP!LeadsTo(symbols, st) /\ SP!is_deadlock(st)
    BY <2>1 DEF SequentialDeadlock
  <2>7. PICK st : SP!LeadsTo(symbols, st) /\ SP!is_deadlock(st)
    BY <2>6
  <2> QED
    BY <2>3, <2>4, <2>5, <2>7, DeadlockRemains
<1> QED
  BY <1>1, CheckInvariant, PTL
=============================================================================
