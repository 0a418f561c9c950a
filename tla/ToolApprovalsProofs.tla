------------------------- MODULE ToolApprovalsProofs -------------------------
(***************************************************************************)
(* Proofs about the tool stream and its gate, for any set of runs and      *)
(* sessions and any number of gated calls of a run.                        *)
(***************************************************************************)
EXTENDS ToolApprovals, TLAPS

-----------------------------------------------------------------------------
(* The inductive invariant.                                                *)

\* A run is registered from the moment its handler enters it until its stream
\* is over.  Before that its event is clear and a cancel posted by its id is
\* in the stash, and only cancels that were posted are.
RegistryInv ==
  /\ registered = {r \in Runs : stream[r] \notin {"new", "ended"}}
  /\ stash \subseteq posted \cap wanted
  /\ \A r \in Runs :
       stream[r] = "new" => ~cancelEvent[r] /\ (r \in posted \ lapsed => r \in stash)
  /\ CancelsReachTheirRun

\* A loop that is past its first gated call's registration has a current call,
\* and one between the two ends of its wait, or in a tool, is in its thread.
PlaceInv ==
  \A r \in Runs :
    /\ loop[r] \in {"status", "start", "wait", "looked", "pop", "tool"} => calls[r] > 0
    /\ loop[r] \in {"wait", "looked", "pop", "tool"} => Running(r)

\* What was acknowledged is what the slot holds; an allowing verdict comes from
\* the slot, and any other that differs from it from a cancel or a timeout.
AnswerInv ==
  /\ \A a \in Calls :
       /\ told[a] = IF decision[a] = "none" THEN {} ELSE {decision[a]}
       /\ verdict[a] = "allow" => decision[a] = "allow"
       /\ verdict[a] \notin {"none", decision[a]} => cancelEvent[a[1]] \/ a \in tired
       /\ a \in ran => decision[a] = "allow"
  /\ \A r \in Runs : loop[r] = "pop" => verdict[Current(r)] \in Answers

IInv == TypeOK /\ RegistryInv /\ PlaceInv /\ SlotsAreWaitedFor /\ AnswerInv

-----------------------------------------------------------------------------
(* Lemmas.                                                                 *)

\* A run's own id finds that run and no other: no session has the id of a run.
LEMMA OwnBucket ==
  ASSUME NEW r \in Runs, registered \subseteq Runs
  PROVE  Bucket(r) = registered \cap {r}
BY SessionAssumption, KeysAssumption DEF Bucket

\* The current call of a loop that has made one is a call.
LEMMA CurrentCall ==
  ASSUME TypeOK, NEW r \in Runs, calls[r] > 0
  PROVE  Current(r) \in Calls
BY MaxCallsAssumption DEF TypeOK, Current, Calls

\* Setting events takes none back.
LEMMA EventsStay ==
  ASSUME NEW S, SetEvents(S)
  PROVE  \A a \in Calls : cancelEvent[a[1]] => cancelEvent'[a[1]]
BY DEF SetEvents, Calls

\* The initial states satisfy the invariant.
LEMMA InitInv == Init => IInv
BY MaxCallsAssumption
   DEF Init, RegistryInit, IInv, TypeOK, RegistryTypeOK, StreamPlaces, LoopPlaces, Calls,
       Answers, RegistryInv, CancelsReachTheirRun, NoLostCancel, NoGhostCancel, PlaceInv,
       SlotsAreWaitedFor, AtGate, AnswerInv

\* Every step keeps the variables in their types.
LEMMA TypeStep ==
  IInv /\ [Next]_vars => TypeOK'
<1> SUFFICES ASSUME IInv, [Next]_vars PROVE TypeOK'
  OBVIOUS
<1> USE MaxCallsAssumption
    DEF IInv, TypeOK, RegistryTypeOK, StreamPlaces, LoopPlaces, Calls, Answers,
              Current, registryVars, loopVars, gateVars, PlaceInv
<1>1. ASSUME NEW r \in Runs, Open(r) PROVE TypeOK'
  BY <1>1 DEF Open, Enter, SetEvents, StreamGoes
<1>2. ASSUME NEW r \in Runs, Unstarted(r) PROVE TypeOK'
  BY <1>2 DEF Unstarted, Exit, StreamGoes
<1>3. ASSUME NEW r \in Runs, Granted(r) PROVE TypeOK'
  BY <1>3 DEF Granted, StreamGoes
<1>4. ASSUME NEW r \in Runs, LoopOn(r) PROVE TypeOK'
  BY <1>4 DEF LoopOn, StreamGoes
<1>5. ASSUME NEW r \in Runs, Watch(r) PROVE TypeOK'
  BY <1>5 DEF Watch, SetEvents
<1>6. ASSUME NEW r \in Runs, Abandon(r) PROVE TypeOK'
  BY <1>6 DEF Abandon, SetEvents, StreamGoes
<1>7. ASSUME NEW r \in Runs, Close(r) PROVE TypeOK'
  BY <1>7 DEF Close, Dropped, LoopGoes, StreamGoes
<1>8. ASSUME NEW r \in Runs, Untrack(r) PROVE TypeOK'
  BY <1>8 DEF Untrack, Exit, StreamGoes
<1>9. ASSUME NEW r \in Runs, Complete(r) PROVE TypeOK'
  BY <1>9 DEF Complete, Exit, Dropped, LoopGoes, StreamGoes
<1>10. ASSUME NEW r \in Runs, Speak(r) PROVE TypeOK'
  BY <1>10 DEF Speak, Running, Yield, LoopGoes, StreamGoes
<1>11. ASSUME NEW r \in Runs, Begin(r) PROVE TypeOK'
  BY <1>11 DEF Begin, Running, Yield, LoopGoes, StreamGoes
<1>12. ASSUME NEW r \in Runs, Finish(r) PROVE TypeOK'
  BY <1>12 DEF Finish, Running, LoopGoes, StreamGoes
<1>13. ASSUME NEW r \in Runs, Raise(r) PROVE TypeOK'
  BY <1>13 DEF Raise, Running, SetEvents, LoopGoes, StreamGoes
<1>14. ASSUME NEW r \in Runs, Announce(r) PROVE TypeOK'
  BY <1>14 DEF Announce, Running, Yield, LoopGoes, StreamGoes
<1>15. ASSUME NEW r \in Runs, Woken(r) PROVE TypeOK'
  BY <1>15 DEF Woken, Running, LoopGoes
<1>16. ASSUME NEW r \in Runs, Unanswered(r) PROVE TypeOK'
  BY <1>16 DEF Unanswered, Running, LoopGoes
<1>17. ASSUME NEW r \in Runs, GiveUp(r) PROVE TypeOK'
  BY <1>17 DEF GiveUp, Running, LoopGoes
<1>18. ASSUME NEW r \in Runs, TimeOut(r) PROVE TypeOK'
  BY <1>18 DEF TimeOut, Running, LoopGoes
<1>19. ASSUME NEW r \in Runs, WaitOn(r) PROVE TypeOK'
  BY <1>19 DEF WaitOn, Running, LoopGoes
<1>20. ASSUME NEW r \in Runs, Decline(r) PROVE TypeOK'
  BY <1>20 DEF Decline, Running, Yield, LoopGoes, StreamGoes
<1>21. ASSUME NEW r \in Runs, Execute(r) PROVE TypeOK'
  BY <1>21 DEF Execute, Running, LoopGoes
<1>22. ASSUME NEW r \in Runs, ToolEnd(r) PROVE TypeOK'
  BY <1>22 DEF ToolEnd, Running, Yield, LoopGoes, StreamGoes
<1>23. ASSUME NEW a \in Calls, NEW answer \in Answers, NEW scope \in Scopes,
              Resolve(a, answer, scope)
      PROVE TypeOK'
  BY <1>23 DEF Resolve
<1>24. ASSUME NEW r \in Runs, CancelById(r),
              UNCHANGED <<stream, loopVars, gateVars, shown>>
      PROVE TypeOK'
  BY <1>24, OwnBucket DEF CancelById, SetEvents
<1>25. ASSUME NEW r \in Runs, Prune(r), UNCHANGED <<stream, loopVars, gateVars, shown>>
      PROVE TypeOK'
  BY <1>25 DEF Prune, RegistryInv
<1>26. ASSUME NEW k \in Runs \cup Sessions, CancelByKeys(k),
              UNCHANGED <<stream, loopVars, gateVars, shown>>
      PROVE TypeOK'
  BY <1>26 DEF CancelByKeys, SetEvents, Bucket
<1>27. CASE UNCHANGED vars
  BY <1>27 DEF vars
<1> HIDE DEF TypeOK, Calls, Answers, PlaceInv, IInv
<1>28. QED
  BY <1>1, <1>2, <1>3, <1>4, <1>5, <1>6, <1>7, <1>8, <1>9, <1>10, <1>11, <1>12,
     <1>13, <1>14, <1>15, <1>16, <1>17, <1>18, <1>19, <1>20, <1>21, <1>22, <1>23,
     <1>24, <1>25, <1>26, <1>27
     DEF Next, StreamStep, LoopStep, CancelPosted

\* Every step keeps the registry and the streams in line: a cancel reaches the
\* run it was meant for, and no other.
LEMMA RegistryStep ==
  IInv /\ [Next]_vars => RegistryInv'
<1> SUFFICES ASSUME IInv, [Next]_vars PROVE RegistryInv'
  OBVIOUS
<1> USE DEF IInv, TypeOK, RegistryTypeOK, registryVars, RegistryInv, CancelsReachTheirRun,
              NoLostCancel, NoGhostCancel
<1>1. ASSUME NEW r \in Runs, Open(r) PROVE RegistryInv'
  BY <1>1 DEF Open, Enter, SetEvents, StreamGoes
<1>2. ASSUME NEW r \in Runs, Unstarted(r) PROVE RegistryInv'
  BY <1>2 DEF Unstarted, Exit, StreamGoes
<1>3. ASSUME NEW r \in Runs, Granted(r) PROVE RegistryInv'
  BY <1>3 DEF Granted, StreamGoes
<1>4. ASSUME NEW r \in Runs, LoopOn(r) PROVE RegistryInv'
  BY <1>4 DEF LoopOn, StreamGoes
<1>5. ASSUME NEW r \in Runs, Watch(r) PROVE RegistryInv'
  BY <1>5 DEF Watch, SetEvents
<1>6. ASSUME NEW r \in Runs, Abandon(r) PROVE RegistryInv'
  BY <1>6 DEF Abandon, SetEvents, StreamGoes
<1>7. ASSUME NEW r \in Runs, Close(r) PROVE RegistryInv'
  BY <1>7 DEF Close, Dropped, LoopGoes, StreamGoes
<1>8. ASSUME NEW r \in Runs, Untrack(r) PROVE RegistryInv'
  BY <1>8 DEF Untrack, Exit, StreamGoes
<1>9. ASSUME NEW r \in Runs, Complete(r) PROVE RegistryInv'
  BY <1>9 DEF Complete, Exit, Dropped, LoopGoes, StreamGoes
<1>10. ASSUME NEW r \in Runs, Speak(r) PROVE RegistryInv'
  BY <1>10 DEF Speak, Running, Yield, LoopGoes, StreamGoes
<1>11. ASSUME NEW r \in Runs, Begin(r) PROVE RegistryInv'
  BY <1>11 DEF Begin, Running, Yield, LoopGoes, StreamGoes
<1>12. ASSUME NEW r \in Runs, Finish(r) PROVE RegistryInv'
  BY <1>12 DEF Finish, Running, LoopGoes, StreamGoes
<1>13. ASSUME NEW r \in Runs, Raise(r) PROVE RegistryInv'
  BY <1>13 DEF Raise, Running, SetEvents, LoopGoes, StreamGoes
<1>14. ASSUME NEW r \in Runs, Announce(r) PROVE RegistryInv'
  BY <1>14 DEF Announce, Running, Yield, LoopGoes, StreamGoes
<1>15. ASSUME NEW r \in Runs, Woken(r) PROVE RegistryInv'
  BY <1>15 DEF Woken, Running, LoopGoes
<1>16. ASSUME NEW r \in Runs, Unanswered(r) PROVE RegistryInv'
  BY <1>16 DEF Unanswered, Running, LoopGoes
<1>17. ASSUME NEW r \in Runs, GiveUp(r) PROVE RegistryInv'
  BY <1>17 DEF GiveUp, Running, LoopGoes
<1>18. ASSUME NEW r \in Runs, TimeOut(r) PROVE RegistryInv'
  BY <1>18 DEF TimeOut, Running, LoopGoes
<1>19. ASSUME NEW r \in Runs, WaitOn(r) PROVE RegistryInv'
  BY <1>19 DEF WaitOn, Running, LoopGoes
<1>20. ASSUME NEW r \in Runs, Decline(r) PROVE RegistryInv'
  BY <1>20 DEF Decline, Running, Yield, LoopGoes, StreamGoes
<1>21. ASSUME NEW r \in Runs, Execute(r) PROVE RegistryInv'
  BY <1>21 DEF Execute, Running, LoopGoes
<1>22. ASSUME NEW r \in Runs, ToolEnd(r) PROVE RegistryInv'
  BY <1>22 DEF ToolEnd, Running, Yield, LoopGoes, StreamGoes
<1>23. ASSUME NEW a \in Calls, NEW answer \in Answers, NEW scope \in Scopes,
              Resolve(a, answer, scope)
      PROVE RegistryInv'
  BY <1>23 DEF Resolve
<1>24. ASSUME NEW r \in Runs, CancelById(r),
              UNCHANGED <<stream, loopVars, gateVars, shown>>
      PROVE RegistryInv'
  <2>1. Bucket(r) = registered \cap {r}
    BY OwnBucket
  <2>2. \A q \in Runs : cancelEvent'[q] <=> cancelEvent[q] \/ q \in registered \cap {r}
    BY <1>24, <2>1 DEF CancelById, SetEvents
  <2>3. stash' = IF r \in registered THEN stash ELSE stash \cup {r}
    BY <1>24, <2>1 DEF CancelById
  <2>4. /\ posted' = posted \cup {r} /\ lapsed' = lapsed \ {r} /\ wanted' = wanted \cup {r}
        /\ registered' = registered /\ stream' = stream
    BY <1>24 DEF CancelById
  <2>5. registered' = {q \in Runs : stream'[q] \notin {"new", "ended"}}
    BY <2>4
  <2>6. stash' \subseteq posted' \cap wanted'
    BY <2>3, <2>4
  <2>7. ASSUME NEW q \in Runs, stream'[q] = "new"
        PROVE  ~cancelEvent'[q] /\ (q \in posted' \ lapsed' => q \in stash')
    BY <2>2, <2>3, <2>4, <2>7
  <2>8. CancelsReachTheirRun'
    BY <2>2, <2>4
  <2>9. QED
    BY <2>5, <2>6, <2>7, <2>8
<1>25. ASSUME NEW r \in Runs, Prune(r), UNCHANGED <<stream, loopVars, gateVars, shown>>
      PROVE RegistryInv'
  BY <1>25 DEF Prune
<1>26. ASSUME NEW k \in Runs \cup Sessions, CancelByKeys(k),
              UNCHANGED <<stream, loopVars, gateVars, shown>>
      PROVE RegistryInv'
  BY <1>26 DEF CancelByKeys, SetEvents, Bucket
<1>27. CASE UNCHANGED vars
  BY <1>27 DEF vars
<1>28. QED
  BY <1>1, <1>2, <1>3, <1>4, <1>5, <1>6, <1>7, <1>8, <1>9, <1>10, <1>11, <1>12,
     <1>13, <1>14, <1>15, <1>16, <1>17, <1>18, <1>19, <1>20, <1>21, <1>22, <1>23,
     <1>24, <1>25, <1>26, <1>27
     DEF Next, StreamStep, LoopStep, CancelPosted

\* Every step keeps a waiting loop in its thread.
LEMMA PlaceStep ==
  IInv /\ [Next]_vars => PlaceInv'
<1> SUFFICES ASSUME IInv, [Next]_vars PROVE PlaceInv'
  OBVIOUS
<1> USE DEF IInv, TypeOK, RegistryTypeOK, StreamPlaces, LoopPlaces, PlaceInv, Running, loopVars
<1>1. ASSUME NEW r \in Runs, Open(r) PROVE PlaceInv'
  BY <1>1 DEF Open, Enter, SetEvents, StreamGoes
<1>2. ASSUME NEW r \in Runs, Unstarted(r) PROVE PlaceInv'
  BY <1>2 DEF Unstarted, Exit, StreamGoes
<1>3. ASSUME NEW r \in Runs, Granted(r) PROVE PlaceInv'
  BY <1>3 DEF Granted, StreamGoes
<1>4. ASSUME NEW r \in Runs, LoopOn(r) PROVE PlaceInv'
  BY <1>4 DEF LoopOn, StreamGoes
<1>5. ASSUME NEW r \in Runs, Watch(r) PROVE PlaceInv'
  BY <1>5 DEF Watch, SetEvents
<1>6. ASSUME NEW r \in Runs, Abandon(r) PROVE PlaceInv'
  BY <1>6 DEF Abandon, SetEvents, StreamGoes
<1>7. ASSUME NEW r \in Runs, Close(r) PROVE PlaceInv'
  BY <1>7 DEF Close, Dropped, LoopGoes, StreamGoes
<1>8. ASSUME NEW r \in Runs, Untrack(r) PROVE PlaceInv'
  BY <1>8 DEF Untrack, Exit, StreamGoes
<1>9. ASSUME NEW r \in Runs, Complete(r) PROVE PlaceInv'
  BY <1>9 DEF Complete, Exit, Dropped, LoopGoes, StreamGoes
<1>10. ASSUME NEW r \in Runs, Speak(r) PROVE PlaceInv'
  BY <1>10 DEF Speak, Running, Yield, LoopGoes, StreamGoes
<1>11. ASSUME NEW r \in Runs, Begin(r) PROVE PlaceInv'
  BY <1>11 DEF Begin, Running, Yield, LoopGoes, StreamGoes
<1>12. ASSUME NEW r \in Runs, Finish(r) PROVE PlaceInv'
  BY <1>12 DEF Finish, Running, LoopGoes, StreamGoes
<1>13. ASSUME NEW r \in Runs, Raise(r) PROVE PlaceInv'
  BY <1>13 DEF Raise, Running, SetEvents, LoopGoes, StreamGoes
<1>14. ASSUME NEW r \in Runs, Announce(r) PROVE PlaceInv'
  BY <1>14 DEF Announce, Running, Yield, LoopGoes, StreamGoes
<1>15. ASSUME NEW r \in Runs, Woken(r) PROVE PlaceInv'
  BY <1>15 DEF Woken, Running, LoopGoes
<1>16. ASSUME NEW r \in Runs, Unanswered(r) PROVE PlaceInv'
  BY <1>16 DEF Unanswered, Running, LoopGoes
<1>17. ASSUME NEW r \in Runs, GiveUp(r) PROVE PlaceInv'
  BY <1>17 DEF GiveUp, Running, LoopGoes
<1>18. ASSUME NEW r \in Runs, TimeOut(r) PROVE PlaceInv'
  BY <1>18 DEF TimeOut, Running, LoopGoes
<1>19. ASSUME NEW r \in Runs, WaitOn(r) PROVE PlaceInv'
  BY <1>19 DEF WaitOn, Running, LoopGoes
<1>20. ASSUME NEW r \in Runs, Decline(r) PROVE PlaceInv'
  BY <1>20 DEF Decline, Running, Yield, LoopGoes, StreamGoes
<1>21. ASSUME NEW r \in Runs, Execute(r) PROVE PlaceInv'
  BY <1>21 DEF Execute, Running, LoopGoes
<1>22. ASSUME NEW r \in Runs, ToolEnd(r) PROVE PlaceInv'
  BY <1>22 DEF ToolEnd, Running, Yield, LoopGoes, StreamGoes
<1>23. ASSUME NEW a \in Calls, NEW answer \in Answers, NEW scope \in Scopes,
              Resolve(a, answer, scope)
      PROVE PlaceInv'
  BY <1>23 DEF Resolve
<1>24. ASSUME NEW r \in Runs, CancelById(r),
              UNCHANGED <<stream, loopVars, gateVars, shown>>
      PROVE PlaceInv'
  BY <1>24, OwnBucket DEF CancelById, SetEvents
<1>25. ASSUME NEW r \in Runs, Prune(r), UNCHANGED <<stream, loopVars, gateVars, shown>>
      PROVE PlaceInv'
  BY <1>25 DEF Prune
<1>26. ASSUME NEW k \in Runs \cup Sessions, CancelByKeys(k),
              UNCHANGED <<stream, loopVars, gateVars, shown>>
      PROVE PlaceInv'
  BY <1>26 DEF CancelByKeys, SetEvents, Bucket
<1>27. CASE UNCHANGED vars
  BY <1>27 DEF vars
<1>28. QED
  BY <1>1, <1>2, <1>3, <1>4, <1>5, <1>6, <1>7, <1>8, <1>9, <1>10, <1>11, <1>12,
     <1>13, <1>14, <1>15, <1>16, <1>17, <1>18, <1>19, <1>20, <1>21, <1>22, <1>23,
     <1>24, <1>25, <1>26, <1>27
     DEF Next, StreamStep, LoopStep, CancelPosted

\* Every step keeps the slots in line with the loops.
LEMMA GateStep ==
  IInv /\ [Next]_vars => SlotsAreWaitedFor'
<1> SUFFICES ASSUME IInv, [Next]_vars PROVE SlotsAreWaitedFor'
  OBVIOUS
<1> USE DEF IInv, TypeOK, PlaceInv, Running, SlotsAreWaitedFor, AtGate, Current, Calls,
              loopVars, gateVars
<1>1. ASSUME NEW r \in Runs, Open(r) PROVE SlotsAreWaitedFor'
  BY <1>1 DEF Open, Enter, SetEvents, StreamGoes
<1>2. ASSUME NEW r \in Runs, Unstarted(r) PROVE SlotsAreWaitedFor'
  BY <1>2 DEF Unstarted, Exit, StreamGoes
<1>3. ASSUME NEW r \in Runs, Granted(r) PROVE SlotsAreWaitedFor'
  BY <1>3 DEF Granted, StreamGoes
<1>4. ASSUME NEW r \in Runs, LoopOn(r) PROVE SlotsAreWaitedFor'
  BY <1>4 DEF LoopOn, StreamGoes
<1>5. ASSUME NEW r \in Runs, Watch(r) PROVE SlotsAreWaitedFor'
  BY <1>5 DEF Watch, SetEvents
<1>6. ASSUME NEW r \in Runs, Abandon(r) PROVE SlotsAreWaitedFor'
  BY <1>6 DEF Abandon, SetEvents, StreamGoes
<1>7. ASSUME NEW r \in Runs, Close(r) PROVE SlotsAreWaitedFor'
  BY <1>7 DEF Close, Dropped, LoopGoes, StreamGoes
<1>8. ASSUME NEW r \in Runs, Untrack(r) PROVE SlotsAreWaitedFor'
  BY <1>8 DEF Untrack, Exit, StreamGoes
<1>9. ASSUME NEW r \in Runs, Complete(r) PROVE SlotsAreWaitedFor'
  BY <1>9 DEF Complete, Exit, Dropped, LoopGoes, StreamGoes
<1>10. ASSUME NEW r \in Runs, Speak(r) PROVE SlotsAreWaitedFor'
  BY <1>10 DEF Speak, Running, Yield, LoopGoes, StreamGoes
<1>11. ASSUME NEW r \in Runs, Begin(r) PROVE SlotsAreWaitedFor'
  BY <1>11 DEF Begin, Running, Yield, LoopGoes, StreamGoes
<1>12. ASSUME NEW r \in Runs, Finish(r) PROVE SlotsAreWaitedFor'
  BY <1>12 DEF Finish, Running, LoopGoes, StreamGoes
<1>13. ASSUME NEW r \in Runs, Raise(r) PROVE SlotsAreWaitedFor'
  BY <1>13 DEF Raise, Running, SetEvents, LoopGoes, StreamGoes
<1>14. ASSUME NEW r \in Runs, Announce(r) PROVE SlotsAreWaitedFor'
  BY <1>14 DEF Announce, Running, Yield, LoopGoes, StreamGoes
<1>15. ASSUME NEW r \in Runs, Woken(r) PROVE SlotsAreWaitedFor'
  BY <1>15 DEF Woken, Running, LoopGoes
<1>16. ASSUME NEW r \in Runs, Unanswered(r) PROVE SlotsAreWaitedFor'
  BY <1>16 DEF Unanswered, Running, LoopGoes
<1>17. ASSUME NEW r \in Runs, GiveUp(r) PROVE SlotsAreWaitedFor'
  BY <1>17 DEF GiveUp, Running, LoopGoes
<1>18. ASSUME NEW r \in Runs, TimeOut(r) PROVE SlotsAreWaitedFor'
  BY <1>18 DEF TimeOut, Running, LoopGoes
<1>19. ASSUME NEW r \in Runs, WaitOn(r) PROVE SlotsAreWaitedFor'
  BY <1>19 DEF WaitOn, Running, LoopGoes
<1>20. ASSUME NEW r \in Runs, Decline(r) PROVE SlotsAreWaitedFor'
  BY <1>20 DEF Decline, Running, Yield, LoopGoes, StreamGoes
<1>21. ASSUME NEW r \in Runs, Execute(r) PROVE SlotsAreWaitedFor'
  BY <1>21 DEF Execute, Running, LoopGoes
<1>22. ASSUME NEW r \in Runs, ToolEnd(r) PROVE SlotsAreWaitedFor'
  BY <1>22 DEF ToolEnd, Running, Yield, LoopGoes, StreamGoes
<1>23. ASSUME NEW a \in Calls, NEW answer \in Answers, NEW scope \in Scopes,
              Resolve(a, answer, scope)
      PROVE SlotsAreWaitedFor'
  BY <1>23 DEF Resolve
<1>24. ASSUME NEW r \in Runs, CancelById(r),
              UNCHANGED <<stream, loopVars, gateVars, shown>>
      PROVE SlotsAreWaitedFor'
  BY <1>24, OwnBucket DEF CancelById, SetEvents
<1>25. ASSUME NEW r \in Runs, Prune(r), UNCHANGED <<stream, loopVars, gateVars, shown>>
      PROVE SlotsAreWaitedFor'
  BY <1>25 DEF Prune
<1>26. ASSUME NEW k \in Runs \cup Sessions, CancelByKeys(k),
              UNCHANGED <<stream, loopVars, gateVars, shown>>
      PROVE SlotsAreWaitedFor'
  BY <1>26 DEF CancelByKeys, SetEvents, Bucket
<1>27. CASE UNCHANGED vars
  BY <1>27 DEF vars
<1>28. QED
  BY <1>1, <1>2, <1>3, <1>4, <1>5, <1>6, <1>7, <1>8, <1>9, <1>10, <1>11, <1>12,
     <1>13, <1>14, <1>15, <1>16, <1>17, <1>18, <1>19, <1>20, <1>21, <1>22, <1>23,
     <1>24, <1>25, <1>26, <1>27
     DEF Next, StreamStep, LoopStep, CancelPosted

\* Every step keeps the answers, the verdicts and the tools in line.
LEMMA AnswerStep ==
  IInv /\ [Next]_vars => AnswerInv'
<1> SUFFICES ASSUME IInv, [Next]_vars PROVE AnswerInv'
  OBVIOUS
<1> USE CurrentCall
    DEF IInv, TypeOK, RegistryTypeOK, PlaceInv, AnswerInv, Answers, Current,
        registryVars, loopVars,
              gateVars
<1>1. ASSUME NEW r \in Runs, Open(r) PROVE AnswerInv'
  BY <1>1, EventsStay DEF Open, Enter, StreamGoes
<1>2. ASSUME NEW r \in Runs, Unstarted(r) PROVE AnswerInv'
  BY <1>2 DEF Unstarted, Exit, StreamGoes
<1>3. ASSUME NEW r \in Runs, Granted(r) PROVE AnswerInv'
  BY <1>3 DEF Granted, StreamGoes
<1>4. ASSUME NEW r \in Runs, LoopOn(r) PROVE AnswerInv'
  BY <1>4 DEF LoopOn, StreamGoes
<1>5. ASSUME NEW r \in Runs, Watch(r) PROVE AnswerInv'
  BY <1>5, EventsStay DEF Watch
<1>6. ASSUME NEW r \in Runs, Abandon(r) PROVE AnswerInv'
  BY <1>6, EventsStay DEF Abandon, StreamGoes
<1>7. ASSUME NEW r \in Runs, Close(r) PROVE AnswerInv'
  BY <1>7 DEF Close, Dropped, LoopGoes, StreamGoes
<1>8. ASSUME NEW r \in Runs, Untrack(r) PROVE AnswerInv'
  BY <1>8 DEF Untrack, Exit, StreamGoes
<1>9. ASSUME NEW r \in Runs, Complete(r) PROVE AnswerInv'
  BY <1>9 DEF Complete, Exit, Dropped, LoopGoes, StreamGoes
<1>10. ASSUME NEW r \in Runs, Speak(r) PROVE AnswerInv'
  BY <1>10 DEF Speak, Running, Yield, LoopGoes, StreamGoes
<1>11. ASSUME NEW r \in Runs, Begin(r) PROVE AnswerInv'
  BY <1>11 DEF Begin, Running, Yield, LoopGoes, StreamGoes
<1>12. ASSUME NEW r \in Runs, Finish(r) PROVE AnswerInv'
  BY <1>12 DEF Finish, Running, LoopGoes, StreamGoes
<1>13. ASSUME NEW r \in Runs, Raise(r) PROVE AnswerInv'
  BY <1>13, EventsStay DEF Raise, Running, LoopGoes, StreamGoes
<1>14. ASSUME NEW r \in Runs, Announce(r) PROVE AnswerInv'
  BY <1>14 DEF Announce, Running, Yield, LoopGoes, StreamGoes
<1>15. ASSUME NEW r \in Runs, Woken(r) PROVE AnswerInv'
  BY <1>15 DEF Woken, Running, LoopGoes
<1>16. ASSUME NEW r \in Runs, Unanswered(r) PROVE AnswerInv'
  BY <1>16 DEF Unanswered, Running, LoopGoes
<1>17. ASSUME NEW r \in Runs, GiveUp(r) PROVE AnswerInv'
  BY <1>17 DEF GiveUp, Running, LoopGoes
<1>18. ASSUME NEW r \in Runs, TimeOut(r) PROVE AnswerInv'
  BY <1>18 DEF TimeOut, Running, LoopGoes
<1>19. ASSUME NEW r \in Runs, WaitOn(r) PROVE AnswerInv'
  BY <1>19 DEF WaitOn, Running, LoopGoes
<1>20. ASSUME NEW r \in Runs, Decline(r) PROVE AnswerInv'
  BY <1>20 DEF Decline, Running, Yield, LoopGoes, StreamGoes
<1>21. ASSUME NEW r \in Runs, Execute(r) PROVE AnswerInv'
  BY <1>21 DEF Execute, Running, LoopGoes
<1>22. ASSUME NEW r \in Runs, ToolEnd(r) PROVE AnswerInv'
  BY <1>22 DEF ToolEnd, Running, Yield, LoopGoes, StreamGoes
<1>23. ASSUME NEW a \in Calls, NEW answer \in Answers, NEW scope \in Scopes,
              Resolve(a, answer, scope)
      PROVE AnswerInv'
  BY <1>23 DEF Resolve
<1>24. ASSUME NEW r \in Runs, CancelById(r),
              UNCHANGED <<stream, loopVars, gateVars, shown>>
      PROVE AnswerInv'
  BY <1>24, EventsStay DEF CancelById
<1>25. ASSUME NEW r \in Runs, Prune(r), UNCHANGED <<stream, loopVars, gateVars, shown>>
      PROVE AnswerInv'
  BY <1>25 DEF Prune
<1>26. ASSUME NEW k \in Runs \cup Sessions, CancelByKeys(k),
              UNCHANGED <<stream, loopVars, gateVars, shown>>
      PROVE AnswerInv'
  BY <1>26, EventsStay DEF CancelByKeys
<1>27. CASE UNCHANGED vars
  BY <1>27 DEF vars
<1>28. QED
  BY <1>1, <1>2, <1>3, <1>4, <1>5, <1>6, <1>7, <1>8, <1>9, <1>10, <1>11, <1>12,
     <1>13, <1>14, <1>15, <1>16, <1>17, <1>18, <1>19, <1>20, <1>21, <1>22, <1>23,
     <1>24, <1>25, <1>26, <1>27
     DEF Next, StreamStep, LoopStep, CancelPosted

-----------------------------------------------------------------------------
(* The theorems.                                                           *)

\* The invariant holds of every behaviour of the stream, the loop and the
\* registry.
THEOREM InvariantHolds == Spec => []IInv
<1>1. IInv /\ [Next]_vars => IInv'
  BY TypeStep, RegistryStep, PlaceStep, GateStep, AnswerStep DEF IInv
<1>2. QED
  BY InitInv, <1>1, PTL DEF Spec

\* The variables keep their types, whatever the runs, the cancels and the
\* user's answers do.
THEOREM TypeCorrect == Spec => []TypeOK
<1>1. IInv => TypeOK
  BY DEF IInv
<1>2. QED
  BY InvariantHolds, <1>1, PTL

\* POST /inference/cancel reaches a run by its own id, posted before its
\* registration or after, and a run that nobody wanted cancelled is not: for
\* any number of runs of any sessions.
THEOREM CancelIsExact == Spec => []CancelsReachTheirRun
<1>1. IInv => CancelsReachTheirRun
  BY DEF IInv, RegistryInv
<1>2. QED
  BY InvariantHolds, <1>1, PTL

\* The registered slots of state/tool_approvals.py are those of the calls
\* whose loop is at its gate, wherever a stream was abandoned.
THEOREM NoSlotIsLost == Spec => []SlotsAreWaitedFor
<1>1. IInv => SlotsAreWaitedFor
  BY DEF IInv
<1>2. QED
  BY InvariantHolds, <1>1, PTL

\* No tool runs without its own call's acknowledged permission, and an
\* acknowledged answer is the one acted on unless the run was cancelled or the
\* wait timed out.
THEOREM ApprovalDecides == Spec => []AnswersDecide
<1>1. IInv => AnswersDecide
  BY DEF IInv, TypeOK, AnswerInv, AnswersDecide, RunsOnlyApproved, AnswerStands
<1>2. QED
  BY InvariantHolds, <1>1, PTL
=============================================================================
