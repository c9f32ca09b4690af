------------------------ MODULE ProcessManagerProofs ------------------------
(* Theorems about ProcessManager for any number of calls and any capacity. *)
EXTENDS ProcessManager, FiniteSetTheorems, TLAPS

\* A manager without sessions satisfies the inductive invariant.
LEMMA InitInv == Init => ManagerInv
<1> SUFFICES ASSUME Init PROVE ManagerInv OBVIOUS
<1> USE DEF Init, Outside, Alive, Before, Underway, After, Goroutine, Drained, WorkersEnded
<1>1. TypeOK
  <2>1. finished \in Seq(Runs) OBVIOUS
  <2>2. pc \in [Runs -> {"idle"}] /\ outcome \in [Runs -> {"none"}] /\ proc \in [Runs -> {"none"}]
    OBVIOUS
  <2>3. /\ watcher \in [Runs -> Goroutine] /\ lifetime \in [Runs -> Goroutine]
        /\ keeper \in [Runs -> {"none"}]
    OBVIOUS
  <2> QED BY <2>1, <2>2, <2>3 DEF TypeOK
<1>2. CallPhases BY DEF CallPhases
<1>3. GoroutinePhases BY DEF GoroutinePhases
<1>4. SessionsCoverProcesses /\ ClosePhases /\ HandedOffIsDetached
  BY DEF SessionsCoverProcesses, ClosePhases, HandedOffIsDetached
<1> QED BY <1>1, <1>2, <1>3, <1>4 DEF ManagerInv

\* Every step of a call, of a goroutine and of Close keeps the types.
LEMMA TypeStep == TypeOK /\ [Next]_vars => TypeOK'
<1> SUFFICES ASSUME TypeOK, [Next]_vars PROVE TypeOK' OBVIOUS
<1> USE DEF TypeOK, Outside, Alive, Goroutine, vars, goroutines, shutdown, Goto, Finish, Kill
<1>1. ASSUME NEW r \in Runs, Call(r) PROVE TypeOK'
  <2>1. CASE Admit(r) BY <2>1 DEF Admit, Oldest
  <2>2. CASE LaunchFails(r) BY <2>2 DEF LaunchFails
  <2>3. CASE Launch(r) BY <2>3 DEF Launch
  <2>4. CASE Register(r) BY <2>4 DEF Register
  <2>5. CASE Feed(r) BY <2>5 DEF Feed
  <2>6. CASE FeedFails(r) BY <2>6 DEF FeedFails, Abandon
  <2>7. CASE WaitInterrupted(r) BY <2>7 DEF WaitInterrupted, Abandon
  <2>8. CASE WaitDone(r) BY <2>8 DEF WaitDone
  <2>9. CASE Yield(r) BY <2>9 DEF Yield
  <2>10. CASE HandOff(r) BY <2>10 DEF HandOff, Abandon
  <2>11. CASE ReadInitial(r) BY <2>11 DEF ReadInitial
  <2>12. CASE Collect(r) BY <2>12 DEF Collect
  <2>13. CASE Leave(r) BY <2>13 DEF Leave
  <2> QED BY <1>1, <2>1, <2>2, <2>3, <2>4, <2>5, <2>6, <2>7, <2>8, <2>9, <2>10, <2>11, <2>12, <2>13 DEF Call
<1>2. ASSUME NEW r \in Runs, Session(r) PROVE TypeOK'
  <2>1. CASE WatcherFires(r) BY <2>1 DEF WatcherFires
  <2>2. CASE WatcherKills(r) BY <2>2 DEF WatcherKills
  <2>3. CASE WatcherEnds(r) BY <2>3 DEF WatcherEnds
  <2>4. CASE LifetimeFires(r) BY <2>4 DEF LifetimeFires
  <2>5. CASE LifetimeKills(r) BY <2>5 DEF LifetimeKills
  <2>6. CASE Exit(r) BY <2>6 DEF Exit
  <2>7. CASE Settle(r) BY <2>7 DEF Settle
  <2>8. CASE KeeperEnds(r) BY <2>8 DEF KeeperEnds
  <2> QED BY <1>2, <2>1, <2>2, <2>3, <2>4, <2>5, <2>6, <2>7, <2>8 DEF Session
<1>3. ASSUME NEW r \in Runs, CancelCall(r) PROVE TypeOK' BY <1>3 DEF CancelCall
<1>4. ASSUME NEW r \in Runs, ContinueTerminate(r) PROVE TypeOK' BY <1>4 DEF ContinueTerminate
<1>5. CASE ContextEnds BY <1>5 DEF ContextEnds
<1>6. CASE CloseBegin BY <1>6 DEF CloseBegin
<1>7. CASE CloseAll BY <1>7 DEF CloseAll
<1>8. CASE CloseEnd BY <1>8 DEF CloseEnd
<1>9. CASE UNCHANGED vars BY <1>9
<1> QED BY <1>1, <1>2, <1>3, <1>4, <1>5, <1>6, <1>7, <1>8, <1>9 DEF Next

\* Every step keeps what the phases of a call imply for its process and goroutines.
LEMMA InvStep == ManagerInv /\ [Next]_vars => ManagerInv'
<1> SUFFICES ASSUME ManagerInv, [Next]_vars PROVE ManagerInv' OBVIOUS
<1>0. TypeOK /\ TypeOK' BY TypeStep DEF ManagerInv
<1> USE <1>0 DEF TypeOK, ManagerInv, CallPhases, GoroutinePhases, SessionsCoverProcesses,
            ClosePhases, HandedOffIsDetached, Outside, Alive, Before, Underway, After,
            Goroutine, Drained, WorkersEnded, vars, goroutines, shutdown, Goto, Finish,
            Kill, Retired, Interrupted
<1>1. ASSUME NEW r \in Runs, Call(r) PROVE ManagerInv'
  <2>1. CASE Admit(r) BY <2>1 DEF Admit, Oldest, Evictable
  <2>2. CASE LaunchFails(r) BY <2>2 DEF LaunchFails
  <2>3. CASE Launch(r) BY <2>3 DEF Launch
  <2>4. CASE Register(r) BY <2>4 DEF Register
  <2>5. CASE Feed(r) BY <2>5 DEF Feed
  <2>6. CASE FeedFails(r) BY <2>6 DEF FeedFails, Abandon
  <2>7. CASE WaitInterrupted(r) BY <2>7 DEF WaitInterrupted, Abandon
  <2>8. CASE WaitDone(r) BY <2>8 DEF WaitDone
  <2>9. CASE Yield(r) BY <2>9 DEF Yield
  <2>10. CASE HandOff(r) BY <2>10 DEF HandOff, Abandon
  <2>11. CASE ReadInitial(r) BY <2>11 DEF ReadInitial
  <2>12. CASE Collect(r) BY <2>12 DEF Collect
  <2>13. CASE Leave(r) BY <2>13 DEF Leave
  <2> QED BY <1>1, <2>1, <2>2, <2>3, <2>4, <2>5, <2>6, <2>7, <2>8, <2>9, <2>10, <2>11, <2>12, <2>13 DEF Call
<1>2. ASSUME NEW r \in Runs, Session(r) PROVE ManagerInv'
  <2>1. CASE WatcherFires(r) BY <2>1 DEF WatcherFires
  <2>2. CASE WatcherKills(r) BY <2>2 DEF WatcherKills
  <2>3. CASE WatcherEnds(r) BY <2>3 DEF WatcherEnds
  <2>4. CASE LifetimeFires(r) BY <2>4 DEF LifetimeFires
  <2>5. CASE LifetimeKills(r) BY <2>5 DEF LifetimeKills
  <2>6. CASE Exit(r) BY <2>6 DEF Exit
  <2>7. CASE Settle(r) BY <2>7 DEF Settle
  <2>8. CASE KeeperEnds(r) BY <2>8 DEF KeeperEnds
  <2> QED BY <1>2, <2>1, <2>2, <2>3, <2>4, <2>5, <2>6, <2>7, <2>8 DEF Session
<1>3. ASSUME NEW r \in Runs, CancelCall(r) PROVE ManagerInv' BY <1>3 DEF CancelCall
<1>4. ASSUME NEW r \in Runs, ContinueTerminate(r) PROVE ManagerInv' BY <1>4 DEF ContinueTerminate
<1>5. CASE ContextEnds BY <1>5 DEF ContextEnds
<1>6. CASE CloseBegin BY <1>6 DEF CloseBegin
<1>7. CASE CloseAll BY <1>7 DEF CloseAll
<1>8. CASE CloseEnd BY <1>8 DEF CloseEnd
<1>9. CASE UNCHANGED vars BY <1>9
<1> QED BY <1>1, <1>2, <1>3, <1>4, <1>5, <1>6, <1>7, <1>8, <1>9 DEF Next

\* The phases of calls, goroutines and shutdown fit together (process.go, every method).
THEOREM Invariance == Spec => []ManagerInv
  BY InitInv, InvStep, PTL DEF Spec

\* Until a process is settled its call is in progress or its session id finds it.
THEOREM ProcessesReachable == Spec => []LiveProcessIsReachable
<1>1. ManagerInv => LiveProcessIsReachable
  BY DEF ManagerInv, TypeOK, CallPhases, SessionsCoverProcesses, LiveProcessIsReachable,
         Outside, Alive, Before, After
<1> QED BY <1>1, Invariance, PTL

\* A session that was handed to its caller outlives the request that started it.
THEOREM HandedOffDetached == Spec => []HandedOffIsDetached
<1>1. ManagerInv => HandedOffIsDetached BY DEF ManagerInv
<1> QED BY <1>1, Invariance, PTL

\* When Close returns nothing the manager ever started is left.
THEOREM CloseJoins == Spec => []CloseLeavesNothing
<1>1. ManagerInv => CloseLeavesNothing
  BY DEF ManagerInv, TypeOK, CallPhases, GoroutinePhases, SessionsCoverProcesses,
         ClosePhases, CloseLeavesNothing, Drained, WorkersEnded, Outside, Alive, Before,
         After
<1> QED BY <1>1, Invariance, PTL

\* A reservation becomes a session and an evicted session makes room for one.
LEMMA CapacityStep == ManagerInv /\ CapacityRespected /\ [Next]_vars => CapacityRespected'
<1> SUFFICES ASSUME ManagerInv, CapacityRespected, [Next]_vars PROVE CapacityRespected'
  OBVIOUS
<1> USE ManagerAssumption DEF ManagerAssumption, CapacityRespected
<1>1. /\ sessions \subseteq Runs /\ starting \subseteq Runs
      /\ starting = {r \in Runs : pc[r] = "launching"}
  BY DEF ManagerInv, TypeOK, CallPhases
<1>2. /\ IsFiniteSet(sessions) /\ Cardinality(sessions) \in Nat
      /\ IsFiniteSet(starting) /\ Cardinality(starting) \in Nat
  BY <1>1, FS_Subset, FS_CardinalityType
<1>3. ASSUME sessions' \subseteq sessions, starting' \subseteq starting
      PROVE  CapacityRespected'
  <2>1. /\ Cardinality(sessions') \in Nat /\ Cardinality(sessions') <= Cardinality(sessions)
        /\ Cardinality(starting') \in Nat /\ Cardinality(starting') <= Cardinality(starting)
    BY <1>2, <1>3, FS_Subset, FS_CardinalityType
  <2> QED BY <1>2, <2>1
<1>4. ASSUME NEW r \in Runs, Admit(r) PROVE CapacityRespected'
  <2>1. r \notin starting /\ starting' = starting \cup {r} BY <1>1, <1>4 DEF Admit
  <2>2. Cardinality(starting') = Cardinality(starting) + 1 BY <1>2, <2>1, FS_AddElement
  <2>3. CASE Occupied < MaxSessions /\ UNCHANGED sessions
    BY <1>2, <2>2, <2>3 DEF Occupied
  <2>4. CASE Occupied >= MaxSessions /\ Oldest # {} /\ sessions' = sessions \ Oldest
    <3>1. PICK o \in Oldest : o \in sessions BY <2>4 DEF Oldest
    <3>2. IsFiniteSet(sessions \ {o}) /\ Cardinality(sessions \ {o}) = Cardinality(sessions) - 1
      BY <1>2, <3>1, FS_RemoveElement
    <3>3. Cardinality(sessions') \in Nat /\ Cardinality(sessions') <= Cardinality(sessions) - 1
      <4>1. sessions' \subseteq sessions \ {o} BY <2>4, <3>1
      <4> QED BY <3>2, <4>1, FS_Subset, FS_CardinalityType
    <3> QED BY <1>2, <2>2, <3>3
  <2> QED BY <1>4, <2>3, <2>4 DEF Admit
<1>5. ASSUME NEW r \in Runs, Register(r) PROVE CapacityRespected'
  <2>1. /\ r \in starting /\ starting' = starting \ {r}
        /\ r \notin sessions /\ sessions' = sessions \cup {r}
    BY <1>1, <1>5 DEF Register, ManagerInv, CallPhases, Before
  <2>2. Cardinality(starting') = Cardinality(starting) - 1 BY <1>2, <2>1, FS_RemoveElement
  <2>3. Cardinality(sessions') = Cardinality(sessions) + 1 BY <1>2, <2>1, FS_AddElement
  <2> QED BY <1>2, <2>2, <2>3
<1>6. ASSUME NEW r \in Runs, Call(r), ~Admit(r), ~Register(r)
      PROVE  sessions' \subseteq sessions /\ starting' \subseteq starting
  BY <1>6 DEF Call, LaunchFails, Launch, Feed, FeedFails, WaitInterrupted, WaitDone, Yield,
              HandOff, ReadInitial, Collect, Leave
<1>7. ASSUME NEW r \in Runs, Session(r) \/ CancelCall(r) \/ ContinueTerminate(r)
      PROVE  sessions' \subseteq sessions /\ starting' \subseteq starting
  BY <1>7 DEF Session, WatcherFires, WatcherKills, WatcherEnds, LifetimeFires,
              LifetimeKills, Exit, Settle, KeeperEnds, CancelCall, ContinueTerminate
<1>8. CASE ContextEnds \/ CloseBegin \/ CloseAll \/ CloseEnd \/ UNCHANGED vars
  BY <1>3, <1>8 DEF ContextEnds, CloseBegin, CloseAll, CloseEnd, vars
<1> QED BY <1>3, <1>4, <1>5, <1>6, <1>7, <1>8 DEF Next

\* Sessions and launches in progress never exceed the capacity, whatever it is.
THEOREM CapacityHolds == Spec => []CapacityRespected
<1>1. Init => CapacityRespected
  <2>1. Cardinality({}) = 0 BY FS_EmptySet
  <2> QED BY <2>1, ManagerAssumption DEF Init, CapacityRespected, ManagerAssumption
<1> QED BY <1>1, CapacityStep, Invariance, PTL DEF Spec

\* The invariant that the runs check: phases and capacity together.
THEOREM TableHolds == Spec => []TableInv
  BY Invariance, CapacityHolds, PTL DEF TableInv

\* Eviction, retention and the calls themselves remove completed sessions only.
THEOREM ActiveSessionsStay == Spec => OnlyCompletedSessionsLeave
<1>1. ManagerInv /\ [Next]_vars => [\A r \in sessions \ sessions' : proc[r] = "done"]_vars
  <2> SUFFICES ASSUME ManagerInv, Next, NEW s \in sessions \ sessions'
               PROVE  proc[s] = "done"
    BY DEF vars
  <2>1. ASSUME NEW r \in Runs, Call(r) PROVE proc[s] = "done"
    BY <2>1 DEF Call, Admit, Oldest, Evictable, LaunchFails, Launch, Register, Feed,
                FeedFails, WaitInterrupted, WaitDone, Yield, HandOff, ReadInitial, Collect,
                Leave
  <2>2. ASSUME NEW r \in Runs, Session(r) \/ CancelCall(r) \/ ContinueTerminate(r)
        PROVE  proc[s] = "done"
    BY <2>2 DEF Session, WatcherFires, WatcherKills, WatcherEnds, LifetimeFires,
                LifetimeKills, Exit, Settle, KeeperEnds, CancelCall, ContinueTerminate
  <2>3. CASE ContextEnds \/ CloseBegin \/ CloseAll \/ CloseEnd
    BY <2>3 DEF ContextEnds, CloseBegin, CloseAll, CloseEnd
  <2> QED BY <2>1, <2>2, <2>3 DEF Next
<1> QED BY <1>1, Invariance, PTL DEF Spec, OnlyCompletedSessionsLeave
===============================================================================
