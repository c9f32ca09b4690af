-------------------------- MODULE ProcessSessionProofs --------------------------
(***************************************************************************)
(* Theorems about ProcessInput, for any number of writers and any bound on *)
(* the queue, and about ProcessSession, which composes it with             *)
(* ProcessManager: every step of a session is a step of both, so that what *)
(* is proved of the two holds for their composition, and with it what the  *)
(* two say of each other.                                                  *)
(***************************************************************************)
EXTENDS ProcessSession, FiniteSetTheorems, TLAPS

(***************************************************************************)
(* ProcessInput by itself.                                                 *)
(***************************************************************************)

\* What the types and the gate say of a session before anything happened.
LEMMA InitInv == Init => InputInv
<1> SUFFICES ASSUME Init PROVE InputInv OBVIOUS
<1>1. /\ caller \in [Writers -> {"idle"}] /\ answer \in [Writers -> {"none"}]
      /\ task \in [Writers -> {"none"}]
  BY DEF Init
<1>2. TypeOK
  <2>1. written \in Seq(Writers) BY DEF Init
  <2> QED BY <1>1, <2>1 DEF Init, TypeOK, Queued
<1>3. GateOccupied BY <1>1, InputAssumption DEF Init, GateOccupied, Occupies
<1>4. JoinedBeforeDone BY DEF Init, JoinedBeforeDone
<1> QED BY <1>2, <1>3, <1>4 DEF InputInv

\* Every step keeps the types, whoever occupies the gate, and the join at the end.
LEMMA InvStep == InputInv /\ [Next]_vars => InputInv'
<1> SUFFICES ASSUME InputInv, [Next]_vars PROVE InputInv' OBVIOUS
<1> USE InputAssumption
    DEF InputInv, TypeOK, GateOccupied, Occupies, JoinedBeforeDone, Queued, input, vars,
        Goto, Report
<1>1. ASSUME NEW w \in Writers, Write(w) PROVE InputInv'
  <2>1. CASE Arrive(w) BY <2>1 DEF Arrive
  <2>2. CASE TakeGate(w) BY <2>2 DEF TakeGate
  <2>3. CASE LeaveQueue(w) BY <2>3 DEF LeaveQueue
  <2>4. CASE CheckCanceled(w) BY <2>4 DEF CheckCanceled
  <2>5. CASE Start(w) BY <2>5 DEF Start, InputOpen
  <2>6. CASE WritePart(w) BY <2>6 DEF WritePart
  <2>7. CASE TaskEnds(w) BY <2>7 DEF TaskEnds
  <2>8. CASE Return(w) BY <2>8 DEF Return, Answered
  <2>9. CASE Cancel(w) BY <2>9 DEF Cancel
  <2> QED BY <1>1, <2>1, <2>2, <2>3, <2>4, <2>5, <2>6, <2>7, <2>8, <2>9 DEF Write
<1>2. CASE CloseStdin BY <1>2 DEF CloseStdin
<1>3. CASE Exit BY <1>3 DEF Exit
<1>4. CASE ShutInput BY <1>4 DEF ShutInput
<1>5. CASE RefuseInput BY <1>5 DEF RefuseInput
<1>6. CASE Done BY <1>6 DEF Done
<1>7. CASE UNCHANGED vars BY <1>7
<1> QED BY <1>1, <1>2, <1>3, <1>4, <1>5, <1>6, <1>7 DEF Next

\* At any time the gate belongs to one call or to one write, and no write outlives the
\* session (writeStdin and the end of session.wait).
THEOREM InputInvariance == Spec => []InputInv
  BY InitInv, InvStep, PTL DEF Spec
-----------------------------------------------------------------------------
(* Where a text lies in what the process has received.                      *)

\* Nothing is there of a text whose write has not begun, a text that is being written
\* ends the input so far, and what lies between two parts of a text belongs to it.
Placed ==
  /\ \A w \in Writers : task[w] = "none" => \A i \in DOMAIN written : written[i] # w
  /\ \A w \in Writers : task[w] = "writing" =>
       \A i, k \in DOMAIN written : i <= k /\ written[i] = w => written[k] = w
  /\ TextsNotInterleaved

LEMMA PlacedInit == Init => Placed
  BY DEF Init, Placed, TextsNotInterleaved

\* Only WritePart changes the input, and it appends to the text that ends it.
LEMMA PlacedStep == InputInv /\ Placed /\ [Next]_vars => Placed'
<1> SUFFICES ASSUME InputInv, Placed, [Next]_vars PROVE Placed' OBVIOUS
<1> USE DEF InputInv, TypeOK, Placed, TextsNotInterleaved, input, vars, Goto, Report
<1>1. ASSUME NEW w \in Writers, WritePart(w) PROVE Placed'
  <2>1. /\ written' = Append(written, w) /\ task' = task /\ task[w] = "writing"
        /\ written \in Seq(Writers)
    BY <1>1 DEF WritePart
  <2>2. /\ DOMAIN written' = DOMAIN written \cup {Len(written) + 1}
        /\ \A i \in DOMAIN written : written'[i] = written[i]
        /\ written'[Len(written) + 1] = w
        /\ DOMAIN written = 1..Len(written) /\ Len(written) \in Nat
    BY <2>1
  <2>3. \A v \in Writers : task[v] = "writing" => v = w
    BY <2>1, InputAssumption DEF GateOccupied, Occupies
  <2>4. \A i, k \in DOMAIN written : i <= k /\ written[i] = w => written[k] = w
    BY <2>1
  <2>5. \A v \in Writers : task'[v] = "none" => \A i \in DOMAIN written' : written'[i] # v
    <3> SUFFICES ASSUME NEW v \in Writers, task'[v] = "none", NEW i \in DOMAIN written'
                 PROVE  written'[i] # v
      OBVIOUS
    <3>1. v # w /\ task[v] = "none" BY <2>1
    <3>2. CASE i = Len(written) + 1 BY <3>1, <3>2, <2>2
    <3>3. CASE i \in DOMAIN written BY <3>1, <3>3, <2>2
    <3> QED BY <3>2, <3>3, <2>2
  <2>6. \A i, k \in DOMAIN written' : i <= k /\ written'[i] = w => written'[k] = w
    BY <2>2, <2>4
  <2>7. \A v \in Writers : task'[v] = "writing" =>
          \A i, k \in DOMAIN written' : i <= k /\ written'[i] = v => written'[k] = v
    BY <2>1, <2>3, <2>6
  <2>8. TextsNotInterleaved'
    <3> SUFFICES ASSUME NEW j \in DOMAIN written', NEW k \in DOMAIN written',
                        written'[j] = written'[k], NEW i \in j..k
                 PROVE  written'[i] = written'[j]
      OBVIOUS
    <3>1. CASE k = Len(written) + 1 BY <3>1, <2>2, <2>6
    <3>2. CASE k # Len(written) + 1
      <4>1. j \in DOMAIN written /\ k \in DOMAIN written /\ i \in DOMAIN written
        BY <3>2, <2>2
      <4> QED BY <4>1, <2>2
    <3> QED BY <3>1, <3>2
  <2> QED BY <2>5, <2>7, <2>8
<1>2. ASSUME NEW w \in Writers, Write(w), ~WritePart(w) PROVE Placed'
  <2>1. CASE Arrive(w) BY <2>1 DEF Arrive
  <2>2. CASE TakeGate(w) BY <2>2 DEF TakeGate
  <2>3. CASE LeaveQueue(w) BY <2>3 DEF LeaveQueue
  <2>4. CASE CheckCanceled(w) BY <2>4 DEF CheckCanceled
  <2>5. CASE Start(w)
    <3>1. task[w] = "none" BY <2>5 DEF Start, GateOccupied
    <3> QED BY <2>5, <3>1 DEF Start
  <2>7. CASE TaskEnds(w) BY <2>7 DEF TaskEnds
  <2>8. CASE Return(w) BY <2>8 DEF Return, Answered
  <2>9. CASE Cancel(w) BY <2>9 DEF Cancel
  <2> QED BY <1>2, <2>1, <2>2, <2>3, <2>4, <2>5, <2>7, <2>8, <2>9 DEF Write
<1>3. CASE CloseStdin \/ Exit \/ ShutInput \/ RefuseInput \/ Done \/ UNCHANGED vars
  BY <1>3 DEF CloseStdin, Exit, ShutInput, RefuseInput, Done
<1> QED BY <1>1, <1>2, <1>3 DEF Next

\* One text never lands inside another, whatever callers give up in between.
THEOREM TextsApart == Spec => []TextsNotInterleaved
<1>1. Init => InputInv /\ Placed BY InitInv, PlacedInit
<1>2. InputInv /\ Placed /\ [Next]_vars => InputInv' /\ Placed' BY InvStep, PlacedStep
<1>3. Placed => TextsNotInterleaved BY DEF Placed
<1> QED BY <1>1, <1>2, <1>3, PTL DEF Spec
-----------------------------------------------------------------------------
(* What the answers say.                                                    *)

\* A call answers when it returns: "ok" for a complete text, "refused" without a write.
Truthful ==
  /\ \A w \in Writers : caller[w] # "returned" => answer[w] = "none"
  /\ \A w \in Writers : answer[w] = "ok" => task[w] = "ended" /\ Parts(w) = 2
  /\ \A w \in Writers : answer[w] = "refused" => task[w] = "none"

\* A write adds to the parts of no other text.
LEMMA PartsOfOthers ==
  ASSUME TypeOK, NEW w \in Writers, NEW v \in Writers, v # w, written' = Append(written, w)
  PROVE  Parts(v)' = Parts(v)
<1>1. /\ DOMAIN written' = DOMAIN written \cup {Len(written) + 1}
      /\ \A i \in DOMAIN written : written'[i] = written[i]
      /\ written'[Len(written) + 1] = w
  BY DEF TypeOK
<1>2. {k \in DOMAIN written' : written'[k] = v} = {k \in DOMAIN written : written[k] = v}
  BY <1>1
<1> QED BY <1>2 DEF Parts

LEMMA TruthfulStep == InputInv /\ Truthful /\ [Next]_vars => Truthful'
<1> SUFFICES ASSUME InputInv, Truthful, [Next]_vars PROVE Truthful' OBVIOUS
<1>0. TypeOK BY DEF InputInv
<1>1. ASSUME NEW w \in Writers, WritePart(w) PROVE Truthful'
  <2>1. /\ written' = Append(written, w) /\ caller' = caller /\ answer' = answer /\ task' = task
        /\ task[w] = "writing"
    BY <1>1 DEF WritePart
  <2>2. \A v \in Writers : v # w => Parts(v)' = Parts(v) BY <1>0, <2>1, PartsOfOthers
  <2> QED BY <2>1, <2>2 DEF Truthful
<1>2. ASSUME written' = written PROVE \A w \in Writers : Parts(w)' = Parts(w)
  BY <1>2 DEF Parts
<1>3. ASSUME NEW w \in Writers, Write(w), ~WritePart(w) PROVE Truthful'
  <2>1. written' = written
    BY <1>3 DEF Write, Arrive, TakeGate, LeaveQueue, CheckCanceled, Start, TaskEnds, Return,
                Cancel, input
  <2>2. \A v \in Writers : Parts(v)' = Parts(v) BY <1>2, <2>1
  <2> USE <1>0 DEF Truthful, InputInv, TypeOK, GateOccupied, Queued, Goto, Report, input
  <2>3. CASE Arrive(w) BY <2>2, <2>3 DEF Arrive
  <2>4. CASE TakeGate(w) BY <2>2, <2>4 DEF TakeGate
  <2>5. CASE LeaveQueue(w) BY <2>2, <2>5 DEF LeaveQueue
  <2>6. CASE CheckCanceled(w) BY <2>2, <2>6 DEF CheckCanceled
  <2>7. CASE Start(w) BY <2>2, <2>7 DEF Start
  <2>8. CASE TaskEnds(w) BY <2>2, <2>8 DEF TaskEnds
  <2>9. CASE Return(w) BY <2>2, <2>9 DEF Return, Answered
  <2>10. CASE Cancel(w) BY <2>2, <2>10 DEF Cancel
  <2> QED BY <1>3, <2>3, <2>4, <2>5, <2>6, <2>7, <2>8, <2>9, <2>10 DEF Write
<1>4. CASE CloseStdin \/ Exit \/ ShutInput \/ RefuseInput \/ Done \/ UNCHANGED vars
  <2>1. /\ written' = written /\ caller' = caller /\ answer' = answer /\ task' = task
    BY <1>4 DEF CloseStdin, Exit, ShutInput, RefuseInput, Done, input, vars
  <2> QED BY <1>2, <2>1 DEF Truthful
<1> QED BY <1>1, <1>3, <1>4 DEF Next

\* A call that reports success has delivered its whole text, one that was refused none
\* of it (the three outcomes of writeStdin).
THEOREM AnswersHonest == Spec => []AnswersMatchInput
<1>1. Init => Truthful BY DEF Init, Truthful
<1>2. TypeOK /\ Placed /\ Truthful => AnswersMatchInput
  <2> SUFFICES ASSUME TypeOK, Placed, Truthful, NEW w \in Writers, answer[w] = "refused"
               PROVE  Parts(w) = 0
    BY DEF AnswersMatchInput, Truthful
  <2>1. {k \in DOMAIN written : written[k] = w} = {} BY DEF Truthful, Placed
  <2> QED BY <2>1, FS_EmptySet DEF Parts
<1>3. Init => InputInv /\ Placed /\ Truthful BY <1>1, InitInv, PlacedInit
<1>4. InputInv /\ Placed /\ Truthful /\ [Next]_vars => InputInv' /\ Placed' /\ Truthful'
  BY InvStep, PlacedStep, TruthfulStep
<1>5. InputInv /\ Placed /\ Truthful => AnswersMatchInput BY <1>2 DEF InputInv
<1> QED BY <1>3, <1>4, <1>5, PTL DEF Spec
-----------------------------------------------------------------------------
(* The queue.                                                               *)

LEMMA WaitingFinite == IsFiniteSet(Waiting)
  BY InputAssumption, FS_Subset DEF Waiting

\* Only Arrive lets a call in, and it counts the others first.
LEMMA BoundStep ==
  InputInv /\ Cardinality(Waiting) <= MaxWaiters /\ [Next]_vars
    => Cardinality(Waiting') <= MaxWaiters
<1> SUFFICES ASSUME InputInv, Cardinality(Waiting) <= MaxWaiters, [Next]_vars
             PROVE  Cardinality(Waiting') <= MaxWaiters
  OBVIOUS
<1>0. TypeOK /\ IsFiniteSet(Waiting) /\ Cardinality(Waiting) \in Nat /\ MaxWaiters \in Nat
  BY WaitingFinite, FS_CardinalityType, InputAssumption DEF InputInv
<1>1. ASSUME NEW w \in Writers, Arrive(w), RoomToQueue PROVE Cardinality(Waiting') <= MaxWaiters
  <2>1. Waiting' = Waiting \cup {w} BY <1>0, <1>1 DEF Waiting, Arrive, Goto, TypeOK, Queued
  <2>2. Cardinality(Waiting') <= Cardinality(Waiting) + 1
    <3>1. Cardinality(Waiting \cup {w})
            = IF w \in Waiting THEN Cardinality(Waiting) ELSE Cardinality(Waiting) + 1
      BY <1>0, FS_AddElement
    <3> QED BY <1>0, <2>1, <3>1
  <2>3. Cardinality(Waiting) < MaxWaiters BY <1>1 DEF RoomToQueue
  <2>4. IsFiniteSet(Waiting') BY <1>0, <2>1, FS_AddElement
  <2>5. Cardinality(Waiting') \in Nat BY <2>4, FS_CardinalityType
  <2> QED BY <1>0, <2>2, <2>3, <2>5
<1>2. ASSUME Waiting' \subseteq Waiting PROVE Cardinality(Waiting') <= MaxWaiters
  <2>1. IsFiniteSet(Waiting') /\ Cardinality(Waiting') <= Cardinality(Waiting)
    BY <1>0, <1>2, FS_Subset
  <2>2. Cardinality(Waiting') \in Nat BY <2>1, FS_CardinalityType
  <2> QED BY <1>0, <2>1, <2>2
<1>3. ASSUME NEW w \in Writers, Write(w), ~(Arrive(w) /\ RoomToQueue)
      PROVE  Waiting' \subseteq Waiting
  <2> USE <1>0 DEF Waiting, TypeOK, Queued, Goto, Report
  <2>1. CASE Arrive(w) BY <1>3, <2>1 DEF Arrive
  <2>2. CASE TakeGate(w) BY <2>2 DEF TakeGate
  <2>3. CASE LeaveQueue(w) BY <2>3 DEF LeaveQueue
  <2>4. CASE CheckCanceled(w) BY <2>4 DEF CheckCanceled
  <2>5. CASE Start(w) BY <2>5 DEF Start
  <2>6. CASE WritePart(w) BY <2>6 DEF WritePart
  <2>7. CASE TaskEnds(w) BY <2>7 DEF TaskEnds
  <2>8. CASE Return(w) BY <2>8 DEF Return, Answered
  <2>9. CASE Cancel(w) BY <2>9 DEF Cancel
  <2> QED BY <1>3, <2>1, <2>2, <2>3, <2>4, <2>5, <2>6, <2>7, <2>8, <2>9 DEF Write
<1>4. CASE CloseStdin \/ Exit \/ ShutInput \/ RefuseInput \/ Done \/ UNCHANGED vars
  <2>1. caller' = caller
    BY <1>4 DEF CloseStdin, Exit, ShutInput, RefuseInput, Done, vars
  <2>2. Waiting' \subseteq Waiting BY <2>1 DEF Waiting
  <2> QED BY <1>2, <2>2
<1>5. ASSUME NEW w \in Writers, Write(w) PROVE Cardinality(Waiting') <= MaxWaiters
  <2>1. CASE Arrive(w) /\ RoomToQueue BY <1>1, <2>1
  <2>2. CASE ~(Arrive(w) /\ RoomToQueue) BY <1>2, <1>3, <1>5, <2>2
  <2> QED BY <2>1, <2>2
<1> QED BY <1>4, <1>5 DEF Next

\* Queued input stays bounded: counted waiters, and at most one abandoned text.
THEOREM QueueBounded == Spec => []QueuedInputBounded
<1>1. Init => Cardinality(Waiting) <= MaxWaiters
  <2> SUFFICES ASSUME Init PROVE Cardinality(Waiting) <= MaxWaiters OBVIOUS
  <2>1. Waiting = {} BY DEF Init, Waiting, Queued
  <2> QED BY <2>1, FS_EmptySet, InputAssumption
<1>2. InputInv => Cardinality({w \in Writers : task[w] = "writing"}) <= 1
  <2> SUFFICES ASSUME InputInv PROVE Cardinality({w \in Writers : task[w] = "writing"}) <= 1
    OBVIOUS
  <2>1. {w \in Writers : task[w] = "writing"} \subseteq {gate}
    BY DEF InputInv, GateOccupied, Occupies
  <2>2. IsFiniteSet({gate}) /\ Cardinality({gate}) = 1 BY FS_Singleton
  <2> QED BY <2>1, <2>2, FS_Subset
<1>3. Init => InputInv /\ Cardinality(Waiting) <= MaxWaiters BY <1>1, InitInv
<1>4. InputInv /\ Cardinality(Waiting) <= MaxWaiters /\ [Next]_vars
        => InputInv' /\ (Cardinality(Waiting) <= MaxWaiters)'
  BY InvStep, BoundStep
<1>5. InputInv /\ Cardinality(Waiting) <= MaxWaiters => QueuedInputBounded
  BY <1>2 DEF QueuedInputBounded
<1> QED BY <1>3, <1>4, <1>5, PTL DEF Spec

\* The invariant that the run checks: occupancy, joining and the bound together.
THEOREM QueueHolds == Spec => []QueueInv
  BY InputInvariance, QueueBounded, PTL DEF QueueInv
-----------------------------------------------------------------------------
(***************************************************************************)
(* The session as a whole.                                                 *)
(***************************************************************************)

\* What is proved of ProcessManager, for its state in a session.
MP == INSTANCE ProcessManagerProofs WITH Runs <- {Run}, MaxSessions <- 1,
        pc <- call, proc <- process, canceled <- gone

LEMMA OneRun == IsFiniteSet({Run}) /\ 1 \in Nat \ {0}
<1>1. IsFiniteSet({Run}) BY FS_Singleton
<1> QED BY <1>1

\* The end of Run's context, which its text shares, whether that is under way or not.
TextCanceled ==
  /\ canceled' = canceled \cup {First}
  /\ UNCHANGED <<caller, answer, task, input, proc>>

LEMMA ClosesIsStep == ClosesInput => [Next]_vars
  BY DEF ClosesInput, Next

\* A step of a session is one of ProcessManager, and one of ProcessInput or the end of a
\* context.
LEMMA SessionStep ==
  [SessionNext]_sessionVars => [M!Next]_M!vars /\ ([Next]_vars \/ TextCanceled)
<1> SUFFICES ASSUME [SessionNext]_sessionVars
             PROVE  [M!Next]_M!vars /\ ([Next]_vars \/ TextCanceled)
  OBVIOUS
<1>1. CASE Alone BY <1>1 DEF Alone, M!Next, M!Call, M!Session
<1>2. CASE Kills BY <1>2, ClosesIsStep DEF Kills, Terminates, M!Next, M!Call, M!Session
<1>3. CASE HandOff BY <1>3, ClosesIsStep DEF HandOff, Terminates, M!Next, M!Call
<1>4. CASE Feed BY <1>4, ClosesIsStep DEF Feed, M!Next, M!Call
<1>5. CASE FeedFails BY <1>5, ClosesIsStep DEF FeedFails, Terminates, M!Next, M!Call
<1>6. CASE CancelRun BY <1>6 DEF CancelRun, TextCanceled, M!Next
<1>7. CASE ProcessExits BY <1>7 DEF ProcessExits, Next, M!Next, M!Session
<1>8. CASE ProcessSettles BY <1>8 DEF ProcessSettles, Next, M!Next, M!Session
<1>9. CASE InputAlone
  <2>1. UNCHANGED M!vars
    BY <1>9 DEF InputAlone, managerVars, M!vars, M!goroutines, M!shutdown
  <2>2. Next BY <1>9 DEF InputAlone, InputStep, Next, Write
  <2> QED BY <2>1, <2>2
<1>10. CASE UNCHANGED sessionVars
  BY <1>10 DEF sessionVars, managerVars, M!vars, M!goroutines, M!shutdown
<1> QED
  BY <1>1, <1>2, <1>3, <1>4, <1>5, <1>6, <1>7, <1>8, <1>9, <1>10 DEF SessionNext

\* A session implements the manager that starts it: composing the two adds no step that
\* ProcessManager does not know.
THEOREM SessionImplementsManager == SessionSpec => M!Spec
<1>1. SessionInit => M!Init BY DEF SessionInit
<1> QED BY <1>1, SessionStep, PTL DEF SessionSpec, M!Spec

\* Seen through either instance, the steps of the manager are the same.
LEMMA SameManager == [M!Next]_M!vars => [MP!Next]_MP!vars
<1>0. \A S : M!Cardinality(S) = MP!Cardinality(S)
  BY DEF M!Cardinality, MP!Cardinality
<1> USE DEF M!goroutines, MP!goroutines, M!shutdown, MP!shutdown, M!Goto, MP!Goto, M!Finish,
            MP!Finish, M!Kill, MP!Kill, M!Interrupted, MP!Interrupted, M!Abandon,
            MP!Abandon, M!Occupied, MP!Occupied, M!Oldest, MP!Oldest, M!Evictable,
            MP!Evictable, M!Retired, MP!Retired, M!Drained, MP!Drained, M!Outside,
            MP!Outside, M!WorkersEnded, MP!WorkersEnded
<1>1. ASSUME NEW r \in {Run}, M!Call(r) PROVE MP!Call(r)
  BY <1>0, <1>1
  DEF M!Call, MP!Call,
      M!Admit, MP!Admit, M!LaunchFails, MP!LaunchFails, M!Launch, MP!Launch, M!Register,
      MP!Register, M!Feed, MP!Feed, M!FeedFails, MP!FeedFails, M!WaitInterrupted,
      MP!WaitInterrupted, M!WaitDone, MP!WaitDone, M!Yield, MP!Yield, M!HandOff, MP!HandOff,
      M!ReadInitial, MP!ReadInitial, M!Collect, MP!Collect, M!Leave, MP!Leave
<1>2. ASSUME NEW r \in {Run}, M!Session(r) PROVE MP!Session(r)
  BY <1>2
  DEF M!Session, MP!Session,
      M!WatcherFires, MP!WatcherFires, M!WatcherKills, MP!WatcherKills, M!WatcherEnds,
      MP!WatcherEnds, M!LifetimeFires, MP!LifetimeFires, M!LifetimeKills, MP!LifetimeKills,
      M!Exit, MP!Exit, M!Settle, MP!Settle, M!KeeperEnds, MP!KeeperEnds
<1>3. ASSUME NEW r \in {Run}, M!CancelCall(r) \/ M!ContinueTerminate(r)
      PROVE  MP!CancelCall(r) \/ MP!ContinueTerminate(r)
  BY <1>3 DEF M!CancelCall, MP!CancelCall, M!ContinueTerminate, MP!ContinueTerminate
<1>4. ASSUME M!ContextEnds \/ M!CloseBegin \/ M!CloseAll \/ M!CloseEnd
      PROVE  MP!ContextEnds \/ MP!CloseBegin \/ MP!CloseAll \/ MP!CloseEnd
  BY <1>4 DEF M!ContextEnds, MP!ContextEnds, M!CloseBegin, MP!CloseBegin, M!CloseAll,
              MP!CloseAll, M!CloseEnd, MP!CloseEnd
<1>5. M!Next => MP!Next BY <1>1, <1>2, <1>3, <1>4 DEF M!Next, MP!Next
<1> QED BY <1>5 DEF M!vars, MP!vars

LEMMA ManagerInit == SessionInit => MP!ManagerInv
<1>1. MP!Init => MP!ManagerInv BY OneRun, MP!InitInv DEF IsFiniteSet, MP!IsFiniteSet
<1>2. M!Init => MP!Init BY DEF M!Init, MP!Init
<1> QED BY <1>1, <1>2 DEF SessionInit

LEMMA ManagerStep == MP!ManagerInv /\ [SessionNext]_sessionVars => MP!ManagerInv'
<1>1. MP!ManagerInv /\ [MP!Next]_MP!vars => MP!ManagerInv'
  BY OneRun, MP!InvStep DEF IsFiniteSet, MP!IsFiniteSet
<1> QED BY <1>1, SessionStep, SameManager
-----------------------------------------------------------------------------
(* What ProcessInput keeps, a session keeps: the end of a context is the    *)
(* only step that is not one of its own.                                    *)

QueueIsBounded == Cardinality(Waiting) <= MaxWaiters

InputKept == InputInv /\ Placed /\ Truthful /\ QueueIsBounded

LEMMA InputKeptInit == SessionInit => InputKept
<1> SUFFICES ASSUME SessionInit PROVE InputKept OBVIOUS
<1>1. Init BY DEF SessionInit
<1>2. Truthful BY <1>1 DEF Init, Truthful
<1>3. Waiting = {} BY <1>1 DEF Init, Waiting, Queued
<1>4. QueueIsBounded BY <1>3, FS_EmptySet, InputAssumption DEF QueueIsBounded
<1> QED BY <1>1, <1>2, <1>4, InitInv, PlacedInit DEF InputKept

LEMMA InputKeptStep == InputKept /\ [SessionNext]_sessionVars => InputKept'
<1> SUFFICES ASSUME InputKept, [SessionNext]_sessionVars PROVE InputKept' OBVIOUS
<1>1. CASE [Next]_vars
  BY <1>1, InvStep, PlacedStep, TruthfulStep, BoundStep DEF InputKept, QueueIsBounded
<1>2. CASE TextCanceled
  <2> USE <1>2 DEF TextCanceled, input
  <2>1. InputInv'
    BY SessionAssumption
    DEF InputKept, InputInv, TypeOK, GateOccupied, Occupies, JoinedBeforeDone, Queued
  <2>2. Placed' BY DEF InputKept, Placed, TextsNotInterleaved
  <2>3. Truthful' BY DEF InputKept, Truthful, Parts
  <2>4. QueueIsBounded' BY DEF InputKept, QueueIsBounded, Waiting
  <2> QED BY <2>1, <2>2, <2>3, <2>4 DEF InputKept
<1> QED BY <1>1, <1>2, SessionStep

\* In a session, too, one text never lands inside another.
THEOREM SessionTextsApart == SessionSpec => []TextsNotInterleaved
<1>1. InputKept => TextsNotInterleaved BY DEF InputKept, Placed
<1> QED BY <1>1, InputKeptInit, InputKeptStep, PTL DEF SessionSpec

\* The parts of a text that has not been begun.
LEMMA NothingOf ==
  ASSUME Placed, NEW w \in Writers, task[w] = "none"
  PROVE  Parts(w) = 0
<1>1. {k \in DOMAIN written : written[k] = w} = {} BY DEF Placed
<1> QED BY <1>1, FS_EmptySet DEF Parts

\* In a session, too, an answer is true of what the process has received.
THEOREM SessionAnswersHonest == SessionSpec => []AnswersMatchInput
<1>1. InputKept => AnswersMatchInput
  BY NothingOf DEF InputKept, Truthful, AnswersMatchInput
<1> QED BY <1>1, InputKeptInit, InputKeptStep, PTL DEF SessionSpec
-----------------------------------------------------------------------------
(* What the two components say of each other.                               *)

\* The process of ProcessManager and the end that its input sees; whom a call of Run and
\* its outcome let write.
Joint ==
  /\ keeper[Run] = "none" => process[Run] # "exited"
  /\ process[Run] \in {"none", "live", "killed"} => proc = "live"
  /\ process[Run] = "exited" <=> proc \in {"exited", "draining", "joining"}
  /\ caller[First] # "idle" => call[Run] \notin {"idle", "launching"}
  /\ outcome[Run] = "result" => call[Run] \in {"leaving", "returned"}
  /\ call[Run] \in {"waiting", "retiring", "reading"} \/ outcome[Run] \in {"session", "result"}
       => Fed
  /\ \A w \in Writers \ {First} : caller[w] # "idle" => HandedOff
  /\ process[Run] = "none" => call[Run] \in {"idle", "launching", "returned"}
  /\ process[Run] \in {"none", "done"} /\ proc = "live" =>
       /\ call[Run] = "returned" => outcome[Run] = "error"
       /\ \A w \in Writers : caller[w] = "idle"
  /\ process[Run] = "done" /\ proc = "live" => call[Run] = "returned"

\* The closing of the input says nothing of callers, answers or the process.
LEMMA ClosesOnly == ClosesInput => UNCHANGED <<caller, answer, task, proc>>
  BY DEF ClosesInput, CloseStdin, vars

LEMMA JointInit == SessionInit => Joint
  BY SessionAssumption DEF SessionInit, Init, M!Init, Joint, HandedOff, Fed

LEMMA JointStep ==
  InputKept /\ MP!ManagerInv /\ Joint /\ [SessionNext]_sessionVars => Joint'
<1> SUFFICES ASSUME InputKept, MP!ManagerInv, Joint, [SessionNext]_sessionVars PROVE Joint'
  OBVIOUS
<1>1. /\ call \in [{Run} -> MP!Outside \cup {"launching", "feeding", "waiting", "retiring",
                              "reading", "collecting", "leaving"}]
      /\ outcome \in [{Run} -> {"none", "error", "result", "session"}]
      /\ process \in [{Run} -> MP!Alive \cup {"none", "done"}]
      /\ keeper \in [{Run} -> {"none", "waiting", "ended"}]
      /\ call[Run] \in {"idle", "launching"} => keeper[Run] = "none" /\ outcome[Run] = "none"
      /\ call[Run] = "idle" => process[Run] = "none"
      /\ call[Run] \in {"feeding", "waiting", "retiring", "reading", "collecting"}
           => process[Run] # "none"
      /\ outcome[Run] = "session" => call[Run] \in {"leaving", "returned"}
  BY DEF MP!ManagerInv, MP!TypeOK, MP!GoroutinePhases, MP!CallPhases, MP!Before, MP!After,
         MP!Underway
<1>2. /\ caller \in [Writers -> Queued \cup {"idle", "returned"}] /\ First \in Writers
      /\ \A w \in Writers : caller[w] # "returned" => answer[w] = "none"
  BY SessionAssumption DEF InputKept, InputInv, TypeOK, Truthful
<1> USE <1>1, <1>2
    DEF Joint, HandedOff, Fed, MP!Alive, MP!Outside, M!Goto, M!Finish, M!Kill, M!Abandon,
        M!goroutines, M!shutdown, vars, input
<1>3. CASE Alone
  BY <1>3
  DEF Alone, M!Admit, M!LaunchFails, M!Launch, M!Register, M!WaitDone, M!Yield, M!ReadInitial,
      M!Collect, M!Leave, M!WatcherFires, M!WatcherEnds, M!LifetimeFires, M!KeeperEnds,
      M!ContextEnds, M!CloseBegin, M!CloseEnd
<1>4. CASE Kills
  BY <1>4, ClosesOnly
  DEF Kills, Terminates, M!WaitInterrupted, M!WatcherKills, M!LifetimeKills,
      M!ContinueTerminate, M!CloseAll
<1>5. CASE HandOff BY <1>5, ClosesOnly DEF HandOff, Terminates, M!HandOff
<1>6. CASE Feed BY <1>6, ClosesOnly DEF Feed, M!Feed
<1>7. CASE FeedFails BY <1>7, ClosesOnly DEF FeedFails, Terminates, M!FeedFails
<1>8. CASE CancelRun BY <1>8 DEF CancelRun, M!CancelCall
<1>9. CASE ProcessExits BY <1>9 DEF ProcessExits, M!Exit, Exit
<1>10. CASE ProcessSettles BY <1>10 DEF ProcessSettles, M!Settle, Done
<1>11. CASE InputAlone
  <2> USE DEF managerVars
  <2>1. ASSUME NEW w \in Writers, InputStep(w), UNCHANGED managerVars PROVE Joint'
    <3>1. CASE Arrive(w) /\ MayWrite(w)
      <4>1. \A v \in Writers : v # w => caller'[v] = caller[v] /\ answer'[v] = answer[v]
        BY <3>1 DEF Arrive, Report, Goto, InputKept, InputInv, TypeOK
      <4>2. caller[w] = "idle" /\ proc' = proc BY <3>1 DEF Arrive
      <4>3. CASE w = First BY <2>1, <3>1, <4>1, <4>2, <4>3 DEF MayWrite
      <4>4. CASE w # First BY <2>1, <3>1, <4>1, <4>2, <4>4 DEF MayWrite
      <4> QED BY <4>3, <4>4
    <3>2. CASE \/ Cancel(w) \/ TakeGate(w) \/ LeaveQueue(w) \/ CheckCanceled(w) \/ Start(w)
               \/ WritePart(w) \/ TaskEnds(w) \/ Return(w)
      <4>1. /\ \A v \in Writers : caller'[v] = "idle" <=> caller[v] = "idle"
            /\ \A v \in Writers : answer[v] = "ok" => answer'[v] = "ok"
            /\ proc' = proc
        BY <2>1, <3>2
        DEF Queued, Report, Cancel, TakeGate, LeaveQueue, CheckCanceled, Start,
            WritePart, TaskEnds, Return, Answered, Goto, InputKept, InputInv, TypeOK
      <4> QED BY <2>1, <4>1
    <3> QED BY <2>1, <3>1, <3>2 DEF InputStep
  <2>2. ASSUME CloseStdin \/ ShutInput \/ RefuseInput, UNCHANGED managerVars PROVE Joint'
    BY <2>2 DEF CloseStdin, ShutInput, RefuseInput
  <2> QED BY <1>11, <2>1, <2>2 DEF InputAlone
<1>12. CASE UNCHANGED sessionVars BY <1>12 DEF sessionVars, managerVars
<1> QED
  BY <1>3, <1>4, <1>5, <1>6, <1>7, <1>8, <1>9, <1>10, <1>11, <1>12 DEF SessionNext

\* The invariant that the run checks: the gate, the queue, whose texts the process has
\* received, and that the process and its input end together.
THEOREM SessionHolds == SessionSpec => []SessionInv
<1>1. InputKept /\ MP!ManagerInv /\ Joint => SessionInv
  <2> SUFFICES ASSUME InputKept, MP!ManagerInv, Joint PROVE SessionInv OBVIOUS
  <2>1. QueueInv
    <3>1. {w \in Writers : task[w] = "writing"} \subseteq {gate}
      BY DEF InputKept, InputInv, GateOccupied, Occupies
    <3>2. IsFiniteSet({gate}) /\ Cardinality({gate}) = 1 BY FS_Singleton
    <3>3. Cardinality({w \in Writers : task[w] = "writing"}) <= 1
      BY <3>1, <3>2, FS_Subset
    <3> QED BY <3>3 DEF InputKept, QueueIsBounded, QueueInv, QueuedInputBounded
  <2>2. TextsBelongToRun
    <3>1. outcome[Run] \in {"session", "result"} => caller[First] = "idle" \/ Parts(First) = 2
      BY SessionAssumption DEF Joint, Fed, InputKept, Truthful
    <3>2. ASSUME NEW w \in Writers \ {First}, Parts(w) > 0 PROVE outcome[Run] = "session"
      <4>1. task[w] # "none" BY <3>2, NothingOf DEF InputKept
      <4>2. caller[w] # "idle" BY <4>1 DEF InputKept, InputInv, GateOccupied
      <4> QED BY <4>2 DEF Joint, HandedOff
    <3> QED BY <3>1, <3>2 DEF TextsBelongToRun
  <2> QED BY <2>1, <2>2 DEF SessionInv, Joint
<1>2. SessionInit => InputKept /\ MP!ManagerInv /\ Joint
  BY InputKeptInit, ManagerInit, JointInit
<1>3. InputKept /\ MP!ManagerInv /\ Joint /\ [SessionNext]_sessionVars
        => InputKept' /\ MP!ManagerInv' /\ Joint'
  BY InputKeptStep, ManagerStep, JointStep
<1> QED BY <1>1, <1>2, <1>3, PTL DEF SessionSpec

\* When Close has returned no goroutine is left that writes a text, not even one whose
\* caller has gone: closeAll waits for the process, whose end waits for its writes.
THEOREM CloseJoinsWrites ==
  SessionSpec => [](closer = "closed" => \A w \in Writers : task[w] # "writing")
<1>1. InputKept /\ MP!ManagerInv /\ Joint
        => (closer = "closed" => \A w \in Writers : task[w] # "writing")
  <2> SUFFICES ASSUME InputKept, MP!ManagerInv, Joint, closer = "closed", NEW w \in Writers
               PROVE  task[w] # "writing"
    OBVIOUS
  <2>1. call[Run] \in {"idle", "returned"} /\ keeper[Run] \in {"none", "ended"}
    BY DEF MP!ManagerInv, MP!ClosePhases, MP!Drained, MP!Outside, MP!WorkersEnded
  <2>2. process[Run] \in {"none", "done"}
    BY <2>1
    DEF MP!ManagerInv, MP!TypeOK, MP!GoroutinePhases, MP!CallPhases, MP!SessionsCoverProcesses,
        MP!Alive, MP!Before, MP!After
  <2>3. CASE proc = "live"
    <3>1. caller[w] = "idle" BY <2>2, <2>3 DEF Joint
    <3> QED BY <3>1 DEF InputKept, InputInv, GateOccupied
  <2>4. CASE proc = "done" BY <2>4 DEF InputKept, InputInv, JoinedBeforeDone
  <2> QED BY <2>2, <2>3, <2>4 DEF Joint, InputKept, InputInv, TypeOK
<1>2. SessionInit => InputKept /\ MP!ManagerInv /\ Joint
  BY InputKeptInit, ManagerInit, JointInit
<1>3. InputKept /\ MP!ManagerInv /\ Joint /\ [SessionNext]_sessionVars
        => InputKept' /\ MP!ManagerInv' /\ Joint'
  BY InputKeptStep, ManagerStep, JointStep
<1> QED BY <1>1, <1>2, <1>3, PTL DEF SessionSpec
=================================================================================
