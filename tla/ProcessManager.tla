---------------------------- MODULE ProcessManager ----------------------------
(***************************************************************************)
(* Process sessions (internal/process/process.go): admission and capacity, *)
(* the hand-off of a live session to its caller, cancellation, the         *)
(* lifetime timeout, retention of completed sessions and shutdown.         *)
(*                                                                         *)
(* A run is one call of Manager.Run and the session it makes.  Five        *)
(* goroutines meet in it: the caller (pc), the initial cancellation        *)
(* watcher, the lifetime watch, the keeper that waits for the process and  *)
(* then retains its result, and Manager.Close.  `proc` is the life of the  *)
(* process tree as session.wait sees it.  Serialized input is in           *)
(* ProcessInput; output and its buffers are left out.                      *)
(***************************************************************************)
EXTENDS Naturals, FiniteSets, Sequences

CONSTANTS Runs,        \* calls of Run
          MaxSessions  \* capacity of the manager (128 in the code)

ASSUME ManagerAssumption == IsFiniteSet(Runs) /\ MaxSessions \in Nat \ {0}

VARIABLES
  pc,        \* where the call is
  outcome,   \* what it returns: "error", a final "result" or a live "session"
  starting,  \* runs that hold a reservation (startingCount)
  sessions,  \* sessions in the map
  proc,      \* "none" | "live" | "killed" | "exited" | "done"
  finished,  \* completed processes in the order of their finish times
  canceled,  \* runs whose request context is done
  watcher,   \* initial cancellation watcher: "none" | "armed" | "firing" | "ended"
  lifetime,  \* lifetime watch, same values
  keeper,    \* goroutine of session.wait and retention: "none" | "waiting" | "ended"
  stopped,   \* the manager's context is done
  closed,    \* admission has ended
  closer,    \* progress of Manager.Close
  closing    \* sessions closeAll waits for

goroutines == <<watcher, lifetime, keeper>>
shutdown   == <<stopped, closed, closer, closing>>
vars == <<pc, outcome, starting, sessions, proc, finished, canceled, goroutines, shutdown>>

Alive == {"live", "killed", "exited"}   \* the process, or what wait has yet to clean up
Outside == {"idle", "returned"}

Init ==
  /\ pc = [r \in Runs |-> "idle"] /\ outcome = [r \in Runs |-> "none"]
  /\ starting = {} /\ sessions = {}
  /\ proc = [r \in Runs |-> "none"] /\ finished = <<>> /\ canceled = {}
  /\ watcher = [r \in Runs |-> "none"] /\ lifetime = [r \in Runs |-> "none"]
  /\ keeper = [r \in Runs |-> "none"]
  /\ stopped = FALSE /\ closed = FALSE /\ closer = "open" /\ closing = {}

Goto(r, label) == pc' = [pc EXCEPT ![r] = label]
Finish(r, what) == outcome' = [outcome EXCEPT ![r] = what]
Interrupted(r) == r \in canceled \/ stopped

\* terminate: the signal reaches only a process that has not exited yet.
Kill(S) == proc' = [r \in Runs |-> IF r \in S /\ proc[r] = "live" THEN "killed" ELSE proc[r]]
-----------------------------------------------------------------------------
(* Admission and launch.                                                   *)

\* Mutant: launches in progress do not count.
OccupiedByRegistered == Cardinality(sessions)

Occupied == Cardinality(sessions) + Cardinality(starting)

\* Mutant: a process that has exited is taken for a completed session.
EvictableEarly(r) == r \in sessions /\ proc[r] \in {"exited", "done"}

Evictable(r) == r \in sessions /\ proc[r] = "done"

\* evictCompletedLocked: the completed session that finished first.
Oldest == {r \in sessions : /\ Evictable(r)
                            /\ \E k \in DOMAIN finished :
                                 /\ finished[k] = r
                                 /\ \A j \in 1..(k - 1) : ~Evictable(finished[j])}

Admit(r) ==
  /\ pc[r] = "idle" /\ r \notin canceled /\ ~closed /\ ~stopped
  /\ \/ Occupied < MaxSessions /\ UNCHANGED sessions
     \/ Occupied >= MaxSessions /\ Oldest # {} /\ sessions' = sessions \ Oldest
  /\ starting' = starting \cup {r}
  /\ Goto(r, "launching")
  /\ UNCHANGED <<outcome, proc, finished, canceled, goroutines, shutdown>>

\* Of a process that was started but cannot be managed, nothing is left.
LaunchFails(r) ==
  /\ pc[r] = "launching"
  /\ starting' = starting \ {r}
  /\ proc' = [proc EXCEPT ![r] = IF @ = "none" THEN @ ELSE "done"]
  /\ Finish(r, "error") /\ Goto(r, "returned")
  /\ UNCHANGED <<sessions, finished, canceled, goroutines, shutdown>>

Launch(r) ==
  /\ pc[r] = "launching" /\ proc[r] = "none"
  /\ proc' = [proc EXCEPT ![r] = "live"]
  /\ UNCHANGED <<pc, outcome, starting, sessions, finished, canceled, goroutines, shutdown>>

Register(r) ==
  /\ pc[r] = "launching" /\ proc[r] # "none"
  /\ sessions' = sessions \cup {r} /\ starting' = starting \ {r}
  /\ watcher' = [watcher EXCEPT ![r] = "armed"]
  /\ lifetime' = [lifetime EXCEPT ![r] = "armed"]
  /\ keeper' = [keeper EXCEPT ![r] = "waiting"]
  /\ Goto(r, "feeding")
  /\ UNCHANGED <<outcome, proc, finished, canceled, shutdown>>
-----------------------------------------------------------------------------
(* The call, up to its result.                                             *)

\* The initial input is written, then closed unless the session keeps it open.
Feed(r) ==
  /\ pc[r] = "feeding"
  /\ Goto(r, "waiting")
  /\ UNCHANGED <<outcome, starting, sessions, proc, finished, canceled, goroutines, shutdown>>

\* The call is given up: the process is killed and then waited for.
Abandon(r) == Kill({r}) /\ Finish(r, "error") /\ Goto(r, "collecting")

FeedFails(r) ==
  /\ pc[r] = "feeding"
  /\ Abandon(r)
  /\ UNCHANGED <<starting, sessions, finished, canceled, goroutines, shutdown>>

WaitInterrupted(r) ==
  /\ pc[r] = "waiting" /\ Interrupted(r)
  /\ Abandon(r)
  /\ UNCHANGED <<starting, sessions, finished, canceled, goroutines, shutdown>>

WaitDone(r) ==
  /\ pc[r] = "waiting" /\ proc[r] = "done"
  /\ sessions' = sessions \ {r}
  /\ Finish(r, IF Interrupted(r) THEN "error" ELSE "result")
  /\ Goto(r, "leaving")
  /\ UNCHANGED <<starting, proc, finished, canceled, goroutines, shutdown>>

Yield(r) ==
  /\ pc[r] = "waiting"
  /\ Goto(r, "retiring")
  /\ UNCHANGED <<outcome, starting, sessions, proc, finished, canceled, goroutines, shutdown>>

\* finishInitial: the watcher has ended, by being told to or by killing the process.
Retired(r) == watcher[r] = "ended"

HandOff(r) ==
  /\ pc[r] = "retiring" /\ Retired(r)
  /\ \/ Interrupted(r) /\ Abandon(r)
     \/ ~Interrupted(r) /\ Goto(r, "reading") /\ UNCHANGED <<proc, outcome>>
  /\ UNCHANGED <<starting, sessions, finished, canceled, goroutines, shutdown>>

ReadInitial(r) ==
  /\ pc[r] = "reading"
  /\ \/ /\ proc[r] = "done"
        /\ Finish(r, "result") /\ sessions' = sessions \ {r}
     \/ /\ proc[r] # "done"
        /\ Finish(r, "session") /\ UNCHANGED sessions
  /\ Goto(r, "leaving")
  /\ UNCHANGED <<starting, proc, finished, canceled, goroutines, shutdown>>

\* Mutant: a canceled call does not wait for the process it has killed.
CollectAtOnce(r) ==
  /\ pc[r] = "collecting"
  /\ sessions' = sessions \ {r} /\ Goto(r, "leaving")
  /\ UNCHANGED <<outcome, starting, proc, finished, canceled, goroutines, shutdown>>

Collect(r) ==
  /\ pc[r] = "collecting" /\ proc[r] = "done"
  /\ sessions' = sessions \ {r} /\ Goto(r, "leaving")
  /\ UNCHANGED <<outcome, starting, proc, finished, canceled, goroutines, shutdown>>

\* The deferred finishInitial and starting.Done.
Leave(r) ==
  /\ pc[r] = "leaving" /\ Retired(r)
  /\ Goto(r, "returned")
  /\ UNCHANGED <<outcome, starting, sessions, proc, finished, canceled, goroutines, shutdown>>
-----------------------------------------------------------------------------
(* The goroutines of a session.                                            *)

WatcherFires(r) ==
  /\ watcher[r] = "armed" /\ Interrupted(r)
  /\ watcher' = [watcher EXCEPT ![r] = "firing"]
  /\ UNCHANGED <<pc, outcome, starting, sessions, proc, finished, canceled, lifetime,
                 keeper, shutdown>>

WatcherKills(r) ==
  /\ watcher[r] = "firing"
  /\ Kill({r}) /\ watcher' = [watcher EXCEPT ![r] = "ended"]
  /\ UNCHANGED <<pc, outcome, starting, sessions, finished, canceled, lifetime, keeper,
                 shutdown>>

\* Mutant: initialDone is closed by the deferred call only, which waits for the watcher.
WatcherEndsLate(r) ==
  /\ watcher[r] = "armed" /\ pc[r] = "returned"
  /\ watcher' = [watcher EXCEPT ![r] = "ended"]
  /\ UNCHANGED <<pc, outcome, starting, sessions, proc, finished, canceled, lifetime,
                 keeper, shutdown>>

WatcherEnds(r) ==
  /\ watcher[r] = "armed" /\ pc[r] \in {"retiring", "reading", "leaving", "returned"}
  /\ watcher' = [watcher EXCEPT ![r] = "ended"]
  /\ UNCHANGED <<pc, outcome, starting, sessions, proc, finished, canceled, lifetime,
                 keeper, shutdown>>

\* The lifetime is over, the manager stops, or the session has completed.
LifetimeFires(r) ==
  /\ lifetime[r] = "armed"
  /\ lifetime' = [lifetime EXCEPT ![r] = "firing"]
  /\ UNCHANGED <<pc, outcome, starting, sessions, proc, finished, canceled, watcher,
                 keeper, shutdown>>

LifetimeKills(r) ==
  /\ lifetime[r] = "firing"
  /\ Kill({r}) /\ lifetime' = [lifetime EXCEPT ![r] = "ended"]
  /\ UNCHANGED <<pc, outcome, starting, sessions, finished, canceled, watcher, keeper,
                 shutdown>>

Exit(r) ==
  /\ keeper[r] = "waiting" /\ proc[r] \in {"live", "killed"}
  /\ proc' = [proc EXCEPT ![r] = "exited"]
  /\ finished' = Append(finished, r)
  /\ UNCHANGED <<pc, outcome, starting, sessions, canceled, goroutines, shutdown>>

\* The rest of the tree is killed, input closed and joined, the terminal drained.
Settle(r) ==
  /\ proc[r] = "exited"
  /\ proc' = [proc EXCEPT ![r] = "done"]
  /\ UNCHANGED <<pc, outcome, starting, sessions, finished, canceled, goroutines, shutdown>>

\* Ten minutes later, when the manager stops, or when someone else removed the session.
KeeperEnds(r) ==
  /\ keeper[r] = "waiting" /\ proc[r] = "done"
  /\ keeper' = [keeper EXCEPT ![r] = "ended"]
  /\ sessions' = sessions \ {r}
  /\ UNCHANGED <<pc, outcome, starting, proc, finished, canceled, watcher, lifetime,
                 shutdown>>
-----------------------------------------------------------------------------
(* Requests from outside.                                                  *)

\* The request context ends, at the latest when the call has returned.
CancelCall(r) ==
  /\ r \notin canceled /\ pc[r] # "idle"
  /\ canceled' = canceled \cup {r}
  /\ UNCHANGED <<pc, outcome, starting, sessions, proc, finished, goroutines, shutdown>>

\* Manager.Continue with terminate; its other forms leave this state alone.
ContinueTerminate(r) ==
  /\ pc[r] = "returned" /\ outcome[r] = "session" /\ r \in sessions /\ ~stopped
  /\ Kill({r})
  /\ UNCHANGED <<pc, outcome, starting, sessions, finished, canceled, goroutines, shutdown>>

\* The parent context ends; a goroutine of NewManager then calls Close.
ContextEnds ==
  /\ ~stopped /\ stopped' = TRUE
  /\ UNCHANGED <<pc, outcome, starting, sessions, proc, finished, canceled, goroutines,
                 closed, closer, closing>>

CloseBegin ==
  /\ closer = "open"
  /\ closed' = TRUE /\ stopped' = TRUE /\ closer' = "draining"
  /\ UNCHANGED <<pc, outcome, starting, sessions, proc, finished, canceled, goroutines,
                 closing>>

\* Mutant: Close does not wait for the calls in progress.
DrainedAtOnce == TRUE

\* starting.Wait: every admitted call has returned.
Drained == \A r \in Runs : pc[r] \in Outside

CloseAll ==
  /\ closer = "draining" /\ Drained
  /\ closing' = sessions /\ Kill(sessions)
  /\ closer' = "joining"
  /\ UNCHANGED <<pc, outcome, starting, sessions, finished, canceled, goroutines, stopped,
                 closed>>

WorkersEnded == \A r \in Runs : /\ watcher[r] \in {"none", "ended"}
                                /\ lifetime[r] \in {"none", "ended"}
                                /\ keeper[r] \in {"none", "ended"}

CloseEnd ==
  /\ closer = "joining" /\ \A r \in closing : proc[r] = "done"
  /\ WorkersEnded
  /\ closer' = "closed"
  /\ UNCHANGED <<pc, outcome, starting, sessions, proc, finished, canceled, goroutines,
                 stopped, closed, closing>>

Call(r) == \/ Admit(r) \/ LaunchFails(r) \/ Launch(r) \/ Register(r) \/ Feed(r)
           \/ FeedFails(r) \/ WaitInterrupted(r) \/ WaitDone(r) \/ Yield(r)
           \/ HandOff(r) \/ ReadInitial(r) \/ Collect(r) \/ Leave(r)

Session(r) == \/ WatcherFires(r) \/ WatcherKills(r) \/ WatcherEnds(r)
              \/ LifetimeFires(r) \/ LifetimeKills(r)
              \/ Exit(r) \/ Settle(r) \/ KeeperEnds(r)

Next == \/ \E r \in Runs : Call(r) \/ Session(r) \/ CancelCall(r) \/ ContinueTerminate(r)
        \/ ContextEnds \/ CloseBegin \/ CloseAll \/ CloseEnd

Spec == Init /\ [][Next]_vars
-----------------------------------------------------------------------------
(* Correctness.                                                            *)

Goroutine == {"none", "armed", "firing", "ended"}

TypeOK ==
  /\ pc \in [Runs -> Outside \cup {"launching", "feeding", "waiting", "retiring", "reading",
                                "collecting", "leaving"}]
  /\ outcome \in [Runs -> {"none", "error", "result", "session"}]
  /\ starting \subseteq Runs /\ sessions \subseteq Runs /\ canceled \subseteq Runs
  /\ proc \in [Runs -> Alive \cup {"none", "done"}] /\ finished \in Seq(Runs)
  /\ watcher \in [Runs -> Goroutine] /\ lifetime \in [Runs -> Goroutine]
  /\ keeper \in [Runs -> {"none", "waiting", "ended"}]
  /\ stopped \in BOOLEAN /\ closed \in BOOLEAN /\ closing \subseteq Runs
  /\ closer \in {"open", "draining", "joining", "closed"}

\* The capacity holds for sessions and launches together, although a launch runs
\* without the mutex between its reservation and its registration.
CapacityRespected == Cardinality(sessions) + Cardinality(starting) <= MaxSessions

\* No process is orphaned: until it is settled, either the call that started it is in
\* progress, or the caller has got its session id and the id still finds it.
LiveProcessIsReachable ==
  \A r \in Runs : proc[r] \in Alive =>
    pc[r] \notin Outside \/ (outcome[r] = "session" /\ r \in sessions)

\* Once a live session is handed to its caller no goroutine is left that would kill it
\* for the cancellation of the request that started it (comment at process.go:332).
HandedOffIsDetached ==
  \A r \in Runs : pc[r] = "reading" \/ outcome[r] = "session" => watcher[r] = "ended"

\* Under capacity pressure active sessions keep their place (README.md:153).
OnlyCompletedSessionsLeave == [][\A r \in sessions \ sessions' : proc[r] = "done"]_vars

\* Close stops admission and joins everything: afterwards no process, goroutine,
\* session or call in progress is left, whichever calls it raced with.
CloseLeavesNothing ==
  closer = "closed" =>
    /\ sessions = {} /\ starting = {} /\ WorkersEnded
    /\ \A r \in Runs : pc[r] \in Outside /\ proc[r] \in {"none", "done"}

\* The inductive invariant behind the theorems of ProcessManagerProofs: what each phase
\* of a call implies for its process, its goroutines and the two sets.
Before    == {"idle", "launching"}
Underway  == {"feeding", "waiting", "retiring", "reading", "collecting"}
After     == {"leaving", "returned"}

CallPhases ==
  /\ starting = {r \in Runs : pc[r] = "launching"}
  /\ \A r \in Runs :
       /\ pc[r] = "idle" => proc[r] = "none"
       /\ pc[r] \in Before => r \notin sessions /\ outcome[r] = "none"
       /\ pc[r] \in Underway => proc[r] # "none"
       /\ pc[r] \in After => outcome[r] = "session" \/ proc[r] \in {"none", "done"}
       /\ outcome[r] = "session" => pc[r] \in After

GoroutinePhases ==
  \A r \in Runs :
    /\ pc[r] \in Before => watcher[r] = "none" /\ lifetime[r] = "none" /\ keeper[r] = "none"
    /\ pc[r] \in Underway => keeper[r] # "none"
    /\ pc[r] = "returned" => watcher[r] \in {"none", "ended"}
    /\ keeper[r] = "ended" => proc[r] = "done"
    /\ r \in sessions => keeper[r] = "waiting"

\* Nothing leaves the map before its process is settled, unless it was never in it.
SessionsCoverProcesses ==
  \A r \in Runs : proc[r] \in Alive /\ pc[r] \notin Before => r \in sessions

ClosePhases ==
  /\ closed => stopped
  /\ closer # "open" => closed
  /\ closer \in {"joining", "closed"} => Drained
  /\ closer = "closed" => WorkersEnded

ManagerInv == /\ TypeOK /\ CallPhases /\ GoroutinePhases /\ SessionsCoverProcesses
              /\ ClosePhases /\ HandedOffIsDetached

\* The phases of calls, processes and goroutines fit together, and sessions and
\* launches stay within the capacity (Manager.Run from reservation to registration).
TableInv == ManagerInv /\ CapacityRespected
===============================================================================
