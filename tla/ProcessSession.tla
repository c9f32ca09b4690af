---------------------------- MODULE ProcessSession ----------------------------
(***************************************************************************)
(* One session from its Run to its end: ProcessManager and ProcessInput    *)
(* composed (internal/process/process.go).  Run writes the first text      *)
(* before it waits, calls of Continue write the others, terminate closes   *)
(* the input before it kills, and the process exits and is settled for     *)
(* both at once.  A process that does not read its input blocks a write,   *)
(* and with it Run, until somebody terminates the process.                 *)
(***************************************************************************)
EXTENDS ProcessInput

CONSTANTS Run,   \* the call of Manager.Run
          First  \* its initial text, one of the Writers

ASSUME SessionAssumption == First \in Writers

\* The variables of ProcessManager; the other names are ProcessInput's.
VARIABLES call, outcome, starting, sessions, process, finished, gone, watcher, lifetime,
          keeper, stopped, closed, closer, closing

M == INSTANCE ProcessManager WITH Runs <- {Run}, MaxSessions <- 1,
       pc <- call, proc <- process, canceled <- gone

managerVars == <<call, outcome, starting, sessions, process, finished, gone, watcher,
                 lifetime, keeper, stopped, closed, closer, closing>>
sessionVars == <<vars, managerVars>>

SessionInit == Init /\ M!Init

\* Steps that leave the input alone.
Alone ==
  /\ \/ M!Admit(Run) \/ M!LaunchFails(Run) \/ M!Launch(Run) \/ M!Register(Run)
     \/ M!WaitDone(Run) \/ M!Yield(Run) \/ M!ReadInitial(Run) \/ M!Collect(Run) \/ M!Leave(Run)
     \/ M!WatcherFires(Run) \/ M!WatcherEnds(Run) \/ M!LifetimeFires(Run) \/ M!KeeperEnds(Run)
     \/ M!ContextEnds \/ M!CloseBegin \/ M!CloseEnd
  /\ UNCHANGED vars

\* closeStdin: a pipe that is still open is closed.
ClosesInput == IF ~terminal /\ ~stdinDone THEN CloseStdin ELSE UNCHANGED vars

\* terminate: the input is closed without waiting for the writes in progress, then the
\* process is killed.
Terminates == ClosesInput

Kills ==
  /\ \/ M!WaitInterrupted(Run) \/ M!WatcherKills(Run) \/ M!LifetimeKills(Run)
     \/ M!ContinueTerminate(Run) \/ M!CloseAll
  /\ Terminates

HandOff ==
  /\ M!HandOff(Run)
  /\ IF M!Interrupted(Run) THEN Terminates ELSE UNCHANGED vars

\* Mutant: a first text that was not written is no failure.
FedAnyhow == caller[First] \in {"idle", "returned"}

\* Run had nothing to write or has written it.
Fed == caller[First] = "idle" \/ answer[First] = "ok"

\* Run goes on, closing the input unless the session keeps it open.
Feed ==
  /\ M!Feed(Run) /\ Fed
  /\ ClosesInput \/ UNCHANGED vars

FeedFails ==
  /\ M!FeedFails(Run) /\ caller[First] = "returned" /\ ~Fed
  /\ Terminates

\* The context of Run is the context of its text.
CancelRun ==
  /\ M!CancelCall(Run) /\ canceled' = canceled \cup {First}
  /\ UNCHANGED <<caller, answer, task, input, proc>>

ProcessExits == M!Exit(Run) /\ Exit

\* The end of session.wait, for callers and writers alike.
ProcessSettles == M!Settle(Run) /\ Done

\* Continue finds the session by the id that Run has returned, and keeps it when it is
\* removed.
HandedOff == call[Run] = "returned" /\ outcome[Run] = "session"

MayWrite(w) == IF w = First THEN call[Run] = "feeding" ELSE HandedOff

InputStep(w) ==
  \/ Arrive(w) /\ MayWrite(w)
  \/ Cancel(w) /\ w # First
  \/ TakeGate(w) \/ LeaveQueue(w) \/ CheckCanceled(w) \/ Start(w)
  \/ WritePart(w) \/ TaskEnds(w) \/ Return(w)

InputAlone ==
  /\ \/ \E w \in Writers : InputStep(w)
     \/ CloseStdin /\ HandedOff
     \/ ShutInput \/ RefuseInput
  /\ UNCHANGED managerVars

SessionNext == \/ Alone \/ Kills \/ HandOff \/ Feed \/ FeedFails \/ CancelRun
               \/ ProcessExits \/ ProcessSettles \/ InputAlone

SessionSpec == SessionInit /\ [][SessionNext]_sessionVars
-----------------------------------------------------------------------------
(* Correctness.                                                            *)

\* Run reports a session or a result only if its text reached the process entirely, and a
\* text of Continue is written only to a session that was handed off.
TextsBelongToRun ==
  /\ outcome[Run] \in {"session", "result"} => caller[First] = "idle" \/ Parts(First) = 2
  /\ \A w \in Writers \ {First} : Parts(w) > 0 => outcome[Run] = "session"

\* The state of ProcessInput together with the process that ProcessManager sees.
SessionInv ==
  /\ QueueInv /\ TextsBelongToRun
  /\ process[Run] \in {"live", "killed"} => proc = "live"
  /\ process[Run] = "exited" <=> proc \in {"exited", "draining", "joining"}
-----------------------------------------------------------------------------
(* Liveness.  Goroutines run, timers fire, a killed process exits; nobody  *)
(* need read the input, and nobody need cancel.  That a process is settled *)
(* is not assumed here: it follows from the end of its writes.             *)

Waits ==
  \/ M!WaitInterrupted(Run) /\ Terminates
  \/ (M!WaitDone(Run) \/ M!Yield(Run)) /\ UNCHANGED vars

Returns == (M!ReadInitial(Run) \/ M!Collect(Run) \/ M!Leave(Run)) /\ UNCHANGED vars

Watches ==
  \/ (M!WatcherFires(Run) \/ M!WatcherEnds(Run)) /\ UNCHANGED vars
  \/ M!WatcherKills(Run) /\ Terminates

TimesOut ==
  \/ M!LifetimeFires(Run) /\ UNCHANGED vars
  \/ M!LifetimeKills(Run) /\ Terminates

Settles == ((ShutInput \/ RefuseInput) /\ UNCHANGED managerVars) \/ ProcessSettles

Writes(w) ==
  /\ CheckCanceled(w) \/ Start(w) \/ TaskEnds(w) \/ LeaveQueue(w) \/ Return(w)
  /\ UNCHANGED managerVars

SessionFairness ==
  /\ WF_sessionVars(stopped /\ M!CloseBegin /\ UNCHANGED vars)
  /\ WF_sessionVars(M!CloseAll /\ Terminates)
  /\ WF_sessionVars(M!CloseEnd /\ UNCHANGED vars)
  /\ WF_sessionVars((M!LaunchFails(Run) \/ M!Register(Run)) /\ UNCHANGED vars)
  /\ WF_sessionVars(Feed \/ FeedFails) /\ WF_sessionVars(Waits) /\ WF_sessionVars(HandOff)
  /\ WF_sessionVars(Returns) /\ WF_sessionVars(Watches) /\ WF_sessionVars(TimesOut)
  /\ WF_sessionVars(process[Run] = "killed" /\ ProcessExits) /\ WF_sessionVars(Settles)
  /\ WF_sessionVars(M!KeeperEnds(Run) /\ UNCHANGED vars)
  /\ \A w \in Writers : WF_sessionVars(Writes(w))

FairSession == SessionSpec /\ SessionFairness

\* Manager.Close ends, although it waits for a Run that may be blocked in its write, for
\* the process and for every goroutine.
CloseEnds == stopped ~> closer = "closed"

\* Run returns, although the process may never read its text, and although it waits for
\* the end of a process whose end waits for that write.
RunReturns == call[Run] = "launching" ~> call[Run] = "returned"

\* The lifetime timeout ends the process and collects it, with writes blocked or not
\* (README.md:151: termination stays available when stdin is blocked).
ProcessEnds == process[Run] = "live" ~> process[Run] = "done"

\* A blocked or abandoned write never keeps a call that waits for the input after the
\* process has ended.
CallersReturn == proc = "exited" ~> Waiting = {}

\* No caller of Run or Continue waits for ever.
CallsReturn == RunReturns /\ CallersReturn
=============================================================================
