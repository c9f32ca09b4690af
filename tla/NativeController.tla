--------------------------- MODULE NativeController ---------------------------
(***************************************************************************)
(* The Go side of native desktop control (internal/computer/               *)
(* computer_windows.go) with the worker process it drives: calls, which    *)
(* run one at a time, Reset and Close, the goroutines that read a worker's *)
(* output and wait for its exit, and stopCommand, which each of them may   *)
(* run.  The coordinator is external: it ends contexts and calls Reset at  *)
(* any time.                                                               *)
(*                                                                         *)
(* A thread is a call, Reset, Close or the read goroutine of a worker.     *)
(* What a thread does under a mutex is one step.  A context may end at any *)
(* moment, so a select with its Done channel may always take that branch.  *)
(***************************************************************************)
EXTENDS NativeWorker, SequencesExt

CONSTANTS MaxWaiting,  \* calls admitted at a time (64 in the code)
          MaxWorkers,  \* bound: worker processes started
          Resetter, Closer, NoCall

Workers == 1..MaxWorkers
Threads == Calls \cup {Resetter, Closer} \cup Workers

ASSUME ControllerAssumption ==
  /\ MaxWaiting \in Nat /\ MaxWorkers \in Nat
  /\ NoCall \notin Calls /\ Resetter # Closer
  /\ {Resetter, Closer} \cap (Calls \cup Workers) = {} /\ Calls \cap Workers = {}

VARIABLES
  at,       \* the place of each thread
  req,      \* the request it made last
  gate,     \* the call that has the gate
  cmd,      \* the worker in charge; 0: none
  pending,  \* responses by request: "none" until one is there
  inputs,   \* the supervisor's copy of the presses that are down
  rel,      \* presses a releaseInputs of the thread has taken and not yet sent
  reaped,   \* workers that have been waited for; their output pipe is closed
  closed,   \* the controller's context is done
  resets,   \* calls of Reset begun
  known,    \* observations that calls have returned
  covered,  \* history: acts in progress when the current Reset began
  quiet,    \* history: acts in progress when a Reset began that has succeeded
  lost      \* history: presses whose event went with the output pipe, or that the
            \* supervisor released before the worker had sent them

callVars == <<gate, pending, req, known>>
endVars  == <<reaped, closed, resets>>
histVars == <<covered, quiet, lost>>
ctlVars  == <<at, callVars, cmd, inputs, rel, endVars, histVars>>
vars == <<workerVars, ctlVars>>

Init ==
  /\ WorkerInit
  /\ out = [w \in Workers |-> <<>>]
  /\ at = [t \in Threads |-> "idle"] /\ req = [t \in Threads |-> NoRequest]
  /\ gate = NoCall /\ cmd = 0 /\ pending = NoEntry
  /\ inputs = {} /\ rel = [t \in Threads |-> {}]
  /\ reaped = {} /\ closed = FALSE /\ resets = 0
  /\ known = {} /\ covered = {} /\ quiet = {} /\ lost = {}

Goto(t, place) == at' = [at EXCEPT ![t] = place]
Ask(t, r)      == req' = [req EXCEPT ![t] = r] /\ Goto(t, "send")

Begun(c) == at[c] \notin {"idle", "done"}
-----------------------------------------------------------------------------
(* releaseInputs: take the supervisor's copy, send a release for each press, *)
(* put back what Windows rejects; it is clean if nothing is left.  It is   *)
(* called by itself ("release") or at the end of stopCommand               *)
(* ("stop_release"), which goes on either way.                             *)

\* Where a thread goes on after stopCommand: a call that could not cancel its request still
\* waits for it, any other failed; Reset and Close release once more.
AfterStop(t) ==
  CASE t \in Calls   -> IF req[t].kind = "cancel" THEN "drain" ELSE "error"
    [] t \in Workers -> "ended"
    [] OTHER         -> "release"

\* A call goes on, and Reset and Close succeed, only if nothing is left down.
AfterRelease(t, clean) ==
  IF ~clean THEN "error" ELSE IF t \in Calls THEN "start" ELSE "ok"

\* With nothing to release it is a single step: an event that read applies between its two
\* critical sections is left out.
Release(t) ==
  /\ at[t] \in {"release", "stop_release"}
  /\ rel' = [rel EXCEPT ![t] = inputs] /\ inputs' = {}
  /\ Goto(t, IF inputs # {}
             THEN IF at[t] = "release" THEN "releasing" ELSE "stop_releasing"
             ELSE IF at[t] = "release" THEN AfterRelease(t, TRUE) ELSE AfterStop(t))
  /\ UNCHANGED <<workerVars, callVars, cmd, endVars, histVars>>

\* Mutant: what Windows rejects is not put back.
KeptNone(rejected) == {}

Kept(rejected) == rejected

ReleaseSend(t) ==
  /\ at[t] \in {"releasing", "stop_releasing"}
  /\ \E rejected \in SUBSET rel[t] :
       /\ inputs' = inputs \cup Kept(rejected)
       /\ held' = held \ (rel[t] \ rejected) /\ refused' = refused \cup rejected
       /\ Trouble(Cardinality(rejected))
       /\ Goto(t, IF at[t] = "releasing" THEN AfterRelease(t, inputs' = {}) ELSE AfterStop(t))
  /\ rel' = [rel EXCEPT ![t] = {}]
  /\ lost' = lost \cup (rel[t] \cap (journal \ held))
  /\ UNCHANGED <<procVars, pipeVars, reader, overlay, loopVars, journal, obsVars, job,
                 callVars, cmd, endVars, covered, quiet>>
-----------------------------------------------------------------------------
(* stopCommand, under lifecycleMu.                                         *)

LifecycleFree ==
  \A t \in Threads : at[t] \notin {"kill", "wait", "stop_release", "stop_releasing"}

Failed(p) == [r \in DOMAIN p |-> IF p[r] = "none" THEN "error" ELSE p[r]]

\* The command is taken, waiting requests fail, stdin is closed.  The read goroutine of a
\* worker stops no other worker.
StopTake(t) ==
  /\ at[t] = "stop" /\ LifecycleFree
  /\ IF t \in Workers /\ cmd # t
     THEN Goto(t, AfterStop(t)) /\ UNCHANGED <<open, cmd, pending>>
     ELSE /\ Goto(t, IF cmd = 0 THEN "stop_release" ELSE "kill")
          /\ cmd' = 0 /\ pending' = Failed(pending) /\ open' = FALSE
  /\ UNCHANGED <<hostUp, worker, alive, pipeVars, reader, overlay, loopVars, inputVars, obsVars,
                 job, req, gate, known, inputs, rel, endVars, histVars>>

Kill(t) ==
  /\ at[t] = "kill" /\ Goto(t, "wait") /\ WorkerEnds
  /\ UNCHANGED <<hostUp, worker, open, out, held, refused, troubles, job, callVars, cmd, inputs, rel,
                 endVars, histVars>>

\* cmd.Wait has returned, or two seconds have passed.
WaitExit(t) ==
  /\ at[t] = "wait" /\ Goto(t, "stop_release")
  /\ IF worker \in reaped THEN troubles' = troubles ELSE Trouble(1)
  /\ UNCHANGED <<procVars, pipeVars, reader, overlay, loopVars, journal, held, refused, obsVars, job,
                 callVars, cmd, inputs, rel, endVars, histVars>>
-----------------------------------------------------------------------------
(* request: register the id, write the frame, wait for the response.       *)

Registered(r) ==
  [x \in DOMAIN pending \cup {r} |-> IF x = r THEN "none" ELSE pending[x]]

\* Without a worker the request fails, and only a Work has no one who stops the worker then.
\* A stopCommand between the registration and the write makes the write fail.
Send(t) ==
  /\ at[t] = "send"
  /\ \/ /\ cmd = 0 /\ Goto(t, IF req[t].kind = "work" THEN "error" ELSE "stop")
        /\ UNCHANGED <<pending, stdin>>
     \/ /\ cmd # 0 /\ Goto(t, "await") /\ pending' = Registered(req[t])
        /\ stdin' = IF alive THEN Append(stdin, req[t]) ELSE stdin
     \/ cmd # 0 /\ Goto(t, "stop") /\ UNCHANGED <<pending, stdin>>
  /\ UNCHANGED <<procVars, out, reader, overlay, loopVars, inputVars, obsVars, job,
                 gate, req, known, cmd, inputs, rel, endVars, histVars>>

Answer(r)  == pending[r]
Arrived(t) == at[t] = "await" /\ Answer(req[t]) # "none"

\* What the steps of call and Reset between requests leave alone.
aside == <<workerVars, gate, pending, known, cmd, inputs, rel, endVars, histVars>>
-----------------------------------------------------------------------------
(* call.                                                                   *)

\* A call takes a waiting slot; an act comes after an observation its client has been given.
Enter(c) ==
  /\ at[c] = "idle"
  /\ Goto(c, IF Cardinality({d \in Calls : Begun(d)}) < MaxWaiting THEN "gate" ELSE "done")
  /\ IF c \in Acts THEN \E k \in Kinds, l \in known : job' = (c :> [kind |-> k, on |-> l]) @@ job
     ELSE job' = job
  /\ UNCHANGED <<procVars, pipeVars, reader, overlay, loopVars, inputVars, obsVars, callVars,
                 cmd, inputs, rel, endVars, histVars>>

\* The gate, or the end of the context or of the controller.
TakeGate(c) ==
  /\ at[c] = "gate"
  /\ \/ gate = NoCall /\ ~closed /\ gate' = c /\ Goto(c, "release")
     \/ gate' = gate /\ Goto(c, "canceled")
  /\ UNCHANGED <<workerVars, pending, req, known, cmd, inputs, rel, endVars, histVars>>

\* start, for the first call and after a worker was stopped.
Start(c) ==
  /\ at[c] = "start"
  /\ \/ cmd # 0 /\ Ask(c, Work(c)) /\ UNCHANGED <<workerVars, cmd>>
     \/ /\ cmd = 0 /\ LifecycleFree /\ ~closed /\ worker < MaxWorkers
        /\ WorkerStarts /\ cmd' = worker + 1
        /\ req' = [req EXCEPT ![c] = Hello(c)]
        /\ at' = [at EXCEPT ![c] = "send", ![worker + 1] = "read"]
     \/ cmd = 0 /\ LifecycleFree /\ Goto(c, "error") /\ UNCHANGED <<workerVars, req, cmd>>
  /\ UNCHANGED <<gate, pending, known, inputs, rel, endVars, histVars>>

\* The response to the request, to hello or to a cancel.
CallAnswered(c) ==
  /\ c \in Calls /\ Arrived(c)
  /\ LET a == Answer(req[c]) IN
       CASE req[c].kind = "work"   -> Goto(c, a) /\ req' = req
         [] req[c].kind = "hello"  -> IF a = "ok" THEN Ask(c, Work(c)) ELSE Goto(c, "stop") /\ req' = req
         [] req[c].kind = "cancel" -> Goto(c, IF a = "ok" THEN "drain" ELSE "stop") /\ req' = req
  /\ UNCHANGED aside

\* Mutant: a canceled call returns without waiting for its request.
LeavesAtOnce(c) == Goto(c, "canceled") /\ req' = req

\* The context ends first: the request is canceled, a hello or a cancel is given up.
Interrupts(c) ==
  IF req[c].kind = "work" THEN Ask(c, Cancel(c)) ELSE Goto(c, "stop") /\ req' = req

CallExpires(c) == at[c] = "await" /\ Interrupts(c) /\ UNCHANGED aside

\* A canceled request is waited for until the cleanup time has passed; then the worker is stopped.
Drain(c) ==
  /\ at[c] = "drain" /\ req' = [req EXCEPT ![c] = Work(c)]
  /\ Goto(c, "stop") \/ (Answer(Work(c)) # "none" /\ Goto(c, "canceled"))
  /\ UNCHANGED aside

\* The deferred functions: the ids are forgotten, gate and slot returned.
Return(c) ==
  /\ at[c] \in {"ok", "error", "canceled"} /\ Goto(c, "done")
  /\ known' = IF c \in Looks /\ at[c] = "ok" THEN known \cup {c} ELSE known
  /\ pending' = [r \in {x \in DOMAIN pending : x.kind = "stop" \/ x.of # c} |-> pending[r]]
  /\ gate' = IF gate = c THEN NoCall ELSE gate
  /\ req' = [req EXCEPT ![c] = NoRequest]
  /\ UNCHANGED <<workerVars, cmd, inputs, rel, endVars, histVars>>
-----------------------------------------------------------------------------
(* Reset and Close.                                                        *)

\* Without a worker, Reset only releases what the supervisor knows.
ResetBegin ==
  /\ at[Resetter] = "idle" /\ Trouble(1)
  /\ resets' = resets + 1 /\ covered' = {c \in Acts : Begun(c)}
  /\ IF cmd = 0 THEN Goto(Resetter, "release") /\ req' = req ELSE Ask(Resetter, Stop(resets + 1))
  /\ UNCHANGED <<procVars, pipeVars, reader, overlay, loopVars, journal, held, refused, obsVars, job,
                 gate, pending, known, cmd, inputs, rel, closed, reaped, quiet, lost>>

\* A value still being set is reported; any other failure, or the end of the context,
\* stops the worker.
ResetAnswered ==
  /\ at[Resetter] = "await" /\ req' = req
  /\ \/ Goto(Resetter, "stop")
     \/ Answer(req[Resetter]) \in {"ok", "settling"} /\ Goto(Resetter, Answer(req[Resetter]))
  /\ UNCHANGED aside

ResetEnd ==
  /\ at[Resetter] \in {"ok", "error", "settling"} /\ Goto(Resetter, "idle")
  /\ pending' = [r \in {x \in DOMAIN pending : x.kind # "stop"} |-> pending[r]]
  /\ req' = [req EXCEPT ![Resetter] = NoRequest] /\ covered' = {}
  /\ quiet' = IF at[Resetter] = "ok" THEN quiet \cup covered ELSE quiet
  /\ UNCHANGED <<workerVars, gate, known, cmd, inputs, rel, endVars, lost>>

CloseBegin ==
  /\ at[Closer] = "idle" /\ closed' = TRUE /\ Goto(Closer, "stop")
  /\ Trouble(1)
  /\ UNCHANGED <<procVars, pipeVars, reader, overlay, loopVars, journal, held, refused, obsVars, job,
                 callVars, cmd, inputs, rel, resets, reaped, histVars>>
-----------------------------------------------------------------------------
(* The goroutines of a worker.                                             *)

\* The supervisor's copy after an input event.
Applied(msg) ==
  CASE msg.type = "down" -> inputs \cup msg.keys
    [] msg.type = "up"   -> inputs \ msg.keys
    [] OTHER             -> inputs

\* read: one frame.  A response goes to the request that still waits for it.
Read(w) ==
  /\ at[w] = "read" /\ out[w] # <<>>
  /\ LET msg == Head(out[w]) IN
       /\ inputs' = Applied(msg)
       /\ pending' = IF /\ msg.type = "reply" /\ msg.to \in DOMAIN pending
                        /\ pending[msg.to] = "none"
                     THEN [pending EXCEPT ![msg.to] = msg.result] ELSE pending
  /\ out' = [out EXCEPT ![w] = Tail(@)]
  /\ UNCHANGED <<procVars, stdin, reader, overlay, loopVars, inputVars, obsVars, job, at,
                 gate, req, known, cmd, rel, endVars, histVars>>

Over(w) == w < worker \/ (w = worker /\ ~alive)

\* read ends, and disconnected: the requests to the worker in charge fail and it is stopped.
ReadEnds(w) ==
  /\ at[w] = "read" /\ out[w] = <<>> /\ Over(w)
  /\ IF cmd = w THEN Goto(w, "stop") /\ pending' = Failed(pending)
     ELSE Goto(w, "ended") /\ pending' = pending
  /\ UNCHANGED <<workerVars, gate, req, known, cmd, inputs, rel, endVars, histVars>>

Downs(s) == UNION {s[i].keys : i \in {j \in DOMAIN s : s[j].type = "down"}}

\* How much read can still take from the pipe.  Nobody waits for a response of a worker
\* that is not in charge any more: what follows its last input event does not matter.
Cuts(w) ==
  {n \in 0..Len(out[w]) : cmd = w \/ n = 0 \/ out[w][n].type \in {"down", "up"}}

\* cmd.Wait returns and closes the output pipe: what read has not taken from it is lost.
Reap(w) ==
  /\ Over(w) /\ w \notin reaped /\ reaped' = reaped \cup {w}
  /\ \E n \in Cuts(w) :
       /\ out' = [out EXCEPT ![w] = SubSeq(@, 1, n)]
       /\ lost' = lost \cup Downs(SubSeq(out[w], n + 1, Len(out[w])))
  /\ UNCHANGED <<procVars, stdin, reader, overlay, loopVars, inputVars, obsVars, job, at,
                 callVars, cmd, inputs, rel, closed, resets, covered, quiet>>
-----------------------------------------------------------------------------
(* What nobody here decides.                                               *)

\* The worker crashes, or the end of the controller's context kills it.
Crash ==
  /\ alive /\ WorkerEnds /\ Trouble(1)
  /\ UNCHANGED <<hostUp, worker, open, out, held, refused, job, ctlVars>>

\* The host dies: no goroutine is left, the worker reads the end of its input.
HostDies ==
  /\ hostUp' = FALSE /\ open' = FALSE /\ Trouble(1)
  /\ at' = [t \in Threads |-> "idle"] /\ req' = [t \in Threads |-> NoRequest]
  /\ gate' = NoCall /\ cmd' = 0 /\ pending' = NoEntry
  /\ inputs' = {} /\ rel' = [t \in Threads |-> {}] /\ covered' = {} /\ quiet' = {}
  /\ UNCHANGED <<worker, alive, pipeVars, reader, overlay, loopVars, journal, held, refused, obsVars, job,
                 known, endVars, lost>>
-----------------------------------------------------------------------------
StopStep(t) == Release(t) \/ ReleaseSend(t) \/ StopTake(t) \/ Kill(t) \/ WaitExit(t)
CallStep(c) ==
  \/ TakeGate(c) \/ Start(c) \/ CallAnswered(c) \/ CallExpires(c) \/ Drain(c) \/ Return(c)
ResetStep == ResetAnswered \/ ResetEnd
ReadStep(w) == Read(w) \/ ReadEnds(w) \/ Reap(w)

\* Steps of the Go process and of its surroundings; none is taken once it is gone.
HostNext ==
  /\ hostUp
  /\ \/ \E t \in Threads : StopStep(t) \/ Send(t)
     \/ \E c \in Calls : Enter(c) \/ CallStep(c)
     \/ ResetBegin \/ ResetStep \/ CloseBegin
     \/ \E w \in Workers : ReadStep(w)
     \/ Crash \/ HostDies

Next == (WorkerNext /\ UNCHANGED ctlVars) \/ HostNext

Spec == Init /\ [][Next]_vars
-----------------------------------------------------------------------------
(* Correctness.                                                            *)

TypeOK ==
  /\ hostUp \in BOOLEAN /\ alive \in BOOLEAN /\ open \in BOOLEAN /\ closed \in BOOLEAN
  /\ worker \in 0..MaxWorkers /\ cmd \in 0..MaxWorkers /\ reaped \subseteq Workers
  /\ held \subseteq Acts /\ journal \subseteq Acts /\ refused \subseteq Acts
  /\ inputs \subseteq Acts /\ rel \in [Threads -> SUBSET Acts] /\ lost \subseteq Acts
  /\ gate \in Calls \cup {NoCall} /\ known \subseteq Looks
  /\ covered \subseteq Acts /\ quiet \subseteq Acts /\ troubles \in 0..MaxTroubles

Tracked == inputs \cup (UNION {rel[t] : t \in Threads}) \cup (UNION {Downs(out[w]) : w \in Workers})

\* A key or button that is down is known to whoever is left to release it: the worker
\* while it runs, else the supervisor's copy, what a releaseInputs has in hand or an
\* event not yet read, across crashes, kills, restarts, stops and rejected releases.
\* What `lost` lists is the exception (see the README).
HeldIsKnown == hostUp => held \subseteq journal \cup Tracked \cup lost

\* Between two requests a worker holds nothing down but what Windows would not release:
\* whichever thread released it, and wherever the act was interrupted.
NothingLeftDown ==
  alive /\ main.pc \notin {"pressing", "pressed", "release", "fail"} => journal \subseteq refused

\* A request that the worker has yet to read, to execute or to answer.
InWorker(r) ==
  /\ alive /\ cmd # 0
  /\ \/ r \in ToSet(stdin) \cup ToSet(queue)
     \/ main.req = r /\ main.pc \notin {"idle", "forget"}

\* A value of the call is with the UI Automation thread and may still begin to be set.
MayBegin(c) == alive /\ cmd # 0 /\ uia.of = c /\ uia.pc = "queued" /\ MayDispatch

\* A call that has returned, for whatever reason, has no request left in the pipe, the
\* channel or the main thread of the worker in charge: a canceled request is waited for or
\* its worker is stopped (request, with cancelOnDeadline).  Nor does a value of it begin to
\* be set.  One whose SetValue had begun is the exception: the main thread gives it up when
\* it is canceled or late (Worker.receive), and the UI Automation thread goes on setting it
\* while later calls run.
ReturnedIsOver ==
  \A c \in Calls : at[c] = "done" => ~InWorker(Work(c)) /\ ~InWorker(Hello(c)) /\ ~MayBegin(c)

\* Once a stop has been answered with success, no value submitted before it is being set or
\* will be, whatever clicks, stops, cancellations and late submissions came in between: the
\* answer looks for work under SEMANTIC_ACTIVE after the generation was raised, and work
\* compares generations under it before it begins (semantic_settling, Worker::new).
StoppedIsQuiet == alive /\ uia.pc = "dispatching" => uia.gen >= settled

\* A stop or a cancel finds what it is meant for: ACTIVE, which the reader sets and the
\* main thread clears, is the request in execution or the one handed over.
StopReachesWork ==
  alive => /\ main.pc \notin {"idle", "forget"} => active = main.req
           /\ queue # <<>> => active = Last(queue)

\* The reader thread of the worker is never blocked on its one-place channel, so that a
\* cancel or a stop is read at once: whatever was canceled, timed out or stopped, the
\* host has one request at a time in a worker (sync_channel(1) and gate).
ReaderIsFree == Len(queue) <= 1

\* Both, with the types of the state.
NativeInv == TypeOK /\ StopReachesWork /\ ReaderIsFree

Setting(c) ==
  /\ alive /\ cmd # 0 /\ uia.of = c
  /\ uia.pc = "dispatching" \/ (uia.pc = "queued" /\ MayDispatch)

\* "Control remains in `stopping` while submitted work or input cleanup is settling"
\* (README.md:245): once Reset has succeeded and the act has returned, which is when the
\* coordinator frees the desktop, no value of it is being set or will be.
StoppedIsSettled == \A c \in quiet : at[c] = "done" => ~Setting(c)
=============================================================================
