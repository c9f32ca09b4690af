---------------------------- MODULE NativeWorker ----------------------------
(***************************************************************************)
(* The Rust process that observes the desktop and injects input            *)
(* (native/computer-windows): a reader thread that takes requests from     *)
(* stdin and handles `cancel` and `stop` at once, a main thread that       *)
(* executes the others in order, a UI Automation thread, and the overlay   *)
(* whose Stop strip the user can click.                                    *)
(*                                                                         *)
(* An atomic load or store and a critical section of INPUTS, ACTIVE or     *)
(* SEMANTIC_ACTIVE are single steps.  Windows is external: it may reject   *)
(* any input, and any validation may fail.                                 *)
(***************************************************************************)
EXTENDS Naturals, Sequences, FiniteSets

CONSTANTS Looks,      \* calls that observe for a control: `state`
          Acts,       \* the other calls, each of one of the Kinds
          MaxStates,  \* observations the worker remembers (64 in the code)
          MaxTroubles, \* bound: clicks on Stop, crashes, deaths of the host, inputs that
                      \* Windows rejects, and calls of Reset and Close
          NoRequest

Calls == Looks \cup Acts

\* `cancel` names the call whose request it cancels, `stop` has a number of its own.
Requests == [kind : {"hello", "work", "cancel"}, of : Calls] \cup [kind : {"stop"}, of : Nat]

ASSUME WorkerAssumption ==
  /\ IsFiniteSet(Calls) /\ Looks \cap Acts = {} /\ NoRequest \notin Requests
  /\ MaxStates \in Nat \ {0} /\ MaxTroubles \in Nat

\* An act holds a key or button down, sets a value through UI Automation, or only
\* invalidates (`invalidate`, `show_control`, and `activate`, which injects nothing).
Kinds == {"press", "value", "clear"}

VARIABLES
  hostUp,     \* the Go process, which reads what the worker writes, is there
  worker,     \* number of the worker process started last; 0: none yet
  alive,      \* it runs
  stdin,      \* requests in its input pipe
  open,       \* the host's end of that pipe is open
  out,        \* out[w]: what worker w wrote and the host has not read
  reader,     \* reader thread: pc, the interrupt it handles, whether inputs are clean
  overlay,    \* overlay thread in local_stop: "idle" | "release" | "bump"
  active,     \* ACTIVE: the request a cancel applies to
  canceled,   \* requests whose cancel flag is set
  queue,      \* the channel from the reader to the main thread
  main,       \* main thread: pc, its request, the result to answer
  journal,    \* INPUTS: presses this worker has to undo
  stops,      \* STOP_GENERATION
  seen,       \* observations of this epoch, with the stop generation each carries
  uia,        \* UI Automation thread: pc, its call, cancel flag, generation, answer
  job,        \* job[c]: the kind of an act and the observation it names
  held,       \* the desktop: presses that are down
  refused,    \* history: presses whose release Windows rejected
  settled,    \* history: the stop generation last answered with success
  troubles    \* how many there have been

procVars  == <<hostUp, worker, alive, open>>
pipeVars  == <<stdin, out>>
inputVars == <<journal, held, refused, troubles>>
loopVars  == <<active, canceled, queue, main>>
obsVars   == <<stops, seen, uia, settled>>
workerVars == <<procVars, pipeVars, reader, overlay, loopVars, inputVars, obsVars, job>>

Request(k, x) == [kind |-> k, of |-> x]
Hello(c)  == Request("hello", c)
Work(c)   == Request("work", c)
Cancel(c) == Request("cancel", c)
Stop(n)   == Request("stop", n)

Down(c)       == [type |-> "down", keys |-> {c}]
Up(S)         == [type |-> "up", keys |-> S]
LocalStopped  == [type |-> "local_stop"]
Reply(r, res) == [type |-> "reply", to |-> r, result |-> res]

\* write_value and emit_event: one frame at a time, under OUTPUT.
Write(msg) == out' = [out EXCEPT ![worker] = Append(@, msg)]

NoEntry == [x \in {} |-> 0]
IdleReader  == [pc |-> "read", msg |-> NoRequest, clean |-> TRUE]
IdleMain    == [pc |-> "idle", req |-> NoRequest, result |-> "ok"]
IdleUia     == [pc |-> "idle", of |-> NoRequest, cancel |-> FALSE, gen |-> 0, answer |-> "none"]

WorkerInit ==
  /\ hostUp = TRUE /\ worker = 0 /\ alive = FALSE /\ open = FALSE /\ held = {}
  /\ refused = {} /\ job = NoEntry /\ troubles = 0
  /\ stdin = <<>> /\ reader = IdleReader /\ overlay = "idle"
  /\ active = NoRequest /\ canceled = {} /\ queue = <<>> /\ main = IdleMain
  /\ journal = {} /\ stops = 0 /\ settled = 0 /\ seen = NoEntry /\ uia = IdleUia

\* A new process: Engine::new and the statics.
WorkerStarts ==
  /\ worker' = worker + 1 /\ alive' = TRUE /\ open' = TRUE
  /\ stdin' = <<>> /\ reader' = IdleReader /\ overlay' = "idle"
  /\ active' = NoRequest /\ canceled' = {} /\ queue' = <<>> /\ main' = IdleMain
  /\ journal' = {} /\ stops' = 0 /\ settled' = 0 /\ seen' = NoEntry /\ uia' = IdleUia
  /\ UNCHANGED <<hostUp, out, job, held, refused, troubles>>

\* It is killed, panics or exits: nothing is left of its threads; what is down stays down.
WorkerEnds ==
  /\ alive' = FALSE
  /\ reader' = IdleReader /\ overlay' = "idle"
  /\ active' = NoRequest /\ canceled' = {} /\ queue' = <<>> /\ main' = IdleMain
  /\ stdin' = <<>> /\ journal' = {} /\ stops' = 0 /\ settled' = 0 /\ seen' = NoEntry /\ uia' = IdleUia
-----------------------------------------------------------------------------
(* Held input.  INPUTS stays locked from the journal entry of a press to   *)
(* its injected event: the place "pressing" of the main thread.            *)

InputsFree == main.pc # "pressing"

\* n things go wrong around the program.
Trouble(n) == troubles + n <= MaxTroubles /\ troubles' = troubles + n

\* release_all: every journaled press is undone and reported, except those Windows rejects.
\* One message stands for the events of one release_all.
ReleaseAll(rejected) ==
  /\ InputsFree /\ rejected \subseteq journal
  /\ journal' = rejected /\ held' = held \ (journal \ rejected)
  /\ refused' = refused \cup rejected /\ Trouble(Cardinality(rejected))
  /\ IF journal = rejected THEN out' = out ELSE Write(Up(journal \ rejected))
-----------------------------------------------------------------------------
(* The reader thread.                                                      *)

ReaderAt(pc) == alive /\ reader.pc = pc

\* A request becomes the active one and is handed to the main thread (ReaderIsFree shows
\* that the one-place channel has room).
ReadWork ==
  /\ ReaderAt("read") /\ stdin # <<>> /\ Head(stdin).kind \in {"hello", "work"}
  /\ stdin' = Tail(stdin) /\ active' = Head(stdin)
  /\ queue' = Append(queue, Head(stdin))
  /\ UNCHANGED <<procVars, out, reader, overlay, canceled, main, inputVars, obsVars, job>>

\* cancel_active: `cancel` job a request, `stop` takes whatever runs.
Cancels(r) == active # NoRequest /\ (r.kind = "cancel" => active = Work(r.of))

\* A `cancel` that finds another request or none has nothing to release.
ReadInterrupt ==
  /\ ReaderAt("read") /\ stdin # <<>> /\ Head(stdin).kind \in {"cancel", "stop"}
  /\ LET r == Head(stdin) IN
       /\ stdin' = Tail(stdin)
       /\ canceled' = IF Cancels(r) THEN canceled \cup {active} ELSE canceled
       /\ reader' = [pc |-> IF r.kind = "stop" \/ Cancels(r) THEN "release" ELSE "answer",
                     msg |-> r, clean |-> TRUE]
  /\ UNCHANGED <<procVars, out, overlay, active, queue, main, inputVars, obsVars, job>>

\* The host closed stdin or died: local_stop.
ReadEnd ==
  /\ ReaderAt("read") /\ stdin = <<>> /\ ~open
  /\ canceled' = IF active = NoRequest THEN canceled ELSE canceled \cup {active}
  /\ reader' = [pc |-> "release", msg |-> NoRequest, clean |-> TRUE]
  /\ UNCHANGED <<procVars, pipeVars, overlay, active, queue, main, inputVars, obsVars, job>>

ReaderRelease ==
  /\ ReaderAt("release")
  /\ \E rejected \in SUBSET journal :
       /\ ReleaseAll(rejected)
       /\ reader' = [reader EXCEPT
            !.pc = IF reader.msg # NoRequest /\ reader.msg.kind = "cancel" THEN "answer" ELSE "bump",
            !.clean = (rejected = {})]
  /\ UNCHANGED <<procVars, stdin, overlay, loopVars, obsVars, job>>

\* STOP_GENERATION moves on; at the end of the input the thread ends.
ReaderBump ==
  /\ ReaderAt("bump") /\ stops' = stops + 1
  /\ IF reader.msg = NoRequest
     THEN reader' = [reader EXCEPT !.pc = "gone"] /\ Write(LocalStopped)
     ELSE reader' = [reader EXCEPT !.pc = "answer"] /\ out' = out
  /\ UNCHANGED <<procVars, stdin, overlay, loopVars, inputVars, seen, uia, settled, job>>

\* Mutant: a stop is answered although a value is still being set.
AnswerUnsettled(r) == IF reader.clean THEN "ok" ELSE "error"

InterruptResult(r) ==
  IF ~reader.clean THEN "error"
  ELSE IF r.kind = "stop" /\ uia.pc = "dispatching" THEN "settling" ELSE "ok"

ReaderAnswer ==
  /\ ReaderAt("answer")
  /\ LET res == InterruptResult(reader.msg) IN
       /\ Write(Reply(reader.msg, res))
       /\ settled' = IF reader.msg.kind = "stop" /\ res = "ok" THEN stops ELSE settled
  /\ reader' = IdleReader
  /\ UNCHANGED <<procVars, stdin, overlay, loopVars, inputVars, stops, seen, uia, job>>
-----------------------------------------------------------------------------
(* local_stop on the overlay thread: a click on the Stop strip.            *)

Click ==
  /\ alive /\ overlay = "idle" /\ Trouble(1)
  /\ canceled' = IF active = NoRequest THEN canceled ELSE canceled \cup {active}
  /\ overlay' = "release"
  /\ UNCHANGED <<procVars, pipeVars, reader, active, queue, main, journal, held, refused, obsVars, job>>

ClickRelease ==
  /\ alive /\ overlay = "release" /\ overlay' = "bump"
  /\ \E rejected \in SUBSET journal : ReleaseAll(rejected)
  /\ UNCHANGED <<procVars, stdin, reader, loopVars, obsVars, job>>

ClickDone ==
  /\ alive /\ overlay = "bump" /\ overlay' = "idle"
  /\ stops' = stops + 1 /\ Write(LocalStopped)
  /\ UNCHANGED <<procVars, stdin, reader, loopVars, inputVars, seen, uia, settled, job>>
-----------------------------------------------------------------------------
(* The main thread.                                                        *)

MainAt(pc) == alive /\ main.pc = pc
MainCall   == main.req.of

\* check_cancel
Canceled == main.req \in canceled

Goes(pc)        == main' = [main EXCEPT !.pc = pc]
Replies(result) == main' = [main EXCEPT !.pc = "reply", !.result = result]

restOfLoop == <<active, canceled, queue>>

\* recv, check_cancel and the first step of execute.
MainReceive ==
  /\ MainAt("idle") /\ queue # <<>>
  /\ queue' = Tail(queue)
  /\ LET r == Head(queue)
         first == IF r \in canceled THEN "fail"
                  ELSE IF r.kind = "hello" THEN "reply"
                  ELSE IF r.of \in Looks THEN "look"
                  ELSE IF job[r.of].kind = "clear" THEN "clear" ELSE "act"
     IN  main' = [pc |-> first, req |-> r, result |-> "ok"]
  /\ UNCHANGED <<procVars, pipeVars, reader, overlay, active, canceled, inputVars, obsVars, job>>

\* Engine.state up to its last check_cancel: capture and accessibility may fail.
LookCheck ==
  /\ MainAt("look")
  /\ Goes("fail") \/ (~Canceled /\ Goes("record"))
  /\ UNCHANGED <<procVars, pipeVars, reader, overlay, restOfLoop, inputVars, obsVars, job>>

\* The observation is kept under the generation of this moment.
LookRecord ==
  /\ MainAt("record") /\ Replies("ok")
  /\ seen' = LET kept == IF Cardinality(DOMAIN seen) >= MaxStates THEN NoEntry ELSE seen IN
             [x \in DOMAIN kept \cup {MainCall} |-> IF x = MainCall THEN stops ELSE kept[x]]
  /\ UNCHANGED <<procVars, pipeVars, reader, overlay, restOfLoop, inputVars, stops, uia, settled, job>>

\* invalidate: show_control, invalidate, activate; the latter may fail.
MainClear ==
  /\ MainAt("clear") /\ seen' = NoEntry
  /\ Replies("ok") \/ Goes("fail")
  /\ UNCHANGED <<procVars, pipeVars, reader, overlay, restOfLoop, inputVars, stops, uia, settled, job>>

Usable(c) == job[c].on \in DOMAIN seen /\ seen[job[c].on] = stops

\* Engine.act up to its invalidate: the observation must be known and current.
ActCheck ==
  /\ MainAt("act")
  /\ \/ Goes("fail") /\ seen' = seen
     \/ /\ Usable(MainCall) /\ seen' = NoEntry
        /\ Goes(IF job[MainCall].kind = "value" THEN "submit" ELSE "press")
  /\ UNCHANGED <<procVars, pipeVars, reader, overlay, restOfLoop, inputVars, stops, uia, settled, job>>

\* mouse_button, send_key down: check_cancel and journal under INPUTS.
PressJournal ==
  /\ MainAt("press")
  /\ IF Canceled THEN Goes("fail") /\ UNCHANGED <<journal, out>>
     ELSE Goes("pressing") /\ journal' = journal \cup {MainCall} /\ Write(Down(MainCall))
  /\ UNCHANGED <<procVars, stdin, reader, overlay, restOfLoop, held, refused, troubles, obsVars, job>>

\* SendInput, still under INPUTS; a rejected press is taken back.
PressSend ==
  /\ MainAt("pressing")
  /\ \/ /\ Goes("pressed") /\ held' = held \cup {MainCall}
        /\ UNCHANGED <<journal, out, troubles>>
     \/ /\ Goes("fail") /\ journal' = journal \ {MainCall} /\ Write(Up({MainCall}))
        /\ held' = held /\ Trouble(1)
  /\ refused' = refused
  /\ UNCHANGED <<procVars, stdin, reader, overlay, restOfLoop, obsVars, job>>

\* send_key up, sent whether or not a stop has released the key before.
PressUp ==
  /\ MainAt("pressed")
  /\ \/ /\ Goes("release") /\ journal' = journal \ {MainCall} /\ held' = held \ {MainCall}
        /\ Write(Up({MainCall})) /\ troubles' = troubles
     \/ Goes("fail") /\ Trouble(1) /\ UNCHANGED <<journal, held, out>>
  /\ refused' = refused
  /\ UNCHANGED <<procVars, stdin, reader, overlay, restOfLoop, obsVars, job>>

\* The end of Engine.act: it succeeds only if nothing is left down.
ActRelease ==
  /\ MainAt("release")
  /\ \E rejected \in SUBSET journal :
       /\ ReleaseAll(rejected)
       /\ IF rejected = {} THEN Replies("ok") ELSE Goes("fail")
  /\ UNCHANGED <<procVars, stdin, reader, overlay, restOfLoop, obsVars, job>>

\* Mutant: a failed request is answered with whatever is down.
FailUnreleased ==
  /\ MainAt("fail") /\ Replies("error")
  /\ UNCHANGED <<procVars, pipeVars, reader, overlay, restOfLoop, inputVars, obsVars, job>>

\* A failed request releases whatever is down before it is answered.
MainFail ==
  /\ MainAt("fail") /\ Replies("error")
  /\ \E rejected \in SUBSET journal : ReleaseAll(rejected)
  /\ UNCHANGED <<procVars, stdin, reader, overlay, restOfLoop, obsVars, job>>

\* The answer; with the host gone the write fails and main returns.
MainReply ==
  /\ MainAt("reply") /\ hostUp
  /\ Write(Reply(main.req, main.result)) /\ Goes("forget")
  /\ UNCHANGED <<procVars, stdin, reader, overlay, restOfLoop, inputVars, obsVars, job>>

MainBroken ==
  /\ MainAt("reply") /\ ~hostUp /\ WorkerEnds
  /\ UNCHANGED <<hostUp, worker, open, out, held, refused, troubles, job>>

\* Mutant: ACTIVE is cleared although the reader has put the next request there.
ForgetsAny == NoRequest

StillActive == IF active = main.req THEN NoRequest ELSE active

MainForget ==
  /\ MainAt("forget") /\ main' = IdleMain /\ active' = StillActive
  /\ canceled' = canceled \ {main.req}
  /\ UNCHANGED <<procVars, pipeVars, reader, overlay, queue, inputVars, obsVars, job>>

\* The reader is gone: release and exit.
MainExit ==
  /\ MainAt("idle") /\ queue = <<>> /\ reader.pc = "gone" /\ WorkerEnds
  /\ \E rejected \in SUBSET journal :
       /\ held' = held \ (journal \ rejected) /\ refused' = refused \cup rejected
       /\ Trouble(Cardinality(rejected))
  /\ UNCHANGED <<hostUp, worker, open, out, job>>
-----------------------------------------------------------------------------
(* Setting a value: the main thread submits it to the UI Automation thread *)
(* and polls for the answer until it is canceled or two seconds have       *)
(* passed; the UI Automation thread goes on without it.                    *)

\* Worker.submit, refused while the thread is busy.
Submit ==
  /\ MainAt("submit")
  /\ \/ uia.pc # "idle" /\ Goes("fail") /\ UNCHANGED uia
     \/ /\ uia.pc = "idle" /\ Goes("await")
        /\ uia' = [pc |-> "queued", of |-> MainCall, cancel |-> FALSE, gen |-> stops,
                   answer |-> "none"]
  /\ UNCHANGED <<procVars, pipeVars, reader, overlay, restOfLoop, inputVars, stops, seen, settled, job>>

\* Worker.receive: canceled or timed out, the work is canceled as well; else its answer.
Await ==
  /\ MainAt("await")
  /\ \/ uia' = [uia EXCEPT !.cancel = TRUE] /\ Goes("fail")
     \/ /\ ~Canceled /\ uia.answer # "none" /\ UNCHANGED uia
        /\ IF uia.answer = "ok" THEN Replies("ok") ELSE Goes("fail")
  /\ UNCHANGED <<procVars, pipeVars, reader, overlay, restOfLoop, inputVars, stops, seen, settled, job>>

MayDispatch == uia.gen = stops /\ ~uia.cancel

\* SetValue begins, under SEMANTIC_ACTIVE, or the work is refused (deadline, element, foreground).
Dispatch ==
  /\ alive /\ uia.pc = "queued"
  /\ \/ MayDispatch /\ uia' = [uia EXCEPT !.pc = "dispatching"]
     \/ uia' = [uia EXCEPT !.pc = "idle", !.answer = "error"]
  /\ UNCHANGED <<procVars, pipeVars, reader, overlay, loopVars, inputVars, stops, seen, settled, job>>

\* The provider returns.
Dispatched ==
  /\ alive /\ uia.pc = "dispatching"
  /\ \E res \in {"ok", "error"} : uia' = [uia EXCEPT !.pc = "idle", !.answer = res]
  /\ UNCHANGED <<procVars, pipeVars, reader, overlay, loopVars, inputVars, stops, seen, settled, job>>
-----------------------------------------------------------------------------
ReaderStep == ReadWork \/ ReadInterrupt \/ ReadEnd \/ ReaderRelease \/ ReaderBump \/ ReaderAnswer
OverlayStep == Click \/ ClickRelease \/ ClickDone
MainStep ==
  \/ MainReceive \/ LookCheck \/ LookRecord \/ MainClear \/ ActCheck
  \/ PressJournal \/ PressSend \/ PressUp \/ ActRelease
  \/ MainFail \/ MainReply \/ MainBroken \/ MainForget \/ MainExit \/ Submit \/ Await
UiaStep == Dispatch \/ Dispatched

WorkerNext == ReaderStep \/ OverlayStep \/ MainStep \/ UiaStep
=============================================================================
