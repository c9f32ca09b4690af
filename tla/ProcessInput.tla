----------------------------- MODULE ProcessInput -----------------------------
(***************************************************************************)
(* Input of one process session (writeStdin, closeStdin and wait in        *)
(* internal/process/process.go).  Callers queue for the input gate; the    *)
(* text is written by a goroutine of its own, which a canceled caller      *)
(* leaves behind and which alone gives the gate back.  The end of the      *)
(* process closes the input and joins those goroutines before `done`.      *)
(*                                                                         *)
(* A text is written in two parts, so that another one could come between. *)
(***************************************************************************)
EXTENDS Naturals, FiniteSets, Sequences

CONSTANTS Writers,     \* calls that write input to the session
          MaxWaiters,  \* maxInputWaiters (32 in the code)
          Nobody

ASSUME InputAssumption ==
  /\ IsFiniteSet(Writers) /\ Nobody \notin Writers
  /\ MaxWaiters \in Nat \ {0}

VARIABLES
  terminal,   \* the session runs in a pseudo-terminal, else over pipes
  caller,     \* where each call is
  answer,     \* what it reported: "none" | "ok" | "refused" | "unknown"
  canceled,   \* callers whose request context is done
  task,       \* the goroutine of a text: "none" | "writing" | "ended"
  gate,       \* text that occupies the input gate
  written,    \* parts that have reached the process, in order
  stdinDone,  \* no further text is accepted
  shut,       \* the handle or the terminal is closed: writes fail
  proc        \* "live" | "exited" | "draining" | "joining" | "done"

input == <<terminal, gate, written, stdinDone, shut>>
vars  == <<caller, answer, canceled, task, input, proc>>

Queued  == {"queued", "holding", "checked", "waiting"}   \* counted by inputWaiters
Waiting == {w \in Writers : caller[w] \in Queued}

Init ==
  /\ terminal \in BOOLEAN
  /\ caller = [w \in Writers |-> "idle"] /\ answer = [w \in Writers |-> "none"]
  /\ canceled = {} /\ task = [w \in Writers |-> "none"]
  /\ gate = Nobody /\ written = <<>> /\ stdinDone = FALSE /\ shut = FALSE /\ proc = "live"

Goto(w, label) == caller' = [caller EXCEPT ![w] = label]
Report(w, what) == answer' = [answer EXCEPT ![w] = what] /\ Goto(w, "returned")
-----------------------------------------------------------------------------
(* writeStdin.                                                             *)

RoomToQueue == Cardinality(Waiting) < MaxWaiters

Arrive(w) ==
  /\ caller[w] = "idle"
  /\ IF RoomToQueue THEN Goto(w, "queued") /\ UNCHANGED answer ELSE Report(w, "refused")
  /\ UNCHANGED <<canceled, task, input, proc>>

TakeGate(w) ==
  /\ caller[w] = "queued" /\ gate = Nobody
  /\ gate' = w /\ Goto(w, "holding")
  /\ UNCHANGED <<answer, canceled, task, terminal, written, stdinDone, shut, proc>>

LeaveQueue(w) ==
  /\ caller[w] = "queued" /\ (w \in canceled \/ proc = "done")
  /\ Report(w, "refused")
  /\ UNCHANGED <<canceled, task, input, proc>>

\* The cancellation is looked at once more after the wait.
CheckCanceled(w) ==
  /\ caller[w] = "holding"
  /\ IF w \in canceled THEN Report(w, "refused") /\ gate' = Nobody
                       ELSE Goto(w, "checked") /\ UNCHANGED <<answer, gate>>
  /\ UNCHANGED <<canceled, task, terminal, written, stdinDone, shut, proc>>

InputOpen == ~stdinDone

Start(w) ==
  /\ caller[w] = "checked"
  /\ IF InputOpen
       THEN /\ task' = [task EXCEPT ![w] = "writing"] /\ Goto(w, "waiting")
            /\ UNCHANGED <<answer, gate>>
       ELSE /\ Report(w, "refused") /\ gate' = Nobody
            /\ UNCHANGED task
  /\ UNCHANGED <<canceled, terminal, written, stdinDone, shut, proc>>

Parts(w) == Cardinality({k \in DOMAIN written : written[k] = w})

WritePart(w) ==
  /\ task[w] = "writing" /\ ~shut /\ Parts(w) < 2
  /\ written' = Append(written, w)
  /\ UNCHANGED <<caller, answer, canceled, task, gate, terminal, stdinDone, shut, proc>>

\* The goroutine ends when the text is out or the write fails, and frees the gate.
TaskEnds(w) ==
  /\ task[w] = "writing" /\ (Parts(w) = 2 \/ shut)
  /\ task' = [task EXCEPT ![w] = "ended"]
  /\ gate' = Nobody
  /\ UNCHANGED <<caller, answer, canceled, terminal, written, stdinDone, shut, proc>>

\* Mutant: the write error is dropped on the way to the caller.
AnsweredWithoutError(w) ==
  /\ caller[w] = "waiting"
  /\ \/ task[w] = "ended" /\ Report(w, "ok")
     \/ (w \in canceled \/ proc = "done") /\ Report(w, "unknown")

\* The result of the write, the request context and the end of the process compete.
Answered(w) ==
  /\ caller[w] = "waiting"
  /\ \/ task[w] = "ended" /\ Report(w, IF Parts(w) = 2 THEN "ok" ELSE "unknown")
     \/ (w \in canceled \/ proc = "done") /\ Report(w, "unknown")

\* Mutant: a caller that gives up takes the gate with it.
ReturnFreeing(w) ==
  /\ Answered(w) /\ gate' = IF gate = w THEN Nobody ELSE gate
  /\ UNCHANGED <<canceled, task, terminal, written, stdinDone, shut, proc>>

Return(w) == Answered(w) /\ UNCHANGED <<canceled, task, input, proc>>

Cancel(w) ==
  /\ caller[w] \in Queued /\ w \notin canceled
  /\ canceled' = canceled \cup {w}
  /\ UNCHANGED <<caller, answer, task, input, proc>>
-----------------------------------------------------------------------------
(* closeStdin, terminate and the end of session.wait.                      *)

\* On request, by Run or by terminate; a terminal cannot be half-closed.
CloseStdin ==
  /\ ~terminal /\ ~stdinDone
  /\ stdinDone' = TRUE /\ shut' = TRUE
  /\ UNCHANGED <<caller, answer, canceled, task, gate, terminal, written, proc>>

Exit ==
  /\ proc = "live" /\ proc' = "exited"
  /\ UNCHANGED <<caller, answer, canceled, task, input>>

\* Mutant: the handle is left open for the writer to notice.
ShutInputLater ==
  /\ proc = "exited" /\ proc' = "draining"
  /\ stdinDone' = (stdinDone \/ ~terminal)
  /\ UNCHANGED <<caller, answer, canceled, task, gate, terminal, written, shut>>

\* A pipe is closed and refuses input at once; a terminal is closed first.
ShutInput ==
  /\ proc = "exited" /\ proc' = "draining"
  /\ shut' = TRUE /\ stdinDone' = (stdinDone \/ ~terminal)
  /\ UNCHANGED <<caller, answer, canceled, task, gate, terminal, written>>

RefuseInput ==
  /\ proc = "draining" /\ proc' = "joining"
  /\ stdinDone' = TRUE
  /\ UNCHANGED <<caller, answer, canceled, task, gate, terminal, written, shut>>

Done ==
  /\ proc = "joining" /\ \A w \in Writers : task[w] # "writing"
  /\ proc' = "done"
  /\ UNCHANGED <<caller, answer, canceled, task, input>>

Write(w) == \/ Arrive(w) \/ TakeGate(w) \/ LeaveQueue(w) \/ CheckCanceled(w) \/ Start(w)
            \/ WritePart(w) \/ TaskEnds(w) \/ Return(w) \/ Cancel(w)

Next == \/ \E w \in Writers : Write(w)
        \/ CloseStdin \/ Exit \/ ShutInput \/ RefuseInput \/ Done

Spec == Init /\ [][Next]_vars
-----------------------------------------------------------------------------
(* Correctness.                                                            *)

TypeOK ==
  /\ caller \in [Writers -> Queued \cup {"idle", "returned"}]
  /\ answer \in [Writers -> {"none", "ok", "refused", "unknown"}]
  /\ canceled \subseteq Writers /\ task \in [Writers -> {"none", "writing", "ended"}]
  /\ gate \in Writers \cup {Nobody} /\ written \in Seq(Writers)
  /\ terminal \in BOOLEAN /\ stdinDone \in BOOLEAN /\ shut \in BOOLEAN
  /\ proc \in {"live", "exited", "draining", "joining", "done"}

\* Whoever occupies the gate is a call that has yet to start its write or a write in
\* progress, and the other way round: a canceled caller leaves the gate to its write.
Occupies(w) == caller[w] \in {"holding", "checked"} \/ task[w] = "writing"

GateOccupied ==
  /\ \A w \in Writers : Occupies(w) <=> gate = w
  /\ \A w \in Writers :
       /\ caller[w] \in {"idle", "queued", "holding", "checked"} => task[w] = "none"
       /\ caller[w] = "waiting" => task[w] # "none"

\* No write begins or continues once `done` is closed: the goroutines are joined, and
\* none is added to the group that session.wait has waited for.
JoinedBeforeDone ==
  /\ proc \in {"joining", "done"} => stdinDone
  /\ proc = "done" => \A w \in Writers : task[w] # "writing"

InputInv == TypeOK /\ GateOccupied /\ JoinedBeforeDone

\* Within a session input writes are serialized (README.md:151): one text never lands
\* inside another, although canceled callers leave unfinished writes behind.
TextsNotInterleaved ==
  \A j, k \in DOMAIN written : written[j] = written[k] =>
    \A i \in j..k : written[i] = written[j]

\* A call that reports success has delivered its text; one that was refused nothing.
AnswersMatchInput ==
  \A w \in Writers :
    /\ answer[w] = "ok" => Parts(w) = 2
    /\ answer[w] = "refused" => Parts(w) = 0

\* Queued input is bounded (README.md:151): besides the counted waiters the session
\* keeps at most one text, whose caller has gone.
QueuedInputBounded ==
  /\ Cardinality(Waiting) <= MaxWaiters
  /\ Cardinality({w \in Writers : task[w] = "writing"}) <= 1

\* The gate has one occupant at most, every write is joined before the session is
\* done, and what is queued is bounded (writeStdin, wait).
QueueInv == InputInv /\ QueuedInputBounded
===============================================================================
