----------------------------- MODULE BrowserBridge -----------------------------
(***************************************************************************)
(* The browser bridge (internal/browser/{browser,connection}.go) with one  *)
(* extension instance and the shared desktop gate.                         *)
(*                                                                         *)
(* A call registers a pending record, queues a command for the stream of   *)
(* the instance and waits.  The stream's goroutine dispatches commands and *)
(* cancel controls; results and desktop authorizations arrive on separate  *)
(* HTTP requests.  Every critical section of Bridge.mu is one action.      *)
(*                                                                         *)
(* The extension side (service_worker.ts) is modelled as far as the bridge *)
(* depends on it: intake, the life of one job per command, cancellation,   *)
(* the result outbox, and the ways a worker loses its stream, is           *)
(* reconfigured or restarted.  Lanes and capacity are in LaneScheduler.    *)
(* The desktop gate is the coordinator of DesktopControl reduced to its    *)
(* exclusive token; Computer is its native user.                           *)
(***************************************************************************)
EXTENDS Naturals, FiniteSets, Sequences

CONSTANTS Commands,    \* command ids; each call draws a fresh one
          Computer,    \* a native desktop operation holding the gate
          Nobody,
          MaxPending,  \* capacity of the pending map (256 in the code)
          MaxControls, \* capacity of the controls queue (256)
          MaxStreams,  \* bound: connections the extension makes
          MaxBoots     \* bound: extension generations

ASSUME BridgeAssumption ==
  /\ Computer \notin Commands /\ Nobody \notin Commands /\ Computer # Nobody
  /\ IsFiniteSet(Commands)
  /\ MaxPending \in Nat /\ MaxControls \in Nat /\ MaxStreams \in Nat /\ MaxBoots \in Nat \ {0}

VARIABLES
  caller,      \* progress of Bridge.call for each command
  cmd,         \* fixed data of a command: stream, boot, tab handle, visibility
  pending,     \* keys of the pending map
  p,           \* the mutable fields of each pendingCall
  sent,        \* responses put into the result channel (capacity 1)
  stream,      \* sequence number of the current instance record; 0 before any
  boots,       \* boot id of every stream so far
  up,          \* instance.socket is set: the stream's goroutine runs
  commands,    \* the commands channel of the current instance
  controls,    \* the controls channel of the current instance
  closed,      \* Bridge.Close has run
  auth,        \* progress of each command's /authorize request
  gate,        \* holder of the shared desktop
  revoked,     \* reservations whose controlled context the coordinator canceled
  link,        \* the extension still holds the current stream
  wire,        \* messages on it
  extBoot,     \* boot id of the extension worker
  job,         \* execution of each command in the extension
  aborted,     \* jobs whose abort signal fired
  outbox,      \* results waiting for delivery
  acked        \* history: commands whose result the bridge accepted

bridge    == <<pending, p, sent>>
instance  == <<stream, boots, up, commands, controls>>
desktop   == <<gate, revoked>>
extension == <<job, aborted, outbox>>
vars == <<caller, cmd, bridge, instance, closed, auth, desktop, link, wire, extBoot,
          extension, acked>>

NoRecord == [dispatched |-> FALSE, abandoned |-> FALSE, done |-> FALSE,
             authorizing |-> FALSE, reserved |-> FALSE, watching |-> FALSE,
             cancelSent |-> FALSE]
Record == [dispatched : BOOLEAN, abandoned : BOOLEAN, done : BOOLEAN, authorizing : BOOLEAN,
           reserved : BOOLEAN, watching : BOOLEAN, cancelSent : BOOLEAN]
NoCommand == [stream |-> 0, boot |-> 0, handle |-> 0, visible |-> FALSE]
Message == [method : {"command", "cancel"}, id : Commands]
Boot == IF stream = 0 THEN 0 ELSE boots[stream]   \* instance.peer.BootID

Init ==
  /\ caller = [i \in Commands |-> "idle"] /\ cmd = [i \in Commands |-> NoCommand]
  /\ pending = {} /\ p = [i \in Commands |-> NoRecord] /\ sent = [i \in Commands |-> 0]
  /\ stream = 0 /\ boots = <<>> /\ up = FALSE /\ commands = <<>> /\ controls = {}
  /\ closed = FALSE /\ auth = [i \in Commands |-> "none"]
  /\ gate = Nobody /\ revoked = {}
  /\ link = FALSE /\ wire = <<>> /\ extBoot = 1
  /\ job = [i \in Commands |-> "none"] /\ aborted = {} /\ outbox = {} /\ acked = {}
-----------------------------------------------------------------------------
(* Helpers on the pending map.                                             *)

\* cancelPendingLocked on the updated record q of command i.
Uncancellable(i, q) == \/ q.cancelSent \/ cmd[i].boot # Boot
                       \/ Cardinality(controls) >= MaxControls

CancelPending(i, q) ==
  IF ~q.dispatched
    THEN /\ p' = [p EXCEPT ![i] = [q EXCEPT !.done = TRUE]]
         /\ pending' = pending \ {i}
         /\ UNCHANGED controls
    ELSE /\ UNCHANGED pending
         /\ IF Uncancellable(i, q)
              THEN /\ p' = [p EXCEPT ![i] = [q EXCEPT !.done = TRUE]]
                   /\ UNCHANGED controls
              ELSE /\ p' = [p EXCEPT ![i] = [q EXCEPT !.done = TRUE, !.cancelSent = TRUE]]
                   /\ controls' = controls \cup {i}

\* Mutant: an abandoned call never gives its reservation back.
FreeGateOfLive(S) ==
  gate' = IF gate \in {i \in S : p[i].reserved /\ ~p[i].abandoned} THEN Nobody ELSE gate

\* pending.release of the commands in S.
FreeGate(S) == gate' = IF gate \in {i \in S : p[i].reserved} THEN Nobody ELSE gate

\* Mutant: a call that was answered before is answered again.
AnswerAgain(S) == sent' = [i \in Commands |-> IF i \in S THEN sent[i] + 1 ELSE sent[i]]

\* The calls in S that nobody abandoned get their response.
Answer(S) ==
  sent' = [i \in Commands |-> IF i \in S /\ ~p[i].abandoned THEN sent[i] + 1 ELSE sent[i]]

\* Mutant: whatever was dispatched stays in the map when the stream is lost.
AwaitsAnything(i) == p[i].dispatched

\* Kept after a disconnection: dispatched, and reserving or about to reserve.
AwaitsExecution(i) == p[i].dispatched /\ (p[i].reserved \/ p[i].authorizing)
-----------------------------------------------------------------------------
(* Bridge.call, preceded by route for the methods that name a tab.         *)

\* A handle registered under the current boot; registerTabs of a slow tabs.list
\* may have put one back that an earlier stream of the same boot issued.
Route(i) ==
  /\ caller[i] = "idle" /\ up
  /\ \E h \in {s \in 1..stream : boots[s] = Boot} :
       cmd' = [cmd EXCEPT ![i].handle = h]
  /\ caller' = [caller EXCEPT ![i] = "routed"]
  /\ UNCHANGED <<bridge, instance, closed, auth, desktop, link, wire, extBoot, extension, acked>>

Register(i) ==
  /\ caller[i] \in {"idle", "routed"} /\ up
  /\ Cardinality(pending) < MaxPending
  /\ \E visible \in BOOLEAN :
       cmd' = [cmd EXCEPT ![i] = [@ EXCEPT !.stream = stream, !.boot = Boot,
                                           !.visible = visible]]
  /\ p' = [p EXCEPT ![i].done = closed]
  /\ pending' = pending \cup {i}
  /\ caller' = [caller EXCEPT ![i] = "enqueuing"]
  /\ UNCHANGED <<sent, instance, closed, auth, desktop, link, wire, extBoot, extension, acked>>

\* The queue is the one of the instance the call saw; a replaced one is dead.
Enqueue(i) ==
  /\ caller[i] = "enqueuing"
  /\ commands' = IF cmd[i].stream = stream THEN Append(commands, i) ELSE commands
  /\ caller' = [caller EXCEPT ![i] = "waiting"]
  /\ UNCHANGED <<cmd, bridge, stream, boots, up, controls, closed, auth, desktop, link,
                 wire, extBoot, extension, acked>>

\* A response, the 35 second timeout, cancellation or shutdown; then the deferred
\* abandonment of whatever is still pending.
CallReturns(i) ==
  /\ caller[i] \in {"routed", "enqueuing", "waiting"}
  /\ caller' = [caller EXCEPT ![i] = "returned"]
  /\ IF i \in pending
       THEN CancelPending(i, [p[i] EXCEPT !.abandoned = TRUE])
       ELSE UNCHANGED <<pending, p, controls>>
  /\ UNCHANGED <<cmd, sent, stream, boots, up, commands, closed, auth, desktop, link, wire,
                 extBoot, extension, acked>>
-----------------------------------------------------------------------------
(* The goroutine of the current stream.                                    *)

\* Mutant: a cancel control overtakes the command it is for.
TransmitFirst(m) == wire' = IF link THEN <<m>> \o wire ELSE wire

Transmit(m) == wire' = IF link THEN Append(wire, m) ELSE wire

\* Mutant: the pending record is not looked at again before a dispatch.
DispatchableUnchecked(i) == cmd[i].boot = Boot

\* A command is dispatched only for a live call; its deadline may be over.
Dispatchable(i) == i \in pending /\ ~p[i].abandoned /\ ~p[i].done /\ cmd[i].boot = Boot

DispatchCommand ==
  /\ up /\ commands # <<>>
  /\ commands' = Tail(commands)
  /\ LET i == Head(commands) IN
       \/ /\ Dispatchable(i)
          /\ p' = [p EXCEPT ![i].dispatched = TRUE]
          /\ Transmit([method |-> "command", id |-> i])
          /\ UNCHANGED pending
       \/ /\ i \in pending /\ ~p[i].dispatched   \* expired or canceled
          /\ p' = [p EXCEPT ![i].done = TRUE]
          /\ pending' = pending \ {i}
          /\ UNCHANGED wire
       \/ /\ ~Dispatchable(i) /\ i \notin pending
          /\ UNCHANGED <<p, pending, wire>>
  /\ UNCHANGED <<caller, cmd, sent, stream, boots, up, controls, closed, auth, desktop,
                 link, extBoot, extension, acked>>

DispatchCancel(i) ==
  /\ up /\ i \in controls
  /\ controls' = controls \ {i}
  /\ IF i \in pending /\ cmd[i].boot = Boot
       THEN Transmit([method |-> "cancel", id |-> i])
       ELSE UNCHANGED wire
  /\ UNCHANGED <<caller, cmd, bridge, stream, boots, up, commands, closed, auth, desktop,
                 link, extBoot, extension, acked>>

\* The reader or a write failed, keepalive ran out, or the bridge is closing.
StreamLost ==
  /\ up /\ up' = FALSE
  /\ LET mine == {i \in pending : cmd[i].boot = Boot} IN
       /\ p' = [i \in Commands |-> IF i \in mine
                  THEN [p[i] EXCEPT !.done = TRUE, !.abandoned = TRUE] ELSE p[i]]
       /\ pending' = {i \in pending : i \in mine => AwaitsExecution(i)}
  /\ UNCHANGED <<caller, cmd, sent, stream, boots, commands, controls, closed, auth,
                 desktop, link, wire, extBoot, extension, acked>>

\* Mutant: any new stream ends the old reservations.
EndedOnAnyStream == pending

\* A new generation proves that the executions of the old one are gone.
EndedByGeneration == IF Boot # extBoot THEN pending ELSE {}

\* A new authenticated stream replaces the instance record.
Connect ==
  /\ ~link /\ ~closed /\ stream < MaxStreams
  /\ stream' = stream + 1 /\ boots' = Append(boots, extBoot)
  /\ up' = TRUE /\ link' = TRUE
  /\ commands' = <<>> /\ controls' = {} /\ wire' = <<>>
  /\ Answer(pending)
  /\ LET ended == EndedByGeneration IN
       /\ pending' = {i \in pending \ ended : AwaitsExecution(i)}
       /\ p' = [i \in Commands |-> IF i \notin pending THEN p[i] ELSE
                  [p[i] EXCEPT !.abandoned = TRUE, !.done = TRUE,
                               !.watching = @ /\ i \notin ended,
                               !.reserved = @ /\ i \notin ended]]
       /\ FreeGate(ended)
  /\ UNCHANGED <<caller, cmd, closed, auth, revoked, extBoot, extension, acked>>
-----------------------------------------------------------------------------
(* The HTTP handlers.                                                      *)

\* receiveResult.  `heard` says whether the extension got the response.
ReceiveResult(i, heard) ==
  /\ i \in outbox /\ ~closed
  /\ outbox' = IF heard THEN outbox \ {i} ELSE outbox
  /\ IF cmd[i].boot = Boot /\ i \in pending
       THEN /\ pending' = pending \ {i}
            /\ FreeGate({i})
            /\ Answer({i})
            /\ p' = [p EXCEPT ![i] = [@ EXCEPT !.done = TRUE, !.watching = FALSE,
                                               !.reserved = FALSE]]
            /\ acked' = acked \cup {i}
       ELSE UNCHANGED <<bridge, gate, acked>>
  /\ UNCHANGED <<caller, cmd, instance, closed, auth, revoked, link, wire, extBoot, job,
                 aborted>>

\* authorizeDesktop up to the call of the gate, which runs without the mutex.
AuthorizeStart(i) ==
  /\ auth[i] = "sent" /\ ~closed
  /\ IF i \in pending /\ p[i].dispatched /\ ~p[i].abandoned
       THEN LET asks == ~p[i].reserved /\ ~p[i].authorizing IN
            /\ p' = [p EXCEPT ![i].authorizing = @ \/ asks]
            /\ auth' = [auth EXCEPT ![i] = IF asks THEN "gating"
                                           ELSE IF p[i].reserved THEN "granted" ELSE "refused"]
       ELSE /\ auth' = [auth EXCEPT ![i] = "refused"]
            /\ UNCHANGED p
  /\ UNCHANGED <<caller, cmd, pending, sent, instance, closed, desktop, link, wire,
                 extBoot, extension, acked>>

GateGranted(i) ==
  /\ auth[i] = "gating" /\ gate = Nobody /\ ~p[i].done
  /\ gate' = i /\ auth' = [auth EXCEPT ![i] = "gated"]
  /\ UNCHANGED <<caller, cmd, bridge, instance, closed, revoked, link, wire, extBoot,
                 extension, acked>>

GateRefused(i) ==
  /\ auth[i] = "gating"
  /\ auth' = [auth EXCEPT ![i] = "refused"]
  /\ p' = [p EXCEPT ![i].authorizing = FALSE]
  /\ pending' = IF p[i].abandoned /\ ~p[i].reserved THEN pending \ {i} ELSE pending
  /\ UNCHANGED <<caller, cmd, sent, instance, closed, desktop, link, wire, extBoot,
                 extension, acked>>

\* The gate was granted while the mutex was free: look at the call again.
AuthorizeEnd(i) ==
  /\ auth[i] = "gated"
  /\ IF i \in pending /\ ~p[i].abandoned /\ ~p[i].done /\ i \notin revoked
       THEN /\ p' = [p EXCEPT ![i] = [@ EXCEPT !.authorizing = FALSE, !.reserved = TRUE,
                                               !.watching = TRUE]]
            /\ auth' = [auth EXCEPT ![i] = "granted"]
            /\ UNCHANGED <<pending, gate>>
       ELSE /\ p' = [p EXCEPT ![i].authorizing = (@ /\ (i \notin pending \/ p[i].abandoned))]
            /\ pending' = IF p[i].abandoned THEN pending \ {i} ELSE pending
            /\ auth' = [auth EXCEPT ![i] = "refused"]
            /\ gate' = Nobody
  /\ UNCHANGED <<caller, cmd, sent, instance, closed, revoked, link, wire, extBoot,
                 extension, acked>>

\* The function registered with context.AfterFunc, once per reservation.
GateWatch(i) ==
  /\ p[i].watching /\ (p[i].done \/ i \in revoked)
  /\ IF i \in pending
       THEN CancelPending(i, [p[i] EXCEPT !.watching = FALSE])
       ELSE p' = [p EXCEPT ![i].watching = FALSE] /\ UNCHANGED <<pending, controls>>
  /\ UNCHANGED <<caller, cmd, sent, stream, boots, up, commands, closed, auth, desktop,
                 link, wire, extBoot, extension, acked>>

\* Local Stop, release, expiry or the operation timeout of the coordinator.
Revoke(i) ==
  /\ gate = i /\ i \notin revoked
  /\ revoked' = revoked \cup {i}
  /\ UNCHANGED <<caller, cmd, bridge, instance, closed, auth, gate, link, wire, extBoot,
                 extension, acked>>

ComputerUse ==
  /\ gate \in {Nobody, Computer}
  /\ gate' = IF gate = Nobody THEN Computer ELSE Nobody
  /\ UNCHANGED <<caller, cmd, bridge, instance, closed, auth, revoked, link, wire, extBoot,
                 extension, acked>>

Close ==
  /\ ~closed /\ closed' = TRUE
  /\ p' = [i \in Commands |-> IF i \notin pending THEN [p[i] EXCEPT !.done = TRUE]
             ELSE [p[i] EXCEPT !.done = TRUE, !.watching = FALSE, !.reserved = FALSE]]
  /\ FreeGate(pending)
  /\ pending' = {}
  /\ UNCHANGED <<caller, cmd, sent, instance, auth, revoked, link, wire, extBoot,
                 extension, acked>>
-----------------------------------------------------------------------------
(* The extension.                                                          *)

\* Mutant: handles of an earlier stream still name a tab.
HandleAlwaysKnown(i) == TRUE

\* requireTabID at intake: every handle dies with the stream it was issued on.
HandleKnown(i) == cmd[i].handle \in {0, stream}

Intake ==
  /\ link /\ wire # <<>>
  /\ wire' = Tail(wire)
  /\ LET i == Head(wire).id IN
       \/ /\ Head(wire).method = "command" /\ HandleKnown(i)
          /\ job' = [job EXCEPT ![i] = "queued"]
          /\ UNCHANGED <<aborted, outbox>>
       \/ /\ \/ Head(wire).method = "command" /\ ~HandleKnown(i)
             \/ Head(wire).method = "cancel" /\ job[i] \in {"none", "queued"}
          /\ job' = [job EXCEPT ![i] = "none"]
          /\ outbox' = outbox \cup {i}
          /\ UNCHANGED aborted
       \/ /\ Head(wire).method = "cancel" /\ job[i] \in {"authorizing", "executing"}
          /\ aborted' = aborted \cup {i}
          /\ UNCHANGED <<job, outbox>>
  /\ UNCHANGED <<caller, cmd, bridge, instance, closed, auth, desktop, link, extBoot, acked>>

JobStart(i) ==
  /\ job[i] = "queued"
  /\ IF cmd[i].visible
       THEN /\ job' = [job EXCEPT ![i] = "authorizing"]
            /\ auth' = [auth EXCEPT ![i] = "sent"]
       ELSE /\ job' = [job EXCEPT ![i] = "executing"]
            /\ UNCHANGED auth
  /\ UNCHANGED <<caller, cmd, bridge, instance, closed, desktop, link, wire, extBoot,
                 aborted, outbox, acked>>

JobAuthorized(i) ==
  /\ job[i] = "authorizing" /\ auth[i] = "granted" /\ i \notin aborted
  /\ job' = [job EXCEPT ![i] = "executing"]
  /\ UNCHANGED <<caller, cmd, bridge, instance, closed, auth, desktop, link, wire, extBoot,
                 aborted, outbox, acked>>

\* Completed, failed, refused, or aborted and settled; the request for a desktop
\* authorization may have been given up on while the bridge still handles it.
JobEnd(i) ==
  /\ job[i] \in {"authorizing", "executing"}
  /\ job' = [job EXCEPT ![i] = "none"]
  /\ aborted' = aborted \ {i} /\ outbox' = outbox \cup {i}
  /\ UNCHANGED <<caller, cmd, bridge, instance, closed, auth, desktop, link, wire, extBoot,
                 acked>>

\* scheduler.cancelAll: queued jobs end at once, running ones are told to.
CancelAll ==
  /\ job' = [i \in Commands |-> IF job[i] = "queued" THEN "none" ELSE job[i]]
  /\ outbox' = outbox \cup {i \in Commands : job[i] = "queued"}
  /\ aborted' = aborted \cup {i \in Commands : job[i] \in {"authorizing", "executing"}}

Unlink ==
  /\ link /\ link' = FALSE /\ wire' = <<>>
  /\ CancelAll
  /\ UNCHANGED <<caller, cmd, bridge, instance, closed, auth, desktop, extBoot, acked>>

\* Bound: a generation ends only while it can still be followed by a connection.
BootsLeft == extBoot < MaxBoots /\ stream < MaxStreams

\* The settings-changed message: a new generation while old jobs settle.
Reconfigure ==
  /\ BootsLeft /\ extBoot' = extBoot + 1
  /\ link' = FALSE /\ wire' = <<>>
  /\ CancelAll
  /\ UNCHANGED <<caller, cmd, bridge, instance, closed, auth, desktop, acked>>

\* The service worker is killed: its jobs, results and debugger sessions are gone.
WorkerRestart ==
  /\ BootsLeft /\ extBoot' = extBoot + 1
  /\ link' = FALSE /\ wire' = <<>>
  /\ job' = [i \in Commands |-> "none"] /\ aborted' = {} /\ outbox' = {}
  /\ UNCHANGED <<caller, cmd, bridge, instance, closed, auth, desktop, acked>>

Next ==
  \/ \E i \in Commands :
       \/ Route(i) \/ Register(i) \/ Enqueue(i) \/ CallReturns(i) \/ DispatchCancel(i)
       \/ AuthorizeStart(i) \/ GateGranted(i) \/ GateRefused(i) \/ AuthorizeEnd(i)
       \/ GateWatch(i) \/ Revoke(i) \/ JobStart(i) \/ JobAuthorized(i) \/ JobEnd(i)
       \/ \E heard \in BOOLEAN : ReceiveResult(i, heard)
  \/ DispatchCommand \/ StreamLost \/ Connect \/ ComputerUse \/ Close
  \/ Intake \/ Unlink \/ Reconfigure \/ WorkerRestart

Spec == Init /\ [][Next]_vars
-----------------------------------------------------------------------------
(* Correctness.                                                            *)

\* The variables keep their types; the pending map and the controls queue stay
\* within their capacities (call, cancelPendingLocked).
TypeOK ==
  /\ caller \in [Commands -> {"idle", "routed", "enqueuing", "waiting", "returned"}]
  /\ cmd \in [Commands -> [stream : 0..MaxStreams, boot : 0..MaxBoots,
                          handle : 0..MaxStreams, visible : BOOLEAN]]
  /\ pending \subseteq Commands /\ Cardinality(pending) <= MaxPending
  /\ p \in [Commands -> Record]
  /\ sent \in [Commands -> 0..2]
  /\ stream \in 0..MaxStreams /\ boots \in Seq(1..MaxBoots) /\ Len(boots) = stream
  /\ up \in BOOLEAN /\ link \in BOOLEAN /\ closed \in BOOLEAN
  /\ commands \in Seq(Commands) /\ wire \in Seq(Message)
  /\ controls \subseteq Commands /\ Cardinality(controls) <= MaxControls
  /\ auth \in [Commands -> {"none", "sent", "gating", "gated", "granted", "refused"}]
  /\ gate \in Commands \cup {Computer, Nobody} /\ revoked \subseteq Commands
  /\ extBoot \in 1..MaxBoots
  /\ job \in [Commands -> {"none", "queued", "authorizing", "executing"}]
  /\ aborted \subseteq Commands /\ outbox \subseteq Commands /\ acked \subseteq Commands

\* The result channel holds one response and is written under Bridge.mu, so a second
\* response would block every later request for good: result, reconnection and
\* restart together never produce two (receiveResult, connect).
OneResponsePerCall == \A i \in Commands : sent[i] <= 1

\* A reservation is neither leaked nor given back while it is still recorded: the
\* desktop is held for a command exactly while its pending record says so, or the
\* handler that just obtained it is about to decide.
ReservationsMatchGate ==
  /\ gate \in Commands => auth[gate] = "gated" \/ (gate \in pending /\ p[gate].reserved)
  /\ \A i \in pending : p[i].reserved => gate = i

BridgeInv == TypeOK /\ ReservationsMatchGate

\* While a job of the connected generation works on a visible page the desktop is
\* held for it, through cancellations, lost streams and reconnections.
VisibleWorkHoldsDesktop ==
  \A i \in Commands :
    job[i] = "executing" /\ cmd[i].visible /\ cmd[i].boot = Boot /\ ~closed => gate = i

\* An accepted result is the end of the execution: no cancel acknowledgement or
\* retried delivery speaks for a command that still runs or has yet to arrive.
AcknowledgedWorkIsOver ==
  \A i \in acked :
    /\ job[i] = "none"
    /\ \A k \in DOMAIN wire : wire[k] # [method |-> "command", id |-> i]

\* A handle issued on one stream never selects a tab on another, although route and
\* call look at the instance in two critical sections.
NoStaleHandle ==
  \A i \in Commands : job[i] # "none" => cmd[i].handle \in {0, cmd[i].stream}

\* A command whose call has returned, or whose stream is gone, is never dispatched:
\* nothing is replayed after a reconnection.
NoReplay ==
  [][\A i \in Commands : ~p[i].dispatched /\ p'[i].dispatched =>
       caller[i] = "waiting" /\ cmd[i].stream = stream /\ up]_vars

\* Claimed by the comment on DesktopGate (browser.go:28-29): the reservation outlives the
\* execution it was made for, whatever happens to the extension.
ExecutionKeepsReservation ==
  \A i \in Commands : job[i] = "executing" /\ cmd[i].visible /\ ~closed => gate = i
-----------------------------------------------------------------------------
(* Liveness.  Goroutines and handlers run; jobs settle (every CDP wait has  *)
(* a deadline or is aborted); a result whose delivery fails is retried for  *)
(* ever; the browser profile stays open, so its alarm reconnects.           *)

Fairness ==
  /\ WF_vars(StreamLost /\ (~link \/ closed)) /\ WF_vars(Connect)
  /\ WF_vars(DispatchCommand) /\ WF_vars(Intake)
  /\ WF_vars(gate = Computer /\ ComputerUse)
  /\ \A i \in Commands :
       /\ WF_vars(Enqueue(i)) /\ WF_vars(CallReturns(i)) /\ WF_vars(DispatchCancel(i))
       /\ WF_vars(ReceiveResult(i, TRUE)) /\ WF_vars(AuthorizeStart(i))
       /\ WF_vars(GateRefused(i)) /\ WF_vars(AuthorizeEnd(i)) /\ WF_vars(GateWatch(i))
       /\ WF_vars(JobStart(i)) /\ WF_vars(JobEnd(i))

FairSpec == Spec /\ Fairness

\* The desktop reserved for a browser command comes back.
ReservationReturns == \A i \in Commands : gate = i ~> gate # i

\* A call that has returned stops counting against the pending capacity.
ReturnedCallsDrain == \A i \in Commands : caller[i] = "returned" ~> i \notin pending

\* Nothing that a command occupied stays occupied: neither the desktop nor its place.
BridgeSettles == ReservationReturns /\ ReturnedCallsDrain
===============================================================================
