---------------------------- MODULE DesktopControl ----------------------------
(***************************************************************************)
(* The desktop control coordinator (internal/computer/coordinator.go).     *)
(* One workflow at a time owns the pointer, keyboard and foreground.  A    *)
(* control id is allocated by `acquire` and ends by release, idle expiry,  *)
(* the local Stop affordance or shutdown; the coordinator then stays in    *)
(* "stopping" until finishStop has reset the native backend and has got    *)
(* the operation gate.  Native operations (State, Act) and operations the  *)
(* browser bridge runs on a visible page all hold the gate while they run. *)
(*                                                                         *)
(* Clients are the goroutines that serve calls: each runs one call at a    *)
(* time, and pc says where in it the goroutine is.  The native backend is  *)
(* an environment that may fail any call; `screen` counts the changes the  *)
(* host itself made to what is visible.                                    *)
(***************************************************************************)
EXTENDS Naturals, FiniteSets

CONSTANTS Clients,      \* goroutines that serve computer and browser calls
          Stopper,      \* the goroutine that is inside finishStop
          Nobody,       \* "no goroutine"
          MaxWaiting,   \* capacity of the waiting channel (64 in the code)
          MaxStates,    \* observations remembered before the map is cleared (64)
          MaxControls,  \* bound: control ids ever allocated
          MaxScreen     \* bound: visible changes the host makes

ASSUME DesktopAssumption ==
  /\ Stopper \notin Clients /\ Nobody \notin Clients /\ Stopper # Nobody
  /\ IsFiniteSet(Clients)
  /\ {MaxWaiting, MaxStates, MaxControls, MaxScreen} \subseteq Nat

VARIABLES
  status,     \* "free" | "owned" | "stopping"
  id,         \* current control id; 0 is the empty string
  lapsed,     \* the idle deadline of the current control has passed
  closed,     \* Close has begun
  states,     \* actionable observations: state id -> control id
  opCancel,   \* whose cancel function is installed as operationCancel
  gate,       \* who took the gate token; Nobody when it is in the channel
  waiting,    \* holders of a slot of the waiting channel
  pc, call,   \* where each call is and what it asked for
  cancelled,  \* calls whose operation context is done
  stopper,    \* progress of the goroutine that holds stopMu
  ticking,    \* that goroutine is the one-second ticker
  closer,     \* progress of the goroutine that runs Close
  nextId,     \* number of control ids allocated so far
  screen,     \* number of visible changes the host has made
  live        \* history: ids handed to a workflow and not yet ended

control == <<status, id, lapsed, live>>
queue   == <<gate, waiting>>
stop    == <<stopper, ticking>>
vars == <<control, queue, stop, closed, states, opCancel, pc, call, cancelled,
          closer, nextId, screen>>

Statuses   == {"free", "owned", "stopping"}
NoCall     == [kind |-> "none", control |-> 0, seen |-> 0]
Running    == {"observing", "captured", "checking", "dispatching", "acting",
               "invalidating", "clearing", "browsing", "ending"}
Acquiring  == {"showing", "resetting"}
Calls == [kind : {"none", "acquire", "state", "act", "activate", "browser"},
          control : 0..MaxControls, seen : 0..MaxScreen]

\* What a client can have learnt: every id but one whose acquire is unfinished.
Known == {i \in 1..nextId : \A c \in Clients :
            pc[c] \in Acquiring => call[c].control # i}

Return(c) ==
  /\ pc' = [pc EXCEPT ![c] = "idle"]
  /\ call' = [call EXCEPT ![c] = NoCall]
  /\ cancelled' = cancelled \ {c}

Goto(c, label) == pc' = [pc EXCEPT ![c] = label]

\* Mutant: the running operation is not told.
CancelNothing == UNCHANGED cancelled

\* Cancel the context of the operation whose cancel function is installed.
CancelOperation == cancelled' = cancelled \cup ({opCancel} \cap Clients)

Init ==
  /\ status = "free" /\ id = 0 /\ lapsed = FALSE /\ live = {}
  /\ closed = FALSE /\ states = {} /\ opCancel = Nobody
  /\ gate = Nobody /\ waiting = {}
  /\ pc = [c \in Clients |-> "idle"]
  /\ call = [c \in Clients |-> NoCall]
  /\ cancelled = {}
  /\ stopper = "idle" /\ ticking = FALSE /\ closer = "open"
  /\ nextId = 0 /\ screen = 0
-----------------------------------------------------------------------------
(* Allocation and the four ways a control ends.                            *)

\* Every entry point calls expire first, so it never sees a due control.
ExpiryDue == status = "owned" /\ opCancel = Nobody /\ lapsed

Revoke == status' = "stopping" /\ id' = 0 /\ states' = {} /\ live' = live \ {id}

Lapse ==
  /\ status = "owned" /\ ~lapsed
  /\ lapsed' = TRUE
  /\ UNCHANGED <<status, id, live, queue, stop, closed, states, opCancel, pc, call,
                 cancelled, closer, nextId, screen>>

Expire ==
  /\ ExpiryDue
  /\ Revoke
  /\ UNCHANGED <<lapsed, queue, stop, closed, opCancel, pc, call, cancelled, closer,
                 nextId, screen>>

Acquire(c) ==
  /\ pc[c] = "idle" /\ ~ExpiryDue
  /\ gate = Nobody /\ ~closed /\ status = "free" /\ nextId < MaxControls
  /\ gate' = c /\ status' = "owned" /\ lapsed' = FALSE
  /\ nextId' = nextId + 1 /\ id' = nextId + 1
  /\ Goto(c, "showing")
  /\ call' = [call EXCEPT ![c] =
                [kind |-> "acquire", control |-> nextId + 1, seen |-> 0]]
  /\ UNCHANGED <<live, waiting, stop, closed, states, opCancel, cancelled, closer, screen>>

\* ShowControl succeeded: hand the id out unless it was revoked meanwhile.
AcquireShown(c) ==
  /\ pc[c] = "showing"
  /\ live' = IF status = "owned" /\ id = call[c].control THEN live \cup {id} ELSE live
  /\ gate' = Nobody
  /\ Return(c)
  /\ UNCHANGED <<status, id, lapsed, waiting, stop, closed, states, opCancel, closer,
                 nextId, screen>>

AcquireFailed(c) ==
  /\ pc[c] = "showing"
  /\ Goto(c, "resetting")
  /\ UNCHANGED <<control, queue, stop, closed, states, opCancel, call, cancelled,
                 closer, nextId, screen>>

\* The status is overwritten whatever it became during ShowControl and Reset.
AcquireUndone(c) ==
  /\ pc[c] = "resetting"
  /\ \E cleaned \in BOOLEAN : status' = IF cleaned THEN "free" ELSE "stopping"
  /\ id' = 0
  /\ gate' = Nobody
  /\ Return(c)
  /\ UNCHANGED <<lapsed, live, waiting, stop, closed, states, opCancel, closer,
                 nextId, screen>>

Release ==
  /\ ~ExpiryDue
  /\ status = "owned" /\ id \in Known
  /\ Revoke /\ CancelOperation
  /\ UNCHANGED <<lapsed, queue, stop, closed, opCancel, pc, call, closer, nextId, screen>>

\* The Stop strip, or the worker process going away, at any moment.
LocalStop ==
  /\ status = "owned"
  /\ Revoke /\ CancelOperation
  /\ UNCHANGED <<lapsed, queue, stop, closed, opCancel, pc, call, closer, nextId, screen>>
-----------------------------------------------------------------------------
(* finishStop: started by whoever revoked the control, by the end of an     *)
(* operation or by the ticker; stopMu lets one goroutine through.          *)

StopStart ==
  /\ stopper = "idle"
  /\ status = "stopping" /\ ~closed
  /\ stopper' = "resetting"
  /\ ticking' \in (IF closer = "open" THEN BOOLEAN ELSE {FALSE})
  /\ UNCHANGED <<control, queue, closed, states, opCancel, pc, call, cancelled, closer,
                 nextId, screen>>

StopReset ==
  /\ stopper = "resetting"
  /\ Cardinality(waiting) < MaxWaiting
  /\ stopper' = "waiting" /\ waiting' = waiting \cup {Stopper}
  /\ UNCHANGED <<control, gate, ticking, closed, states, opCancel, pc, call, cancelled,
                 closer, nextId, screen>>

\* Reset failed, the queue is full, or the five seconds are over.
StopGiveUp ==
  /\ stopper \in {"resetting", "waiting"}
  /\ stopper' = "idle" /\ ticking' = FALSE /\ waiting' = waiting \ {Stopper}
  /\ UNCHANGED <<control, gate, closed, states, opCancel, pc, call, cancelled, closer,
                 nextId, screen>>

\* Mutant: the desktop is freed without waiting for the operation that uses it.
StopGateUnlocked ==
  /\ stopper = "waiting" /\ stopper' = "freeing" /\ waiting' = waiting \ {Stopper}
  /\ UNCHANGED <<control, gate, ticking, closed, states, opCancel, pc, call, cancelled,
                 closer, nextId, screen>>

StopGate ==
  /\ stopper = "waiting" /\ gate = Nobody
  /\ gate' = Stopper /\ waiting' = waiting \ {Stopper} /\ stopper' = "freeing"
  /\ UNCHANGED <<control, ticking, closed, states, opCancel, pc, call, cancelled, closer,
                 nextId, screen>>

\* "stopping" was tested before Reset and is not tested again here.
StopFree ==
  /\ stopper = "freeing"
  /\ status' = IF closed THEN status ELSE "free"
  /\ opCancel' = Nobody /\ states' = {}
  /\ gate' = Nobody /\ stopper' = "idle" /\ ticking' = FALSE
  /\ UNCHANGED <<id, lapsed, live, waiting, closed, pc, call, cancelled, closer,
                 nextId, screen>>
-----------------------------------------------------------------------------
(* begin and end of an operation.                                          *)

\* A call may use the desktop: as the owner, or (browser only) as a borrower.
Entitled(request) ==
  /\ ~closed
  /\ \/ request.kind = "browser" /\ request.control = 0 /\ status = "free"
     \/ request.control # 0 /\ status = "owned" /\ id = request.control

Requests == {r \in Calls : /\ r.kind \in {"state", "act", "activate", "browser"}
                           /\ r.control \in Known \cup {0}
                           /\ r.seen <= screen
                           /\ r.kind # "act" => r.seen = 0
                           /\ r.kind # "browser" => r.control # 0}

Enqueue(c) ==
  /\ pc[c] = "idle" /\ ~ExpiryDue
  /\ Cardinality(waiting) < MaxWaiting
  /\ \E r \in Requests : Entitled(r) /\ call' = [call EXCEPT ![c] = r]
  /\ waiting' = waiting \cup {c}
  /\ Goto(c, "queued")
  /\ UNCHANGED <<control, gate, stop, closed, states, opCancel, cancelled, closer,
                 nextId, screen>>

\* Request canceled, 30 seconds over, or the coordinator closed.
LeaveQueue(c) ==
  /\ pc[c] = "queued" /\ (c \in cancelled \/ closed)
  /\ waiting' = waiting \ {c}
  /\ Return(c)
  /\ UNCHANGED <<control, gate, stop, closed, states, opCancel, closer, nextId, screen>>

FirstStep(kind) == CASE kind = "state"    -> "observing"
                     [] kind = "act"      -> "checking"
                     [] kind = "activate" -> "checking"
                     [] OTHER             -> "invalidating"

\* Mutant: a call that was entitled when it queued still is.
BeginUnchecked(c) ==
  /\ pc[c] = "queued" /\ gate = Nobody /\ c \notin cancelled
  /\ gate' = c /\ waiting' = waiting \ {c} /\ opCancel' = c
  /\ lapsed' = IF call[c].control # 0 THEN FALSE ELSE lapsed
  /\ Goto(c, FirstStep(call[c].kind))
  /\ UNCHANGED <<status, id, live, stop, closed, states, call, cancelled, closer,
                 nextId, screen>>

\* The gate came free: the entitlement is checked again under the mutex.
Begin(c) ==
  /\ pc[c] = "queued" /\ gate = Nobody /\ c \notin cancelled
  /\ Entitled(call[c])
  /\ gate' = c /\ waiting' = waiting \ {c} /\ opCancel' = c
  /\ lapsed' = IF call[c].control # 0 THEN FALSE ELSE lapsed
  /\ Goto(c, FirstStep(call[c].kind))
  /\ UNCHANGED <<status, id, live, stop, closed, states, call, cancelled, closer,
                 nextId, screen>>

BeginRefused(c) ==
  /\ pc[c] = "queued" /\ gate = Nobody /\ c \notin cancelled
  /\ ~Entitled(call[c])
  /\ waiting' = waiting \ {c}
  /\ Return(c)
  /\ UNCHANGED <<control, gate, stop, closed, states, opCancel, closer, nextId, screen>>

Cancel(c) ==
  /\ pc[c] \in {"queued"} \cup Running /\ c \notin cancelled
  /\ cancelled' = cancelled \cup {c}
  /\ UNCHANGED <<control, queue, stop, closed, states, opCancel, pc, call, closer,
                 nextId, screen>>

\* Mutant: an operation ends without giving the token back.
EndHolding(c) ==
  /\ pc[c] = "ending"
  /\ opCancel' = Nobody
  /\ Return(c)
  /\ UNCHANGED <<control, queue, stop, closed, states, closer, nextId, screen>>

End(c) ==
  /\ pc[c] = "ending"
  /\ opCancel' = Nobody /\ gate' = Nobody
  /\ lapsed' = IF call[c].control # 0 /\ status = "owned" /\ id = call[c].control
                 THEN FALSE ELSE lapsed
  /\ Return(c)
  /\ UNCHANGED <<status, id, live, waiting, stop, closed, states, closer, nextId, screen>>
-----------------------------------------------------------------------------
(* What an operation does while it holds the gate.                         *)

\* A native call fails, or its context was done before it was submitted.
NativeError(c) ==
  /\ pc[c] \in {"observing", "dispatching", "invalidating"}
  /\ Goto(c, "ending")
  /\ UNCHANGED <<control, queue, stop, closed, states, opCancel, call, cancelled, closer,
                 nextId, screen>>

StateCapture(c) ==
  /\ pc[c] = "observing" /\ c \notin cancelled
  /\ call' = [call EXCEPT ![c].seen = screen]
  /\ Goto(c, "captured")
  /\ UNCHANGED <<control, queue, stop, closed, states, opCancel, cancelled, closer,
                 nextId, screen>>

StateRecord(c) ==
  /\ pc[c] = "captured"
  /\ states' = IF status = "owned" /\ id = call[c].control
                 THEN (IF Cardinality(states) >= MaxStates THEN {} ELSE states)
                        \cup {[seen |-> call[c].seen, control |-> call[c].control]}
                 ELSE states
  /\ Goto(c, "ending")
  /\ UNCHANGED <<control, queue, stop, closed, opCancel, call, cancelled, closer,
                 nextId, screen>>

Observation(c) == [seen |-> call[c].seen, control |-> call[c].control]

\* activate needs no observation; every accepted action forgets all of them.
ActCheck(c) ==
  /\ pc[c] = "checking"
  /\ IF call[c].kind = "activate" \/ Observation(c) \in states
       THEN states' = {} /\ Goto(c, "dispatching")
       ELSE UNCHANGED states /\ Goto(c, "ending")
  /\ UNCHANGED <<control, queue, stop, closed, opCancel, call, cancelled, closer,
                 nextId, screen>>

ActDispatch(c) ==
  /\ pc[c] = "dispatching" /\ c \notin cancelled /\ screen < MaxScreen
  /\ screen' = screen + 1
  /\ Goto(c, "acting")
  /\ UNCHANGED <<control, queue, stop, closed, states, opCancel, call, cancelled, closer,
                 nextId>>

BorrowInvalidate(c) ==
  /\ pc[c] = "invalidating" /\ c \notin cancelled
  /\ Goto(c, "clearing")
  /\ UNCHANGED <<control, queue, stop, closed, states, opCancel, call, cancelled, closer,
                 nextId, screen>>

\* Mutant: a browser operation leaves the owner's observations usable.
BorrowClearNothing(c) ==
  /\ pc[c] = "clearing"
  /\ Goto(c, "browsing")
  /\ UNCHANGED <<control, queue, stop, closed, states, opCancel, call, cancelled, closer,
                 nextId, screen>>

BorrowClear(c) ==
  /\ pc[c] = "clearing"
  /\ states' = {}
  /\ Goto(c, "browsing")
  /\ UNCHANGED <<control, queue, stop, closed, opCancel, call, cancelled, closer, nextId,
                 screen>>

\* The extension may change the page until it acknowledges, canceled or not.
BrowserChange(c) ==
  /\ pc[c] = "browsing" /\ screen < MaxScreen
  /\ screen' = screen + 1
  /\ UNCHANGED <<control, queue, stop, closed, states, opCancel, pc, call, cancelled,
                 closer, nextId>>

\* The native call returned, or the bridge released its reservation.
Complete(c) ==
  /\ pc[c] \in {"acting", "browsing"}
  /\ Goto(c, "ending")
  /\ UNCHANGED <<control, queue, stop, closed, states, opCancel, call, cancelled, closer,
                 nextId, screen>>
-----------------------------------------------------------------------------
(* Shutdown.                                                               *)

CloseBegin ==
  /\ closer = "open"
  /\ closed' = TRUE /\ closer' = "draining"
  /\ status' = "stopping" /\ id' = 0 /\ states' = {} /\ live' = {}
  /\ CancelOperation
  /\ UNCHANGED <<lapsed, queue, stop, opCancel, pc, call, nextId, screen>>

\* Reset, Close of the worker, then the ticker goroutine is joined.
CloseDone ==
  /\ closer = "draining" /\ ~ticking
  /\ closer' = "done"
  /\ UNCHANGED <<control, queue, stop, closed, states, opCancel, pc, call, cancelled,
                 nextId, screen>>

Serve(c) == \/ Acquire(c) \/ AcquireShown(c) \/ AcquireFailed(c) \/ AcquireUndone(c)
            \/ Enqueue(c) \/ LeaveQueue(c) \/ Begin(c) \/ BeginRefused(c)
            \/ Cancel(c) \/ End(c)
            \/ NativeError(c) \/ StateCapture(c) \/ StateRecord(c)
            \/ ActCheck(c) \/ ActDispatch(c) \/ Complete(c)
            \/ BorrowInvalidate(c) \/ BorrowClear(c) \/ BrowserChange(c)

Next == \/ Lapse \/ Expire \/ Release \/ LocalStop
        \/ StopStart \/ StopReset \/ StopGiveUp \/ StopGate \/ StopFree
        \/ CloseBegin \/ CloseDone
        \/ \E c \in Clients : Serve(c)

Spec == Init /\ [][Next]_vars
-----------------------------------------------------------------------------
(* Correctness.                                                            *)

\* The variables keep their types.
TypeOK ==
  /\ status \in Statuses /\ id \in 0..MaxControls /\ nextId \in 0..MaxControls
  /\ lapsed \in BOOLEAN /\ closed \in BOOLEAN /\ ticking \in BOOLEAN
  /\ states \subseteq [seen : 0..MaxScreen, control : 0..MaxControls]
  /\ opCancel \in Clients \cup {Nobody}
  /\ gate \in Clients \cup {Stopper, Nobody}
  /\ waiting \subseteq Clients \cup {Stopper}
  /\ pc \in [Clients -> {"idle", "queued"} \cup Acquiring \cup Running]
  /\ call \in [Clients -> Calls]
  /\ cancelled \subseteq Clients
  /\ stopper \in {"idle", "resetting", "waiting", "freeing"}
  /\ closer \in {"open", "draining", "done"}
  /\ screen \in 0..MaxScreen /\ live \subseteq 0..MaxControls

Users == {c \in Clients : pc[c] \in Acquiring \cup Running}
Settlers == IF stopper = "freeing" THEN {Stopper} ELSE {}

\* The gate token is lost or duplicated by no path: whoever acquires a control,
\* runs an operation or frees the desktop holds it, alone, and a free token
\* means that nobody does (gate channel, every defer and once.Do of coordinator.go).
GateIsExclusive == Users \cup Settlers = {gate} \ {Nobody}

\* A new owner never meets the work of an old one: while an operation of a control
\* runs, the desktop is owned by that very control or still "stopping"
\* (finishStop takes the gate before it frees, coordinator_test.go:231).
WorkSettlesBeforeReuse ==
  \A c \in Clients : pc[c] \in Running /\ call[c].control # 0 =>
    \/ status = "stopping"
    \/ status = "owned" /\ id = call[c].control

\* Release, expiry, local Stop and shutdown cancel pending work: an operation that
\* has lost its entitlement has a canceled context, so the native backend refuses it.
RevokedWorkIsCancelled ==
  \A c \in Clients :
    pc[c] \in Running \ {"ending"} /\ ~(status = "owned" /\ id = call[c].control)
      => \/ c \in cancelled
         \/ call[c].control = 0 /\ ~closed

\* Actionable observations die with the control they were taken under.
ObservationsBelongToOwner ==
  \A s \in states : status = "owned" /\ s.control = id

\* The inductive invariant behind the theorems of DesktopControlProofs: who holds
\* the gate, whose cancel function is installed, and which observations are fresh.
GateHolder ==
  /\ \A c \in Clients : pc[c] \in Acquiring \cup Running <=> gate = c
  /\ stopper = "freeing" <=> gate = Stopper

CancelInstalled == \A c \in Clients : pc[c] \in Running => opCancel = c

Freshness ==
  /\ \A s \in states : s.seen = screen
  /\ \A c \in Clients :
       /\ pc[c] \in Acquiring \cup {"dispatching", "acting", "browsing"} => states = {}
       /\ pc[c] = "captured" => call[c].seen = screen
       /\ pc[c] = "dispatching" /\ call[c].kind = "act" => call[c].seen = screen

DesktopInv ==
  /\ TypeOK /\ GateHolder /\ CancelInstalled /\ Freshness
  /\ WorkSettlesBeforeReuse /\ RevokedWorkIsCancelled /\ ObservationsBelongToOwner
  /\ closed <=> closer # "open"

\* An input action is sent to the backend only on an observation after which the
\* host changed nothing visible: no action, and no browser operation on the page.
ActsOnFreshObservation ==
  [][\A c \in Clients :
       pc[c] = "dispatching" /\ pc'[c] = "acting" /\ call[c].kind = "act"
         => call[c].seen = screen]_vars

\* computer_control allocates the desktop to one workflow (README.md:226): two
\* workflows never hold controls that nothing has ended.
OneLiveControl == \A i, j \in live : i = j

Using == gate \in Clients /\ pc[gate] \in Running

Lease == INSTANCE DesktopLease WITH
           lease   <- IF status = "owned" THEN id ELSE 0,
           granted <- nextId,
           user    <- IF Using THEN gate ELSE Nobody,
           under   <- IF Using THEN call[gate].control ELSE 0,
           open    <- ~closed

\* The coordinator implements the exclusive lease.
ImplementsLease == Lease!LeaseSpec
-----------------------------------------------------------------------------
(* Liveness.  Goroutines are scheduled; native calls return within 30       *)
(* seconds; the gate channel serves blocked receivers in order, hence       *)
(* strong fairness for them; Reset succeeds if it is retried for ever; and  *)
(* the bridge acknowledges what it reserved (BrowserBridge shows when).     *)

\* What the goroutine of a call does next, apart from waiting in the queue.
Proceed(c) ==
  \/ AcquireShown(c) \/ AcquireFailed(c) \/ AcquireUndone(c)
  \/ NativeError(c) \/ StateCapture(c) \/ ActDispatch(c) \/ BorrowInvalidate(c)
  \/ StateRecord(c) \/ ActCheck(c) \/ BorrowClear(c) \/ Complete(c) \/ End(c)

Fairness ==
  /\ WF_vars(StopStart) /\ SF_vars(StopReset) /\ SF_vars(StopGate) /\ WF_vars(StopFree)
  /\ \A c \in Clients :
       WF_vars(Proceed(c)) /\ WF_vars(LeaveQueue(c)) /\ SF_vars(Begin(c) \/ BeginRefused(c))

FairSpec == Spec /\ Fairness

\* A revoked desktop does not stay "stopping": it becomes free, unless it is closed.
StoppingSettles == status = "stopping" ~> status # "stopping" \/ closed

\* A call that queued for the gate returns to its caller.
QueuedCallsReturn == \A c \in Clients : pc[c] = "queued" ~> pc[c] = "idle"

\* Nobody waits for ever: neither the desktop for its cleanup nor a call for the gate.
DesktopSettles == StoppingSettles /\ QueuedCallsReturn
===============================================================================
