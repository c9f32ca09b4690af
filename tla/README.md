# Local Runtime MCP: verification

Local Runtime MCP gives AI clients processes, files, browsers and the Windows desktop of
one machine. This directory holds TLA+ models of the parts of it that coordinate
concurrent work, the TLC configurations that check them on small instances, and theorems
about them that TLAPS checks for every value of the constants. Source paths below are
relative to the repository; every definition that models code is mapped to its lines in
`PROJECT.json`.

Contents: [inventory](#inventory) · [modules](#modules-and-how-they-correspond-to-the-code) ·
[runs and bounds](#runs-and-bounds) · [fairness](#fairness-and-why-the-code-justifies-it) ·
[theorems](#theorems) · [where the code and its texts differ](#where-the-code-and-its-texts-differ) ·
[limits of the models](#limits-of-the-models) · [plan](#plan)

## Inventory

A client reaches the MCP server through stdio, local HTTP or a tunnel. The server turns
tool calls into calls of five services, which run in one Go process, the host. Calls of
one client and of several run concurrently; each service protects itself.

| Component | State it keeps | Operations | What makes it hard | What makes it correct |
| --- | --- | --- | --- | --- |
| desktop coordinator (`internal/computer/coordinator.go`) | status, control id, idle deadline, usable observations, one-token operation gate, waiting slots, cancel function of the running operation | acquire, release, expiry, local Stop, State, Act, browser operations, finishStop, Close | a control can be revoked by four parties while its operation waits or runs; the cleanup runs in goroutines of its own and waits for the gate | one user of the desktop; old work settles before a new owner; actions use fresh observations of their own control; "stopping" ends |
| native worker controller (`computer_windows.go`) and worker (`native/computer-windows`) | worker process, request queue, ready and stop messages; in the worker an observation epoch, held inputs | start, request, Reset, Close; state, act, local stop | the worker may die with inputs pressed; Stop comes from the user at any time | inputs are released, a stale observation is refused |
| browser bridge (`internal/browser`) | instance record per profile, pending map, command and control queues, desktop reservation of each command | call, connect, dispatch, receiveResult, authorizeDesktop, cancel, Close | a result, a reconnection, a restart, the caller's deadline and Close meet in one record; the gate is awaited without the mutex | a call is answered once; nothing is replayed; a reservation is neither leaked nor given back while the page is being changed |
| browser extension (`browser-extension/src`) | stream, generation, jobs in lanes, opening tabs, page observations, result outbox | intake, submit, cancel, execute, deliver, reconfigure | asynchronous callbacks; the worker is restarted at will | FIFO lanes, counted slots, results delivered until acknowledged, handles die with their stream |
| process manager (`internal/process`) | session map, launches in progress, per session the process, its input gate, output buffers, lifetime | Run, Continue (read, write, close, resize, wait, terminate), eviction, Close | five goroutines per session; a session is handed over while its first request can still be canceled | no orphaned process, capacity, ordered input, honest answers, Close joins everything |
| filesystem service (`internal/filesystem`) | lock objects by file identity with reference counts, capacity | list, stat, read, search, write, patch | several names of one file, of which `commitIdentity` identifies some; cancellation while waiting for a lock; programs outside the service | one commit per identity at a time, no lost update among calls of one identity, `create` overwrites nothing, answers tell what was published |
| image reader (`internal/image`) | reader, waiter and pixel capacities | Read | reservations given back on every path | bounded memory |
| OAuth server (`internal/oauth`) | approval tickets, codes, refresh families, access tokens | authorize, approve, token, revoke, cleanup | replayed codes and rotated refresh tokens, limits, expiry | a code is used once; reuse of a rotated token ends its family |
| entrances (`internal/connection`, `internal/transport`), tunnels (`internal/tunnel`) | one supervised component each | Run, shutdown | one failing entrance ends the others, in order | everything is joined |
| runtime host (`internal/runtimehost`) | the services | Start, Close | order of shutdown | as for entrances |
| MCP server (`internal/mcpserver`), configuration, command line, scripts | none of their own that outlives a call | translation, precedence, dialogue | | |

Interactions. The desktop gate is the state that joins two services: the coordinator's
native operations hold it while they run, and `Bridge.authorizeDesktop` obtains it for a
browser command that changes a visible page and keeps it until the extension has
acknowledged the end of the execution. The bridge and the extension exchange messages over
one WebSocket per profile (commands, cancels) and HTTP requests (results, desktop
authorizations). The coordinator calls the native worker, which calls back on local Stop.
`runtimehost` starts the services and closes them. Process, filesystem and image services
share nothing with the others.

`PROJECT.json` lists the hazards of this code at their lines, with the properties that
would catch them going wrong.

## Modules and how they correspond to the code

Every critical section of a mutex, and every JavaScript callback up to its next `await`, is
one action; what runs between two critical sections, a wait for a channel or a call of
something outside, separates actions. A goroutine's place in its function is a label in a
function such as `pc`. Names of clients, files, commands and tabs are model values. History
variables (`live`, `acked`, `arrived`, `raced`, `overtaken`, `covered`, `quiet`, `settled`, `lost`) are read by properties only, never by a
guard. Operators marked *Mutant* are not used by any specification: each is a plausible
error in the definition that follows it, and shows that a property can fail.

**DesktopLease** is what the coordinator promises: numbered leases, granted one at a time
to a desktop nobody uses; a user under a lease or, while there is none, as a borrower.

**DesktopControl** is the coordinator. `Acquire` … `AcquireUndone` are `Control` with the
native ShowControl and Reset; `Enqueue`, `LeaveQueue`, `Begin`, `BeginRefused`, `End` are
`begin` and its deferred end; `StateCapture`/`StateRecord` and `ActCheck`/`ActDispatch` are
`State` and `Act` around the native call, `Borrow…` and `BrowserChange` what
`BeginVisible` lets the bridge do; `Revoke` is the common part of release, expiry,
Stop and shutdown, `Stop…` is finishStop, and `CloseBegin`/`CloseDone` is `Close`. `Control`
and `begin` call `expire` first, so `Acquire`, `Enqueue` and `Release` wait for a due expiry. The
native backend is external: it may fail any call. `screen` counts changes the host makes
to what is visible, which is what makes an observation stale. `Lease!LeaseSpec` with the
mapping in the module is the refinement.

**BrowserBridge** is the bridge with one instance, the extension as far as the bridge
depends on it, and the gate reduced to its token with a native user as competitor.
`Route`, `Register`, `Enqueue`, `CallReturns` are `Bridge.call`; `DispatchCommand`,
`DispatchCancel`, `StreamLost` are the stream's goroutine; `Connect` replaces the instance;
`ReceiveResult`, `AuthorizeStart`, `GateGranted`, `GateRefused`, `AuthorizeEnd` are the HTTP
handlers, with the mutex released around the gate; `GateWatch` is the function registered
with `context.AfterFunc`; `Revoke` is the coordinator canceling a reservation. `Intake`,
`JobStart`, `JobAuthorized`, `JobEnd`, `CancelAll`, `Unlink`, `Reconfigure` and
`WorkerRestart` are the extension.

**LaneScheduler** is `scheduler.ts` with the choice of a lane at intake. `submit`, `cancel`
and `finish` each end in `pump`, which is part of their action; a picked job waits for its
microtask (`Begin`), an execution for its promise (`Settle`).

**PageWork** extends LaneScheduler with what executions do to pages in `service_worker.ts`:
`LookStart` and `LookEnd` are `snapshot` and `screenshot` around their reads, `ActStart`,
`ActInput` and `ActEnd` are `action` from its validation to its last input, `Navigate` is
`page.navigate`, `PageEvent` the listeners of tabs and debugger, `DropStates` the loss of the
stream. `Execute`, `OpenTab`, `EndPlainly` and `Stop` are the scheduler's steps with the
signals and page states they touch. A page state is named by the look that made it.
`overtaken` is the history of looks whose page has changed since they read it.

**ProcessManager** is the life of sessions: admission and eviction, launch, registration,
the first wait and its end by hand-off, completion or interruption, the cancellation
watcher, the lifetime watch, the keeper that waits and retains, `Continue`'s terminate and
`Manager.Close`.

**ProcessInput** is `writeStdin`, `closeStdin` and the end of `session.wait` for one
session: callers queue for the gate, a goroutine writes the text and gives the gate back,
a canceled caller leaves that goroutine behind. A text is written in two parts.

**ProcessSession** composes the two for one session: the first text of `Run` and the texts of
`Continue` go through the session's input, the keeper that waits for the process closes it
and joins its writers, and the exit of the process ends a blocked write. Its actions are
conjunctions of theirs; the module adds the liveness of all of it.

**NativeWorker** is the Rust program of `native/computer-windows`: the reader thread with its
one-place channel, the main thread that executes a request, the overlay thread with its Stop
button and the UI Automation thread that sets a value, with `ACTIVE`, `STOP_GENERATION`, the
usable observation and the held inputs they share.

**NativeController** is `computer_windows.go` around it: calls and the gate they take,
`request` with its cancellation and its two-second wait, `start`, `Reset`, `Close`,
`stopCommand`, the goroutines that read the worker's output and wait for its end, and
`releaseInputs`, which releases on the supervisor's side what a dead worker held. The pipe,
the worker and Windows may fail: a crash, a kill, a rejected release, the death of the host.

**FileCommit** is `acquire`, `WriteText`, `PatchText` and `atomicWrite`: capacity, the lock
object of a path's identity, validation, the temporary file, publication by link or rename.
`Identity` is `commitIdentity` and `Target` what the operating system finds under a name; the
lock goes by the first, the content by the second, and neither follows from the other:
`commitIdentity` resolves aliases of the parent, keeps the final name as given and folds case
on Windows only. So names that differ in case on a macOS volume, or a short final name on
Windows, are two locks for one file. `raced` holds the calls whose file was written, since they
validated it, by someone their lock does not keep out: a program outside, or such a call.
Content is the name of the call that wrote it, so versions are never confused.

**OAuthGrants** is `oauth.go`. Every handler holds `Server.mu` from its cleanup to its last
write, so a handler is one action, and each action starts from the maps as `cleanup` leaves
them (`LiveTickets` … `LiveRefresh`). `BeginApproval`, `Approve`, `Deny` are the approval
page, `Redeem` and `Rotate` the token endpoint, `RedeemAgain` and `RotateAgain` its answer to
a spent credential, `Revoke` the revocation endpoint. A request that fails a check, and a
bearer validation, is `Cleanup`. A random token is the next number. `approved`, `redeemed`,
`rotated` and `ended` are history: what the owner approved, what each credential gave, and
which families must be dead, computed without looking at the `consumed` and `used` flags the
code decides by.

The `MC` modules add symmetry sets and the functions of names for TLC; the `Proofs` modules
hold theorems only.

## Runs and bounds

| Run | Instance | States | Question |
| --- | --- | --- | --- |
| `desktop` | 2 clients, 1 waiting slot, 2 control ids, 2 visible changes | 81,403 | Gate, cleanup, cancellation and observations in every interleaving; refinement of DesktopLease; does "stopping" end, does every queued call return? |
| `desktop_lost_control` | 2 clients, 3 control ids | until found | Violation: two controls live at once. |
| `browser` | 1 command and the native user, 3 streams, 2 generations | 255,632 | Answers, reservations, handles, replay and acknowledgement across reconnections and restarts; do the reservation and the pending entry come back? |
| `browser_reconfigured` | the same with 2 streams | until found | Violation: a reservation that ends before its execution. |
| `process` | 2 runs, 1 place; symmetry over runs | 350,403 | Capacity, eviction, hand-off, orphans, what Close leaves. |
| `session` | 1 run, its first text and 2 later writers, 1 waiting place; pipe or terminal | 153,068 | Interleaving of texts, answers; do Run, its writers, the process and Close end although a write is blocked? |
| `native` | 1 observation and 2 acts, 1 trouble, 2 workers | 815,706 | Does cancellation reach its request, is the request of a returned call over, is what is held down known and released, is a value submitted before a successful stop never set after it? |
| `native_set_value` | the same | until found | Violation: a value set after the desktop counts as settled. |
| `lanes` | 1 opening, 2 observations and 1 action on one open tab and one that can be opened, 1 or 2 slots, capacity 3, 1 snapshot kept; symmetry | 2,032,345 | Do the scheduler's maps agree, are slots used, are lanes FIFO, do canceled jobs stay out; are usable observations fresh, does an aborted action stop? |
| `lanes_one_tab` | 1 opening, 2 commands, 1 tab | until found | Violation: two operations on one tab at once. |
| `files` | 2 calls, 3 names of 1 file with 2 identities, capacity 2, a program outside | 319,472 | Locks, capacity, lost updates, answers; does every commit return? |
| `grants` | 2 clients, 5 ticks, 12 random tokens, limits 1, 2 and 3; symmetry over clients | 598,434 | Do the maps agree, do reused and revoked grants stay dead, is each accepted bearer owed to one approval, is storage bounded? |

*Why the bounds suffice for the cases named as hazards.* Desktop: two clients are an old
owner and a new owner or borrower; with both in the queue or inside an operation the one
waiting slot is full and a refusal occurs; two control ids are needed for a successor, two
visible changes to make an observation stale and act again. The theorems hold for any
number. Browser: the hazards concern one command against streams and generations, so there
is one command; three streams and two generations give a reconnection within a generation
and one across; the native user competes for the gate. Lanes: of the four jobs three share
a tab, so a lane has a running and two waiting jobs; the two observations are one an action
was told of and one that reads while the page changes; capacity three is reached; the number
of slots is chosen in 1..2, so a full scheduler and a free one both occur; one snapshot kept
means that a second pushes out the first. Processes: two runs and one place give eviction,
refusal and the launch that holds the place. Session: a writer at work, one that waits and
one that is refused; the two later texts are interchangeable calls of Continue, so they are
taken in order. Native: a call in the worker, one that waits for the gate and one more give
a cancellation, its successor and an observation to act on; two workers are one and its
replacement; one trouble is a crash, a rejected release, a timeout or an event of the host
at any place, and with a trouble two of the three calls take part (`FewEvents`), which
keeps a run within minutes. Files: two calls, two names of one file that have one
identity, a third that has another, and a program outside.
Grants: twelve tokens are two approvals with their redemptions and one rotation, or one with
three rotations and so a token reused after two later ones; lifetimes 1 (code), 2 (ticket),
3 (access) and 4 (family) keep the order of the code's 5 minutes, 10 minutes, 1 hour and 30
days; the pending and refresh limits are reached. `MaxControls`, `MaxScreen`, `MaxStreams`,
`MaxBoots`, `MaxTime`, `MaxTokens`, `MaxStates`, `MaxWorkers`, `MaxTroubles` and `MaxEvents`
bound counters that only grow; the capacities are those of the code, made small.

`CHECK_DEADLOCK FALSE` is set everywhere but in `grants`: once the bounded inputs are used up and everything
has returned or closed, the systems rightly have nothing left to do.

Each property of a passing run has a mutant in `PROJECT.json` that violates it.

## Fairness, and why the code justifies it

* *Desktop.* Goroutines run (weak fairness of their next step). A receive from the gate
  channel is strongly fair, because Go serves blocked receivers in order and the token comes
  back again and again. `StopReset` is strongly fair: finishStop is retried by the ticker
  every second for as long as the status is "stopping", so a Reset that keeps being possible
  succeeds in the end; a backend that fails Reset for ever is outside the assumption. Native calls end
  within their 30 second limit, and the bridge ends a borrowed operation
  (`ReservationReturns` of the bridge is that assumption's counterpart).
* *Bridge.* Handlers and goroutines run; the extension reconnects (its alarm fires while the
  profile is open); jobs settle, since every wait in the extension has a deadline or is
  aborted; a result whose delivery fails is sent again. A native user
  gives the gate back, since native operations are bounded. Nothing says that the gate is
  granted, that a call is made, or that the native user comes: those have no fairness. A
  profile that is closed for good keeps its reservation; that hazard is listed without a
  property.
* *Processes.* Goroutines run, a launch returns, a killed process exits, timers fire. A
  process that nobody kills may run for ever, and a process need not read its input: neither
  `Exit` of a live process nor `WritePart` is fair.
* *Session.* The assumptions of ProcessManager together with those of the input: every step of
  a goroutine is fair, the process's reading and its own exit are not.
* *Grants, native worker, lanes.* None: only safety is claimed. For the last two the state
  space leaves no room for it; lanes that wait are covered by `SchedulerInv`.
* *Files.* Goroutines run, file operations return, and blocked senders on a lock's channel
  are served in order, hence strong fairness of `TakeGate`.

## Theorems

All hold for every value of the constants that satisfies the named assumption of the
module (`DesktopAssumption`, `BridgeAssumption`, `ManagerAssumption`, `InputAssumption`,
`SessionAssumption`, `WorkerAssumption`, `ControllerAssumption`, `LaneAssumption`,
`PageAssumption`, `CommitAssumption`, `GrantsAssumption`): the sets of clients, commands,
runs, writers and calls are finite, the capacities are natural numbers, the special values
are not members of the sets. Invariants were checked by TLC before they were proved.

* **DesktopControlProofs.** `DesktopInv` is inductive: the gate's holder is exactly the
  party inside an operation, an acquisition or the freeing step (`GateHolder`), its cancel
  function is the installed one, and whatever observation is usable is fresh. From it:
  exclusion (`GateExclusion`), old work settles (`WorkSettles`), revoked work is canceled
  (`RevocationCancels`), observations are scoped (`ObservationsScoped`), actions are fresh
  (`FreshActions`). `LeaseRefinement`: initial states map to initial states and each action
  to a step of `DesktopLease` or a stutter; `WorkSettlesBeforeReuse` is what makes `Begin`
  a legal `Use` and `Acquire` a legal `Grant`.
* **BrowserBridgeProofs.** The properties are not inductive. `BridgeIInv` adds the way of a
  command: it is in the queue only if it was not dispatched, on the wire once and ahead of
  its cancels, in a job only after the wire and in the outbox only after the job (`Queue`,
  `Wire`, `Jobs`); what its caller has been told (`Calls`); that reservations come from
  granted requests (`Reservations`); and that generations grow and active work of the
  connected one is reserved (`Work`). Lemmas state what each critical section does to the
  record of a command; the lemmas about a conjunct cite only those. It yields
  `AnsweredOnce`, `ReservationsAreKept` (with types and capacities), `DesktopIsHeld`,
  `ResultsAreFinal`, `HandlesAreFresh` and `NothingReplayed`: every safety property of the
  run `browser`.
* **ProcessManagerProofs.** `ManagerInv` relates the phase of a call to its process, its
  goroutines and the two sets. From it `ProcessesReachable`, `HandedOffDetached`,
  `CloseJoins`, `ActiveSessionsStay`, and, with a counting argument of its own,
  `CapacityHolds`; `TableHolds` is both together, the invariant of the run.
* **ProcessSessionProofs.** First ProcessInput by itself. `InputInv` says who occupies the gate. `TextsApart` needs that
  only the occupant's text can be the last, unfinished one (`Placed`), `AnswersHonest` what
  an answer implies for the parts written (`Truthful`), `QueueBounded` that two writing
  goroutines would both hold the gate; `QueueHolds` is the invariant of the module. Then the
  composition. `SessionImplementsManager`: every step of a session is a step of
  ProcessManager or leaves its variables alone, so the theorems of ProcessManagerProofs
  hold of it (`MP`). With ProcessInput one step does not fit, the end of Run's context while its
  text is not waiting at the gate, so no implementation is claimed; what is proved of the input's steps is
  kept by that one as well: `SessionTextsApart`, `SessionAnswersHonest`. What the two
  say of each other is `Joint`: whose text can be in the input, that the process ends for both
  in one step, that the keeper is done only with the writers joined. From it `SessionHolds`,
  the invariant of the run, and `CloseJoinsWrites`: after `Manager.Close` no goroutine writes a
  text, not even one that its caller has given up.
* **NativeControllerProofs.** Of the properties of the run only `NothingLeftDown`
  is inductive, given the types. `NativeIndInv` has five parts.
  - `Types`, with what a thread has asked for at each place (`Asks`).
  - `Orderly` is the way of a request. At most one request for the main thread is in a worker,
    in the pipe, the channel or execution (`InLine`); none is there before it was sent
    (`Untouched`); it is not answered before its execution ends, and is not executed twice
    (`Once`); the worker runs without being in charge only while a thread is about to kill it,
    and whatever is in the worker in charge is waited for by its own call, registered and
    unanswered, or that call is about to stop the worker (`Charge`). The gate matters here:
    a call that is inside has it.
  - `HeldInv` is the way of a press. While a press is down, or about to be, no unread event
    says that it is up; and an act that may still press (`Due`) has left no trace in journal,
    desktop or pipe. Without the second part the first is not inductive, as an old "up" in
    the pipe could make the supervisor forget a later press. It rests on `Orderly`: an act
    is executed once.
  - `Settled`: the generation last answered with success is one the worker has reached, and
    a value being set is not older.
  - `ValueAwaited`: while a value waits, uncanceled, for the UI Automation thread, the main
    thread waits for its answer. So a returned call's value never begins to be set.
  - `NothingLeftDown`.

  From it `NativeHolds` (`ReaderIsFree` and `StopReachesWork`), `HeldStaysKnown`,
  `NothingStaysDown`, `ReturnedStaysOver` (from `Charge` and `ValueAwaited`) and
  `StoppedStaysQuiet`: every safety property of the
  run `native`, for any calls, workers, troubles, waiting places and observations. In the run
  an event of the outside happens once; in the theorems as often as it likes.
* **PageWorkProofs**, first about LaneScheduler. `Whole` is the inductive form of `LaneIInv`: the queues, the lanes,
  the ready list and the slots agree, no lane is in the ready list while a slot is free, and
  each queue keeps the order of arrival. The second part is what makes "slots are used"
  inductive, since whoever gives up a slot pumps. `PumpKeeps` says what a pump makes of any
  state whose maps agree; `FinishKeeps` and the steps of intake bring the state into that
  form first. From it `LanesAgree`, `SlotsFilled` (both: `SchedulerHolds`), `LanesFIFO` and
  `CanceledStayOut`, for any jobs, tabs, slots and capacity.
  Then `PageWorkSchedules`: PageWork implements LaneScheduler, so
  `PagesKeepLanes` follows. For pages, `PageIInv` says that the signal registered for a tab is
  that of the command at work on it (`Signals`), that a page has no state while an action
  sends input (`Acting`), and that what a state holds, or a look still reads into it, is not
  overtaken (`Kept`, `Reading`). Each rests on `Alone`: two jobs that occupy lanes are not on
  the same tab, if it was open from the start. From it `ObservationsFresh` and `PagesStop`.
* **FileCommitProofs.** `CommitInv` needs that a lock object in the map was made by a call
  past that point, for that identity (`ObjectsOwned`): without it a fresh object could be one
  that is in use. `VersionedCommits` carries the validated version to the publication
  (`Validated`). The theorems hold for any identities of names and any files they lead to,
  related or not; so `Exclusion` is exclusion by identity, and `VersionedCommits` excepts, for
  replacements, what programs outside and calls of another identity wrote in between. A
  creation needs no such exception. Where `commitIdentity` gives all names of a file one
  identity, no update is lost among the calls of the service.
* **OAuthGrantsProofs.** `OAuthInv` adds to the properties that the record of exchanges agrees
  with the flags (`CodesRemember`, `RotationsRemember`), that each family is the only one its
  code gave (`FamiliesRemember`), and that an access token is drawn just before a refresh
  token of its family that stays as long: this injection bounds the access tokens, which the
  code does not count. Its parts are operators of the maps, so that one lemma
  (`ShrinkingKeeps`) covers cleanup and revocation and the two issuing steps extend the maps
  cleanup leaves. From it `GrantsAgree`, `ReuseIsFinal` and `BearersAreOwed`, for any
  lifetimes and limits.

Only model-checked: liveness (under fairness it is out of the prover's reach), and that each
mutant breaks its property. Every invariant and every action property of a passing run is a
theorem. Not provable here at all: what a recursive definition computes for
every input; no module has one.

## Where the code and its texts differ

Four runs look for a violation and find it; `PROJECT.json` quotes the texts.

* `desktop_lost_control`: finishStop tests for "stopping" before Reset and writes "free" after
  waiting for the gate. If a local Stop hits an acquisition whose ShowControl then fails,
  `Control` itself sets "free" and returns the gate; another client acquires, its control id
  is live, and the pending finishStop frees the desktop under it, so a third client can
  acquire too. Exclusive use of the desktop still holds: operations of the lost control are
  refused. The model's place "waiting" covers a finishStop that has not yet blocked on the
  gate. A receiver already blocked there would get the token first; the trace is that of one
  that arrives later. A worker that dies inside ShowControl is also a local Stop.
* `browser_reconfigured`: after a settings change the extension connects with a new boot id at
  once, and the bridge takes the new id as proof that old executions are over and frees the
  desktop, while a job of the old generation that was told to abort still settles.
* `lanes_one_tab`: a command accepted while its tab opens waits in the lane of the opening, a
  later one for the same tab goes to the tab's own lane; both can run at once.
* `native_set_value`: a stop handled between the generation test of an act and the submission
  of its value finds nothing dispatched and is answered with success; the value is then
  submitted with the new generation and set although Reset has succeeded and the act has
  returned, which is when the coordinator frees the desktop.

A difference found while modelling that no run states: the comment at
`computer_windows.go:430` says that after a crash the supervisor knows every key it has to
release, but `cmd.Wait` (line 303) closes the worker's output pipe, and key events that were
not yet read are lost. `HeldIsKnown` leaves these out through the history variable `lost`.

## Limits of the models

* DesktopControl: input validation (`Validate` in `computer.go`) is left out, as is the
  content of observations. Time is the flag `lapsed`.
* BrowserBridge: one instance. The branch of `authorizeDesktop` for a bridge without a gate
  is not modelled, since `runtimehost/runtime.go:43` always sets one. The eviction of old
  results from the extension's outbox, keepalive timing, the setup page and request
  formatting are not modelled. The run has one command, so a full controls queue, which
  takes two, is met by the theorems only.
* PageWork: a look reads its page once, at its beginning, the earliest of its reads. The
  observation an action keeps for itself (`operationObservations`) is folded into the
  validation. Buttons and keys within an action are one input: on an abort the release in
  the `finally` of a click or key press is refused by `sendCDP` like any other input, so the
  page may keep a button pressed; no property speaks of it. A snapshot whose reads fail
  registers an empty observation. A refused action leaves the page its state; the code drops
  it first when the reference is to a snapshot pushed out, so the model keeps more. A removed
  tab is a page event. Tabs made by `tabs.open`
  are left out of `ObservationsAreFresh` and `AbortedStops`, because two commands may be at
  work on them (`lanes_one_tab`). The outbox of results is not modelled.
* LaneScheduler: `cancelAll` is a sequence of `Cancel` steps. `Create` opens a tab and adds it to
  `openingTabs` in one step; in the code the addition follows a microtask later. That waiting
  lanes are served is stated by `NoLaneStranded` and `SlotsAreUsed`, not as liveness.
* NativeWorker and NativeController: one key or button per act, an act uses an observation made
  before, and the gate is contended by two acts at most. `activate` and `show_control` only
  clear the observation, as their code does. The two-second wait for a canceled request is a
  trouble that may occur at any time. `releaseInputs` copies and forgets in two critical
  sections; a read between them is left out. Keys that the supervisor releases before the
  worker has sent them (Reset with no command, while a start is under way) count as `lost`,
  as do events discarded by `cmd.Wait`. A local stop releases before it raises the generation, so an
  act read in between may press once more; `NothingLeftDown` says that this is undone.
  `ReturnedIsOver` speaks of the pipe, the channel, the main thread and values not yet begun: a
  SetValue that had begun when its call was canceled or timed out goes on in the UI Automation
  thread, as in the code, and a later call may find that thread busy or the value changed
  (`native_set_value` shows such a value).
* ProcessManager, ProcessInput, ProcessSession: argument validation, program lookup, output buffers and
  their cursors, PTY resizing and the operating system's process groups are not modelled. A
  session without stdin (the nil case of `writeStdin`) is not either.
* FileCommit: a name has one identity and leads to one file throughout; a directory link that
  is redirected, or an alias that comes into being, while a call holds its lock is left out. That
  two names of one file may have two identities is modelled, see above. Parent directories, permissions, the placement of patch hunks and the size
  limits are folded into "the build fails". The run has two calls; the theorems any number.
* OAuthGrants: what a request proves (cookie, owner key, client secret, redirect URI, resource,
  verifier) matches or the request is refused; HTTP, forms, cookies and the registration of
  clients are not modelled, nor is a failing random source, which changes nothing. A reused
  code ends its grant only until it expires, five minutes after its approval: after that
  cleanup has forgotten it and the request is refused without consequence, as in the code.
* Not modelled: the image reader, entrances and tunnels, host shutdown, configuration, the
  outbox of results. Each is small or sequential; they were put after the parts whose state is
  shared by several clients. Out of scope: generated and vendored
  files, Windows drawing and UI Automation calls, terminal dialogue, build scripts.

## Plan

Done, in this order: DesktopLease and DesktopControl (the state shared by two services),
BrowserBridge (the protocol with the most parties), ProcessManager and ProcessInput,
LaneScheduler, FileCommit, OAuthGrants, with their proofs; then NativeWorker and
NativeController, ProcessSession (the composition, for liveness), and PageWork on top of
LaneScheduler; then the proofs about these.

Next, most important first:

1. `ResultOutbox`: retry and eviction of results in the extension, and its place in
   BrowserBridge.
2. `OutputBuffer`: bounded streams with byte offsets and cursors; reads are checked against the
   full output as reference. `TextPatch`: hunk placement against a reference definition.
3. `HostShutdown`: entrances, tunnels, the HTTP server and the order in which Close ends the
   services; `ImageCapacity`.
