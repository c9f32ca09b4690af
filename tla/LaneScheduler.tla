---------------------------- MODULE LaneScheduler ----------------------------
(***************************************************************************)
(* The browser extension's command scheduler (browser-extension/src/       *)
(* scheduler.ts) with the choice of a lane at intake and the tabs that     *)
(* `tabs.open` is still loading (service_worker.ts).                       *)
(*                                                                         *)
(* JavaScript runs one callback at a time: submit, cancel and finish, each *)
(* with the pump it ends in, are single steps.  Between them a picked job  *)
(* waits for its microtask and an execution for its promise.               *)
(***************************************************************************)
EXTENDS Naturals, FiniteSets, SequencesExt

CONSTANTS Jobs,         \* commands from the bridge; their ids are unique
          OpenJobs,     \* those of them that are `tabs.open`
          Tabs,
          OldTabs,      \* tabs that are open from the start
          Concurrency,  \* most execution slots of a scheduler (4 in the extension)
          Capacity,     \* jobs known at a time (128 in the code)
          OpenLane,     \* the lane of `tabs.open`
          NoJob, NoTab

Lanes == Tabs \cup {OpenLane}

ASSUME LaneAssumption ==
  /\ IsFiniteSet(Jobs) /\ OpenJobs \subseteq Jobs /\ IsFiniteSet(Tabs)
  /\ OldTabs \subseteq Tabs
  /\ Concurrency \in Nat \ {0} /\ Capacity \in Nat
  /\ NoJob \notin Jobs /\ NoTab \notin Tabs /\ OpenLane \notin Tabs

VARIABLES
  phase,    \* "new" | "queued" | "picked" | "executing" | "over"
  laneOf,   \* lane the job was submitted to
  tabOf,    \* tab the job works on, once it is known
  aborted,  \* jobs whose abort signal fired
  queue,    \* waiting jobs of each lane (`lanes`)
  running,  \* the job that occupies each lane
  ready,    \* lanes with something to start, in order
  slots,    \* execution slots of this scheduler, set when it is made
  active,   \* occupied slots
  tabs,     \* tabs that exist
  opener,   \* openingTabs: the `tabs.open` that still waits for the tab to load
  arrived   \* history: jobs in the order they were accepted

sched == <<queue, running, ready, active>>
vars  == <<slots, phase, laneOf, tabOf, aborted, sched, tabs, opener, arrived>>

Known == {j \in Jobs : phase[j] \in {"queued", "picked", "executing"}}   \* `jobs`

Init ==
  /\ phase = [j \in Jobs |-> "new"] /\ aborted = {} /\ arrived = <<>>
  /\ laneOf = [j \in Jobs |-> OpenLane] /\ tabOf = [j \in Jobs |-> NoTab]
  /\ queue = [l \in Lanes |-> <<>>] /\ running = [l \in Lanes |-> NoJob]
  /\ ready = <<>> /\ active = 0
  /\ slots \in 1..Concurrency /\ tabs = OldTabs
  /\ opener = [t \in Tabs |-> NoJob]
-----------------------------------------------------------------------------
(* pump: lanes are taken from the front of `ready` until the slots are full *)
(* or none is left; a lane that is busy or empty by then is passed over.    *)

Startable(q, run, l) == run[l] = NoJob /\ q[l] # <<>>

\* Mutant: one lane per call instead of a loop.
TakesOnce(q, run, rdy, free, m) == m = IF free > 0 /\ rdy # <<>> THEN 1 ELSE 0

\* The loop takes the first m entries of `ready`.
Takes(q, run, rdy, free, m) ==
  LET starts(n) == Cardinality({i \in 1..n : Startable(q, run, rdy[i])}) IN
  /\ starts(m) <= free
  /\ m < Len(rdy) => starts(m) = free
  /\ m > 0 => starts(m - 1) < free

\* Mutant: the newest job of the lane is started first.
NextOfNewest(q) == q[Len(q)]

NextOf(q) == q[1]

\* The lanes among the first m entries of `ready` whose next job is started.
Picked(q, run, rdy, m) == {rdy[i] : i \in {k \in 1..m : Startable(q, run, rdy[k])}}

\* The state after pump, from the queues, lanes, ready list and phases before it.
Pump(q, run, rdy, act, ph) == \E m \in 0..Len(rdy) :
  /\ Takes(q, run, rdy, slots - act, m)
  /\ LET picked == Picked(q, run, rdy, m)
         starts == {NextOf(q[l]) : l \in picked}
     IN  /\ queue'   = [l \in Lanes |-> IF l \in picked THEN Tail(q[l]) ELSE q[l]]
         /\ running' = [l \in Lanes |-> IF l \in picked THEN NextOf(q[l]) ELSE run[l]]
         /\ active'  = act + Cardinality(picked)
         /\ phase'   = [j \in Jobs |-> IF j \in starts THEN "picked" ELSE ph[j]]
  /\ ready' = SubSeq(rdy, m + 1, Len(rdy))

WithLane(rdy, l) == IF l \in ToSet(rdy) THEN rdy ELSE Append(rdy, l)

\* finish, with the queues as its caller leaves them.
Finish(j, q) ==
  LET l == laneOf[j]  mine == running[l] = j IN
  Pump(q, IF mine THEN [running EXCEPT ![l] = NoJob] ELSE running,
       IF q[l] # <<>> THEN WithLane(ready, l) ELSE ready,
       IF mine THEN active - 1 ELSE active, [phase EXCEPT ![j] = "over"])
-----------------------------------------------------------------------------
(* Intake.                                                                 *)

\* Mutant: the bound is tested after the job has been added.
FullLate == Cardinality(Known) > Capacity

Full == Cardinality(Known) >= Capacity

\* submit: refused at capacity (or past its deadline), else queued and pumped.
Submit(j, l) ==
  \/ /\ phase' = [phase EXCEPT ![j] = "over"]
     /\ UNCHANGED <<slots, laneOf, aborted, sched, tabs, opener, arrived>>
  \/ /\ ~Full
     /\ laneOf' = [laneOf EXCEPT ![j] = l] /\ arrived' = Append(arrived, j)
     /\ LET q == [queue EXCEPT ![l] = Append(@, j)] IN
        Pump(q, running, IF running[l] = NoJob THEN WithLane(ready, l) ELSE ready,
             active, [phase EXCEPT ![j] = "queued"])
     /\ UNCHANGED <<slots, aborted, tabs, opener>>

SubmitOpen(j) ==
  /\ phase[j] = "new" /\ j \in OpenJobs /\ Submit(j, OpenLane) /\ UNCHANGED tabOf

\* A tab that is still opening is addressed through the lane of its opening.
LaneFor(t) == IF opener[t] # NoJob THEN OpenLane ELSE t

SubmitOnTab(j, t) ==
  /\ phase[j] = "new" /\ j \notin OpenJobs /\ t \in tabs
  /\ Submit(j, LaneFor(t)) /\ tabOf' = [tabOf EXCEPT ![j] = t]
-----------------------------------------------------------------------------
(* Execution, cancellation and deadline.                                   *)

\* Mutant: the microtask does not look at the signal.
BeginAnyway(j) ==
  /\ phase[j] = "picked"
  /\ phase' = [phase EXCEPT ![j] = "executing"]
  /\ UNCHANGED <<slots, laneOf, tabOf, aborted, sched, tabs, opener, arrived>>

\* The microtask of a picked job: an aborted one ends without executing.
Begin(j) ==
  /\ phase[j] = "picked"
  /\ IF j \in aborted THEN Finish(j, queue)
     ELSE phase' = [phase EXCEPT ![j] = "executing"] /\ UNCHANGED sched
  /\ UNCHANGED <<slots, laneOf, tabOf, aborted, tabs, opener, arrived>>

\* tabs.open has created its tab and waits for it to load.
Create(j, t) ==
  /\ phase[j] = "executing" /\ j \in OpenJobs /\ tabOf[j] = NoTab /\ t \notin tabs
  /\ tabs' = tabs \cup {t} /\ opener' = [opener EXCEPT ![t] = j]
  /\ tabOf' = [tabOf EXCEPT ![j] = t]
  /\ UNCHANGED <<slots, phase, laneOf, aborted, sched, arrived>>

\* The execution's promise settles; an opened tab leaves openingTabs before that.
Settle(j) ==
  /\ phase[j] = "executing"
  /\ Finish(j, queue)
  /\ opener' = [t \in Tabs |-> IF opener[t] = j THEN NoJob ELSE opener[t]]
  /\ UNCHANGED <<slots, laneOf, tabOf, aborted, tabs, arrived>>

\* A queue without a job that waits in it.
Without(q, j) == RemoveAt(q, CHOOSE i \in DOMAIN q : q[i] = j)

\* A cancel command, the deadline's timer, or one turn of cancelAll.
Cancel(j) ==
  /\ j \in Known \ aborted
  /\ aborted' = aborted \cup {j}
  /\ IF running[laneOf[j]] = j THEN UNCHANGED <<phase, sched>>
     ELSE Finish(j, [queue EXCEPT ![laneOf[j]] = Without(@, j)])
  /\ UNCHANGED <<slots, laneOf, tabOf, tabs, opener, arrived>>

Next == \E j \in Jobs :
  \/ SubmitOpen(j) \/ Begin(j) \/ Settle(j) \/ Cancel(j)
  \/ \E t \in Tabs : SubmitOnTab(j, t) \/ Create(j, t)

Spec == Init /\ [][Next]_vars
-----------------------------------------------------------------------------
(* Correctness.                                                            *)

TypeOK ==
  /\ phase \in [Jobs -> {"new", "queued", "picked", "executing", "over"}]
  /\ laneOf \in [Jobs -> Lanes] /\ tabOf \in [Jobs -> Tabs \cup {NoTab}]
  /\ aborted \subseteq Jobs /\ arrived \in Seq(Jobs)
  /\ queue \in [Lanes -> Seq(Jobs)] /\ running \in [Lanes -> Jobs \cup {NoJob}]
  /\ ready \in Seq(Lanes) /\ slots \in 1..Concurrency /\ active \in 0..slots
  /\ tabs \subseteq Tabs /\ opener \in [Tabs -> Jobs \cup {NoJob}]

\* A job waits in the queue of its lane, or occupies that lane, or neither: the maps
\* of the scheduler agree about every job they know.
JobsAccounted ==
  /\ \A l \in Lanes, j \in Jobs :
       /\ j \in ToSet(queue[l]) <=> phase[j] = "queued" /\ laneOf[j] = l
       /\ running[l] = j <=> phase[j] \in {"picked", "executing"} /\ laneOf[j] = l
  /\ \A l \in Lanes : \A i, k \in DOMAIN queue[l] : queue[l][i] = queue[l][k] => i = k
  /\ \A i, k \in DOMAIN ready : ready[i] = ready[k] => i = k

\* `active` counts the occupied lanes, and jobs known stay within the capacity.
SlotsMatchLanes ==
  /\ active = Cardinality({l \in Lanes : running[l] # NoJob})
  /\ active <= slots
  /\ Cardinality(Known) <= Capacity

\* No lane is stranded: one with waiting jobs is running a job or will be offered.
NoLaneStranded ==
  \A l \in Lanes : queue[l] # <<>> => running[l] # NoJob \/ l \in ToSet(ready)

\* The scheduler's queues, running map, ready list and slot count fit each other, and no
\* lane is forgotten (scheduler.ts).
LaneInv == TypeOK /\ JobsAccounted /\ SlotsMatchLanes /\ NoLaneStranded

\* No slot idles while a lane could start: waiting lanes consume no slot
\* (scheduler.ts:1).
SlotsAreUsed ==
  active < slots => \A l \in Lanes : ~Startable(queue, running, l)

\* All of it: how the scheduler keeps its lanes, and that it uses its slots.
SchedulerInv == LaneInv /\ SlotsAreUsed

\* Job j was accepted before job k.
Before(j, k) == \E i, n \in DOMAIN arrived : i < n /\ arrived[i] = j /\ arrived[n] = k

\* The jobs accepted are those that are not new, each once, and a lane's queue keeps their
\* order.
QueuesKeepOrder ==
  /\ \A i \in DOMAIN arrived : phase[arrived[i]] # "new"
  /\ \A i, k \in DOMAIN arrived : arrived[i] = arrived[k] => i = k
  /\ \A l \in Lanes : \A i, k \in DOMAIN queue[l] : i < k => ~Before(queue[l][k], queue[l][i])

\* What makes these inductive: nothing is offered while a slot is free, so that every pump
\* that ends below the limit has emptied `ready`.
LaneIInv == LaneInv /\ (active < slots => ready = <<>>) /\ QueuesKeepOrder

\* A lane starts its jobs in the order they were accepted, canceled ones left out
\* (README.md:299: FIFO execution per tab).
StartsInOrder == [][
  \A j \in Jobs : phase[j] # "picked" /\ phase'[j] = "picked" =>
    \A k \in Jobs : phase[k] = "queued" /\ laneOf[k] = laneOf'[j] => ~Before(k, j)]_vars

\* A job canceled while it waits, or after it was picked and before its microtask runs,
\* never executes.
CanceledNeverStarts ==
  [][\A j \in aborted : phase[j] # "executing" => phase'[j] # "executing"]_vars

\* Operations on one tab are serialized (README.md:288).
TabSerial == \A j, k \in Jobs :
  phase[j] = "executing" /\ phase[k] = "executing" /\ tabOf[j] = tabOf[k] /\ tabOf[j] # NoTab
    => j = k
===============================================================================
