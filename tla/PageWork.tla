------------------------------- MODULE PageWork -------------------------------
(***************************************************************************)
(* What the scheduled commands of the browser extension do to their pages  *)
(* (browser-extension/src/service_worker.ts): page observations, the       *)
(* signals by which a running command is stopped, and the events of tabs   *)
(* and debugger that arrive between the steps of a command.                *)
(*                                                                         *)
(* A command is a step of LaneScheduler up to its execution; from there an *)
(* action below is one callback, up to the next `await`; the last callback *)
(* of a command settles it.                                                *)
(***************************************************************************)
EXTENDS LaneScheduler

CONSTANTS Looks,         \* page.snapshot and page.screenshot
          Acts,          \* page.action and page.navigate
          MaxSnapshots   \* snapshots kept of a page (8 in the code)

ASSUME PageAssumption ==
  /\ Looks \cup Acts \cup OpenJobs = Jobs
  /\ Looks \cap Acts = {} /\ (Looks \cup Acts) \cap OpenJobs = {}
  /\ MaxSnapshots \in Nat \ {0}

VARIABLES
  step,      \* "start" | "reading" | "acting" | "loading", then "kept" (a look) | "ended"
  page,      \* pageStates: the look that made the page's present state
  inState,   \* the state a look works in, named like `page`
  refs,      \* snapshots of the present state, oldest first (`snapshots`)
  shot,      \* viewport screenshot of the present state (`screenshot`)
  aim,       \* the look whose reference an action was given
  signalOf,  \* executionSignals: the command whose signal stops work on the tab
  overtaken  \* history: looks that read their page before its last change

pageVars == <<step, page, inState, refs, shot, aim, signalOf, overtaken>>
allVars  == <<vars, pageVars>>

\* Looks that a client can name in an action on the tab.
Told(t) == {l \in Looks : step[l] = "kept" /\ tabOf[l] = t}

PageInit ==
  /\ Init
  /\ step = [j \in Jobs |-> "start"] /\ aim = [a \in Acts |-> NoJob]
  /\ page = [t \in Tabs |-> NoJob] /\ inState = [l \in Looks |-> NoJob]
  /\ refs = [t \in Tabs |-> <<>>] /\ shot = [t \in Tabs |-> NoJob]
  /\ signalOf = [t \in Tabs |-> NoJob]
  /\ overtaken = {}

Running(j, at) == phase[j] = "executing" /\ step[j] = at
-----------------------------------------------------------------------------
(* Page states.                                                            *)

\* pageStates after the states of some tabs are dropped.
Invalidate(ts) ==
  /\ page' = [t \in Tabs |-> IF t \in ts THEN NoJob ELSE page[t]]
  /\ refs' = [t \in Tabs |-> IF t \in ts THEN <<>> ELSE refs[t]]
  /\ shot' = [t \in Tabs |-> IF t \in ts THEN NoJob ELSE shot[t]]

\* A side effect on the page, or a new document in it: what was read is of the past.
Changed(t) == overtaken' = overtaken \cup {l \in Looks : tabOf[l] = t /\ step[l] # "start"}

\* sendCDP asks the signal registered for the tab.
MaySend(t) == signalOf[t] = NoJob \/ signalOf[t] \notin aborted

\* Navigation, a lost frame or a removed tab (invalidateDocument), or the debugger
\* detached (invalidatePage).
PageEvent(t) ==
  /\ t \in tabs
  /\ Invalidate({t})
  /\ Changed(t) \/ UNCHANGED overtaken
  /\ UNCHANGED <<vars, step, inState, aim, signalOf>>

\* A lost stream or changed settings: after cancelAll every state is dropped.
DropStates ==
  /\ Known \subseteq aborted /\ \E t \in Tabs : page[t] # NoJob
  /\ Invalidate(Tabs)
  /\ UNCHANGED <<vars, step, inState, aim, signalOf, overtaken>>
-----------------------------------------------------------------------------
(* Observations.                                                           *)

\* snapshot and screenshot, attached: the page's state is taken or made, then read.
LookStart(l) ==
  LET t == tabOf[l] IN
  /\ l \in Looks /\ Running(l, "start")
  /\ page' = [page EXCEPT ![t] = IF @ = NoJob THEN l ELSE @]
  /\ inState' = [inState EXCEPT ![l] = page'[t]]
  /\ step' = [step EXCEPT ![l] = "reading"]
  /\ UNCHANGED <<vars, refs, shot, aim, signalOf, overtaken>>

\* The execution settles, and its signal goes, whoever's it is.
End(j, place) ==
  /\ Settle(j)
  /\ step' = [step EXCEPT ![j] = place]
  /\ signalOf' = IF tabOf[j] = NoTab THEN signalOf ELSE [signalOf EXCEPT ![tabOf[j]] = NoJob]

\* The read returns: it counts if the page still has the state it began in.  A snapshot
\* pushes out the oldest, a viewport screenshot the one before it.
LookEnd(l) ==
  LET t == tabOf[l]  kept == Append(refs[t], l) IN
  /\ l \in Looks /\ Running(l, "reading") /\ page[t] = inState[l]
  /\ \/ /\ refs' = [refs EXCEPT ![t] = IF Len(kept) > MaxSnapshots THEN Tail(kept) ELSE kept]
        /\ UNCHANGED shot
     \/ MaySend(t) /\ shot' = [shot EXCEPT ![t] = l] /\ UNCHANGED refs
  /\ End(l, "kept")
  /\ UNCHANGED <<page, inState, aim, overtaken>>
-----------------------------------------------------------------------------
(* Actions.                                                                *)

\* Mutant: the observation stays usable until the action has succeeded.
UseUpNothing(t) == UNCHANGED <<page, refs, shot>>

UseUp(t) == Invalidate({t})

\* validateActionState and targetRef: the state named by the reference is the page's, and
\* still has it.  Some kinds of action need none.
Valid(a) == LET t == tabOf[a] IN
  aim[a] # NoJob => /\ inState[aim[a]] = page[t]
                    /\ aim[a] \in ToSet(refs[t]) \/ aim[a] = shot[t]

\* action validates, resolves its target and uses up the observation, or is refused.
ActStart(a) ==
  /\ a \in Acts \ aborted /\ Running(a, "start") /\ Valid(a)
  /\ UseUp(tabOf[a])
  /\ step' = [step EXCEPT ![a] = "acting"]
  /\ UNCHANGED <<vars, inState, aim, signalOf, overtaken>>

\* page.navigate (and tabs.close): no target, one call of chrome.tabs, then it waits for that
\* to take effect.
Navigate(a) ==
  /\ a \in Acts \ aborted /\ Running(a, "start") /\ aim[a] = NoJob
  /\ UseUp(tabOf[a]) /\ Changed(tabOf[a])
  /\ step' = [step EXCEPT ![a] = "loading"]
  /\ UNCHANGED <<vars, inState, aim, signalOf>>

\* One input of an action: a mouse or key event, a text, a call on the target.
ActInput(a) ==
  /\ a \in Acts /\ Running(a, "acting") /\ MaySend(tabOf[a])
  /\ Changed(tabOf[a])
  /\ UNCHANGED <<vars, step, page, inState, refs, shot, aim, signalOf>>

\* The last input was acknowledged: the page is invalidated once more.
ActEnd(a) ==
  /\ a \in Acts /\ Running(a, "acting")
  /\ Invalidate({tabOf[a]}) /\ End(a, "ended")
  /\ UNCHANGED <<inState, aim, overtaken>>
-----------------------------------------------------------------------------
(* The steps of the scheduler, with what they do to pages.                 *)

SubmitPage(j, t) ==
  /\ SubmitOnTab(j, t)
  /\ IF j \in Acts THEN \E l \in Told(t) \cup {NoJob} : aim' = [aim EXCEPT ![j] = l]
     ELSE UNCHANGED aim
  /\ UNCHANGED <<step, page, inState, refs, shot, signalOf, overtaken>>

\* The signal is registered before anything is awaited.
Execute(j) ==
  /\ Begin(j)
  /\ signalOf' = IF phase'[j] = "executing" /\ tabOf[j] # NoTab
                 THEN [signalOf EXCEPT ![tabOf[j]] = j] ELSE signalOf
  /\ UNCHANGED <<step, page, inState, refs, shot, aim, overtaken>>

OpenTab(j, t) ==
  /\ Create(j, t) /\ signalOf' = [signalOf EXCEPT ![t] = j]
  /\ UNCHANGED <<step, page, inState, refs, shot, aim, overtaken>>

\* Any other end: an `await` fails, a check refuses, a command keeps nothing of the page.
EndPlainly(j) == End(j, "ended") /\ UNCHANGED <<page, inState, refs, shot, aim, overtaken>>

\* Mutant: the listener also takes the signal out of executionSignals.
StopForgetting(j) ==
  /\ Cancel(j)
  /\ IF phase[j] = "executing" /\ j \notin OpenJobs
     THEN Invalidate({tabOf[j]}) /\ signalOf' = [signalOf EXCEPT ![tabOf[j]] = NoJob]
     ELSE UNCHANGED <<page, refs, shot, signalOf>>
  /\ UNCHANGED <<step, inState, aim, overtaken>>

\* The abort of a running command runs its listener: its page is invalidated.
Stop(j) ==
  /\ Cancel(j)
  /\ IF phase[j] = "executing" /\ j \notin OpenJobs THEN Invalidate({tabOf[j]})
     ELSE UNCHANGED <<page, refs, shot>>
  /\ UNCHANGED <<step, inState, aim, signalOf, overtaken>>

PageNext ==
  \/ DropStates
  \/ \E t \in Tabs : PageEvent(t)
  \/ \E j \in Jobs :
       \/ SubmitOpen(j) /\ UNCHANGED pageVars
       \/ Execute(j) \/ EndPlainly(j) \/ Stop(j)
       \/ LookStart(j) \/ LookEnd(j)
       \/ ActStart(j) \/ Navigate(j) \/ ActInput(j) \/ ActEnd(j)
       \/ \E t \in Tabs : SubmitPage(j, t) \/ OpenTab(j, t)

PageSpec == PageInit /\ [][PageNext]_allVars
-----------------------------------------------------------------------------
(* Correctness.  A tab that `tabs.open` made may be worked on by two       *)
(* commands at once (TabSerial fails); what follows is about other tabs.   *)

PageTypeOK ==
  /\ step \in [Jobs -> {"start", "reading", "acting", "loading", "kept", "ended"}]
  /\ page \in [Tabs -> Looks \cup {NoJob}] /\ inState \in [Looks -> Looks \cup {NoJob}]
  /\ refs \in [Tabs -> Seq(Looks)] /\ shot \in [Tabs -> Looks \cup {NoJob}]
  /\ aim \in [Acts -> Looks \cup {NoJob}] /\ signalOf \in [Tabs -> Jobs \cup {NoJob}]
  /\ overtaken \subseteq Looks

\* References are invalidated by navigation, frame changes, reconnects and side effects
\* (README.md:286): what the page's state holds was read after the last change of the page,
\* also when the action that made it failed or was canceled halfway.
ObservationsAreFresh == \A t \in OldTabs :
  \A l \in ToSet(refs[t]) \cup ({shot[t]} \ {NoJob}) : l \notin overtaken

\* A command that was canceled or is past its deadline sends no further input: the signal
\* that sendCDP finds for its tab is its own (service_worker.ts:82).
AbortedStops == \A a \in Acts :
  Running(a, "acting") /\ a \in aborted /\ tabOf[a] \in OldTabs => ~MaySend(tabOf[a])

\* The same with the types of the state.
PageInv == PageTypeOK /\ AbortedStops
===============================================================================
