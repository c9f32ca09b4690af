------------------------------ MODULE FileCommit ------------------------------
(***************************************************************************)
(* Commits of the filesystem service (acquire, commitIdentity, WriteText,  *)
(* PatchText and atomicWrite in internal/filesystem/filesystem.go).        *)
(*                                                                         *)
(* A call enters under the capacity, shares the lock object of its path's  *)
(* identity, validates the version of the file, writes a temporary file    *)
(* and publishes it in one step: a link for a creation, which fails when   *)
(* the file exists, a rename otherwise.  Writers outside the service take  *)
(* no lock.  The content of a file is the name of the call that wrote it.  *)
(*                                                                         *)
(* The identity of a path and the file it leads to are two things.         *)
(* commitIdentity resolves the parent's aliases; names that differ in case *)
(* where case does not matter but the host is not Windows, or a short name *)
(* of a file on Windows, lead to one file and have two identities.         *)
(***************************************************************************)
EXTENDS Naturals, FiniteSets

CONSTANTS Calls,     \* writes and patches
          Paths,     \* names clients use
          Identity,  \* the name commitIdentity makes of a name: its parent's aliases resolved
          Target,    \* the file the operating system finds under a name
          Capacity,  \* calls inside at a time (256 in the code)
          Absent,    \* content of a file that does not exist
          Outside,   \* content that programs outside the service write
          None

Files    == {Target[p] : p \in Paths}
Versions == Calls \cup {Outside}

ASSUME CommitAssumption ==
  /\ IsFiniteSet(Calls) /\ Capacity \in Nat /\ Paths # {}
  /\ Identity \in [Paths -> Paths] /\ Target = [p \in Paths |-> Target[p]]
  /\ {Absent, Outside, None} \cap Calls = {}
  /\ Absent # Outside

VARIABLES
  pc,         \* where each call is
  path,       \* the path it was given
  expected,   \* the version it replaces; Absent in mode "create"
  answer,     \* "none" | "ok" | "error"
  canceled,   \* calls whose context is done
  used,       \* tokens in `capacity`
  paths,      \* lock object of each identity, named after the call that made it
  references, \* calls that share a lock object
  gate,       \* call that holds a lock object
  lock,       \* lock object each call shares
  content,    \* of each file
  raced       \* history: calls whose file was written since they validated it by someone
              \* their lock does not keep out

service == <<used, paths, references, gate, lock>>
vars    == <<pc, path, expected, answer, canceled, service, content, raced>>

Init ==
  /\ pc = [c \in Calls |-> "idle"] /\ answer = [c \in Calls |-> "none"]
  /\ path = [c \in Calls |-> CHOOSE p \in Paths : TRUE] /\ expected = [c \in Calls |-> Absent]
  /\ canceled = {} /\ raced = {}
  /\ used = 0 /\ paths = [k \in Paths |-> None]
  /\ references = [o \in Calls |-> 0] /\ gate = [o \in Calls |-> None]
  /\ lock = [c \in Calls |-> None]
  /\ content \in [Files -> {Absent, Outside}]

Goto(c, label) == pc' = [pc EXCEPT ![c] = label]
Answer(c, what) == answer' = [answer EXCEPT ![c] = what]
File(c) == Target[path[c]]

\* Two calls whose names commitIdentity takes for the same.
Identified(c, d) == Identity[path[c]] = Identity[path[d]]

\* Calls that have compared the file and not yet published.
Validating(f) == {c \in Calls : pc[c] \in {"building", "committing"} /\ File(c) = f}
-----------------------------------------------------------------------------
(* acquire.                                                                *)

\* A client expects a version it has read, or in mode "create" none.
Enter(c, p, v) ==
  /\ pc[c] = "idle" /\ v # c
  /\ path' = [path EXCEPT ![c] = p] /\ expected' = [expected EXCEPT ![c] = v]
  /\ IF c \in canceled \/ used = Capacity
       THEN Goto(c, "returned") /\ Answer(c, "error") /\ UNCHANGED used
       ELSE Goto(c, "resolving") /\ used' = used + 1 /\ UNCHANGED answer
  /\ UNCHANGED <<canceled, paths, references, gate, lock, content, raced>>

\* Mutant: the lock is kept under the name the client used.
KeyOfPath(c) == path[c]

Key(c) == Identity[path[c]]

\* The lock object of the key is made by the first call that needs it.
Share(c) ==
  /\ pc[c] = "resolving" /\ Goto(c, "waiting")
  /\ LET o == IF paths[Key(c)] = None THEN c ELSE paths[Key(c)] IN
       /\ paths' = [paths EXCEPT ![Key(c)] = o]
       /\ lock' = [lock EXCEPT ![c] = o]
       /\ references' = [references EXCEPT ![o] = @ + 1]
  /\ UNCHANGED <<path, expected, answer, canceled, used, gate, content, raced>>

\* The path cannot be resolved.
ResolveFails(c) ==
  /\ pc[c] = "resolving" /\ Goto(c, "returned") /\ Answer(c, "error")
  /\ used' = used - 1
  /\ UNCHANGED <<path, expected, canceled, paths, references, gate, lock, content, raced>>

TakeGate(c) ==
  /\ pc[c] = "waiting" /\ gate[lock[c]] = None
  /\ gate' = [gate EXCEPT ![lock[c]] = c] /\ Goto(c, "taken")
  /\ UNCHANGED <<path, expected, answer, canceled, used, paths, references, lock, content, raced>>

GiveUp(c) ==
  /\ pc[c] = "waiting" /\ c \in canceled
  /\ Goto(c, "leaving") /\ Answer(c, "error")
  /\ UNCHANGED <<path, expected, canceled, service, content, raced>>

\* Mutant: a call that was canceled while it waited leaves with the gate.
CheckTakenHolding(c) ==
  /\ pc[c] = "taken"
  /\ IF c \in canceled THEN Goto(c, "leaving") /\ Answer(c, "error")
                       ELSE Goto(c, "locked") /\ UNCHANGED answer
  /\ UNCHANGED <<path, expected, canceled, service, content, raced>>

\* The cancellation is looked at once more after the wait.
CheckTaken(c) ==
  /\ pc[c] = "taken"
  /\ IF c \in canceled THEN Goto(c, "unlocking") /\ Answer(c, "error")
                       ELSE Goto(c, "locked") /\ UNCHANGED answer
  /\ UNCHANGED <<path, expected, canceled, service, content, raced>>

ReleaseGate(c) ==
  /\ pc[c] = "unlocking" /\ Goto(c, "leaving")
  /\ gate' = [gate EXCEPT ![lock[c]] = None]
  /\ UNCHANGED <<path, expected, answer, canceled, used, paths, references, lock, content, raced>>

\* Mutant: the lock object is forgotten although other calls share it.
UnsharedAlways(c) == TRUE

Unshared(c) == references[lock[c]] = 1

Cleanup(c) ==
  /\ pc[c] = "leaving" /\ Goto(c, "returned")
  /\ references' = [references EXCEPT ![lock[c]] = @ - 1]
  /\ paths' = IF Unshared(c) THEN [paths EXCEPT ![Key(c)] = None] ELSE paths
  /\ used' = used - 1
  /\ UNCHANGED <<path, expected, answer, canceled, gate, lock, content, raced>>
-----------------------------------------------------------------------------
(* WriteText, PatchText and atomicWrite, between lock and unlock.          *)

Fail(c) == Goto(c, "unlocking") /\ Answer(c, "error")

Matches(c) == content[File(c)] = expected[c]

\* The file is compared with what the call expects; the patch is built from this read.
Validate(c) ==
  /\ pc[c] = "locked"
  /\ IF Matches(c) THEN Goto(c, "building") /\ UNCHANGED answer ELSE Fail(c)
  /\ UNCHANGED <<path, expected, canceled, service, content, raced>>

\* The temporary file is complete and the context still live.
Built(c) ==
  /\ pc[c] = "building" /\ c \notin canceled /\ Goto(c, "committing")
  /\ UNCHANGED <<path, expected, answer, canceled, service, content, raced>>

\* Limits, a missing parent, an I/O error, or the context is done.
BuildFails(c) ==
  /\ pc[c] = "building" /\ Fail(c)
  /\ UNCHANGED <<path, expected, canceled, service, content, raced>>

\* Mutant: a creation is published with a rename.
PublishableAlways(c) == TRUE

Publishable(c) == expected[c] = Absent => content[File(c)] = Absent

\* Mutant: the context is checked after the commit as well.
PublishThenCheck(c) ==
  /\ pc[c] = "committing" /\ Publishable(c)
  /\ content' = [content EXCEPT ![File(c)] = c]
  /\ IF c \in canceled THEN Fail(c) ELSE Goto(c, "unlocking") /\ Answer(c, "ok")
  /\ raced' = raced \cup {d \in Validating(File(c)) : ~Identified(c, d)}
  /\ UNCHANGED <<path, expected, canceled, service>>

\* createFile or replaceFile.
Publish(c) ==
  /\ pc[c] = "committing" /\ Publishable(c)
  /\ content' = [content EXCEPT ![File(c)] = c]
  /\ Goto(c, "unlocking") /\ Answer(c, "ok")
  /\ raced' = raced \cup {d \in Validating(File(c)) : ~Identified(c, d)}
  /\ UNCHANGED <<path, expected, canceled, service>>

PublishFails(c) ==
  /\ pc[c] = "committing" /\ Fail(c)
  /\ UNCHANGED <<path, expected, canceled, service, content, raced>>
-----------------------------------------------------------------------------
(* The environment.                                                        *)

\* Nobody looks at the context once the call is on its way out.
Cancel(c) ==
  /\ pc[c] \notin {"unlocking", "leaving", "returned"} /\ c \notin canceled /\ canceled' = canceled \cup {c}
  /\ UNCHANGED <<pc, path, expected, answer, service, content, raced>>

\* A program outside the service writes, creates or removes a file.
External(f, v) ==
  /\ v \in {Absent, Outside} /\ content[f] # v
  /\ content' = [content EXCEPT ![f] = v]
  /\ raced' = raced \cup Validating(f)
  /\ UNCHANGED <<pc, path, expected, answer, canceled, service>>

Step(c) == \/ Share(c) \/ ResolveFails(c) \/ TakeGate(c) \/ GiveUp(c) \/ CheckTaken(c)
           \/ ReleaseGate(c) \/ Cleanup(c)
           \/ Validate(c) \/ Built(c) \/ BuildFails(c) \/ Publish(c) \/ PublishFails(c)

Next == \/ \E c \in Calls : Step(c) \/ Cancel(c)
        \/ \E c \in Calls, p \in Paths, v \in Versions \cup {Absent} : Enter(c, p, v)
        \/ \E f \in Files, v \in {Absent, Outside} : External(f, v)

Spec == Init /\ [][Next]_vars
-----------------------------------------------------------------------------
(* Correctness.                                                            *)

Critical == {"taken", "locked", "building", "committing", "unlocking"}
Sharing  == Critical \cup {"waiting", "leaving"}

TypeOK ==
  /\ pc \in [Calls -> Sharing \cup {"idle", "resolving", "returned"}]
  /\ path \in [Calls -> Paths] /\ expected \in [Calls -> Versions \cup {Absent}]
  /\ answer \in [Calls -> {"none", "ok", "error"}] /\ canceled \subseteq Calls
  /\ used \in 0..Capacity /\ paths \in [Paths -> Calls \cup {None}]
  /\ references \in [Calls -> Nat] /\ gate \in [Calls -> Calls \cup {None}]
  /\ lock \in [Calls -> Calls \cup {None}]
  /\ content \in [Files -> Versions \cup {Absent}] /\ raced \subseteq Calls

Sharers(o) == {c \in Calls : pc[c] \in Sharing /\ lock[c] = o}
Inside     == {c \in Calls : pc[c] \in Sharing \cup {"resolving"}}

\* A lock object is in the map exactly while calls share it, and every call that
\* shares one uses the object of its identity: the map neither leaks nor is emptied early.
LocksMatchCalls ==
  /\ \A o \in Calls : references[o] = Cardinality(Sharers(o))
  /\ \A c \in Calls : pc[c] \in Sharing => lock[c] # None /\ paths[Key(c)] = lock[c]
  /\ \A k \in DOMAIN paths : paths[k] # None => references[paths[k]] > 0
  /\ \A c \in Calls : pc[c] \in Critical <=> \E o \in Calls : gate[o] = c
  /\ \A c \in Calls : pc[c] \in Critical => gate[lock[c]] = c

CapacityMatches == used = Cardinality(Inside)

CommitInv == TypeOK /\ LocksMatchCalls /\ CapacityMatches

\* The service holds one path's commit lock from version validation through
\* publication (README.md:187), by whatever name that commitIdentity takes for that path
\* the clients reach it.  Calls of two identities do not exclude each other, even if both
\* lead to one file.
CommitsExclude ==
  \A c, d \in Calls : pc[c] \in Critical /\ pc[d] \in Critical /\ Identified(c, d) => c = d

\* No lost update among calls of one identity: a call publishes over the very version it
\* validated, unless a program outside the service, or a call whose name for the file
\* commitIdentity does not identify with its own, wrote in between.  A creation never
\* overwrites anything, not even such a write (README.md:182, createFile).
CommitsAreVersioned ==
  [][\A c \in Calls : pc[c] = "committing" /\ content'[File(c)] = c /\ content[File(c)] # c =>
       \/ content[File(c)] = expected[c]
       \/ expected[c] # Absent /\ c \in raced]_vars

\* A call answers "ok" exactly when it has published, canceled or not: an error means
\* that its content is nowhere to be seen.
AnswersAreTrue ==
  [][\A c \in Calls :
       answer[c] = "none" /\ answer'[c] # "none" =>
         (answer'[c] = "ok" <=> content' = [content EXCEPT ![File(c)] = c] /\ content' # content)]_vars
-----------------------------------------------------------------------------
(* Liveness.  Goroutines are scheduled, file operations return, and blocked *)
(* senders on a lock's channel are served in order.                         *)

Fairness == \A c \in Calls :
  /\ SF_vars(TakeGate(c))
  /\ WF_vars(Share(c) \/ ResolveFails(c) \/ CheckTaken(c) \/ ReleaseGate(c) \/ Cleanup(c)
             \/ Validate(c) \/ Built(c) \/ BuildFails(c) \/ Publish(c) \/ PublishFails(c))

FairSpec == Spec /\ Fairness

\* Every commit returns, and with it the lock and the capacity it held.
CommitsReturn == \A c \in Calls : pc[c] = "resolving" ~> pc[c] = "returned"
===============================================================================
