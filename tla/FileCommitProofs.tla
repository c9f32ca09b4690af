-------------------------- MODULE FileCommitProofs --------------------------
(* Theorems about FileCommit for any number of calls and names, any files   *)
(* the names lead to, and any identities commitIdentity gives them.         *)
EXTENDS FileCommit, FiniteSetTheorems, TLAPS

\* A lock object in the map was made for its key, by a call that has passed that point,
\* and is held by nobody but a call that shares it.
ObjectsOwned ==
  /\ \A k \in Paths : paths[k] # None =>
       pc[paths[k]] \notin {"idle", "resolving"} /\ Key(paths[k]) = k
  /\ \A o, c \in Calls : gate[o] = c => lock[c] = o

LocksInv == CommitInv /\ ObjectsOwned

LEMMA KeyType == TypeOK => \A c \in Calls : Key(c) \in Paths /\ File(c) \in Files
  BY CommitAssumption DEF TypeOK, Key, File, Files

LEMMA SetsFinite ==
  /\ \A o \in Calls : IsFiniteSet(Sharers(o)) /\ Cardinality(Sharers(o)) \in Nat
  /\ IsFiniteSet(Inside) /\ Cardinality(Inside) \in Nat
<1>1. \A S \in SUBSET Calls : IsFiniteSet(S) /\ Cardinality(S) \in Nat
  BY FS_Subset, FS_CardinalityType, CommitAssumption
<1> QED BY <1>1 DEF Sharers, Inside

\* A service nobody has called yet.
LEMMA InitLocks == Init => LocksInv
<1> SUFFICES ASSUME Init PROVE LocksInv OBVIOUS
<1>1. \A o \in Calls : Sharers(o) = {}
  BY DEF Init, Sharers, Sharing, Critical
<1>2. Inside = {} BY DEF Init, Inside, Sharing, Critical
<1>3. TypeOK
  <2>1. pc \in [Calls -> {"idle"}] /\ answer \in [Calls -> {"none"}] /\ path \in [Calls -> Paths]
    <3>1. (CHOOSE p \in Paths : TRUE) \in Paths BY CommitAssumption
    <3> QED BY <3>1 DEF Init
  <2>2. expected \in [Calls -> {Absent}] /\ references \in [Calls -> Nat]
        /\ gate \in [Calls -> {None}] /\ lock \in [Calls -> {None}]
    BY DEF Init
  <2>3. content \in [Files -> Versions \cup {Absent}] BY DEF Init, Versions
  <2> QED BY <2>1, <2>2, <2>3, CommitAssumption DEF Init, TypeOK, Sharing, Critical, Versions
<1>4. LocksMatchCalls
  BY <1>1, FS_EmptySet, CommitAssumption DEF Init, LocksMatchCalls, Sharing, Critical
<1>5. CapacityMatches BY <1>2, FS_EmptySet DEF Init, CapacityMatches
<1>6. ObjectsOwned BY CommitAssumption DEF Init, ObjectsOwned
<1> QED BY <1>3, <1>4, <1>5, <1>6 DEF LocksInv, CommitInv
-----------------------------------------------------------------------------
(* Steps that leave the map of locks and the capacity alone.                *)

Steady == UNCHANGED <<path, used, paths, references, lock>>

\* A call that stays inside `acquire` ... `cleanup` changes no count.
LEMMA SteadyCounts ==
  ASSUME TypeOK, Steady, NEW c \in Calls, NEW l \in Sharing, pc[c] \in Sharing,
         pc' = [pc EXCEPT ![c] = l]
  PROVE  Inside' = Inside /\ \A o \in Calls : Sharers(o)' = Sharers(o)
  BY DEF TypeOK, Steady, Inside, Sharers

\* It keeps the map if it also takes or leaves its gate as its phase says.
LEMMA SteadyStep ==
  ASSUME LocksInv, Steady, NEW c \in Calls, NEW l \in Sharing, pc[c] \in Sharing,
         pc' = [pc EXCEPT ![c] = l],
         \/ UNCHANGED gate /\ (pc[c] \in Critical <=> l \in Critical)
         \/ pc[c] \notin Critical /\ l \in Critical /\ gate[lock[c]] = None
              /\ gate' = [gate EXCEPT ![lock[c]] = c]
         \/ pc[c] \in Critical /\ l \notin Critical /\ gate' = [gate EXCEPT ![lock[c]] = None],
         TypeOK'
  PROVE  LocksInv'
<1> USE CommitAssumption DEF LocksInv, CommitInv
<1>1. Inside' = Inside /\ \A o \in Calls : Sharers(o)' = Sharers(o) BY SteadyCounts
<1>2. CapacityMatches' BY <1>1 DEF CapacityMatches, Steady
<1>3. /\ lock[c] \in Calls /\ \A d \in Calls : Key(d)' = Key(d)
      /\ gate \in [Calls -> Calls \cup {None}]
      /\ pc \in [Calls -> Sharing \cup {"idle", "resolving", "returned"}]
  <2>1. lock[c] \in Calls BY DEF TypeOK, LocksMatchCalls
  <2>2. \A d \in Calls : Key(d)' = Key(d) BY DEF Steady, Key
  <2> QED BY <2>1, <2>2 DEF TypeOK
<1>4. \A d \in Calls : pc'[d] \in Sharing <=> pc[d] \in Sharing BY <1>3
<1>5. ObjectsOwned'
  <2>1. \A k \in Paths : paths'[k] # None =>
          pc'[paths'[k]] \notin {"idle", "resolving"} /\ Key(paths[k])' = k
    BY <1>3 DEF ObjectsOwned, Steady, TypeOK, Sharing, Critical
  <2>3. \A o, d \in Calls : gate'[o] = d => lock'[d] = o
    BY <1>3 DEF ObjectsOwned, Steady
  <2> QED BY <2>1, <2>3 DEF ObjectsOwned
<1>6. LocksMatchCalls'
  <2>1. \A o \in Calls : references'[o] = Cardinality(Sharers(o)')
    BY <1>1 DEF LocksMatchCalls, Steady
  <2>2. \A d \in Calls : pc'[d] \in Sharing => lock'[d] # None /\ paths'[Key(d)'] = lock'[d]
    BY <1>3, <1>4 DEF LocksMatchCalls, Steady
  <2>3. \A k \in DOMAIN paths' : paths'[k] # None => references'[paths'[k]] > 0
    BY DEF LocksMatchCalls, Steady
  <2>4. \A d \in Calls : pc'[d] \in Critical => gate'[lock'[d]] = d
    BY <1>3 DEF LocksMatchCalls, Steady, ObjectsOwned
  <2>5. \A d \in Calls : pc'[d] \in Critical <=> \E o \in Calls : gate'[o] = d
    BY <1>3, <2>4 DEF LocksMatchCalls, Steady, ObjectsOwned, Sharing
  <2> QED BY <2>1, <2>2, <2>3, <2>4, <2>5 DEF LocksMatchCalls
<1> QED BY <1>2, <1>5, <1>6
-----------------------------------------------------------------------------
(* The types.                                                               *)

\* Leaving steps find what they give back: the counts are those of the calls inside.
LEMMA CountsPositive ==
  ASSUME LocksInv, NEW c \in Calls
  PROVE  /\ pc[c] \in Sharing \cup {"resolving"} => used > 0
         /\ pc[c] \in Sharing => references[lock[c]] > 0
<1> USE DEF LocksInv, CommitInv
<1>1. \A S \in SUBSET Calls : c \in S => Cardinality(S) > 0
  <2> SUFFICES ASSUME NEW S \in SUBSET Calls, c \in S PROVE Cardinality(S) > 0 OBVIOUS
  <2>1. IsFiniteSet(S) /\ Cardinality(S) \in Nat
    BY FS_Subset, FS_CardinalityType, CommitAssumption
  <2>2. Cardinality(S) # 0 BY <2>1, FS_EmptySet
  <2> QED BY <2>1, <2>2
<1>2. pc[c] \in Sharing \cup {"resolving"} => c \in Inside BY DEF Inside
<1>3. pc[c] \in Sharing => lock[c] \in Calls /\ c \in Sharers(lock[c])
  BY DEF Sharers, LocksMatchCalls, TypeOK
<1>4. Inside \in SUBSET Calls /\ \A o \in Calls : Sharers(o) \in SUBSET Calls
  BY DEF Inside, Sharers
<1> QED BY <1>1, <1>2, <1>3, <1>4 DEF CapacityMatches, LocksMatchCalls

LEMMA TypeStep == LocksInv /\ [Next]_vars => TypeOK'
<1> SUFFICES ASSUME LocksInv, [Next]_vars PROVE TypeOK' OBVIOUS
<1>0. TypeOK BY DEF LocksInv, CommitInv
<1> USE <1>0, CommitAssumption DEF TypeOK, Sharing, Critical, service, vars, Goto, Answer, Fail
<1>1. ASSUME NEW c \in Calls, Step(c) PROVE TypeOK'
  <2>1. CASE Share(c)
    <3>1. Key(c) \in Paths BY KeyType
    <3> QED BY <2>1, <3>1 DEF Share
  <2>2. CASE ResolveFails(c)
    <3>1. used > 0 BY <2>2, CountsPositive DEF ResolveFails
    <3> QED BY <2>2, <3>1 DEF ResolveFails
  <2>3. CASE TakeGate(c) BY <2>3 DEF TakeGate
  <2>4. CASE GiveUp(c) BY <2>4 DEF GiveUp
  <2>5. CASE CheckTaken(c) BY <2>5 DEF CheckTaken
  <2>6. CASE ReleaseGate(c) BY <2>6 DEF ReleaseGate
  <2>7. CASE Cleanup(c)
    <3>1. used > 0 /\ references[lock[c]] > 0 BY <2>7, CountsPositive DEF Cleanup
    <3>2. Key(c) \in Paths BY KeyType
    <3>3. lock[c] \in Calls BY <2>7 DEF Cleanup, LocksInv, CommitInv, LocksMatchCalls
    <3>4. used' \in 0..Capacity BY <2>7, <3>1 DEF Cleanup
    <3>5. references' \in [Calls -> Nat] BY <2>7, <3>1, <3>3 DEF Cleanup
    <3>6. paths' \in [Paths -> Calls \cup {None}] BY <2>7, <3>2 DEF Cleanup
    <3> QED BY <2>7, <3>4, <3>5, <3>6 DEF Cleanup
  <2>8. CASE Validate(c) BY <2>8 DEF Validate
  <2>9. CASE Built(c) BY <2>9 DEF Built
  <2>10. CASE BuildFails(c) BY <2>10 DEF BuildFails
  <2>11. CASE Publish(c)
    <3>1. content' \in [Files -> Versions \cup {Absent}] BY <2>11 DEF Publish, Versions
    <3>2. raced' \subseteq Calls BY <2>11 DEF Publish, Validating
    <3> QED BY <2>11, <3>1, <3>2 DEF Publish
  <2>12. CASE PublishFails(c) BY <2>12 DEF PublishFails
  <2> QED BY <1>1, <2>1, <2>2, <2>3, <2>4, <2>5, <2>6, <2>7, <2>8, <2>9, <2>10, <2>11, <2>12 DEF Step
<1>2. ASSUME NEW c \in Calls, Cancel(c) PROVE TypeOK' BY <1>2 DEF Cancel
<1>3. ASSUME NEW c \in Calls, NEW p \in Paths, NEW v \in Versions \cup {Absent}, Enter(c, p, v)
      PROVE  TypeOK'
  BY <1>3 DEF Enter
<1>4. ASSUME NEW f \in Files, NEW v \in {Absent, Outside}, External(f, v) PROVE TypeOK'
  <2>1. content' \in [Files -> Versions \cup {Absent}] BY <1>4 DEF External, Versions
  <2>2. raced' \subseteq Calls BY <1>4 DEF External, Validating
  <2> QED BY <1>4, <2>1, <2>2 DEF External
<1>5. CASE UNCHANGED vars BY <1>5
<1> HIDE DEF TypeOK
<1> QED BY <1>1, <1>2, <1>3, <1>4, <1>5 DEF Next
-----------------------------------------------------------------------------
(* The steps that change who is inside or who shares a lock.                *)

\* Entering with a token, or returning at once.
LEMMA EnterStep ==
  ASSUME LocksInv, TypeOK', NEW c \in Calls, NEW p \in Paths, NEW v \in Versions \cup {Absent},
         Enter(c, p, v)
  PROVE  LocksInv'
<1> USE CommitAssumption DEF LocksInv, CommitInv
<1>1. /\ UNCHANGED <<paths, references, gate, lock>> /\ pc[c] = "idle"
      /\ \A d \in Calls : d # c => pc'[d] = pc[d] /\ Key(d)' = Key(d)
      /\ pc'[c] \in {"resolving", "returned"}
      /\ pc'[c] = "resolving" => used' = used + 1
      /\ pc'[c] = "returned" => used' = used
  BY DEF Enter, Goto, TypeOK, Key
<1>2. \A o \in Calls : Sharers(o)' = Sharers(o) BY <1>1 DEF Sharers, Sharing, Critical
<1>3. CapacityMatches'
  <2>1. CASE pc'[c] = "resolving"
    <3>1. Inside' = Inside \cup {c} BY <1>1, <2>1 DEF Inside, Sharing, Critical
    <3>2. c \notin Inside BY <1>1 DEF Inside, Sharing, Critical
    <3>3. Cardinality(Inside \cup {c}) = Cardinality(Inside) + 1
      BY <3>2, SetsFinite, FS_AddElement
    <3> QED BY <1>1, <2>1, <3>1, <3>3 DEF CapacityMatches
  <2>2. CASE pc'[c] = "returned"
    <3>1. Inside' = Inside BY <1>1, <2>2 DEF Inside, Sharing, Critical
    <3> QED BY <1>1, <2>2, <3>1 DEF CapacityMatches
  <2> QED BY <1>1, <2>1, <2>2
<1>4. LocksMatchCalls'
  BY <1>1, <1>2 DEF LocksMatchCalls, Sharing, Critical
<1>5. ObjectsOwned'
  BY <1>1 DEF ObjectsOwned, TypeOK
<1> QED BY <1>3, <1>4, <1>5

LEMMA ResolveFailsStep ==
  ASSUME LocksInv, TypeOK', NEW c \in Calls, ResolveFails(c) PROVE LocksInv'
<1> USE CommitAssumption DEF LocksInv, CommitInv
<1>1. /\ UNCHANGED <<path, paths, references, gate, lock>> /\ pc[c] = "resolving"
      /\ \A d \in Calls : (d # c => pc'[d] = pc[d]) /\ Key(d)' = Key(d)
      /\ pc'[c] = "returned" /\ used' = used - 1
  BY DEF ResolveFails, Goto, TypeOK, Key
<1>2. \A o \in Calls : Sharers(o)' = Sharers(o) BY <1>1 DEF Sharers, Sharing, Critical
<1>3. CapacityMatches'
  <2>1. Inside' = Inside \ {c} /\ c \in Inside BY <1>1 DEF Inside, Sharing, Critical
  <2>2. Cardinality(Inside \ {c}) = Cardinality(Inside) - 1
    BY <2>1, SetsFinite, FS_RemoveElement
  <2> QED BY <1>1, <2>1, <2>2 DEF CapacityMatches
<1>4. LocksMatchCalls'
  BY <1>1, <1>2 DEF LocksMatchCalls, Sharing, Critical
<1>5. ObjectsOwned'
  BY <1>1 DEF ObjectsOwned, TypeOK
<1> QED BY <1>3, <1>4, <1>5

\* The call joins the object of its key, or makes it.
LEMMA ShareStep ==
  ASSUME LocksInv, TypeOK', NEW c \in Calls, Share(c) PROVE LocksInv'
<1> USE CommitAssumption DEF LocksInv, CommitInv
<1>0. Key(c) \in Paths BY KeyType
<1>o. PICK o \in Calls : o = IF paths[Key(c)] = None THEN c ELSE paths[Key(c)]
  BY <1>0 DEF TypeOK
<1>1. /\ UNCHANGED <<path, used, gate>> /\ pc[c] = "resolving" /\ pc'[c] = "waiting"
      /\ \A d \in Calls : (d # c => pc'[d] = pc[d] /\ lock'[d] = lock[d]) /\ Key(d)' = Key(d)
      /\ paths' = [paths EXCEPT ![Key(c)] = o] /\ lock'[c] = o
      /\ references' = [references EXCEPT ![o] = @ + 1]
  BY <1>o DEF Share, Goto, TypeOK, Key
<1>2. Key(c) \in Paths /\ o \in Calls BY <1>0
<1>3. Inside' = Inside BY <1>1 DEF Inside, Sharing, Critical
<1>4. CapacityMatches' BY <1>1, <1>3 DEF CapacityMatches
<1>5. /\ Sharers(o)' = Sharers(o) \cup {c} /\ c \notin Sharers(o)
      /\ \A d \in Calls : d # o => Sharers(d)' = Sharers(d)
  BY <1>1, <1>2 DEF Sharers, Sharing, Critical
<1>6. \A d \in Calls : references'[d] = Cardinality(Sharers(d)')
  <2>1. Cardinality(Sharers(o) \cup {c}) = Cardinality(Sharers(o)) + 1
    BY <1>2, <1>5, SetsFinite, FS_AddElement
  <2>2. references'[o] = Cardinality(Sharers(o)')
    BY <1>1, <1>2, <1>5, <2>1 DEF LocksMatchCalls, TypeOK
  <2>3. \A d \in Calls : d # o => references'[d] = Cardinality(Sharers(d)')
    BY <1>1, <1>2, <1>5 DEF LocksMatchCalls, TypeOK
  <2> QED BY <2>2, <2>3
<1>7. \A d \in Calls : d # c /\ pc[d] \in Sharing /\ Key(d) = Key(c) => lock[d] = o
  BY <1>o DEF LocksMatchCalls
<1>8. \A d \in Calls : pc'[d] \in Sharing => lock'[d] # None /\ paths'[Key(d)'] = lock'[d]
  <2> SUFFICES ASSUME NEW d \in Calls, pc'[d] \in Sharing
               PROVE  lock'[d] # None /\ paths'[Key(d)'] = lock'[d]
    OBVIOUS
  <2>1. Key(d) \in Paths BY KeyType
  <2>2. CASE d = c BY <1>1, <1>2, <2>2 DEF TypeOK
  <2>3. CASE d # c /\ Key(d) = Key(c) BY <1>1, <1>2, <1>7, <2>3 DEF TypeOK, LocksMatchCalls
  <2>4. CASE d # c /\ Key(d) # Key(c) BY <1>1, <1>2, <2>4 DEF TypeOK, LocksMatchCalls
  <2> QED BY <2>2, <2>3, <2>4
<1>9. \A k \in DOMAIN paths' : paths'[k] # None => references'[paths'[k]] > 0
  BY <1>1, <1>2 DEF LocksMatchCalls, TypeOK
<1>10. \A d \in Calls : pc'[d] \in Critical => gate'[lock'[d]] = d
  BY <1>1 DEF LocksMatchCalls, Critical
<1>11. \A d \in Calls : pc'[d] \in Critical <=> \E x \in Calls : gate'[x] = d
  BY <1>1 DEF LocksMatchCalls, Critical
<1>12. LocksMatchCalls' BY <1>6, <1>8, <1>9, <1>10, <1>11 DEF LocksMatchCalls
<1>13. pc'[o] \notin {"idle", "resolving"} /\ Key(o) = Key(c)
  BY <1>o, <1>1, <1>2 DEF ObjectsOwned, TypeOK
<1>14. ObjectsOwned'
  <2>1. \A x, d \in Calls : gate'[x] = d => lock'[d] = x
    BY <1>1 DEF ObjectsOwned, LocksMatchCalls, Critical
  <2> QED BY <1>1, <1>2, <1>13, <2>1 DEF ObjectsOwned, TypeOK
<1> QED BY <1>4, <1>12, <1>14

\* The last call that shares an object takes its key out of the map.
LEMMA CleanupStep ==
  ASSUME LocksInv, TypeOK', NEW c \in Calls, Cleanup(c) PROVE LocksInv'
<1> USE CommitAssumption DEF LocksInv, CommitInv
<1>1. /\ UNCHANGED <<path, gate, lock>> /\ pc[c] = "leaving" /\ pc'[c] = "returned"
      /\ \A d \in Calls : (d # c => pc'[d] = pc[d]) /\ Key(d)' = Key(d)
      /\ references' = [references EXCEPT ![lock[c]] = @ - 1] /\ used' = used - 1
      /\ paths' = IF references[lock[c]] = 1 THEN [paths EXCEPT ![Key(c)] = None] ELSE paths
  BY DEF Cleanup, Goto, TypeOK, Key, Unshared
<1>2. PICK o \in Calls : o = lock[c] BY <1>1 DEF LocksMatchCalls, TypeOK, Sharing
<1>3. Key(c) \in Paths /\ paths[Key(c)] = o /\ references[o] \in Nat
  BY <1>1, <1>2, KeyType DEF LocksMatchCalls, TypeOK, Sharing
<1>4. CapacityMatches'
  <2>1. Inside' = Inside \ {c} /\ c \in Inside BY <1>1 DEF Inside, Sharing, Critical
  <2>2. Cardinality(Inside \ {c}) = Cardinality(Inside) - 1
    BY <2>1, SetsFinite, FS_RemoveElement
  <2> QED BY <1>1, <2>1, <2>2 DEF CapacityMatches
<1>5. /\ Sharers(o)' = Sharers(o) \ {c} /\ c \in Sharers(o)
      /\ \A d \in Calls : d # o => Sharers(d)' = Sharers(d)
  BY <1>1, <1>2 DEF Sharers, Sharing, Critical
<1>6. \A d \in Calls : references'[d] = Cardinality(Sharers(d)')
  <2>1. Cardinality(Sharers(o) \ {c}) = Cardinality(Sharers(o)) - 1
    BY <1>2, <1>5, SetsFinite, FS_RemoveElement
  <2>2. references'[o] = Cardinality(Sharers(o)')
    BY <1>1, <1>2, <1>5, <2>1 DEF LocksMatchCalls, TypeOK
  <2>3. \A d \in Calls : d # o => references'[d] = Cardinality(Sharers(d)')
    BY <1>1, <1>2, <1>5 DEF LocksMatchCalls, TypeOK
  <2> QED BY <2>2, <2>3
<1>7. \A d \in Calls : pc'[d] \in Sharing => d # c /\ pc[d] \in Sharing
  BY <1>1 DEF Sharing, Critical
<1>8. ASSUME NEW d \in Calls, pc'[d] \in Sharing, references[o] = 1 PROVE Key(d) # Key(c)
  <2>1. SUFFICES ASSUME Key(d) = Key(c) PROVE FALSE OBVIOUS
  <2>2. d # c /\ d \in Sharers(o)
    BY <1>3, <1>7, <1>8, <2>1 DEF Sharers, LocksMatchCalls
  <2>3. Cardinality(Sharers(o)) = 1 BY <1>8 DEF LocksMatchCalls
  <2>4. PICK x : Sharers(o) = {x} BY <2>3, SetsFinite, FS_Singleton
  <2> QED BY <1>5, <2>2, <2>4
<1>9. \A d \in Calls : pc'[d] \in Sharing => lock'[d] # None /\ paths'[Key(d)'] = lock'[d]
  <2> SUFFICES ASSUME NEW d \in Calls, pc'[d] \in Sharing
               PROVE  lock'[d] # None /\ paths'[Key(d)'] = lock'[d]
    OBVIOUS
  <2>1. pc[d] \in Sharing /\ lock'[d] = lock[d] /\ Key(d)' = Key(d) BY <1>1, <1>7
  <2>2. lock[d] # None /\ paths[Key(d)] = lock[d] BY <2>1 DEF LocksMatchCalls
  <2>3. CASE references[o] = 1 BY <1>1, <1>2, <1>3, <1>8, <2>1, <2>2, <2>3 DEF TypeOK
  <2>4. CASE references[o] # 1 BY <1>1, <1>2, <2>1, <2>2, <2>4
  <2> QED BY <2>3, <2>4
<1>10. \A k \in DOMAIN paths' : paths'[k] # None => references'[paths'[k]] > 0
  <2> SUFFICES ASSUME NEW k \in Paths, paths'[k] # None
               PROVE  references'[paths'[k]] > 0
    BY DEF TypeOK
  <2>1. paths'[k] = paths[k] /\ paths[k] \in Calls /\ references[paths[k]] > 0
    BY <1>1, <1>3 DEF LocksMatchCalls, TypeOK
  <2>2. CASE paths[k] = o
    <3>1. k = Key(c) BY <1>3, <2>2 DEF ObjectsOwned
    <3>2. references[o] # 1 BY <1>1, <1>2, <1>3, <3>1 DEF TypeOK
    <3> QED BY <1>1, <1>2, <1>3, <2>1, <2>2, <3>2 DEF TypeOK
  <2>3. CASE paths[k] # o BY <1>1, <1>2, <2>1, <2>3 DEF TypeOK
  <2> QED BY <2>2, <2>3
<1>11. \A d \in Calls : pc'[d] \in Critical => gate'[lock'[d]] = d
  BY <1>1 DEF LocksMatchCalls, Critical
<1>12. \A d \in Calls : pc'[d] \in Critical <=> \E x \in Calls : gate'[x] = d
  BY <1>1 DEF LocksMatchCalls, Critical
<1>13. LocksMatchCalls' BY <1>6, <1>9, <1>10, <1>11, <1>12 DEF LocksMatchCalls
<1>14. ObjectsOwned'
  <2>1. \A k \in Paths : paths'[k] # None => paths'[k] = paths[k]
    BY <1>1, <1>3 DEF TypeOK
  <2>2. \A k \in Paths : paths'[k] # None => paths[k] \in Calls
    BY <2>1 DEF TypeOK
  <2>3. \A x, d \in Calls : gate'[x] = d => lock'[d] = x BY <1>1 DEF ObjectsOwned
  <2>4. \A k \in Paths : paths'[k] # None =>
          pc'[paths'[k]] \notin {"idle", "resolving"} /\ Key(paths[k])' = k
    BY <1>1, <2>1, <2>2 DEF ObjectsOwned
  <2> QED BY <2>3, <2>4, <1>1, <2>1, <2>2 DEF ObjectsOwned
<1> QED BY <1>4, <1>13, <1>14
-----------------------------------------------------------------------------
(* The invariant of `acquire`, and exclusion.                               *)

\* Steps that touch neither the service nor the phase of a call.
LEMMA UntouchedStep ==
  ASSUME LocksInv, TypeOK', UNCHANGED <<pc, path, service>> PROVE LocksInv'
<1> USE DEF LocksInv, CommitInv, service
<1>1. Inside' = Inside /\ \A o \in Calls : Sharers(o)' = Sharers(o) BY DEF Inside, Sharers
<1>2. \A d \in Calls : Key(d)' = Key(d) BY DEF Key
<1>3. LocksMatchCalls' BY <1>1, <1>2 DEF LocksMatchCalls
<1>4. CapacityMatches' BY <1>1 DEF CapacityMatches
<1>5. \A k \in Paths : paths'[k] # None =>
        pc'[paths'[k]] \notin {"idle", "resolving"} /\ Key(paths[k])' = k
  BY <1>2 DEF ObjectsOwned, TypeOK
<1>6. ObjectsOwned' BY <1>2, <1>5 DEF ObjectsOwned
<1> QED BY <1>3, <1>4, <1>6

LEMMA LocksStep == LocksInv /\ [Next]_vars => LocksInv'
<1> SUFFICES ASSUME LocksInv, [Next]_vars PROVE LocksInv' OBVIOUS
<1>0. TypeOK' BY TypeStep
<1>1. ASSUME NEW c \in Calls, Step(c) PROVE LocksInv'
  <2> USE <1>0 DEF Steady, Sharing, Critical, service, Goto, Fail
  <2>1. CASE Share(c) BY <2>1, ShareStep
  <2>2. CASE ResolveFails(c) BY <2>2, ResolveFailsStep
  <2>3. CASE TakeGate(c) BY <2>3, SteadyStep DEF TakeGate
  <2>4. CASE GiveUp(c) BY <2>4, SteadyStep DEF GiveUp
  <2>5. CASE CheckTaken(c) BY <2>5, SteadyStep DEF CheckTaken
  <2>6. CASE ReleaseGate(c) BY <2>6, SteadyStep DEF ReleaseGate
  <2>7. CASE Cleanup(c) BY <2>7, CleanupStep
  <2>8. CASE Validate(c) BY <2>8, SteadyStep DEF Validate
  <2>9. CASE Built(c) BY <2>9, SteadyStep DEF Built
  <2>10. CASE BuildFails(c) BY <2>10, SteadyStep DEF BuildFails
  <2>11. CASE Publish(c) BY <2>11, SteadyStep DEF Publish
  <2>12. CASE PublishFails(c) BY <2>12, SteadyStep DEF PublishFails
  <2> QED BY <1>1, <2>1, <2>2, <2>3, <2>4, <2>5, <2>6, <2>7, <2>8, <2>9, <2>10, <2>11, <2>12 DEF Step
<1>2. ASSUME NEW c \in Calls, Cancel(c) PROVE LocksInv' BY <1>0, <1>2, UntouchedStep DEF Cancel
<1>3. ASSUME NEW c \in Calls, NEW p \in Paths, NEW v \in Versions \cup {Absent}, Enter(c, p, v)
      PROVE  LocksInv'
  BY <1>0, <1>3, EnterStep
<1>4. ASSUME NEW f \in Files, NEW v \in {Absent, Outside}, External(f, v) PROVE LocksInv'
  BY <1>0, <1>4, UntouchedStep DEF External
<1>5. CASE UNCHANGED vars BY <1>0, <1>5, UntouchedStep DEF vars
<1> QED BY <1>1, <1>2, <1>3, <1>4, <1>5 DEF Next

\* The map of lock objects neither leaks nor forgets one in use, and the capacity counts
\* the calls inside (acquire and its cleanup).
THEOREM CommitInvariance == Spec => []CommitInv
<1>1. LocksInv => CommitInv BY DEF LocksInv
<1> QED BY <1>1, InitLocks, LocksStep, PTL DEF Spec

LEMMA Excluded == LocksInv => CommitsExclude
<1> SUFFICES ASSUME LocksInv, NEW c \in Calls, NEW d \in Calls,
                    pc[c] \in Critical, pc[d] \in Critical, Identified(c, d)
             PROVE  c = d
  BY DEF CommitsExclude
<1>1. lock[c] = lock[d] BY DEF LocksInv, CommitInv, LocksMatchCalls, Identified, Key, Sharing
<1> QED BY <1>1 DEF LocksInv, CommitInv, LocksMatchCalls

\* One call at a time between validation and publication, by all the names of one identity.
THEOREM Exclusion == Spec => []CommitsExclude
  BY InitLocks, LocksStep, Excluded, PTL DEF Spec
-----------------------------------------------------------------------------
(* Versions.                                                                *)

\* What a call has validated is still there unless someone its lock does not keep out wrote
\* the file, and a call's content appears when it is published.
Validated ==
  /\ \A c \in Calls : pc[c] \in {"building", "committing"} =>
       content[File(c)] = expected[c] \/ c \in raced
  /\ \A c \in Calls, f \in Files : content[f] = c => pc[c] \in {"unlocking", "leaving", "returned"}
  /\ \A c \in Calls : pc[c] \in {"idle", "resolving", "waiting", "taken", "locked", "building", "committing"} =>
       answer[c] = "none"

LEMMA ValidatedStep == LocksInv /\ Validated /\ [Next]_vars => Validated'
<1> SUFFICES ASSUME LocksInv, Validated, [Next]_vars PROVE Validated' OBVIOUS
<1>0. TypeOK /\ CommitsExclude BY Excluded DEF LocksInv, CommitInv
<1>1. ASSUME NEW c \in Calls, Step(c) PROVE Validated'
  <2> USE <1>0 DEF Validated, TypeOK, Sharing, Critical, service, Goto, Answer, Fail, File
  <2>1. CASE Share(c) BY <2>1 DEF Share
  <2>2. CASE ResolveFails(c) BY <2>2 DEF ResolveFails
  <2>3. CASE TakeGate(c) BY <2>3 DEF TakeGate
  <2>4. CASE GiveUp(c) BY <2>4 DEF GiveUp
  <2>5. CASE CheckTaken(c) BY <2>5 DEF CheckTaken
  <2>6. CASE ReleaseGate(c) BY <2>6 DEF ReleaseGate
  <2>7. CASE Cleanup(c) BY <2>7 DEF Cleanup
  <2>8. CASE Validate(c) BY <2>8 DEF Validate, Matches
  <2>9. CASE Built(c) BY <2>9 DEF Built
  <2>10. CASE BuildFails(c) BY <2>10 DEF BuildFails
  <2>11. CASE Publish(c)
    <3>1. File(c) \in Files BY DEF Files
    <3>2. \A d \in Calls : pc'[d] \in {"building", "committing"} =>
            content'[File(d)] = expected[d] \/ d \in raced'
      <4> SUFFICES ASSUME NEW d \in Calls, pc'[d] \in {"building", "committing"}
                   PROVE  content'[File(d)] = expected[d] \/ d \in raced'
        OBVIOUS
      <4>1. d # c /\ pc[d] = pc'[d] BY <2>11 DEF Publish
      <4>2. ~Identified(c, d) BY <2>11, <4>1 DEF Publish, CommitsExclude
      <4>3. raced' = raced \cup {x \in Validating(File(c)) : ~Identified(c, x)}
        BY <2>11 DEF Publish
      <4>4. CASE File(d) = File(c)
        <5>1. d \in Validating(File(c)) BY <4>1, <4>4 DEF Validating
        <5> QED BY <4>2, <4>3, <5>1
      <4>5. CASE File(d) # File(c)
        <5>1. content'[File(d)] = content[File(d)] BY <2>11, <3>1, <4>5 DEF Publish
        <5> QED BY <4>1, <4>3, <5>1
      <4> QED BY <4>4, <4>5
    <3>3. \A d \in Calls, f \in Files : content'[f] = d => pc'[d] \in {"unlocking", "leaving", "returned"}
      BY <2>11, <3>1 DEF Publish
    <3> QED BY <2>11, <3>2, <3>3 DEF Publish
  <2>12. CASE PublishFails(c) BY <2>12 DEF PublishFails
  <2> QED BY <1>1, <2>1, <2>2, <2>3, <2>4, <2>5, <2>6, <2>7, <2>8, <2>9, <2>10, <2>11, <2>12 DEF Step
<1>2. ASSUME NEW c \in Calls, Cancel(c) PROVE Validated'
  BY <1>2 DEF Cancel, Validated, service, File
<1>3. ASSUME NEW c \in Calls, NEW p \in Paths, NEW v \in Versions \cup {Absent}, Enter(c, p, v)
      PROVE  Validated'
  BY <1>0, <1>3 DEF Enter, Validated, TypeOK, Sharing, Critical, Goto, Answer, File
<1>4. ASSUME NEW f \in Files, NEW v \in {Absent, Outside}, External(f, v) PROVE Validated'
  <2>1. /\ UNCHANGED <<pc, path, expected, answer>> /\ v \notin Calls
        /\ content' = [content EXCEPT ![f] = v]
        /\ raced' = raced \cup {c \in Calls : pc[c] \in {"building", "committing"} /\ File(c) = f}
    BY <1>4, CommitAssumption DEF External, Validating
  <2>2. \A c \in Calls : pc'[c] \in {"building", "committing"} =>
          content'[File(c)] = expected[c] \/ c \in raced'
    BY <1>0, <2>1 DEF Validated, TypeOK
  <2>3. \A c \in Calls, g \in Files : content'[g] = c => pc'[c] \in {"unlocking", "leaving", "returned"}
    BY <1>0, <2>1 DEF Validated, TypeOK
  <2> QED BY <2>1, <2>2, <2>3 DEF Validated, File
<1>5. CASE UNCHANGED vars BY <1>5 DEF vars, Validated, File
<1> QED BY <1>1, <1>2, <1>3, <1>4, <1>5 DEF Next

LEMMA ValidatedInit == Init => Validated
  BY CommitAssumption DEF Init, Validated

\* Content changes in two ways: a call publishes, or a program outside writes.
LEMMA ContentStep ==
  ASSUME [Next]_vars
  PROVE  \/ UNCHANGED content
         \/ \E c \in Calls : Publish(c)
         \/ \E f \in Files, v \in {Absent, Outside} : External(f, v)
<1>1. ASSUME NEW c \in Calls, Step(c) PROVE UNCHANGED content \/ Publish(c)
  BY <1>1 DEF Step, Share, ResolveFails, TakeGate, GiveUp, CheckTaken, ReleaseGate, Cleanup,
              Validate, Built, BuildFails, PublishFails
<1>2. ASSUME NEW c \in Calls, Cancel(c) PROVE UNCHANGED content BY <1>2 DEF Cancel
<1>3. ASSUME NEW c \in Calls, NEW p \in Paths, NEW v \in Versions \cup {Absent}, Enter(c, p, v)
      PROVE  UNCHANGED content
  BY <1>3 DEF Enter
<1>4. CASE UNCHANGED vars BY <1>4 DEF vars
<1> QED BY <1>1, <1>2, <1>3, <1>4 DEF Next

LEMMA VersionedStep ==
  ASSUME LocksInv, Validated, [Next]_vars, NEW c \in Calls, pc[c] = "committing",
         content'[File(c)] = c, content[File(c)] # c
  PROVE  content[File(c)] = expected[c] \/ (expected[c] # Absent /\ c \in raced)
<1>0. TypeOK /\ File(c) \in Files BY KeyType DEF LocksInv, CommitInv
<1>1. ASSUME NEW d \in Calls, Publish(d) PROVE d = c /\ Publishable(c)
  <2>1. content' = [content EXCEPT ![File(d)] = d] /\ Publishable(d) BY <1>1 DEF Publish
  <2>2. content'[File(c)] \in {d, content[File(c)]} BY <1>0, <2>1 DEF TypeOK
  <2> QED BY <2>1, <2>2
<1>2. ASSUME NEW f \in Files, NEW v \in {Absent, Outside}, External(f, v) PROVE FALSE
  <2>1. content' = [content EXCEPT ![f] = v] /\ v # c BY <1>2, CommitAssumption DEF External
  <2>2. content'[File(c)] \in {v, content[File(c)]} BY <1>0, <2>1 DEF TypeOK
  <2> QED BY <2>1, <2>2
<1>3. Publishable(c) BY <1>1, <1>2, ContentStep
<1>4. content[File(c)] = expected[c] \/ c \in raced BY DEF Validated
<1>5. expected[c] = Absent => content[File(c)] = expected[c] BY <1>3 DEF Publishable
<1> QED BY <1>4, <1>5

\* No lost update among calls whose names have one identity, whatever programs outside and
\* calls by other names of the file do: a call replaces the version it validated unless one
\* of those wrote in between, and a creation replaces nothing at all (README.md:182,
\* createFile).
THEOREM VersionedCommits == Spec => CommitsAreVersioned
<1>1. Init => LocksInv /\ Validated BY InitLocks, ValidatedInit
<1>2. LocksInv /\ Validated /\ [Next]_vars => LocksInv' /\ Validated'
  BY LocksStep, ValidatedStep
<1>3. LocksInv /\ Validated /\ [Next]_vars =>
        [\A c \in Calls : pc[c] = "committing" /\ content'[File(c)] = c /\ content[File(c)] # c =>
           \/ content[File(c)] = expected[c]
           \/ expected[c] # Absent /\ c \in raced]_vars
  BY VersionedStep
<1> QED BY <1>1, <1>2, <1>3, PTL DEF Spec, CommitsAreVersioned

LEMMA AnswerStep ==
  ASSUME LocksInv, Validated, [Next]_vars, NEW c \in Calls,
         answer[c] = "none", answer'[c] # "none"
  PROVE  answer'[c] = "ok" <=> content' = [content EXCEPT ![File(c)] = c] /\ content' # content
<1>0. TypeOK /\ File(c) \in Files BY KeyType DEF LocksInv, CommitInv
<1>1. ASSUME NEW d \in Calls, Publish(d)
      PROVE  d = c /\ answer'[c] = "ok" /\ content' = [content EXCEPT ![File(c)] = c]
             /\ content' # content
  <2>1. answer' = [answer EXCEPT ![d] = "ok"] /\ content' = [content EXCEPT ![File(d)] = d]
        /\ pc[d] = "committing"
    BY <1>1 DEF Publish, Answer
  <2>2. d = c BY <1>0, <2>1 DEF TypeOK
  <2>3. content[File(c)] # c BY <1>0, <2>1, <2>2 DEF Validated
  <2>4. content'[File(c)] = c BY <1>0, <2>1, <2>2 DEF TypeOK
  <2> QED BY <1>0, <2>1, <2>2, <2>3, <2>4 DEF TypeOK
<1>2. ASSUME ~ \E d \in Calls : Publish(d) PROVE answer'[c] = "error" /\ UNCHANGED content
  <2> USE <1>0, <1>2 DEF TypeOK, Goto, Answer, Fail, service
  <2>1. ASSUME NEW d \in Calls, Step(d) PROVE answer'[c] = "error" /\ UNCHANGED content
    BY <2>1 DEF Step, Share, ResolveFails, TakeGate, GiveUp, CheckTaken, ReleaseGate, Cleanup,
                Validate, Built, BuildFails, PublishFails
  <2>2. ASSUME NEW d \in Calls, Cancel(d) PROVE FALSE BY <2>2 DEF Cancel
  <2>3. ASSUME NEW d \in Calls, NEW p \in Paths, NEW v \in Versions \cup {Absent}, Enter(d, p, v)
        PROVE  answer'[c] = "error" /\ UNCHANGED content
    BY <2>3 DEF Enter
  <2>4. ASSUME NEW f \in Files, NEW v \in {Absent, Outside}, External(f, v) PROVE FALSE
    BY <2>4 DEF External
  <2>5. CASE UNCHANGED vars BY <2>5 DEF vars
  <2> HIDE DEF TypeOK
  <2> QED BY <2>1, <2>2, <2>3, <2>4, <2>5 DEF Next
<1> QED BY <1>1, <1>2

\* "ok" means published and an error means that nothing was, canceled or not.
THEOREM TrueAnswers == Spec => AnswersAreTrue
<1>1. Init => LocksInv /\ Validated BY InitLocks, ValidatedInit
<1>2. LocksInv /\ Validated /\ [Next]_vars => LocksInv' /\ Validated'
  BY LocksStep, ValidatedStep
<1>3. LocksInv /\ Validated /\ [Next]_vars =>
        [\A c \in Calls :
           answer[c] = "none" /\ answer'[c] # "none" =>
             (answer'[c] = "ok" <=> content' = [content EXCEPT ![File(c)] = c] /\ content' # content)]_vars
  BY AnswerStep
<1> QED BY <1>1, <1>2, <1>3, PTL DEF Spec, AnswersAreTrue
=============================================================================
