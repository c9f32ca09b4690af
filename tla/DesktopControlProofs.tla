------------------------- MODULE DesktopControlProofs -------------------------
(* Theorems about DesktopControl for any number of clients and any bounds. *)
EXTENDS DesktopControl, TLAPS

USE DesktopAssumption DEF DesktopAssumption

\* The coordinator as newCoordinator returns it satisfies the inductive invariant.
LEMMA InitInv == Init => DesktopInv
<1> SUFFICES ASSUME Init PROVE DesktopInv OBVIOUS
<1> USE DEF Init, NoCall, Running, Acquiring
<1>1. TypeOK
  <2>1. 0 \in 0..MaxControls /\ 0 \in 0..MaxScreen OBVIOUS
  <2>2. NoCall \in Calls BY <2>1 DEF Calls
  <2>3. call \in [Clients -> Calls] BY <2>2
  <2> QED BY <2>1, <2>3 DEF TypeOK, Statuses
<1>2. GateHolder BY DEF GateHolder
<1>3. CancelInstalled /\ Freshness BY DEF CancelInstalled, Freshness
<1>4. WorkSettlesBeforeReuse /\ RevokedWorkIsCancelled /\ ObservationsBelongToOwner
  BY DEF WorkSettlesBeforeReuse, RevokedWorkIsCancelled, ObservationsBelongToOwner
<1> QED BY <1>1, <1>2, <1>3, <1>4 DEF DesktopInv

\* Every operation of the coordinator keeps the types.
LEMMA TypeStep == TypeOK /\ [Next]_vars => TypeOK'
<1> SUFFICES ASSUME TypeOK, [Next]_vars PROVE TypeOK' OBVIOUS
<1> USE DEF TypeOK, Statuses, NoCall, Running, Acquiring, Calls, vars, control, queue,
            stop, Return, Goto, CancelOperation, Revoke
<1>1. CASE Lapse BY <1>1 DEF Lapse
<1>2. CASE Expire BY <1>2 DEF Expire
<1>3. CASE Release BY <1>3 DEF Release
<1>4. CASE LocalStop BY <1>4 DEF LocalStop
<1>5. CASE StopStart BY <1>5 DEF StopStart
<1>6. CASE StopReset BY <1>6 DEF StopReset
<1>7. CASE StopGiveUp BY <1>7 DEF StopGiveUp
<1>8. CASE StopGate BY <1>8 DEF StopGate
<1>9. CASE StopFree BY <1>9 DEF StopFree
<1>10. CASE CloseBegin BY <1>10 DEF CloseBegin
<1>11. CASE CloseDone BY <1>11 DEF CloseDone
<1>12. ASSUME NEW c \in Clients, Serve(c) PROVE TypeOK'
  <2>1. CASE Acquire(c)
    <3>1. nextId + 1 \in 0..MaxControls BY <2>1 DEF Acquire
    <3>2. [kind |-> "acquire", control |-> nextId + 1, seen |-> 0] \in Calls
      BY <3>1
    <3>3. call' \in [Clients -> Calls] BY <2>1, <3>2 DEF Acquire
    <3>4. lapsed' \in BOOLEAN BY <2>1 DEF Acquire
    <3> QED BY <2>1, <3>1, <3>3, <3>4 DEF Acquire
  <2>2. CASE AcquireShown(c)
    <3>1. live' \subseteq 0..MaxControls BY <2>2 DEF AcquireShown
    <3>2. call' \in [Clients -> Calls] BY <2>2 DEF AcquireShown
    <3> QED BY <2>2, <3>1, <3>2 DEF AcquireShown
  <2>3. CASE AcquireFailed(c) BY <2>3 DEF AcquireFailed
  <2>4. CASE AcquireUndone(c) BY <2>4 DEF AcquireUndone
  <2>5. CASE Enqueue(c) BY <2>5 DEF Enqueue, Requests
  <2>6. CASE LeaveQueue(c) BY <2>6 DEF LeaveQueue
  <2>7. CASE Begin(c) BY <2>7 DEF Begin, FirstStep
  <2>8. CASE BeginRefused(c) BY <2>8 DEF BeginRefused
  <2>9. CASE Cancel(c) BY <2>9 DEF Cancel
  <2>10. CASE End(c)
    <3>1. lapsed' \in BOOLEAN BY <2>10 DEF End
    <3>2. call' \in [Clients -> Calls] BY <2>10 DEF End
    <3>3. /\ opCancel' = Nobody /\ gate' = Nobody /\ cancelled' = cancelled \ {c}
          /\ pc' = [pc EXCEPT ![c] = "idle"]
          /\ UNCHANGED <<status, id, live, waiting, stop, closed, states, closer, nextId,
                         screen>>
      BY <2>10 DEF End
    <3> QED BY <3>1, <3>2, <3>3
  <2>11. CASE NativeError(c) BY <2>11 DEF NativeError
  <2>12. CASE StateCapture(c) BY <2>12 DEF StateCapture
  <2>13. CASE StateRecord(c) BY <2>13 DEF StateRecord
  <2>14. CASE ActCheck(c) BY <2>14 DEF ActCheck
  <2>15. CASE ActDispatch(c) BY <2>15 DEF ActDispatch
  <2>16. CASE Complete(c) BY <2>16 DEF Complete
  <2>17. CASE BorrowInvalidate(c) BY <2>17 DEF BorrowInvalidate
  <2>18. CASE BorrowClear(c) BY <2>18 DEF BorrowClear
  <2>19. CASE BrowserChange(c) BY <2>19 DEF BrowserChange
  <2> QED BY <1>12, <2>1, <2>2, <2>3, <2>4, <2>5, <2>6, <2>7, <2>8, <2>9, <2>10, <2>11,
             <2>12, <2>13, <2>14, <2>15, <2>16, <2>17, <2>18, <2>19 DEF Serve
<1>13. CASE UNCHANGED vars BY <1>13
<1> QED BY <1>1, <1>2, <1>3, <1>4, <1>5, <1>6, <1>7, <1>8, <1>9, <1>10, <1>11, <1>12,
           <1>13 DEF Next

\* The variables keep their types for any number of clients and ids (coordinator.go).
THEOREM TypeCorrect == Spec => []TypeOK
<1>1. Init => TypeOK BY InitInv DEF DesktopInv
<1> QED BY <1>1, TypeStep, PTL DEF Spec

\* Every operation of the coordinator keeps the inductive invariant: an operation that
\* touches the gate, the installed cancel function or the observations has one leaf of its own.
LEMMA InvStep == DesktopInv /\ [Next]_vars => DesktopInv'
<1> SUFFICES ASSUME DesktopInv, [Next]_vars PROVE DesktopInv' OBVIOUS
<1> USE DEF Running, Acquiring, vars, control, queue, stop, Return, Goto,
            CancelOperation, Revoke
<1>0. TypeOK /\ TypeOK' BY TypeStep DEF DesktopInv
<1> USE DEF TypeOK, DesktopInv, GateHolder, CancelInstalled, Freshness,
            WorkSettlesBeforeReuse, RevokedWorkIsCancelled, ObservationsBelongToOwner
<1>1. CASE Lapse BY <1>0, <1>1 DEF Lapse
<1>2. CASE Expire BY <1>0, <1>2 DEF Expire, ExpiryDue
<1>3. CASE Release BY <1>0, <1>3 DEF Release
<1>4. CASE LocalStop BY <1>0, <1>4 DEF LocalStop
<1>5. CASE StopStart BY <1>0, <1>5 DEF StopStart
<1>6. CASE StopReset BY <1>0, <1>6 DEF StopReset
<1>7. CASE StopGiveUp BY <1>0, <1>7 DEF StopGiveUp
<1>8. CASE StopGate BY <1>0, <1>8 DEF StopGate
<1>9. CASE StopFree BY <1>0, <1>9 DEF StopFree
<1>10. CASE CloseBegin BY <1>0, <1>10 DEF CloseBegin
<1>11. CASE CloseDone BY <1>0, <1>11 DEF CloseDone
<1>12. ASSUME NEW c \in Clients, Serve(c) PROVE DesktopInv'
  <2>1. CASE Acquire(c) BY <1>0, <2>1 DEF Acquire
  <2>2. CASE AcquireShown(c) BY <1>0, <2>2 DEF AcquireShown
  <2>3. CASE AcquireFailed(c) BY <1>0, <2>3 DEF AcquireFailed
  <2>4. CASE AcquireUndone(c) BY <1>0, <2>4 DEF AcquireUndone
  <2>5. CASE Enqueue(c) BY <1>0, <2>5 DEF Enqueue, Requests, Entitled
  <2>6. CASE LeaveQueue(c) BY <1>0, <2>6 DEF LeaveQueue
  <2>7. CASE Begin(c)
    <3>1. pc' = [pc EXCEPT ![c] = FirstStep(call[c].kind)]
          /\ FirstStep(call[c].kind) \in {"observing", "checking", "invalidating"}
      BY <2>7 DEF Begin, FirstStep
    <3>2. /\ gate = Nobody /\ gate' = c /\ opCancel' = c /\ pc[c] = "queued"
          /\ UNCHANGED <<status, id, closed, closer, states, call, cancelled, stopper, screen>>
      BY <2>7 DEF Begin
    <3>3. GateHolder' /\ CancelInstalled' BY <1>0, <3>1, <3>2
    <3>4. Freshness' BY <1>0, <3>1, <3>2
    <3>5. WorkSettlesBeforeReuse' /\ RevokedWorkIsCancelled'
      BY <1>0, <2>7, <3>1, <3>2 DEF Begin, Entitled
    <3> QED BY <1>0, <3>2, <3>3, <3>4, <3>5
  <2>8. CASE BeginRefused(c) BY <1>0, <2>8 DEF BeginRefused, Entitled
  <2>9. CASE Cancel(c) BY <1>0, <2>9 DEF Cancel
  <2>10. CASE End(c)
    <3>1. /\ pc[c] = "ending" /\ pc' = [pc EXCEPT ![c] = "idle"]
          /\ call' = [call EXCEPT ![c] = NoCall] /\ cancelled' = cancelled \ {c}
          /\ gate' = Nobody /\ opCancel' = Nobody
          /\ UNCHANGED <<status, id, closed, closer, states, stopper, screen>>
      BY <2>10 DEF End
    <3>2. gate = c /\ \A d \in Clients \ {c} : pc[d] \in {"idle", "queued"}
      BY <1>0, <3>1
    <3>3. GateHolder' /\ CancelInstalled' /\ Freshness' BY <1>0, <3>1, <3>2
    <3>4. WorkSettlesBeforeReuse' /\ RevokedWorkIsCancelled' BY <1>0, <3>1, <3>2
    <3> QED BY <1>0, <3>1, <3>3, <3>4
  <2>11. CASE NativeError(c) BY <1>0, <2>11 DEF NativeError
  <2>12. CASE StateCapture(c) BY <1>0, <2>12 DEF StateCapture
  <2>13. CASE StateRecord(c) BY <1>0, <2>13 DEF StateRecord
  <2>14. CASE ActCheck(c) BY <1>0, <2>14 DEF ActCheck, Observation
  <2>15. CASE ActDispatch(c) BY <1>0, <2>15 DEF ActDispatch
  <2>16. CASE Complete(c) BY <1>0, <2>16 DEF Complete
  <2>17. CASE BorrowInvalidate(c) BY <1>0, <2>17 DEF BorrowInvalidate
  <2>18. CASE BorrowClear(c) BY <1>0, <2>18 DEF BorrowClear
  <2>19. CASE BrowserChange(c) BY <1>0, <2>19 DEF BrowserChange
  <2> QED BY <1>12, <2>1, <2>2, <2>3, <2>4, <2>5, <2>6, <2>7, <2>8, <2>9, <2>10, <2>11, <2>12, <2>13, <2>14, <2>15, <2>16, <2>17, <2>18, <2>19 DEF Serve
<1>13. CASE UNCHANGED vars BY <1>0, <1>13
<1> QED BY <1>1, <1>2, <1>3, <1>4, <1>5, <1>6, <1>7, <1>8, <1>9, <1>10, <1>11, <1>12, <1>13 DEF Next

\* The strengthening behind the safety theorems: who holds the gate token, whose cancel
\* function is installed, which observations are fresh (coordinator.go, every method).
THEOREM Invariance == Spec => []DesktopInv
  BY InitInv, InvStep, PTL DEF Spec

\* The gate token is held by exactly the goroutine that acquires, operates or frees.
THEOREM GateExclusion == Spec => []GateIsExclusive
<1>1. DesktopInv => GateIsExclusive
  BY DEF DesktopInv, TypeOK, GateHolder, GateIsExclusive, Users, Settlers
<1> QED BY <1>1, Invariance, PTL

\* No control is granted while an operation of an earlier one is still running.
THEOREM WorkSettles == Spec => []WorkSettlesBeforeReuse
<1>1. DesktopInv => WorkSettlesBeforeReuse BY DEF DesktopInv
<1> QED BY <1>1, Invariance, PTL

\* Whoever ends a control cancels the operation that runs under it.
THEOREM RevocationCancels == Spec => []RevokedWorkIsCancelled
<1>1. DesktopInv => RevokedWorkIsCancelled BY DEF DesktopInv
<1> QED BY <1>1, Invariance, PTL

\* The observations an action may refer to are those of the current control.
THEOREM ObservationsScoped == Spec => []ObservationsBelongToOwner
<1>1. DesktopInv => ObservationsBelongToOwner BY DEF DesktopInv
<1> QED BY <1>1, Invariance, PTL

\* An action reaches the backend only on an observation nothing has outdated.
THEOREM FreshActions == Spec => ActsOnFreshObservation
<1>1. DesktopInv => [\A c \in Clients :
        pc[c] = "dispatching" /\ pc'[c] = "acting" /\ call[c].kind = "act"
          => call[c].seen = screen]_vars
  BY DEF DesktopInv, Freshness
<1> QED BY <1>1, Invariance, PTL DEF ActsOnFreshObservation

\* Every operation maps to a step of the lease or to a stutter.
LEMMA LeaseStep == DesktopInv /\ DesktopInv' /\ [Next]_vars => [Lease!LeaseNext]_(Lease!leaseVars)
<1> SUFFICES ASSUME DesktopInv, DesktopInv', [Next]_vars
             PROVE  [Lease!LeaseNext]_(Lease!leaseVars) OBVIOUS
<1> USE DEF Running, Acquiring, vars, control, queue, stop, Return, Goto, CancelOperation,
            Revoke, Using, Lease!LeaseNext, Lease!leaseVars, TypeOK, DesktopInv, GateHolder
<1>1. CASE Lapse BY <1>1 DEF Lapse
<1>2. CASE Expire BY <1>2 DEF Expire, ExpiryDue, Lease!EndLease
<1>3. CASE Release BY <1>3 DEF Release, Lease!EndLease
<1>4. CASE LocalStop BY <1>4 DEF LocalStop, Lease!EndLease
<1>5. CASE StopStart BY <1>5 DEF StopStart
<1>6. CASE StopReset BY <1>6 DEF StopReset
<1>7. CASE StopGiveUp BY <1>7 DEF StopGiveUp
<1>8. CASE StopGate BY <1>8 DEF StopGate
<1>9. CASE StopFree BY <1>9 DEF StopFree, Lease!EndLease
<1>10. CASE CloseBegin BY <1>10 DEF CloseBegin, Lease!Shut
<1>11. CASE CloseDone BY <1>11 DEF CloseDone
<1>12. ASSUME NEW c \in Clients, Serve(c) PROVE [Lease!LeaseNext]_(Lease!leaseVars)
  <2>1. CASE Acquire(c) BY <2>1 DEF Acquire, Lease!Grant
  <2>2. CASE AcquireShown(c) BY <2>2 DEF AcquireShown
  <2>3. CASE AcquireFailed(c) BY <2>3 DEF AcquireFailed
  <2>4. CASE AcquireUndone(c) BY <2>4 DEF AcquireUndone, Lease!EndLease
  <2>5. CASE Enqueue(c) BY <2>5 DEF Enqueue
  <2>6. CASE LeaveQueue(c) BY <2>6 DEF LeaveQueue
  <2>7. CASE Begin(c) BY <2>7 DEF Begin, FirstStep, Entitled, Lease!Use
  <2>8. CASE BeginRefused(c) BY <2>8 DEF BeginRefused
  <2>9. CASE Cancel(c) BY <2>9 DEF Cancel
  <2>10. CASE End(c) BY <2>10 DEF End, Lease!Leave
  <2>11. CASE NativeError(c) BY <2>11 DEF NativeError
  <2>12. CASE StateCapture(c) BY <2>12 DEF StateCapture
  <2>13. CASE StateRecord(c) BY <2>13 DEF StateRecord
  <2>14. CASE ActCheck(c) BY <2>14 DEF ActCheck
  <2>15. CASE ActDispatch(c) BY <2>15 DEF ActDispatch
  <2>16. CASE Complete(c) BY <2>16 DEF Complete
  <2>17. CASE BorrowInvalidate(c) BY <2>17 DEF BorrowInvalidate
  <2>18. CASE BorrowClear(c) BY <2>18 DEF BorrowClear
  <2>19. CASE BrowserChange(c) BY <2>19 DEF BrowserChange
  <2> QED BY <1>12, <2>1, <2>2, <2>3, <2>4, <2>5, <2>6, <2>7, <2>8, <2>9, <2>10, <2>11, <2>12, <2>13, <2>14, <2>15, <2>16, <2>17, <2>18, <2>19 DEF Serve
<1>13. CASE UNCHANGED vars BY <1>13
<1> QED BY <1>1, <1>2, <1>3, <1>4, <1>5, <1>6, <1>7, <1>8, <1>9, <1>10, <1>11, <1>12, <1>13 DEF Next

\* Every behaviour of the coordinator, seen through its gate and its current id, is
\* a behaviour of the exclusive lease.
THEOREM LeaseRefinement == Spec => ImplementsLease
<1>1. Init => Lease!LeaseInit
  BY DEF Init, Lease!LeaseInit, Using
<1>2. DesktopInv /\ DesktopInv' /\ [Next]_vars => [Lease!LeaseNext]_(Lease!leaseVars)
  BY LeaseStep
<1> QED BY <1>1, <1>2, Invariance, PTL DEF Spec, ImplementsLease, Lease!LeaseSpec
===============================================================================
